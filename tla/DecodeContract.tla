--------------------------- MODULE DecodeContract ---------------------------
(***************************************************************************)
(* What x86dec_decode_insn promises a caller, without saying how it is     *)
(* done: a call scans the fields of an instruction in their order, never   *)
(* past the end of the buffer, and returns one verdict.  The caller relies *)
(* on the length that comes with it: an accepted instruction is 1 to 15    *)
(* bytes long and lies inside the buffer, a refused one has consumed at    *)
(* least a byte, and NEED_MORE means that every byte given was used up.    *)
(***************************************************************************)
EXTENDS Integers, Sequences

Byte == 0..255
MaxInsnLength == 15
\* The order of an instruction's fields, as stages of the scan.
Idle     == 0    \* before the call
Prefixes == 1
Rex      == 2
Opcode   == 3    \* opcode bytes, or a VEX prefix and its opcode
Modrm    == 4    \* ModRM, SIB, displacement
Lookup   == 5    \* the tail byte of 3DNow!, and the choice of an entry
Operands == 6    \* memory offset and immediates
Returned == 7
Stage == Idle..Returned

VARIABLES buf, stage, taken, verdict, length
vars == <<buf, stage, taken, verdict, length>>

Clipped(n) == IF n > MaxInsnLength THEN MaxInsnLength ELSE n

\* 255 stands for whatever the caller's structure held.
Init ==
  /\ buf \in Seq(Byte)
  /\ stage = Idle /\ taken = 0 /\ verdict = "NONE" /\ length = 255

Scan ==
  /\ stage < Returned /\ buf # <<>>
  /\ stage' \in stage..Operands
  /\ taken' \in taken..Len(buf)
  /\ length' = 0
  /\ UNCHANGED <<buf, verdict>>

\* Without bytes the call refuses its arguments and writes nothing.
Reject ==
  /\ stage = Idle /\ buf = <<>>
  /\ stage' = Returned /\ verdict' = "BAD_ARG"
  /\ UNCHANGED <<buf, taken, length>>

Accept ==
  /\ stage = Operands /\ taken \in 1..MaxInsnLength
  /\ stage' = Returned /\ verdict' = "OK"
  /\ length' = taken
  /\ UNCHANGED <<buf, taken>>

Refuse ==
  /\ stage \in Opcode..Operands
  /\ stage' = Returned /\ verdict' \in {"INVALID", "UNSUPPORTED"}
  /\ taken' \in taken..Len(buf) /\ taken' >= 1
  /\ length' = Clipped(taken')
  /\ UNCHANGED buf

\* Out of bytes: the length stays 0, except behind a VEX prefix.
Starve ==
  /\ stage \in Opcode..Operands
  /\ stage' = Returned /\ verdict' = "NEED_MORE"
  /\ taken' = Len(buf)
  /\ length' \in {0, Clipped(Len(buf))}
  /\ UNCHANGED buf

Next == Scan \/ Reject \/ Accept \/ Refuse \/ Starve
Spec == Init /\ [][Next]_vars
=============================================================================
