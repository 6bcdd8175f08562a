------------------------------- MODULE Emitter -------------------------------
(***************************************************************************)
(* How x86dec_format_insn (src/format/formatter.c) writes into a buffer of *)
(* `size` bytes: piece by piece, each checked against `end`, the place of  *)
(* the terminator.  A text goes in as a whole or not at all; a hexadecimal *)
(* number asks for three bytes and then for each digit.  A piece that does *)
(* not fit ends the call with false, whatever stands in the buffer by then.*)
(***************************************************************************)
EXTENDS Integers, Sequences

CONSTANTS Sizes,   \* the buffer sizes a caller may pass
          Lines    \* the sequences of pieces an instruction may be made of

\* A piece of text; a number is at least 0x and a digit.
Kind   == {"flag", "mnemonic", "separator", "text", "size", "segment", "open", "close", "register", "scale", "sign",
           "hex"}
Piece  == {p \in [kind : Kind, len : Nat \ {0}] : p.kind = "hex" => p.len >= 3}
ASSUME SizesAssumption == Sizes \subseteq Nat
ASSUME LinesAssumption == Lines \subseteq Seq(Piece)

VARIABLES
  size,     \* the caller's buffer
  rest,     \* the pieces still to write
  cursor,   \* how many characters are written and accounted for
  written,  \* the places of the buffer that were written
  nul,      \* where the terminator is, -1 before it is written
  ret       \* what the call returns
emitVars == <<size, rest, cursor, written, nul, ret>>

EmitInit ==
  /\ size \in Sizes /\ rest \in Lines
  /\ cursor = 0 /\ written = {} /\ nul = -1 /\ ret = "NONE"

\* buffer + size - 1.  Mutants: buffer + size; buffer + sizeof(buffer) - 1.
LimitSize    == size
LimitPointer == 8 - 1
Limit == size - 1
Room  == Limit - cursor
Running == ret = "NONE"
Places(n) == cursor..cursor + n - 1

RejectSize ==
  /\ Running /\ size = 0
  /\ ret' = "FALSE"
  /\ UNCHANGED <<size, rest, cursor, written, nul>>

\* emit_text, emit_char, and emit_hex when there is room.  Mutant: without a
\* look at the length.
FitsAnything(piece) == Room > 0
Fits(piece) == piece.len <= Room
\* Mutant: does not get on.
EmitPieceStuck ==
  /\ Running /\ size > 0 /\ rest # <<>> /\ Fits(Head(rest))
  /\ written' = written \cup Places(Head(rest).len)
  /\ UNCHANGED <<size, rest, cursor, nul, ret>>
EmitPiece ==
  /\ Running /\ size > 0 /\ rest # <<>> /\ Fits(Head(rest))
  /\ written' = written \cup Places(Head(rest).len)
  /\ cursor' = cursor + Head(rest).len
  /\ rest' = Tail(rest)
  /\ UNCHANGED <<size, nul, ret>>

\* A piece that does not fit leaves nothing, a number what there was room
\* for, unless there was not even room for 0x and a digit.
Cut(piece) == IF piece.kind = "hex" /\ Room >= 3 THEN Places(Room) ELSE {}
EmitFails ==
  /\ Running /\ size > 0 /\ rest # <<>> /\ ~Fits(Head(rest))
  /\ written' = written \cup Cut(Head(rest))
  /\ ret' = "FALSE"
  /\ UNCHANGED <<size, rest, cursor, nul>>

\* Mutant: the terminator goes to the end of the buffer.
TerminateAtLimit ==
  /\ Running /\ size > 0 /\ rest = <<>>
  /\ written' = written \cup {Limit}
  /\ nul' = Limit /\ ret' = "TRUE"
  /\ UNCHANGED <<size, rest, cursor>>
Terminate ==
  /\ Running /\ size > 0 /\ rest = <<>>
  /\ written' = written \cup {cursor}
  /\ nul' = cursor /\ ret' = "TRUE"
  /\ UNCHANGED <<size, rest, cursor>>

EmitNext == RejectSize \/ EmitPiece \/ EmitFails \/ Terminate
EmitSpec == EmitInit /\ [][EmitNext]_emitVars /\ WF_emitVars(EmitNext)

---------------------------------------------------------------------------
EmitTypeOK ==
  /\ size \in Nat /\ rest \in Seq(Piece) /\ cursor \in Nat
  /\ written \subseteq Nat /\ nul \in Nat \cup {-1} /\ ret \in {"NONE", "TRUE", "FALSE"}

\* Nothing is ever written outside the buffer, and its last byte only by the
\* terminator: each emitter measures against `end`, one byte short of the
\* size, and the terminator is written without a check.
InsideBuffer ==
  /\ written \subseteq 0..size - 1
  /\ nul = -1 => size - 1 \notin written

\* A call that returns true leaves exactly a string: every character up to
\* the terminator written, nothing behind it.
TrueIsString == ret = "TRUE" => nul = cursor /\ written = 0..cursor

\* The pieces stand one behind the other: what is accounted for is written
\* without a gap, and nothing else is while the call is running.
NoGaps == Running => written = 0..cursor - 1
=============================================================================
