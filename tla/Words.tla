-------------------------------- MODULE Words --------------------------------
(***************************************************************************)
(* 64-bit values of displacements and immediates, as eight bytes with the  *)
(* lowest first: the order they have in an instruction.                    *)
(***************************************************************************)
EXTENDS Bytes

Word == [1..8 -> Byte]
ZeroWord == [i \in 1..8 |-> 0]

\* The last n bytes a field of an instruction has, as the C code widens them:
\* a cast through an unsigned or through a signed type of that size.
Negative(bytes) == bytes # <<>> /\ bytes[Len(bytes)] >= 128
Filled(bytes, fill) == [i \in 1..8 |-> IF i <= Len(bytes) THEN bytes[i] ELSE fill]
ZeroExtended(bytes) == Filled(bytes, 0)
SignExtended(bytes) == Filled(bytes, IF Negative(bytes) THEN 255 ELSE 0)

\* Two's complement: invert the bytes and add one, which carries through the
\* zero bytes at the low end.
Negated(w) ==
  [i \in 1..8 |-> IF \A j \in 1..i - 1 : w[j] = 0 THEN (256 - w[i]) % 256 ELSE 255 - w[i]]
=============================================================================
