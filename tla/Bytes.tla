------------------------------- MODULE Bytes -------------------------------
(***************************************************************************)
(* Bytes, and the way the opcode maps of the decoder name them.  An opcode *)
(* is written as the cell of the 16 x 16 opcode map it stands in: x(C, 4)  *)
(* is the byte the source writes 0xC4.                                     *)
(***************************************************************************)
EXTENDS Integers, Sequences

Byte == 0..255

\* The hexadecimal digits above 9.
A == 10
B == 11
C == 12
D == 13
E == 14
F == 15

x(hi, lo)      == 16 * hi + lo
Cells(hi, los) == {x(hi, lo) : lo \in los}
Line(hi)       == Cells(hi, 0..15)

\* The fields of a ModRM byte; a SIB byte has the same layout, its base
\* register stands where a ModRM byte has rm.
ModOf(modrm) == modrm \div 64
RegOf(modrm) == (modrm \div 8) % 8
RmOf(modrm)  == modrm % 8

\* Bit n of a byte, n given by its weight 2^n.
BitSet(b, weight) == (b \div weight) % 2 = 1
=============================================================================
