--------------------------- MODULE MCCheckVectors ---------------------------
(***************************************************************************)
(* One vector of the repository, from src/main.c and the VEX part of       *)
(* src/test/vectors_ext.c, per kind of encoding: per mode, verdict,        *)
(* prefixes, opcode map, number of bytes behind it and kinds of operands.  *)
(* An accepted vector is <<code, length of mnemonic, size of vector        *)
(* memory, length of text>>, and as long as its code.                      *)
(***************************************************************************)
EXTENDS CheckVectors, MCFormatter

\* 64-bit mode
Long == {
  <<<<x(9,0)>>, 3, 128, 3>>, <<<<x(5,5)>>, 4, 128, 8>>, <<<<x(4,8), x(8,9), x(E,5)>>, 3, 128, 12>>,
  <<<<x(4,8), x(8,3), x(E,C), x(2,8)>>, 3, 128, 13>>, <<<<x(B,8), x(3,4), x(1,2), 0, 0>>, 3, 128, 15>>,
  <<<<x(4,8), x(B,8), x(7,8), x(5,6), x(3,4), x(1,2), 0, 0, 0, 0>>, 3, 128, 19>>,
  <<<<x(E,8), 0, 0, 0, 0>>, 4, 128, 8>>, <<<<x(E,B), x(F,E)>>, 3, 128, 22>>,
  <<<<x(0,F), x(8,4), x(1,0), 0, 0, 0>>, 2, 128, 7>>, <<<<x(3,1), x(C,0)>>, 3, 128, 12>>,
  <<<<x(8,D), x(4,4), x(2,4), x(1,0)>>, 3, 32, 32>>, <<<<x(0,F), x(1,F), x(4,4), 0, 0>>, 3, 32, 35>>,
  <<<<x(F,3), x(9,0)>>, 5, 128, 5>>, <<<<x(0,F), x(A,2)>>, 5, 128, 5>>, <<<<x(6,6), x(9,0)>>, 3, 128, 3>>,
  <<<<x(4,0), x(9,0)>>, 3, 128, 3>>, <<<<x(4,1), x(B,8), x(3,4), x(1,2), 0, 0>>, 3, 128, 15>>,
  <<<<x(F,F), x(D,0)>>, 4, 128, 8>>, <<<<x(F,F), x(F,0)>>, 4, 128, 8>>, <<<<x(8,B), x(4,5), x(0,8)>>, 3, 32, 31>>,
  <<<<x(4,8), x(8,B), x(0,5), 0, 0, 0, 0>>, 3, 32, 28>>, <<<<x(0,4), x(0,5)>>, 3, 128, 11>>,
  <<<<x(0,F), x(A,F), x(C,1)>>, 4, 128, 13>>, <<<<x(0,F), x(C,8)>>, 5, 128, 9>>,
  <<<<x(4,8), x(0,F), x(C,B)>>, 5, 128, 9>>, <<<<0, 0>>, 3, 16, 25>>, <<<<x(F,6), x(C,0), x(0,1)>>, 4, 128, 12>>,
  <<<<x(F,7), x(C,7), x(F,F), x(F,F), 0, 0>>, 4, 128, 16>>, <<<<x(C,7), x(4,5), x(F,C), 0, 0, 0, 0>>, 3, 32, 31>>,
  <<<<x(E,C)>>, 2, 128, 9>>, <<<<x(9,C)>>, 6, 128, 6>>, <<<<x(9,D)>>, 5, 128, 5>>, <<<<x(6,3), x(C,0)>>, 6, 128, 15>>,
  <<<<x(0,F), x(B,A), x(E,8), x(0,5)>>, 3, 128, 12>>, <<<<x(6,9), x(C,0), x(0,5), 0, 0, 0>>, 4, 128, 18>>,
  <<<<x(6,B), x(C,0), x(0,5)>>, 4, 128, 18>>, <<<<x(0,F), x(A,4), x(C,1), x(0,4)>>, 4, 128, 18>>,
  <<<<x(0,F), x(A,5), x(C,1)>>, 4, 128, 17>>, <<<<x(0,F), x(0,1), x(F,8)>>, 6, 128, 6>>,
  <<<<x(0,F), x(A,E), x(3,8)>>, 7, 128, 16>>, <<<<x(0,F), x(C,7), x(F,6)>>, 6, 128, 10>>,
  <<<<x(F,3), x(0,F), x(C,7), x(F,8)>>, 5, 128, 9>>, <<<<x(F,3), x(0,F), x(B,C), x(C,1)>>, 5, 128, 14>>,
  <<<<x(C,8), x(1,0), 0, x(0,3)>>, 5, 128, 15>>, <<<<x(C,A), x(0,4), 0>>, 3, 128, 7>>,
  <<<<x(6,7), x(E,3), 0>>, 5, 128, 9>>, <<<<x(0,F), x(1,F), 0>>, 3, 32, 27>>,
  <<<<x(4,8), x(0,F), x(7,8), x(C,1)>>, 6, 128, 15>>, <<<<x(0,F), x(B,2), x(0,8)>>, 3, 32, 27>>,
  <<<<x(8,D), x(0,4), x(2,5), 0, x(1,0), 0, 0>>, 3, 32, 30>>,
  <<<<x(4,8), x(8,B), x(4,C), x(2,4), x(0,8)>>, 3, 32, 31>>, <<<<x(2,E), x(8,B), 0>>, 3, 32, 27>>,
  <<<<x(F,0), x(F,F), 0>>, 3, 32, 27>>, <<<<x(8,F), x(C,0)>>, 3, 128, 7>>,
  <<<<x(A,0), 0, x(1,0), 0, 0, 0, 0, 0, 0>>, 3, 16, 28>>, <<<<x(D,8), 0>>, 4, 32, 23>>,
  <<<<x(6,6), x(0,F), x(6,F), x(C,0)>>, 6, 128, 17>>, <<<<x(C,5), x(F,8), x(7,7)>>, 10, 128, 10>>,
  <<<<x(0,F), x(3,8), 0, 0>>, 6, 32, 30>>, <<<<x(F,3), x(0,F), x(1,E), x(F,A)>>, 7, 128, 7>>,
  <<<<x(6,6), x(5,0)>>, 4, 128, 7>>}

\* 32-bit mode
With32Bits == {
  <<<<x(0,6)>>, 4, 128, 7>>, <<<<x(6,0)>>, 6, 128, 6>>, <<<<x(6,6), x(6,0)>>, 5, 128, 5>>,
  <<<<x(D,4), x(0,A)>>, 3, 128, 7>>, <<<<x(6,2), x(0,3)>>, 5, 32, 29>>, <<<<x(6,3), x(C,0)>>, 4, 128, 11>>,
  <<<<x(6,7), x(8,B), 0>>, 3, 32, 29>>, <<<<x(6,6), x(B,8), x(3,4), x(1,2)>>, 3, 128, 14>>,
  <<<<x(A,0), 0, x(1,0), 0, 0>>, 3, 16, 28>>, <<<<x(A,3), 0, x(1,0), 0, 0>>, 3, 32, 30>>}

WithVex == {
  <<<<x(C,5), x(F,8), x(7,7)>>, 10, 128, 10>>, <<<<x(C,4), x(E,1), x(7,C), x(C,0)>>, 8, 128, 8>>,
  <<<<x(C,4), x(E,1), x(7,8), x(5,8), x(C,0)>>, 6, 128, 23>>, <<<<x(C,4), x(E,1), x(7,8), x(1,0), 0>>, 7, 128, 22>>,
  <<<<x(C,4), x(E,2), x(7,0), x(F,2), x(C,2)>>, 4, 128, 18>>,
  <<<<x(C,4), x(E,2), x(7,8), x(F,3), x(D,9)>>, 4, 128, 13>>,
  <<<<x(C,4), x(E,1), x(7,9), x(7,1), x(D,0), x(0,2)>>, 6, 128, 16>>,
  <<<<x(C,4), x(E,1), x(7,8), x(C,6), x(C,0), 0>>, 7, 128, 29>>,
  <<<<x(C,4), x(E,2), x(7,8), x(F,3), x(C,9)>>, 4, 128, 13>>,
  <<<<x(C,4), x(E,3), x(7,B), x(F,0), x(C,1), x(0,1)>>, 4, 128, 18>>,
  <<<<x(C,4), x(E,2), x(7,9), x(0,C), x(C,0), 0>>, 9, 128, 25>>,
  <<<<x(C,4), x(E,2), x(7,9), x(1,8), 0>>, 12, 32, 37>>,
  <<<<x(C,4), x(E,3), x(7,D), x(1,8), x(C,0), 0>>, 11, 128, 33>>}

Is_INVALID == {
  <<<<x(0,6)>>, FALSE>>, <<<<x(8,F), x(C,8)>>, TRUE>>, <<<<x(C,4), x(C,0)>>, TRUE>>, <<<<x(0,F), x(A,E), x(C,8)>>, FALSE>>,
  <<<<x(8,C), x(F,6)>>, FALSE>>, <<<<x(0,F), x(B,8), x(C,0)>>, FALSE>>}

Is_NEED_MORE == {
  <<<<x(4,0)>>, FALSE>>, <<<<x(4,8)>>, FALSE>>, <<<<x(0,F)>>, FALSE>>, <<<<x(F,F)>>, FALSE>>, <<<<x(F,6), x(C,0)>>, FALSE>>,
  <<<<x(E,8), 0, 0>>, FALSE>>, <<<<x(0,F), x(0,F), 0>>, FALSE>>}

Is_UNSUPPORTED == {
  <<<<x(6,2), x(F,1), x(7,C), x(4,8), 0>>, FALSE>>, <<<<x(8,F), x(C,8)>>, FALSE>>,
  <<<<x(6,6), x(0,F), x(A,E), x(F,8)>>, FALSE>>}

Passing(tuples, legacy) ==
  {[code |-> t[1], legacy |-> legacy, status |-> "OK", insnLen |-> Len(t[1]), mnemonicLen |-> t[2],
    bits |-> t[3], textLen |-> t[4]] : t \in tuples}
Failing(pairs, verdict_) ==
  {[code |-> p[1], legacy |-> p[2], status |-> verdict_, insnLen |-> 0, mnemonicLen |-> 0,
    bits |-> 128, textLen |-> 0] : p \in pairs}
MCVectors == Passing(Long \cup WithVex, FALSE) \cup Passing(With32Bits, TRUE)
               \cup Failing(Is_INVALID, "INVALID") \cup Failing(Is_NEED_MORE, "NEED_MORE")
               \cup Failing(Is_UNSUPPORTED, "UNSUPPORTED")
Codes == {v.code : v \in MCVectors}
RunnerDecoders == {DecoderFor(FALSE), DecoderFor(TRUE)}

\* Other callers format the buffers of MCFormatter in every size.
FormatBuffers  == Codes \cup TextBuffers
FormatDecoders == RunnerDecoders \cup AllModes
FormatterInit ==
  /\ CheckInit
  /\ vector = NoVector => buf \in TextBuffers /\ decoder \in AllModes
FormatterSpec == FormatterInit /\ [][CheckNext]_checkVars /\ WF_checkVars(CheckNext)
=============================================================================
