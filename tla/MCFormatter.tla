---------------------------- MODULE MCFormatter ----------------------------
(***************************************************************************)
(* Instances of the formatter for TLC: instructions with short and with    *)
(* long texts, in buffers of every size up to theirs.                      *)
(***************************************************************************)
EXTENDS Formatter, MCDecoder

Full10  == {[full |-> TRUE, hasArray |-> TRUE, capacity |-> 10]}
MCSizes == 0..48 \cup {CheckOneText}
MCMnemonicLengths == {2, 16}

Minus == <<x(8,1), x(F,F), x(F,F), x(F,F)>>
TextBuffers ==
  {<<x(9,0)>>, <<x(F,3), x(9,0)>>, <<x(4,8), x(8,9), x(E,5)>>, <<x(B,8), x(3,4), x(1,2), 0, 0>>,
   <<x(8,B), x(4,4), x(8,B), x(1,0)>>, <<x(4,8), x(8,B), x(0,5)>> \o Minus, <<x(F,0), x(F,F), 0>>,
   <<x(E,B), x(F,E)>>, <<x(6,B), x(C,0), x(0,5)>>, <<x(C,4), x(E,3), x(7,1), x(0,F), x(0,8), x(0,5)>>,
   <<x(8,D), x(0,4), x(2,5)>> \o Minus, <<x(8,B), x(0,4), x(2,5), 0, 0, 0, 0>>, <<x(8,B), x(0,4), x(C,D)>> \o Minus,
   <<x(4,8), x(B,8), 1, 2, 3, 4, 5, 6, 7, x(F,8)>>, <<x(C,8), x(8,1), 2, 3>>, <<x(A,1), 1, 2, 3, 4, 5, 6, 7, 8>>,
   <<x(D,9), x(C,1)>>, <<x(0,F), x(A,E), x(3,8)>>, <<x(D,B), x(6,D), x(F,0)>>, <<x(4,C), x(0,F), x(2,0), x(C,0)>>,
   \* the longest: three flags, a segment, r-registers, displacement and immediate
   <<x(F,0), x(F,3), x(F,2), x(6,4), x(4,7), x(8,1), x(8,4), x(D,A)>> \o Minus \o <<x(8,1), 1>>,
   <<x(F,0), x(F,3), x(F,2), x(6,4), x(4,F), x(C,7), x(8,4), x(D,A)>> \o Minus,
   <<x(F,3), x(F,2), x(6,4), x(4,7), x(6,9), x(8,4), x(D,A)>> \o Minus \o Minus,
   <<x(6,5), x(C,4), x(8,3), x(0,5), x(4,6), x(8,4), x(D,A)>> \o Minus \o <<x(8,1)>>,
   \* refused: nothing to format
   <<x(0,6)>>, <<x(8,B)>>}
=============================================================================
