---------------------------- MODULE MCStreaming ----------------------------
(***************************************************************************)
(* Streams for TLC: instructions of every front-end, long and short, legal *)
(* and not, each followed by enough bytes to decide and a few to spare.    *)
(***************************************************************************)
EXTENDS Streaming, MCDecoder

Pad(s) == s \o Zeros(22 - Len(s))
Fronts == {<<>>, <<x(6,6), x(F,0)>>, <<x(6,7), x(4,9)>>, [i \in 1..8 |-> x(6,7)]}
Bodies ==
  Tails \cup {<<x(C,4), x(E,2), x(7,8), x(F,3), x(C,8)>>, <<x(C,4), x(E,1), x(7,9), x(7,2), x(C,8), 1>>,
              <<x(0,F), x(C,7), x(0,8)>>, <<x(8,F), x(C,8)>>, <<x(0,F), x(3,8), x(F,1), x(C,0)>>,
              <<x(C,4), x(E,1), x(7,C), x(C,1)>>, <<x(C,5), x(F,9), x(7,1), x(D,0)>>, <<x(D,9), x(D,1)>>,
              <<x(4,0), x(8,B), x(0,4), x(2,5)>>, <<x(0,F), x(0,1), x(C,0)>>, <<x(E,8)>>, <<x(F,6), x(0,0)>>}
MCStreams == {Pad(f \o b) : f \in Fronts, b \in Bodies}
Empty     == {<<>>}
=============================================================================
