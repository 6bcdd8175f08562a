------------------------------ MODULE MCSweep ------------------------------
(***************************************************************************)
(* Instances of the sweep for TLC: the corpus of the benches, whole and    *)
(* cut at every byte, and corpora with what it does not have.              *)
(***************************************************************************)
EXTENDS Sweep, MCDecoder

Full4 == {[full |-> TRUE, hasArray |-> TRUE, capacity |-> 4]}

\* The corpus of the benches: nine instructions.
BenchCorpus ==
  <<x(4,8), x(8,9), x(E,5), x(4,8), x(8,3), x(E,C), x(2,8), x(8,B), x(4,5), x(0,8),
    x(0,F), x(A,F), x(C,1), x(E,8), 0, 0, 0, 0, x(C,3), x(9,0),
    x(0,F), x(1,F), x(4,4), 0, 0, x(4,8), x(8,B), x(4,C), x(2,4), x(0,8)>>

\* Prefixes that must not outlive their instruction, REX before and after none.
Prefixed == <<x(B,8), 1, 0, 0, 0, x(6,6), x(9,0), x(F,3), x(9,0), x(4,8), x(B,8), 1, 0, 0, 0, 0, 0, 0, 0>>
\* Four operands, no operands, a 3DNow! instruction, a moffs.
Wide     == <<x(C,4), x(E,3), x(7,1), x(0,F), x(C,1), x(0,5), x(C,3), x(0,F), x(0,F), x(C,1), x(B,F),
              x(A,1), 1, 0, 0, 0, 0, 0, 0, 0>>
\* Refused in the middle: not in 64-bit mode, EVEX, nine prefixes.
Refusing == {<<x(9,0), x(0,6), x(9,0)>>, <<x(9,0), x(6,2), x(F,1), x(9,0)>>,
             <<x(9,0)>> \o [n \in 1..9 |-> x(6,6)] \o <<x(9,0)>>}
Corpora  == {SubSeq(BenchCorpus, 1, n) : n \in 1..Len(BenchCorpus)} \cup {Prefixed, Wide} \cup Refusing
=============================================================================
