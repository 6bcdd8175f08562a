----------------------------- MODULE MCOperands -----------------------------
(***************************************************************************)
(* Instances of decode_full for TLC: buffers that reach every shape with   *)
(* the prefixes that select registers, sizes and segments, and every way   *)
(* of calling.                                                             *)
(***************************************************************************)
EXTENDS OperandProperties, MCDecoder

Full4    == {[full |-> TRUE, hasArray |-> TRUE, capacity |-> 4]}
AllCalls == {c \in [full : BOOLEAN, hasArray : BOOLEAN, capacity : {0, 1, 2, 3, 4, 10}] :
               c.hasArray \/ c.capacity \in {0, 4}}

\* Bytes of both signs, all different, for displacements and immediates.
Trail == <<x(8,1), x(0,2), x(0,3), x(F,4), x(0,5), x(8,6), x(0,7), x(F,8), x(0,9), x(8,A), x(0,B), x(F,C)>>

\* ModRM bytes with a SIB byte where one follows: registers, no base, RIP, SP and BP
\* as bases, index 4, the 16-bit pairs.
ModrmSibs ==
  {<<m>> : m \in {x(C,1), x(E,C), x(F,F), x(0,5), x(0,6), x(4,5), x(8,1), x(2,2), x(3,B)}}
    \cup {<<m, s>> : m \in {x(0,4), x(4,C), x(9,4)}, s \in {x(2,4), x(0,5), x(E,C), x(8,D), x(2,5)}}

\* Opcodes with a ModRM byte, one or more for each shape, and without.
ModrmOps ==
  {<<op>> : op \in {0, 3, x(6,2), x(6,3), x(6,9), x(6,B), x(8,0), x(8,1), x(8,3), x(8,C), x(8,D), x(8,E), x(C,1),
                    x(C,4), x(C,6), x(C,7), x(D,1), x(D,2), x(D,8), x(D,9), x(D,B), x(D,D), x(D,F), x(F,6), x(F,7), x(F,F)}}
    \cup {<<x(0,F), op>> : op \in {0, 1, x(0,2), x(0,F), x(1,0), x(1,2), x(2,0), x(2,3), x(2,A), x(2,D), x(5,0), x(5,8),
                    x(6,E), x(6,F), x(7,1), x(7,E), x(A,4), x(A,5), x(A,E), x(A,F), x(B,2), x(B,6), x(B,7), x(B,A),
                    x(C,0), x(C,4), x(C,5), x(C,7), x(D,6), x(E,7)}}
    \cup {<<x(0,F), x(3,8), op>> : op \in {x(1,0), x(1,C), x(2,A), x(F,0), x(F,1), x(F,6)}}
    \cup {<<x(0,F), x(3,A), op>> : op \in {x(0,F), x(1,4), x(2,1), x(2,2)}}
VexHeads ==
  {<<x(C,4), b2, b3, op>> : b2 \in {x(E,1), x(4,2), x(0,3), x(E,3), x(C,2)}, b3 \in {x(7,8), x(6,9), x(F,A), x(7,D), x(A,B)},
                            op \in {x(0,6), x(1,0), x(1,8), x(1,9), x(2,A), x(2,C), x(5,8), x(7,1), x(6,E), x(F,0), x(F,2), x(F,3), x(F,7)}}
    \cup {<<x(C,5), b2, op>> : b2 \in {x(F,8), x(6,9), x(F,D)}, op \in {x(1,0), x(2,A), x(5,0), x(5,8), x(7,3), x(D,7)}}
PlainOps ==
  {<<op>> : op \in Cells(0, 4..7) \cup Cells(4, {0, F}) \cup Cells(5, {0, 4, C}) \cup {x(6,8), x(6,A), x(7,0)}
                   \cup Cells(9, {1, 6, A}) \cup Cells(A, 0..3 \cup 8..9) \cup Cells(B, {0, 4, 7, 8, F})
                   \cup Cells(C, {2, 8, A}) \cup Cells(E, {0, 4, 5, 8, 9, A, C, F})}
    \cup {<<x(0,F), x(0,1), m>> : m \in {x(D,8), x(D,E), x(D,F)}}
    \cup {<<x(0,F), op>> : op \in {x(8,4), x(A,0), x(A,9), x(C,8), x(C,F)}}

Front64 == {<<>>, <<x(6,6)>>, <<x(6,7)>>, <<x(6,4)>>, <<x(2,E)>>, <<x(F,3)>>, <<x(4,0)>>, <<x(4,8)>>, <<x(4,2)>>,
            <<x(4,F)>>, <<x(6,6), x(4,5)>>, <<x(6,6), x(4,8)>>, <<x(6,5), x(6,7), x(4,A)>>}
FrontLegacy == {<<>>, <<x(6,6)>>, <<x(6,7)>>, <<x(2,6)>>, <<x(6,6), x(6,7)>>, <<x(F,2)>>}
\* Every opcode with registers, with a base and a displacement, and with a SIB
\* byte; every form of address with an opcode of each size and behaviour.
FewModrmSibs == {<<x(C,1)>>, <<x(E,C)>>, <<x(4,5)>>, <<x(0,4), x(E,C)>>, <<x(9,4), x(2,4)>>}
FewOps   == {<<x(8,8)>>, <<x(8,B)>>, <<x(8,D)>>, <<x(C,7)>>, <<x(D,9)>>, <<x(0,F), x(0,F)>>, <<x(0,F), x(A,4)>>}
FewHeads == {h \in VexHeads : h[Len(h)] \in {x(1,0), x(7,1), x(F,7)}}
Heads    == UNION {{o \o m : o \in ModrmOps, m \in FewModrmSibs}, {o \o m : o \in FewOps, m \in ModrmSibs}, PlainOps}
Front(fronts, heads) == {f \o h \o Trail : f \in fronts, h \in heads}
Plain64  == Front(Front64, Heads)
Vexes    == Front(VexHeads, FewModrmSibs)
FewVexes == Front(FewHeads, ModrmSibs)
Buffers64 == Plain64 \cup (Vexes \cup FewVexes)
BuffersLegacy == Front(FrontLegacy, Heads)

\* Which family is decoded in which mode: the choice narrows FullInit alone.
OperandBuffers  == Buffers64 \cup BuffersLegacy
OperandDecoders == Long64 \cup Legacy
OperandInit ==
  /\ FullInit
  /\ \/ decoder \in Long64 /\ buf \in Buffers64
     \/ decoder \in Legacy /\ buf \in BuffersLegacy
OperandSpec == OperandInit /\ [][FullNext]_fullVars

\* Instructions of nought to four operands, accepted, refused and cut off.
CallBuffers ==
  LET whole == {<<x(9,0)>>, <<x(C,8), x(0,1), 0, 2>>, <<x(0,F), x(A,4), x(4,4), x(2,4), 8, 3>>, <<x(5,0)>>,
                <<x(C,4), x(E,3), x(7,1), x(0,F), x(C,1), 5>>, <<x(6,B), x(C,0), 5>>, <<x(0,6), 1>>, <<x(6,2), 0>>,
                <<x(F,0), x(C,5), x(F,8), x(5,8), x(C,1)>>, <<x(A,1)>> \o Trail, <<x(0,F), x(7,8), x(C,1), 1, 2>>,
                [n \in 1..11 |-> IF n % 2 = 1 THEN x(6,6) ELSE x(F,2)]}
  IN  UNION {{SubSeq(s, 1, n) : n \in 0..Len(s)} : s \in whole}
=============================================================================
