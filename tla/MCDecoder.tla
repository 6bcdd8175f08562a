----------------------------- MODULE MCDecoder -----------------------------
(***************************************************************************)
(* Instances of the decoder for TLC: families of buffers, each built to    *)
(* reach one part of the encoding space.                                   *)
(***************************************************************************)
EXTENDS DecoderProperties

Zeros(n) == [i \in 1..n |-> 0]

Long64   == {[mode |-> "LONG_64", width |-> 64]}
Legacy   == {[mode |-> "LEGACY_32", width |-> 32], [mode |-> "REAL_16", width |-> 16]}
AllModes == {[mode |-> "LONG_64", width |-> 64], [mode |-> "COMPAT_32", width |-> 32],
             [mode |-> "LEGACY_16", width |-> 16]}

\* Opcodes: every opcode of every map behind the prefixes that pick columns,
\* with a ModRM byte that has a SIB and one that names registers.
PrefixSets == {<<>>, <<x(6,6)>>, <<x(F,3)>>, <<x(F,2)>>, <<x(4,8)>>, <<x(6,6), x(4,9)>>}
Modrms     == {x(0,4), x(C,B)}
OpcodesOf(prefixes, escapes, modrms, ops) ==
  {p \o e \o <<op, m>> \o Zeros(12) : p \in prefixes, e \in escapes, op \in ops, m \in modrms}
Escapes   == {<<>>, <<x(0,F)>>}
OneAndTwo == OpcodesOf(PrefixSets, Escapes, Modrms, Byte)
ThreeByte == OpcodesOf(PrefixSets, {<<x(0,F), x(3,8)>>, <<x(0,F), x(3,A)>>}, {x(C,B)}, Byte)

\* The opcodes whose entry depends on ModRM.reg, with every reg and mod.
GroupOps  == Cells(8, {0, 1, F}) \cup {x(C,0), x(D,1)} \cup Cells(D, 8..F) \cup Cells(F, {6, 7, E, F})
Group0fOps == {x(0,0), x(0,1), x(0,D), x(1,8), x(2,0), x(A,E), x(B,A), x(C,7), x(C,5), x(7,1), x(7,3), x(1,2)}
RegModrms == {64 * mod + 8 * reg + rm : mod \in {0, 2, 3}, reg \in 0..7, rm \in {0, 4}}
Groups(prefixes)   == OpcodesOf(prefixes, {<<>>}, RegModrms, GroupOps)
Groups0f(prefixes) == OpcodesOf(prefixes, {<<x(0,F)>>}, RegModrms, Group0fOps)
GroupsF3      == Groups({<<x(F,3)>>}) \cup Groups0f({<<x(F,3)>>})
GroupsPlain   == Groups({<<>>}) \cup Groups0f({<<>>})
OpcodeBuffers == OneAndTwo \cup (ThreeByte \cup (GroupsF3 \cup GroupsPlain))

LegacyOpcodes == OpcodesOf({<<>>, <<x(6,6)>>, <<x(6,7)>>}, Escapes, {x(0,6), x(C,B)}, Byte)
LegacyBuffers == LegacyOpcodes \cup GroupsF3

\* Prefixes and limits: runs of prefixes up to and past the limit of eight, in
\* front of long instructions, each cut off after every byte.
Runs  == {[i \in 1..n |-> IF i % 2 = 1 THEN p ELSE q] :
            n \in {0, 1, 2, 7, 8, 9}, p \in {x(6,6), x(2,E)}, q \in {x(F,0), x(6,7)}}
Tails == {<<x(9,0)>>, <<x(C,7), x(8,4), x(0,5)>> \o Zeros(8), <<x(0,F), x(3,A), x(0,F), x(4,4), x(0,0)>> \o Zeros(2),
          <<x(B,8)>> \o Zeros(8), <<x(A,1)>> \o Zeros(8), <<x(C,8)>> \o Zeros(3), <<x(F,0)>>, <<x(6,2), 0>>,
          <<x(0,F), x(0,F), x(C,1), x(9,E)>>, <<x(C,4), x(E,1), x(7,C), x(C,0)>>,
          <<x(C,4), x(E,3), x(7,1), x(0,F), x(8,4), 0>> \o Zeros(5), <<x(C,5), x(F,8), x(5,8), x(C,1)>>}
Rexes == {<<>>, <<x(4,8)>>, <<x(4,0), x(4,0)>>}
LimitSeqs    == {r \o e \o t : r \in Runs, e \in Rexes, t \in Tails}
Cut(s, n)    == SubSeq(s, 1, IF n < Len(s) THEN n ELSE Len(s))
LimitBuffers == {Cut(s, n) : s \in LimitSeqs, n \in 0..24}

\* VEX: all opcodes of the three maps and every column; each way a field
\* can be wrong; the short form; truncations.
LongPrefixes == {<<x(C,4), b2, b3>> : b2 \in {x(E,1), x(E,2), x(E,3)}, b3 \in {x(7,8), x(7,9), x(7,E), x(7,7)}}
VexOps == Cells(1, {0, 8, A}) \cup Cells(2, {A, B}) \cup Cells(5, {0, 8}) \cup Cells(7, {0, 1, 2, 3, 7, E})
            \cup Cells(F, {0, 2, 3, 7}) \cup Cells(0, {6, A})
FieldPrefixes ==
  {<<x(C,4), b2, b3>> : b2 \in {x(6,1), x(C,2), x(E,3), x(E,0), x(E,4)}, b3 \in {x(7,0), x(7,D), x(F,9), x(F,C)}}
AllVexOps  == {p \o <<op, x(C,1)>> \o Zeros(6) : p \in LongPrefixes, op \in Byte}
WrongField == {q \o p \o <<op, 8 * reg + m>> \o Zeros(6) :
                 q \in {<<>>, <<x(F,0)>>}, p \in FieldPrefixes, op \in VexOps, reg \in {0, 3, 7}, m \in {0, x(C,0)}}
ShortForms == {<<x(C,5), b2, op, m>> \o Zeros(6) :
                 b2 \in {x(F,8), x(7,9), x(B,D), x(F,2)}, op \in VexOps, m \in {0, x(C,1)}}
VexBuffers == AllVexOps \cup (WrongField \cup ShortForms)

\* Which family is decoded in which mode: the choice narrows Init alone.  TLC
\* joins sets fastest when the left one has a name.
Long64Buffers == OpcodeBuffers \cup VexBuffers
AllBuffers    == Long64Buffers \cup (LegacyBuffers \cup LimitBuffers)
AllDecoders == AllModes \cup Legacy
DecodeInit ==
  /\ Init
  /\ \/ decoder \in Long64 /\ buf \in Long64Buffers
     \/ decoder \in Legacy /\ buf \in LegacyBuffers
     \/ decoder \in AllModes /\ buf \in LimitBuffers
DecodeSpec == DecodeInit /\ [][Next]_vars
=============================================================================
