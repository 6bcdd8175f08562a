---------------------------- MODULE LegacyTables ----------------------------
(***************************************************************************)
(* The one-byte opcode map (src/decode/table_legacy.c) and the 0F map      *)
(* (src/decode/table_0f.c).  A row says which mnemonic and shapes an       *)
(* opcode has, whether a ModRM byte follows it, and which opcode group     *)
(* decides the rest.  Opcodes with the same row are written together.      *)
(***************************************************************************)
EXTENDS Entries

GroupName ==
  {"NONE", "G1", "G2", "G3B", "G3V", "G4", "G5", "G6", "G7", "G8", "G9", "G11B", "G11V", "G15",
   "FPU", "SSE", "3DNOW", "0F0D", "0F18"}
Row == [mn : Mnemonic, shapes : OperandLists, modrm : BOOLEAN, group : GroupName]

Direct(mn, shapes) == [mn |-> mn, shapes |-> shapes, modrm |-> FALSE, group |-> "NONE"]
Modrm(shapes)      == [mn |-> "INSN", shapes |-> shapes, modrm |-> TRUE, group |-> "NONE"]
Group(g)           == [mn |-> "NONE", shapes |-> <<>>, modrm |-> TRUE, group |-> g]
NoRow              == Direct("NONE", <<>>)

\* Column k of the eight ALU operations, which fill the top of map 0.
Alu(k) == {x(hi, lo) : hi \in 0..3, lo \in {k, k + 8}}

\* Opcodes 00-7F.
Map0Low(op) ==
  CASE op \in Alu(0) -> Modrm(<<"GPR8_OR_MEM", "GPR8_REG">>)
    [] op \in Alu(1) -> Modrm(<<"GPR_OR_MEM", "GPR_REG">>)
    [] op \in Alu(2) -> Modrm(<<"GPR8_REG", "GPR8_OR_MEM">>)
    [] op \in Alu(3) \cup {x(6,3)} -> Modrm(<<"GPR_REG", "GPR_OR_MEM">>)
    [] op \in Alu(4) -> Direct("INSN", <<"FIXED_GPR8", "IMM8">>)
    [] op \in Alu(5) -> Direct("INSN", <<"FIXED_GPR", "IMM_V">>)
    [] op \in {x(0,6), x(0,E), x(1,6), x(1,E)} -> Direct("PUSH", <<"FIXED_SEG">>)
    [] op \in {x(0,7), x(1,7), x(1,F)} -> Direct("POP", <<"FIXED_SEG">>)
    [] op \in {x(2,7), x(2,F), x(3,7), x(3,F)} \cup Cells(6, {0, 1, C, D, E, F}) ->
         Direct("INSN", <<>>)
    [] op \in Line(4) -> Direct("INSN", <<"REG_OPCODE">>)
    [] op \in Cells(5, 0..7) -> Direct("PUSH", <<"REG_OPCODE">>)
    [] op \in Cells(5, 8..F) -> Direct("POP", <<"REG_OPCODE">>)
    [] op = x(6,2) -> Modrm(<<"GPR_REG", "MEM_RM">>)
    [] op = x(6,8) -> Direct("PUSH", <<"IMM_V">>)
    [] op = x(6,9) -> Modrm(<<"GPR_REG", "GPR_OR_MEM", "IMM_VS">>)
    [] op = x(6,A) -> Direct("PUSH", <<"IMM8">>)
    [] op = x(6,B) -> Modrm(<<"GPR_REG", "GPR_OR_MEM", "IMM8">>)
    [] op \in Line(7) -> Direct("INSN", <<"REL8">>)
    [] OTHER -> NoRow

\* The opcodes from 80 on that stand alone, PUSHF, RET and their like apart.
\* Mutant: the line of F0 filled in without the gaps.
PlainHighFilled == Cells(F, (0..5) \cup (8..D))
PlainHigh ==
  Cells(9, {8, 9, B, E, F}) \cup Cells(A, (4..7) \cup (A..F)) \cup {x(C,C), x(C,E), x(C,F), x(D,6), x(D,7)}
    \cup Cells(F, {1, 4, 5} \cup 8..D)

\* Opcodes 80-FF.
Map0High(op) ==
  CASE op \in Cells(8, 0..3) -> Group("G1")
    [] op \in Cells(8, {4, 6, 8}) -> Modrm(<<"GPR8_OR_MEM", "GPR8_REG">>)
    [] op \in Cells(8, {5, 7, 9}) -> Modrm(<<"GPR_OR_MEM", "GPR_REG">>)
    [] op = x(8,A) -> Modrm(<<"GPR8_REG", "GPR8_OR_MEM">>)
    [] op = x(8,B) -> Modrm(<<"GPR_REG", "GPR_OR_MEM">>)
    [] op = x(8,C) -> Modrm(<<"GPR_OR_MEM", "SEG_REG">>)
    [] op \in {x(8,D), x(C,4), x(C,5)} -> Modrm(<<"GPR_REG", "MEM_RM">>)
    [] op = x(8,E) -> Modrm(<<"SEG_REG", "GPR16_OR_MEM">>)
    [] op = x(8,F) -> [Modrm(<<"GPR_OR_MEM">>) EXCEPT !.mn = "POP"]
    [] op \in Cells(9, 0..7) -> Direct("INSN", <<"REG_OPCODE", "FIXED_GPR">>)
    [] op = x(9,C) -> Direct("PUSHF", <<>>)
    [] op = x(9,D) -> Direct("POPF", <<>>)
    [] op \in PlainHigh -> Direct("INSN", <<>>)
    [] op = x(A,0) -> Direct("INSN", <<"FIXED_GPR8", "MOFFS">>)
    [] op = x(A,1) -> Direct("INSN", <<"FIXED_GPR", "MOFFS">>)
    [] op = x(A,2) -> Direct("INSN", <<"MOFFS", "FIXED_GPR8">>)
    [] op = x(A,3) -> Direct("INSN", <<"MOFFS", "FIXED_GPR">>)
    [] op \in {x(A,8), x(E,4)} -> Direct("INSN", <<"FIXED_GPR8", "IMM8">>)
    [] op = x(A,9) -> Direct("INSN", <<"FIXED_GPR", "IMM_VS">>)
    [] op \in Cells(B, 0..7) -> Direct("INSN", <<"REG8_OPCODE", "IMM8">>)
    [] op \in Cells(B, 8..F) -> Direct("INSN", <<"REG_OPCODE", "IMM_V64">>)
    [] op \in Cells(C, 0..1) \cup Cells(D, 0..3) -> Group("G2")
    [] op \in {x(C,2), x(C,A)} -> Direct("RET", <<"IMM16">>)
    [] op \in {x(C,3), x(C,B)} -> Direct("RET", <<>>)
    [] op = x(C,6) -> Group("G11B")
    [] op = x(C,7) -> Group("G11V")
    [] op = x(C,8) -> Direct("ENTER", <<"IMM16", "IMM8">>)
    [] op = x(C,9) -> Direct("LEAVE", <<>>)
    [] op \in {x(C,D), x(D,4), x(D,5)} -> Direct("INSN", <<"IMM8">>)
    [] op \in Cells(D, 8..F) -> Group("FPU")
    [] op \in Cells(E, 0..3) -> Direct("INSN", <<"REL8">>)
    [] op = x(E,B) -> Direct("JMP", <<"REL8">>)
    [] op = x(E,5) -> Direct("INSN", <<"FIXED_GPR", "IMM8">>)
    [] op = x(E,6) -> Direct("INSN", <<"IMM8", "FIXED_GPR8">>)
    [] op = x(E,7) -> Direct("INSN", <<"IMM8", "FIXED_GPR">>)
    [] op = x(E,8) -> Direct("CALL", <<"REL_V">>)
    [] op = x(E,9) -> Direct("JMP", <<"REL_V">>)
    [] op = x(E,C) -> Direct("INSN", <<"FIXED_GPR8", "FIXED_GPR16">>)
    [] op = x(E,D) -> Direct("INSN", <<"FIXED_GPR", "FIXED_GPR16">>)
    [] op = x(E,E) -> Direct("INSN", <<"FIXED_GPR16", "FIXED_GPR8">>)
    [] op = x(E,F) -> Direct("INSN", <<"FIXED_GPR16", "FIXED_GPR">>)
    [] op = x(F,6) -> Group("G3B")
    [] op = x(F,7) -> Group("G3V")
    [] op = x(F,E) -> Group("G4")
    [] op = x(F,F) -> Group("G5")
    [] OTHER -> NoRow

\* The SSE opcodes of the 0F map, whose rows are picked by mandatory prefix.
SseOpcodes ==
  Cells(1, 0..7) \cup Cells(2, 8..F) \cup Line(5) \cup Line(6)
    \cup Cells(7, (0..6) \cup (C..F)) \cup Cells(C, 2..6) \cup Line(D)
    \cup Line(E) \cup Cells(F, 0..E)

\* Opcodes 0F 00 - 0F FF.
Map1Row(op) ==
  CASE op = x(0,0) -> Group("G6")
    [] op = x(0,1) -> Group("G7")
    [] op \in {x(0,2), x(0,3)} -> Modrm(<<"GPR_REG", "GPR_OR_MEM16">>)
    [] op \in Cells(0, {5, 6, 7, 8, 9, B, E}) \cup Cells(3, (0..5) \cup {7})
         \cup {x(7,7), x(A,2), x(A,A), x(B,9), x(F,F)} -> Direct("INSN", <<>>)
    [] op = x(0,D) -> Group("0F0D")
    [] op = x(0,F) -> Group("3DNOW")
    [] op \in SseOpcodes -> Group("SSE")
    [] op = x(1,8) -> Group("0F18")
    [] op \in Cells(1, 9..F) \cup {x(7,8), x(A,3), x(A,B), x(B,1), x(B,3), x(B,B), x(C,1)} ->
         Modrm(<<"GPR_OR_MEM", "GPR_REG">>)
    [] op = x(2,0) -> Modrm(<<"GPR_RM", "CREG_REG">>)
    [] op = x(2,1) -> Modrm(<<"GPR_RM", "DREG_REG">>)
    [] op = x(2,2) -> Modrm(<<"CREG_REG", "GPR_RM">>)
    [] op = x(2,3) -> Modrm(<<"DREG_REG", "GPR_RM">>)
    [] op \in Line(4) \cup {x(7,9), x(A,F), x(B,8), x(B,C), x(B,D)} ->
         Modrm(<<"GPR_REG", "GPR_OR_MEM">>)
    [] op \in Line(8) -> Direct("INSN", <<"REL_V">>)
    [] op \in Line(9) -> Modrm(<<"GPR8_OR_MEM">>)
    [] op \in {x(A,0), x(A,8)} -> Direct("PUSH", <<"FIXED_SEG">>)
    [] op \in {x(A,1), x(A,9)} -> Direct("POP", <<"FIXED_SEG">>)
    [] op \in {x(A,4), x(A,C)} -> Modrm(<<"GPR_OR_MEM", "GPR_REG", "IMM8">>)
    [] op \in {x(A,5), x(A,D)} -> Modrm(<<"GPR_OR_MEM", "GPR_REG", "FIXED_GPR8">>)
    [] op = x(A,E) -> Group("G15")
    [] op \in {x(B,0), x(C,0)} -> Modrm(<<"GPR8_OR_MEM", "GPR8_REG">>)
    [] op \in {x(B,2), x(B,4), x(B,5)} -> Modrm(<<"GPR_REG", "MEM_RM">>)
    [] op \in {x(B,6), x(B,E)} -> Modrm(<<"GPR_REG", "GPR8_OR_MEM">>)
    [] op \in {x(B,7), x(B,F)} -> Modrm(<<"GPR_REG", "GPR16_OR_MEM">>)
    [] op = x(B,A) -> Group("G8")
    [] op = x(C,7) -> Group("G9")
    [] op \in Cells(C, 8..F) -> Direct("INSN", <<"REG_OPCODE">>)
    [] OTHER -> NoRow

Map0 == [op \in Byte |-> IF op < 128 THEN Map0Low(op) ELSE Map0High(op)]
Map1 == [op \in Byte |-> Map1Row(op)]
=============================================================================
