----------------------------- MODULE VexTables -----------------------------
(***************************************************************************)
(* The VEX rows of x86dec (src/decode/table_vex.c): three maps of opcodes, *)
(* each row with a column per value of VEX.pp (NP, 66, F3, F2).            *)
(***************************************************************************)
EXTENDS Entries

VexColumn(pp) == CASE pp = 0 -> "NP" [] pp = 1 -> "66" [] pp = 2 -> "F3" [] OTHER -> "F2"

Vex2    == Variant("INSN", <<"XMM_REG", "XMM_OR_MEM">>)
VexOut  == Variant("INSN", <<"XMM_OR_MEM", "XMM_REG">>)
Vex3    == Variant("INSN", <<"XMM_REG", "VEX_VVVV", "XMM_OR_MEM">>)
Vex2Imm == Variant("INSN", <<"XMM_REG", "XMM_OR_MEM", "IMM8">>)
Vex3Imm == Variant("INSN", <<"XMM_REG", "VEX_VVVV", "XMM_OR_MEM", "IMM8">>)
VexGpr3 == Variant("INSN", <<"GPR_REG", "VEX_VVVV_GPR", "GPR_OR_MEM">>)
\* Operations that exist only with VEX.L = 1.
V256(shapes) == Variant("V256", shapes)

\* Map 1: packed operations with an NP and a 66 column, and scalar ones.
Vex0fPacked ==
  Cells(1, {2, 4, 5, 6}) \cup Cells(5, (4..9) \cup (C..F)) \cup Cells(6, 0..B) \cup Cells(7, 4..6)
    \cup Cells(D, (1..5) \cup (8..A)) \cup Cells(E, (0..5) \cup (8..F))
    \cup Cells(F, (1..6) \cup (8..E))
Vex0fOnly66 == {x(6,C), x(6,D)}
Vex0fHoriz  == {x(7,C), x(7,D), x(D,0)}
Vex0fScalarF3 == {x(1,0)} \cup Cells(5, {1, 2, 3, 8, 9, A, C, D, E, F})
Vex0fScalarF2 == {x(1,0)} \cup Cells(5, {1, 8, 9, A, C, D, E, F})

Vex0fPackedRow(op, col) ==
  CASE op \in {x(1,0), x(2,8), x(5,1), x(5,B), x(6,F)} /\ col \in {"NP", "66"} -> Vex2
    [] op \in {x(5,2), x(5,3)} /\ col = "NP" -> Vex2
    [] op = x(5,A) /\ col = "66" -> Vex2
    [] (op = x(5,B) /\ col = "F3") \/ (op = x(E,6) /\ col # "NP") -> Vex2
    [] op \in {x(1,1), x(1,3), x(1,7), x(2,9), x(7,F)} /\ col \in {"NP", "66"} -> VexOut
    [] op = x(2,B) /\ col \in {"NP", "66"} -> [VexOut EXCEPT !.mn = "VMOVNT"]
    [] op \in Vex0fPacked /\ col \in {"NP", "66"} -> Vex3
    [] op \in Vex0fOnly66 \cup Vex0fHoriz /\ col = "66" -> Vex3
    [] op \in Vex0fHoriz /\ col = "F2" -> Vex3
    [] op = x(5,0) /\ col \in {"NP", "66"} -> Variant("INSN", <<"R32_REG", "XMM_RM">>)
    [] op = x(7,0) -> Vex2Imm
    [] op = x(7,7) /\ col = "NP" -> Variant("INSN", <<>>)
    [] op \in {x(C,2), x(C,6)} /\ col \in {"NP", "66"} -> Vex3Imm
    [] OTHER -> NoVariant

Vex0fScalarRow(op, col) ==
  CASE op \in Vex0fScalarF3 /\ col = "F3" -> Vex3
    [] op \in Vex0fScalarF2 /\ col = "F2" -> Vex3
    [] op = x(1,1) /\ col \in {"F3", "F2"} -> Variant("INSN", <<"XMM_OR_MEM", "VEX_VVVV", "XMM_REG">>)
    [] op = x(2,A) /\ col \in {"F3", "F2"} -> Variant("INSN", <<"XMM_REG", "VEX_VVVV", "GPR_OR_MEM">>)
    [] op \in {x(2,C), x(2,D)} /\ col \in {"F3", "F2"} -> Variant("INSN", <<"GPR_REG", "XMM_OR_MEM">>)
    [] op \in {x(2,E), x(2,F)} /\ col \in {"NP", "66"} -> Vex2
    [] op = x(5,A) /\ col = "NP" -> Vex2
    [] op = x(7,E) /\ col # "F2" -> Vex2
    [] op = x(C,2) /\ col \in {"F3", "F2"} -> Vex3Imm
    [] OTHER -> NoVariant

Vex0f(op, col) ==
  LET s == Vex0fScalarRow(op, col)
  IN  IF s.mn = "NONE" THEN Vex0fPackedRow(op, col) ELSE Scalar(s)

\* Map 2: all but the BMI rows F2-F7 have a 66 column only.
Vex0f38Packed ==
  Cells(0, 0..B) \cup Cells(1, C..E) \cup Cells(2, {8, 9, B}) \cup Cells(3, {7} \cup (C..F))
    \cup Cells(4, {0, 5, 7}) \cup Cells(8, {C, D}) \cup Cells(D, {8, 9})
    \cup {x(hi, lo) : hi \in {9, A, B, E, F}, lo \in {8, 9, C, D}}
Vex0f38Scalar ==
  {x(D,A)} \cup {x(hi, lo) : hi \in {9, A, B, E, F}, lo \in {A, B, E, F}}
Vex0f38Convert == {x(1,3)} \cup Cells(2, {0, 1, 3, 5}) \cup Cells(3, {0, 1, 3, 5})

Vex0f38(op, col) ==
  CASE op = x(F,2) /\ col = "NP" -> VexGpr3
    [] op = x(F,5) /\ col # "66" -> VexGpr3
    [] op = x(F,6) /\ col = "F2" -> VexGpr3
    [] op = x(F,7) -> VexGpr3
    [] op \in Vex0f38Packed /\ col = "66" -> Vex3
    [] op \in Vex0f38Scalar /\ col = "66" -> Scalar(Vex3)
    [] op \in {x(0,C), x(0,D)} /\ col = "66" -> Vex2Imm
    [] op \in {x(0,E), x(0,F), x(1,7), x(2,2), x(2,4), x(2,A), x(3,2), x(3,4), x(4,1), x(7,9)}
         /\ col = "66" -> Vex2
    [] op \in Vex0f38Convert /\ col = "66" -> Scalar(Vex2)
    [] op \in Cells(1, {0, 4, 5}) /\ col = "66" ->
         Variant("INSN", <<"XMM_REG", "VEX_VVVV", "XMM_OR_MEM", "IMPLICIT_XMM0">>)
    [] op = x(1,8) /\ col = "66" -> Variant("INSN", <<"XMM_REG", "MEM32_RM">>)
    [] op = x(1,9) /\ col = "66" -> Variant("INSN", <<"XMM_REG", "MEM64_RM">>)
    [] op = x(1,A) /\ col = "66" -> V256(<<"YMM_REG", "MEM_RM">>)
    [] op = x(5,8) /\ col = "66" -> Variant("INSN", <<"XMM_REG", "R32_OR_MEM">>)
    [] op = x(5,9) /\ col = "66" -> Variant("INSN", <<"XMM_REG", "GPR_OR_MEM">>)
    [] op = x(7,8) /\ col = "66" -> Variant("INSN", <<"XMM_REG", "GPR8_OR_MEM">>)
    [] OTHER -> NoVariant

\* Map 3: operations with an immediate.
Vex0f3a(op, col) ==
  CASE op = x(F,0) /\ col = "F2" -> Variant("INSN", <<"GPR_REG", "GPR_OR_MEM", "IMM8">>)
    [] op = x(0,F) /\ col = "NP" -> Vex3Imm
    [] op \in Cells(0, {0, 8, 9}) \cup Cells(6, 0..3) /\ col = "66" -> Vex2Imm
    [] op \in Cells(0, C..F) \cup Cells(4, {0, 1, 2, 4}) /\ col = "66" -> Vex3Imm
    [] op \in {x(0,A), x(0,B), x(2,1)} /\ col = "66" -> Scalar(Vex3Imm)
    [] op = x(0,6) /\ col = "66" -> V256(<<"YMM_REG", "VEX_VVVV", "YMM_OR_MEM", "IMM8">>)
    [] op = x(1,8) /\ col = "66" -> V256(<<"YMM_REG", "VEX_VVVV", "XMM_OR_MEM", "IMM8">>)
    [] op = x(1,9) /\ col = "66" -> V256(<<"XMM_OR_MEM", "YMM_REG", "IMM8">>)
    [] op \in Cells(1, 4..7) /\ col = "66" -> Variant("INSN", <<"R32_OR_MEM", "XMM_REG", "IMM8">>)
    [] op = x(1,D) /\ col = "66" -> Variant("INSN", <<"XMM_OR_MEM", "XMM_REG", "IMM8">>)
    [] op \in {x(2,0), x(2,2)} /\ col = "66" -> Variant("INSN", <<"XMM_REG", "VEX_VVVV", "R32_OR_MEM">>)
    [] OTHER -> NoVariant

VexVariant(map, op, pp) ==
  CASE map = 1 -> Vex0f(op, VexColumn(pp))
    [] map = 2 -> Vex0f38(op, VexColumn(pp))
    [] OTHER   -> Vex0f3a(op, VexColumn(pp))
=============================================================================
