------------------------------ MODULE SseTables ------------------------------
(***************************************************************************)
(* The SSE and MMX opcodes of the 0F map and how their rows are picked     *)
(* (src/decode/table_sse.c, table_sse_mov.c, table_sse_alu.c).             *)
(***************************************************************************)
EXTENDS Entries

XmmLoad  == Variant("INSN", <<"XMM_REG", "XMM_OR_MEM">>)
XmmStore == Variant("INSN", <<"XMM_OR_MEM", "XMM_REG">>)
XmmImm   == Variant("INSN", <<"XMM_REG", "XMM_OR_MEM", "IMM8">>)
MmLoad   == Variant("INSN", <<"MM_REG", "MM_OR_MEM">>)
MmStore  == Variant("INSN", <<"MM_OR_MEM", "MM_REG">>)
MemoryOnly(v) == [v EXCEPT !.mn = "MOVMEM"]

\* The opcodes with a row in x86dec_sse_mov; the others are looked up in
\* x86dec_sse_alu.
MovRows ==
  Cells(1, {0, 1, 2, 3, 6, 7}) \cup {x(2,8), x(2,9), x(2,B), x(5,0), x(6,F), x(7,F)}
    \cup {x(C,3), x(D,6), x(D,7), x(E,7), x(F,0), x(F,7)}

MovVariant(op, col) ==
  CASE op = x(1,0) \/ (op = x(2,8) /\ col \in {"NP", "66"})
         \/ (op = x(6,F) /\ col \in {"66", "F3"}) \/ (op = x(F,7) /\ col = "66") -> XmmLoad
    [] op = x(1,1) \/ (op = x(2,9) /\ col \in {"NP", "66"})
         \/ (op = x(7,F) /\ col \in {"66", "F3"}) -> XmmStore
    [] (op \in {x(1,2), x(1,6)} /\ col \in {"NP", "66"}) \/ (op = x(F,0) /\ col = "F2") ->
         MemoryOnly(XmmLoad)
    [] (op \in {x(1,3), x(1,7), x(2,B)} /\ col \in {"NP", "66"})
         \/ (op = x(E,7) /\ col = "66") -> MemoryOnly(XmmStore)
    [] op = x(5,0) /\ col \in {"NP", "66"} -> Variant("INSN", <<"R32_REG", "XMM_RM">>)
    [] op = x(6,F) /\ col = "NP" -> [MmLoad EXCEPT !.mn = "MOVQ"]
    [] op = x(7,F) /\ col = "NP" -> [MmStore EXCEPT !.mn = "MOVQ"]
    [] op = x(F,7) /\ col = "NP" -> MmLoad
    [] op = x(E,7) /\ col = "NP" -> MemoryOnly(MmStore)
    [] op = x(C,3) /\ col = "NP" -> Variant("MOVMEM", <<"GPR_OR_MEM", "GPR_REG">>)
    [] op = x(D,6) /\ col = "F3" -> Variant("INSN", <<"XMM_REG", "MM_OR_MEM">>)
    [] op = x(D,6) /\ col = "F2" -> Variant("INSN", <<"MM_REG", "XMM_OR_MEM">>)
    [] op = x(D,7) /\ col = "NP" -> Variant("INSN", <<"R32_REG", "MM_OR_MEM">>)
    [] op = x(D,7) /\ col = "66" -> Variant("INSN", <<"R32_REG", "XMM_OR_MEM">>)
    [] OTHER -> NoVariant

\* The rows of x86dec_sse_alu.  Packed MMX operations have an XMM form under
\* 66; XmmOnly66 are the ones without an MMX form.
FloatNp  == Cells(1, {4, 5}) \cup Cells(2, {E, F}) \cup Cells(5, 1..F)
Float66  == Cells(1, {4, 5}) \cup Cells(2, {E, F}) \cup Cells(5, {1} \cup 4..F)
ScalarF3 == Cells(5, {1, 2, 3, 8, 9} \cup A..F) \cup {x(E,6)}
ScalarF2 == Cells(5, {1, 8, 9, A, C, D, E, F}) \cup {x(7,C), x(7,D), x(D,0), x(E,6)}
MmxPacked ==
  Cells(6, 0..B) \cup Cells(7, 4..6)
    \cup Cells(D, (1..5) \cup {8, 9, A, B, C, D, E, F})
    \cup Cells(E, (0..5) \cup {8, 9, A, B, C, D, E, F})
    \cup Cells(F, (1..6) \cup {8, 9, A, B, C, D, E})
XmmOnly66 == {x(6,C), x(6,D), x(7,C), x(7,D), x(D,0), x(E,6)}
AluRows ==
  FloatNp \cup Float66 \cup ScalarF3 \cup ScalarF2 \cup MmxPacked \cup XmmOnly66
    \cup {x(2,A), x(2,C), x(2,D), x(7,0), x(C,2), x(C,6)}

AluVariant(op, col) ==
  CASE op \in FloatNp /\ col = "NP" -> XmmLoad
    [] op \in Float66 \cup MmxPacked \cup XmmOnly66 /\ col = "66" -> XmmLoad
    [] op \in ScalarF3 /\ col = "F3" -> XmmLoad
    [] op \in ScalarF2 /\ col = "F2" -> XmmLoad
    [] op \in MmxPacked /\ col = "NP" -> MmLoad
    [] op \in {x(2,A), x(E,6)} /\ col = "NP" -> Variant("INSN", <<"XMM_REG", "MM_OR_MEM">>)
    [] op = x(2,A) /\ col \in {"F3", "F2"} -> Variant("INSN", <<"XMM_REG", "GPR_OR_MEM">>)
    [] op \in {x(2,C), x(2,D)} /\ col = "NP" -> Variant("INSN", <<"MM_REG", "XMM_OR_MEM">>)
    [] op \in {x(2,C), x(2,D)} /\ col \in {"F3", "F2"} -> Variant("INSN", <<"GPR_REG", "XMM_OR_MEM">>)
    [] op = x(7,0) /\ col = "NP" -> Variant("INSN", <<"MM_REG", "MM_OR_MEM", "IMM8">>)
    [] op = x(7,0) /\ col # "NP" -> XmmImm
    [] op = x(C,2) -> XmmImm
    [] op = x(C,6) /\ col \in {"NP", "66"} -> XmmImm
    [] OTHER -> NoVariant

\* resolve_shift: the immediate shifts 0F 71-73, chosen by ModRM.reg; PSRLDQ
\* and PSLLDQ (73 /3 and /7) have only an XMM form.
ShiftRegs(op) == CASE op = x(7,1) -> {2, 4, 6} [] op = x(7,2) -> {2, 4, 6} [] OTHER -> {2, 3, 6, 7}
ResolveShift(op, modrm, fx) ==
  IF \/ fx.f3 \/ fx.f2
     \/ RegOf(modrm) \notin ShiftRegs(op)
     \/ op = x(7,3) /\ RegOf(modrm) \in {3, 7} /\ ~fx.p66
  THEN Refuse("INVALID")
  ELSE Found("INSN", <<IF fx.p66 THEN "XMM_OR_MEM" ELSE "MM_OR_MEM", "IMM8">>)

\* resolve_movdq: MOVD and, under REX.W, MOVQ between a vector register and
\* a general register or memory.
ResolveMovdq(op, fx) ==
  LET mn  == IF fx.rexW THEN "MOVQ" ELSE "INSN"
      rm  == IF fx.rexW THEN "GPR_OR_MEM" ELSE "R32_OR_MEM"
      from == IF fx.p66 THEN (IF fx.rexW THEN "XMM64" ELSE "XMM32")
                        ELSE (IF fx.rexW THEN "MM_REG" ELSE "MM32")
      to   == IF fx.p66 THEN (IF fx.rexW THEN "XMM64" ELSE "XMM_REG") ELSE "MM_REG"
  IN  IF fx.f3 \/ fx.f2 THEN Refuse("INVALID")
      ELSE Found(mn, IF op = x(6,E) THEN <<to, rm>> ELSE <<rm, from>>)

\* PINSRW and PEXTRW, 0F C4 and 0F C5.
ResolveWord(op, modrm, fx) ==
  CASE fx.f3 \/ fx.f2 -> Refuse("INVALID")
    [] ~(fx.f3 \/ fx.f2) /\ op = x(C,4) ->
         Found("INSN", <<IF fx.p66 THEN "XMM_REG" ELSE "MM_REG", "R32_OR_MEM16", "IMM8">>)
    [] OTHER ->
         IF ModOf(modrm) # 3 THEN Refuse("INVALID")
         ELSE Found("INSN", <<"R32_REG", IF fx.p66 THEN "XMM_RM" ELSE "MM_RM", "IMM8">>)

\* The table rows: the mov table first, then the alu table.
ResolveRow(op, modrm, fx) ==
  IF op \notin MovRows \cup AluRows
  THEN Refuse(IF fx.f3 \/ fx.f2 \/ fx.p66 THEN "UNSUPPORTED" ELSE "INVALID")
  ELSE LET v == IF op \in MovRows THEN MovVariant(op, PrefixColumn(fx))
                                  ELSE AluVariant(op, PrefixColumn(fx))
       IN  IF v.mn = "MOVMEM" /\ ModOf(modrm) = 3 THEN Refuse("INVALID") ELSE Pick(v)

ResolveSse(op, modrm, fx) ==
  CASE op = x(1,6) /\ ModOf(modrm) = 3 ->
         IF fx.f3 \/ fx.f2 THEN Refuse("INVALID") ELSE Found("INSN", <<"XMM_REG", "XMM_RM">>)
    [] op \in Cells(7, 1..3) -> ResolveShift(op, modrm, fx)
    [] op \in {x(6,E), x(7,E)} -> ResolveMovdq(op, fx)
    [] op \in {x(C,4), x(C,5)} -> ResolveWord(op, modrm, fx)
    [] OTHER -> ResolveRow(op, modrm, fx)
=============================================================================
