---------------------------- MODULE CryptoTables ----------------------------
(***************************************************************************)
(* The three-byte opcode maps 0F38 and 0F3A: SSSE3 and SSE4 rows picked by *)
(* prefix (table_0f38_legacy.c, table_0f3a_legacy.c), and AES, SHA, CRC32, *)
(* MOVBE and shadow-stack stores decided case by case (table_crypto.c).    *)
(***************************************************************************)
EXTENDS Entries

Xmm2  == <<"XMM_REG", "XMM_OR_MEM">>
Mm2   == <<"MM_REG", "MM_OR_MEM">>
\* Mutant: an implicit XMM0 where the instruction has none.
Xmm3Implicit == <<"XMM_REG", "XMM_OR_MEM", "IMPLICIT_XMM0", "IMM8">>
Xmm3  == <<"XMM_REG", "XMM_OR_MEM", "IMM8">>

\* Map 0F38: rows with an MMX and an XMM form, and rows with an XMM form only.
Ssse3Rows == Cells(0, 0..B)
Sse4Rows ==
  {x(1,7)} \cup Cells(1, C..E) \cup Cells(2, (0..5) \cup (8..B))
    \cup Cells(3, (0..5) \cup {7} \cup (C..F)) \cup Cells(4, 0..1)
BlendRows == Cells(1, {0, 4, 5})
Rows38 == Ssse3Rows \cup Sse4Rows \cup BlendRows

Variant38(op, col) ==
  CASE op \in Ssse3Rows /\ col = "NP" -> Variant("INSN", Mm2)
    [] op \in Ssse3Rows \cup Sse4Rows /\ col = "66" -> Variant("INSN", Xmm2)
    [] op \in BlendRows /\ col = "66" -> Variant("INSN", Xmm2 \o <<"IMPLICIT_XMM0">>)
    [] OTHER -> NoVariant

\* Map 0F3A.
Extracts == Cells(1, 4..7)
Inserts  == {x(2,0), x(2,2)}
Rows3A   == Cells(0, 8..F) \cup Extracts \cup Inserts \cup {x(2,1)} \cup Cells(4, 0..2) \cup Cells(6, 0..3)

Variant3A(op, col) ==
  CASE op = x(0,F) /\ col = "NP" -> Variant("INSN", Mm2 \o <<"IMM8">>)
    [] op \in Extracts /\ col = "66" -> Variant("INSN", <<"R32_OR_MEM", "XMM_REG", "IMM8">>)
    [] op \in Inserts /\ col = "66" -> Variant("INSN", <<"XMM_REG", "R32_OR_MEM", "IMM8">>)
    [] op \in Rows3A \ (Extracts \cup Inserts) /\ col = "66" -> Variant("INSN", Xmm3)
    [] OTHER -> NoVariant

\* resolve_38: the opcodes of map 0F38 without a row, each with its own rule
\* about prefixes.
Resolve38(op, modrm, fx) ==
  LET simd == fx.f3 \/ fx.f2
      onlyIf(ok, shapes) == IF ok THEN Found("INSN", shapes) ELSE Refuse("INVALID")
  IN CASE op \in Cells(D, B..F) -> onlyIf(fx.p66 /\ ~simd, Xmm2)
       [] op \in Cells(C, 8..D) -> onlyIf(~fx.p66 /\ ~simd, Xmm2)
       [] op \in {x(F,0), x(F,1)} /\ simd ->
            onlyIf(fx.f2 /\ ~fx.p66, <<"GPR_REG", IF op = x(F,0) THEN "GPR8_OR_MEM" ELSE "GPR_OR_MEM">>)
       [] op = x(F,0) /\ ~simd -> onlyIf(ModOf(modrm) # 3, <<"GPR_REG", "MEM_RM">>)
       [] op = x(F,1) /\ ~simd -> onlyIf(ModOf(modrm) # 3, <<"MEM_RM", "GPR_REG">>)
       [] op \in Cells(1, C..E) \cup (Cells(0, 0..B) \ {x(0,4)}) ->
            onlyIf(~simd, IF fx.p66 THEN Xmm2 ELSE Mm2)
       [] op = x(F,5) -> onlyIf(fx.p66 /\ ~simd, <<"GPR_OR_MEM", "GPR_REG">>)
       [] op = x(F,6) -> onlyIf(~fx.p66 /\ ~simd, <<"GPR_OR_MEM", "GPR_REG">>)
       [] OTHER -> Refuse("UNSUPPORTED")

\* resolve_3a: SHA1RNDS4, PALIGNR, PCLMULQDQ and AESKEYGENASSIST.
Resolve3A(op, fx) ==
  LET simd == fx.f3 \/ fx.f2
  IN CASE op = x(C,C) -> IF fx.p66 \/ simd THEN Refuse("INVALID") ELSE Found("INSN", Xmm3)
       [] op = x(0,F) -> IF simd THEN Refuse("INVALID")
                         ELSE Found("INSN", (IF fx.p66 THEN Xmm2 ELSE Mm2) \o <<"IMM8">>)
       [] op \in {x(4,4), x(D,F)} -> IF ~fx.p66 \/ simd THEN Refuse("INVALID") ELSE Found("INSN", Xmm3)
       [] OTHER -> Refuse("UNSUPPORTED")

\* x86dec_resolve_crypto, for maps 2 and 3.  REX.W turns PEXTRD and PINSRD
\* into their 64-bit forms.
ResolveCrypto(map, op, modrm, fx) ==
  LET col == PrefixColumn(fx)
      v   == Variant3A(op, col)
  IN CASE map = 2 /\ op \in Rows38 -> Pick(Variant38(op, col))
       [] map = 2 /\ op \notin Rows38 -> Resolve38(op, modrm, fx)
       [] map = 3 /\ op \in Rows3A ->
            IF v.mn = "NONE" \/ ~fx.rexW THEN Pick(v)
            ELSE CASE op = x(1,6) -> Found("INSN", [v.shapes EXCEPT ![1] = "GPR_OR_MEM"])
                   [] op = x(2,2) -> Found("INSN", [v.shapes EXCEPT ![2] = "GPR_OR_MEM"])
                   [] OTHER -> Pick(v)
       [] map = 3 /\ op \notin Rows3A -> Resolve3A(op, fx)
       [] OTHER -> Refuse("UNSUPPORTED")
=============================================================================
