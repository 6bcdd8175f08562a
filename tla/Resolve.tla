------------------------------- MODULE Resolve -------------------------------
(***************************************************************************)
(* x86dec_resolve (src/decode/table_groups.c): from an opcode of map 0 or  *)
(* map 1, its ModRM byte and the flags in force, the entry to decode with  *)
(* or the reason there is none.                                            *)
(***************************************************************************)
EXTENDS LegacyTables, SseTables, FpuTables, CryptoTables

\* Opcodes that do not exist in 64-bit mode.
GoneIn64 ==
  {x(0,6), x(0,7), x(0,E), x(1,6), x(1,7), x(1,E), x(1,F), x(2,7), x(2,F), x(3,7), x(3,F)}
    \cup {x(6,0), x(6,1), x(8,2), x(C,E), x(D,4), x(D,5), x(D,6)}

\* The per-opcode corrections of map 0, made before the groups.  In 64-bit
\* mode 9C and 9D become PUSHFQ and POPFQ, names that no later step tests.
Fix0(op, row, modrm, fx) ==
  CASE fx.is64 /\ op \in GoneIn64 -> Refuse("INVALID")
    [] fx.is64 /\ op \in {x(6,2), x(C,4), x(C,5)} -> Refuse("UNSUPPORTED")
    [] ~fx.is64 /\ op \in {x(C,4), x(C,5)} /\ ModOf(modrm) = 3 -> Refuse("INVALID")
    [] ~fx.is64 /\ op = x(6,3) -> Found("INSN", <<"GPR16_OR_MEM", "GPR16_REG">>)
    [] op = x(8,F) /\ RegOf(modrm) # 0 -> Refuse(IF fx.is64 THEN "UNSUPPORTED" ELSE "INVALID")
    [] op = x(9,0) /\ fx.f3 -> Found("PAUSE", <<>>)
    [] op = x(9,0) /\ ~fx.f3 /\ ~fx.rexB -> Found("INSN", <<>>)
    [] fx.is64 /\ op \in {x(9,C), x(9,D)} -> Found("INSN", <<>>)
    [] OTHER -> Found(row.mn, row.shapes)

\* The per-opcode corrections of map 1.
Fix1(op, row, modrm, fx) ==
  CASE fx.is64 /\ op \in {x(A,0), x(A,1), x(A,8), x(A,9)} -> Refuse("INVALID")
    [] op = x(1,E) /\ fx.f3 ->
         CASE modrm \in {x(F,A), x(F,B)} -> Found("INSN", <<>>)
           [] modrm \in Cells(C, 8..F) -> Found("INSN", <<"GPR_RM">>)
           [] OTHER -> Refuse("INVALID")
    [] op = x(B,8) /\ ~fx.f3 -> Refuse("INVALID")
    [] OTHER -> Found(row.mn, row.shapes)

\* Groups 1-5, 11 and 6, chosen by ModRM.reg.
ByteForm(op)  == op \in {x(8,0), x(8,2), x(C,0), x(D,0), x(D,2)}
Operand(op)   == IF ByteForm(op) THEN "GPR8_OR_MEM" ELSE "GPR_OR_MEM"
SmallGroup(g, op, reg) ==
  CASE g = "G1" -> Found("INSN", <<Operand(op), IF op = x(8,1) THEN "IMM_VS" ELSE "IMM8">>)
    [] g = "G2" -> Found("INSN", <<Operand(op), CASE op \in {x(C,0), x(C,1)} -> "IMM8"
                                                  [] op \in {x(D,0), x(D,1)} -> "IMM_ONE"
                                                  [] OTHER -> "FIXED_GPR8">>)
    [] g = "G3B" -> Found("INSN", IF reg < 2 THEN <<"GPR8_OR_MEM", "IMM8">> ELSE <<"GPR8_OR_MEM">>)
    [] g = "G3V" -> Found("INSN", IF reg < 2 THEN <<"GPR_OR_MEM", "IMM_VS">> ELSE <<"GPR_OR_MEM">>)
    [] g = "G4" /\ reg < 2 -> Found("INSN", <<"GPR8_OR_MEM">>)
    [] g = "G5" /\ reg # 7 ->
         IF reg \in {3, 5} THEN Refuse("UNSUPPORTED")
         ELSE Found(CASE reg = 2 -> "CALL" [] reg = 4 -> "JMP" [] reg = 6 -> "PUSH" [] OTHER -> "INSN",
                    <<"GPR_OR_MEM">>)
    [] g = "G11B" /\ reg = 0 -> Found("INSN", <<"GPR8_OR_MEM", "IMM8">>)
    [] g = "G11V" /\ reg = 0 -> Found("INSN", <<"GPR_OR_MEM", "IMM_VS">>)
    [] g = "G6" /\ reg < 2 -> Found("INSN", <<"GPR_OR_MEM16">>)
    [] g = "G6" /\ reg \in 2..5 -> Found("INSN", <<"GPR16_OR_MEM">>)
    [] OTHER -> Refuse("INVALID")

\* Group 7 (0F 01): at mod 3 every ModRM byte is an instruction of its own.
Group7(modrm, fx) ==
  LET reg == RegOf(modrm)
  IN CASE modrm = x(3,A) /\ fx.f3 -> Found("INSN", <<>>)
       [] ModOf(modrm) = 3 /\ reg \in {4, 6} -> Found("INSN", <<"GPR_OR_MEM16">>)
       [] ModOf(modrm) = 3 /\ modrm \in {x(D,8), x(D,A), x(D,B), x(F,C)} -> Found("INSN", <<"IMPLICIT_GPR">>)
       [] modrm = x(D,E) -> Found("INSN", <<"IMPLICIT_GPR32">>)
       [] modrm = x(D,F) -> Found("INSN", <<"IMPLICIT_GPR", "IMPLICIT_GPR32">>)
       [] modrm \in Cells(C, (0..6) \cup {8, 9, F}) \cup Cells(D, {0, 1, 4, 7, 9, C, D})
            \cup {x(E,8)} \cup Cells(F, {8, 9, A, B, D}) -> Found("INSN", <<>>)
       [] modrm \in Cells(E, {A, C, D, E, F}) /\ fx.f3 -> Found("INSN", <<>>)
       [] ModOf(modrm) # 3 /\ ~(modrm = x(3,A) /\ fx.f3) ->
            CASE reg < 4 -> Found("INSN", <<"MEM_RM">>)
              [] reg \in {4, 6} -> Found("INSN", <<"GPR_OR_MEM16">>)
              [] reg = 5 /\ fx.f3 -> Found("INSN", <<"MEM64_RM">>)
              [] reg = 7 -> Found("INSN", <<"MEM8_RM">>)
              [] OTHER -> Refuse("INVALID")
       [] OTHER -> Refuse("INVALID")

\* Group 9 (0F C7): CMPXCHG8B, VMX pointers, RDRAND and friends.
Group9(modrm, fx) ==
  LET reg   == RegOf(modrm)
      plain == ~fx.p66 /\ ~fx.f3 /\ ~fx.f2
  IN CASE ModOf(modrm) # 3 /\ reg = 1 /\ plain -> Found("INSN", <<"MEM_RM">>)
       [] ModOf(modrm) # 3 /\ reg = 6 /\ (plain \/ (fx.p66 /\ ~fx.f3 /\ ~fx.f2) \/ fx.f3) ->
            Found("INSN", <<"MEM64_RM">>)
       [] ModOf(modrm) # 3 /\ reg = 7 /\ plain -> Found("INSN", <<"MEM64_RM">>)
       [] ModOf(modrm) = 3 /\ reg \in {6, 7} -> Found("INSN", <<"GPR_RM">>)
       [] OTHER -> Refuse("INVALID")

\* Group 15 (0F AE): FXSAVE and XSAVE, fences, shadow-stack operations.
Group15(modrm, fx) ==
  LET reg == RegOf(modrm)
  IN CASE fx.p66 /\ reg \in {6, 7} -> Refuse("UNSUPPORTED")
       [] ~fx.p66 /\ ModOf(modrm) # 3 /\ reg = 6 /\ fx.f3 -> Found("INSN", <<"MEM64_RM">>)
       [] ModOf(modrm) # 3 /\ ~(reg = 6 /\ fx.f3) /\ ~(fx.p66 /\ reg \in {6, 7}) ->
            Found("INSN", <<"MEM_RM">>)
       [] ModOf(modrm) = 3 /\ reg = 5 -> Found("INSN", IF fx.f3 THEN <<"GPR_RM">> ELSE <<>>)
       [] ModOf(modrm) = 3 /\ reg \in {6, 7} /\ ~fx.p66 /\ ~fx.f3 -> Found("INSN", <<>>)
       [] OTHER -> Refuse("INVALID")

\* Group 8, the prefetch and NOP groups, and 3DNow!, whose opcode is the
\* byte after the ModRM tail.
Opcodes3DNow ==
  Cells(0, {C, D}) \cup Cells(1, {C, D}) \cup Cells(8, {A, E}) \cup Cells(9, {0, 4, 6, 7, A, E})
    \cup Cells(A, {0, 4, 6, 7, A, E}) \cup Cells(B, {0, 4, 6, 7, B, F})
OtherGroup(g, reg, tail) ==
  CASE g = "G8" /\ reg >= 4 -> Found("INSN", <<"GPR_OR_MEM", "IMM8">>)
    [] g = "0F18" -> Found("INSN", IF reg < 4 THEN <<"MEM8_RM">> ELSE <<"GPR_OR_MEM">>)
    [] g = "0F0D" /\ reg < 2 -> Found("INSN", <<"MEM8_RM">>)
    [] g = "3DNOW" /\ tail \in Opcodes3DNow -> Found("INSN", Mm2)
    [] OTHER -> Refuse("INVALID")

ResolveGroup(g, op, modrm, tail, fx) ==
  CASE g \in {"G1", "G2", "G3B", "G3V", "G4", "G5", "G6", "G11B", "G11V"} -> SmallGroup(g, op, RegOf(modrm))
    [] g = "G7"  -> Group7(modrm, fx)
    [] g = "G9"  -> Group9(modrm, fx)
    [] g = "G15" -> Group15(modrm, fx)
    [] OTHER     -> OtherGroup(g, RegOf(modrm), tail)

\* The operands must be encodable with this mod: memory shapes below 3,
\* register shapes at 3, and a segment register must exist.
\* Mutant: forgets the memory shapes.
ModAllowsRegs(shapes, modrm) ==
  \A i \in DOMAIN shapes : /\ shapes[i] \in RegShapes \cup {"CREG_REG", "DREG_REG"} => ModOf(modrm) = 3
                           /\ shapes[i] = "SEG_REG" => RegOf(modrm) <= 5
ModAllows(shapes, modrm) ==
  \A i \in DOMAIN shapes :
    /\ shapes[i] \in MemShapes => ModOf(modrm) # 3
    /\ shapes[i] \in RegShapes \cup {"CREG_REG", "DREG_REG"} => ModOf(modrm) = 3
    /\ shapes[i] = "SEG_REG" => RegOf(modrm) <= 5

\* Opcodes without a row: far CALL and JMP and everything from D8 on are
\* known but not decoded, the rest of map 0 does not exist; in map 1 the SSE
\* tables have the last word.
NoBaseRow(map, op, modrm, fx) ==
  IF map = 0
  THEN Refuse(IF op \in {x(9,A), x(E,A)} \/ op >= x(D,8) THEN "UNSUPPORTED" ELSE "INVALID")
  ELSE IF op \in {x(2,4), x(2,6)} THEN Refuse("INVALID") ELSE ResolveSse(op, modrm, fx)

ResolveEntry(map, op, modrm, tail, fx) ==
  LET row    == IF map = 0 THEN Map0[op] ELSE Map1[op]
      fixed  == IF map = 0 THEN Fix0(op, row, modrm, fx) ELSE Fix1(op, row, modrm, fx)
      r == IF row.group = "NONE" THEN fixed ELSE ResolveGroup(row.group, op, modrm, tail, fx)
  IN  CASE row.mn = "NONE" /\ row.group = "NONE" -> NoBaseRow(map, op, modrm, fx)
        [] row.group # "NONE" /\ fixed.status # "OK" -> fixed
        [] row.group = "FPU" -> ResolveFpu(op, modrm)
        [] row.group = "SSE" -> ResolveSse(op, modrm, fx)
        [] OTHER ->
             IF /\ r.status = "OK" /\ row.modrm
                /\ ~(map = 1 /\ op \in Cells(2, 0..3))
                /\ ~ModAllows(r.shapes, modrm)
             THEN Refuse("INVALID") ELSE r
=============================================================================
