------------------------------ MODULE FpuTables ------------------------------
(***************************************************************************)
(* The x87 escapes D8-DF (src/decode/table_fpu.c, table_fpu2.c): below mod *)
(* 3 the reg field picks a memory form, at mod 3 the whole ModRM byte      *)
(* picks a stack form.                                                     *)
(***************************************************************************)
EXTENDS Entries

None0  == Found("INSN", <<>>)
St     == Found("INSN", <<"ST_REG">>)
Pair   == Found("INSN", <<"FIXED_ST0", "ST_REG">>)
PairRev == Found("INSN", <<"ST_REG", "FIXED_ST0">>)

\* The memory form of each escape, by the reg field; "" where there is none.
FpuMem(escape) ==
  CASE escape \in {x(D,8), x(D,A)} -> [r \in 0..7 |-> "MEM32_RM"]
    [] escape = x(D,9) -> [r \in 0..7 |-> CASE r = 1 -> "" [] r \in {4, 6} -> "MEM_RM"
                                            [] r \in {5, 7} -> "MEM16_RM" [] OTHER -> "MEM32_RM"]
    [] escape = x(D,B) -> [r \in 0..7 |-> CASE r \in {4, 6} -> "" [] r \in {5, 7} -> "MEM80_RM"
                                            [] OTHER -> "MEM32_RM"]
    [] escape = x(D,C) -> [r \in 0..7 |-> "MEM64_RM"]
    [] escape = x(D,D) -> [r \in 0..7 |-> CASE r = 5 -> "" [] r \in {4, 6} -> "MEM_RM"
                                            [] r = 7 -> "MEM16_RM" [] OTHER -> "MEM64_RM"]
    [] escape = x(D,E) -> [r \in 0..7 |-> "MEM16_RM"]
    [] OTHER -> [r \in 0..7 |-> CASE r \in {4, 6} -> "MEM80_RM" [] r \in {5, 7} -> "MEM64_RM"
                                  [] OTHER -> "MEM16_RM"]

\* The stack forms (mod = 3) of D8-DB.
FpuLow(escape, m) ==
  CASE escape = x(D,8) -> IF RegOf(m) \in {2, 3} THEN St ELSE Pair
    [] escape = x(D,9) /\ m \in Line(C) \cup Cells(D, 8..F) -> St
    [] escape = x(D,9) /\ m \in {x(D,0)} \cup Cells(E, {0, 1, 4, 5} \cup 8..E) \cup Line(F) -> None0
    [] escape = x(D,A) /\ m \in Line(C) \cup Line(D) -> Pair
    [] escape = x(D,A) /\ m = x(E,9) -> None0
    [] escape = x(D,B) /\ m \in Line(C) \cup Line(D) \cup Cells(E, 8..F) \cup Cells(F, 0..7) -> Pair
    [] escape = x(D,B) /\ m \in Cells(E, 0..4) -> None0
    [] OTHER -> Refuse("INVALID")

\* The stack forms of DC-DF.
FpuHigh(escape, m) ==
  CASE escape = x(D,C) /\ m \in Line(C) -> PairRev
    [] escape = x(D,C) /\ m \in Line(D) -> St
    [] escape = x(D,D) /\ m \in Line(C) \cup Line(D) \cup Cells(E, 0..7) -> St
    [] escape = x(D,D) /\ m \in Cells(E, 8..F) -> Found("INSN", <<"IMPLICIT_ST0", "ST_REG">>)
    [] escape = x(D,E) /\ m \in Line(C) \cup Line(E) \cup Line(F) -> PairRev
    [] escape = x(D,E) /\ m = x(D,9) -> None0
    [] escape = x(D,E) /\ m \in Line(D) \ {x(D,9)} -> St
    [] escape = x(D,F) /\ m \in Cells(C, 0..7) \cup Cells(D, 0..7) -> St
    [] escape = x(D,F) /\ m \in Cells(E, 8..F) \cup Cells(F, 0..7) -> Pair
    [] escape = x(D,F) /\ m = x(E,0) -> Found("INSN", <<"FIXED_GPR16">>)
    [] OTHER -> Refuse("INVALID")

ResolveFpu(escape, modrm) ==
  IF ModOf(modrm) # 3
  THEN LET shape == FpuMem(escape)[RegOf(modrm)]
       IN  IF shape = "" THEN Refuse("INVALID") ELSE Found("INSN", <<shape>>)
  ELSE IF escape < x(D,C) THEN FpuLow(escape, modrm) ELSE FpuHigh(escape, modrm)
=============================================================================
