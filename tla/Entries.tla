------------------------------- MODULE Entries -------------------------------
(***************************************************************************)
(* What the opcode tables of x86dec say of an instruction (X86decEntry and *)
(* X86decSseVariant, src/decode/tables.h): its mnemonic and the shapes of  *)
(* its operands.  The tables hold 982 mnemonics; the decoder tests only a  *)
(* few of them, and those keep their names here.  Every other one is       *)
(* "INSN".  An entry's operands are the first `count` of the array         *)
(* `shapes`, here a sequence of that length.                               *)
(***************************************************************************)
EXTENDS Bytes

\* Operands that come from the ModRM byte: memory only, a register only
\* (mod = 3), or either; and the register of its reg field.
MemShapes == {"MEM_RM", "MEM8_RM", "MEM16_RM", "MEM32_RM", "MEM64_RM", "MEM80_RM"}
RegShapes == {"GPR_RM", "GPR8_RM", "XMM_RM", "XMM32", "XMM64", "MM32", "MM_RM"}
YmmRegShapes == {"YMM_RM", "YMM32", "YMM64"}
RmShapes ==
  {"GPR_OR_MEM", "GPR8_OR_MEM", "GPR16_OR_MEM", "GPR_OR_MEM16", "R32_OR_MEM",
   "R32_OR_MEM16", "MM_OR_MEM", "XMM_OR_MEM", "YMM_OR_MEM", "ST_REG"}
RegFieldShapes ==
  {"GPR_REG", "GPR8_REG", "GPR16_REG", "R32_REG", "SEG_REG", "CREG_REG",
   "DREG_REG", "MM_REG", "XMM_REG", "YMM_REG"}

\* Operands that come from bytes after the ModRM tail, from the opcode, from
\* VEX.vvvv, and those the encoding only implies.
ImmShapes == {"IMM8", "IMM16", "IMM_V", "IMM_V64", "IMM_VS", "REL8", "REL_V", "MOFFS"}
OpcodeShapes == {"REG_OPCODE", "REG8_OPCODE"}
VvvvShapes == {"VEX_VVVV", "VEX_VVVV_GPR"}
FixedShapes ==
  {"FIXED_GPR", "FIXED_GPR8", "FIXED_GPR16", "FIXED_SEG", "FIXED_ST0", "FIXED_ST",
   "IMM_ONE", "IMPLICIT_GPR", "IMPLICIT_GPR32", "IMPLICIT_ST0", "IMPLICIT_XMM0"}

\* The shapes whose operand is read out of the ModRM byte.
ModrmShapes == MemShapes \cup RegShapes \cup YmmRegShapes \cup RmShapes \cup RegFieldShapes
Shape == ModrmShapes \cup ImmShapes \cup OpcodeShapes \cup VvvvShapes \cup FixedShapes \cup {"NONE"}

\* The operands of an entry.  A memory offset goes with the accumulator only.
PlainShape  == Shape \ {"MOFFS"}
OffsetLists == {<<"FIXED_GPR8", "MOFFS">>, <<"FIXED_GPR", "MOFFS">>, <<"MOFFS", "FIXED_GPR8">>, <<"MOFFS", "FIXED_GPR">>}
OperandLists  == Seq(PlainShape) \cup OffsetLists

\* The mnemonics the decode path tests.  "MOVMEM" stands for the SSE moves
\* that have no register form (MOVLPS ... LDDQU), "VMOVNT" and "V256" for
\* the VEX stores that need memory and the operations that need VEX.L = 1.
StackMnemonic == {"PUSH", "POP", "PUSHF", "POPF", "CALL", "JMP", "RET", "ENTER", "LEAVE"}
Mnemonic ==
  StackMnemonic \cup {"NONE", "INSN", "MOVQ", "PAUSE", "MOVMEM", "VMOVNT", "V256"}

Verdict == {"OK", "NEED_MORE", "INVALID", "UNSUPPORTED", "BAD_ARG"}

\* What a resolver returns: a status and, when it is OK, the entry it filled.
Resolution == [status : {"OK", "INVALID", "UNSUPPORTED"}, mn : Mnemonic, shapes : OperandLists]
Found(mn, shapes) == [status |-> "OK", mn |-> mn, shapes |-> shapes]
Refuse(status)    == [status |-> status, mn |-> "NONE", shapes |-> <<>>]

\* The value of each prefix and mode flag a resolver sees (enum x86dec_fx_e).
Fx == [is64 : BOOLEAN, eosz : {16, 32, 64}, easz : {16, 32, 64},
       f3 : BOOLEAN, f2 : BOOLEAN, p66 : BOOLEAN, rexW : BOOLEAN, rexB : BOOLEAN]

\* The mandatory-prefix column of an SSE row: F3 wins over F2, F2 over 66.
PrefixColumn(fx) ==
  CASE fx.f3  -> "F3"
    [] ~fx.f3 /\ fx.f2 -> "F2"
    [] ~fx.f3 /\ ~fx.f2 /\ fx.p66 -> "66"
    [] OTHER  -> "NP"

\* A column of an SSE or VEX row; scalar says that the entry's mem_bits is 32
\* or 64, which is all the decoder tests of it.
Variant(mn, shapes) == [mn |-> mn, shapes |-> shapes, scalar |-> FALSE]
VariantRow == [mn : Mnemonic, shapes : Seq(PlainShape), scalar : BOOLEAN]
Scalar(v) == [v EXCEPT !.scalar = TRUE]
NoVariant == Variant("NONE", <<>>)

\* The verdict of a row's column: an empty column is an invalid encoding.
Pick(v) == IF v.mn = "NONE" THEN Refuse("INVALID") ELSE Found(v.mn, v.shapes)
=============================================================================
