------------------------------ MODULE Operands ------------------------------
(***************************************************************************)
(* x86dec_decode_operands (src/decode/operands.c), and the two ways to     *)
(* reach it: x86dec_decode_full (src/decode/decoder.c), which calls        *)
(* x86dec_decode_insn on a context of its own and goes on only when that   *)
(* returned OK, and a caller that makes the two calls itself and does not  *)
(* look at the first verdict.  One action builds one operand.              *)
(*                                                                         *)
(* The decoder leaves out the values of displacements and immediates; they *)
(* are read here from the bytes of the buffer it took them from.  Sizes of *)
(* vector registers and vector memory depend on mnemonics the tables of    *)
(* this project do not tell apart; they are Unsized.                       *)
(***************************************************************************)
EXTENDS DecoderProperties, Registers, Words

CONSTANT Calls   \* how a caller may call: [full, hasArray, capacity]

Call == [full : BOOLEAN, hasArray : BOOLEAN, capacity : 0..10]
ASSUME CallsAssumption == Calls \subseteq Call

Unsized == 0
NoMem == [base |-> REG_NONE, index |-> REG_NONE, scale |-> 0, disp |-> ZeroWord, hasDisp |-> FALSE,
          segment |-> REG_NONE]
\* X86decOperand; the fields a type does not have are zero here.
Make(type, size) ==
  [type |-> type, size |-> size, reg |-> REG_NONE, mem |-> NoMem, imm |-> ZeroWord, relative |-> FALSE]
RegOperand(reg, size)    == [Make("REG", size) EXCEPT !.reg = reg]
MemOperand(mem, size)    == [Make("MEM", size) EXCEPT !.mem = mem]
ImmOperand(value, size)  == [Make("IMM", size) EXCEPT !.imm = value]
RelOperand(value, size)  == [ImmOperand(value, size) EXCEPT !.relative = TRUE]
\* What the caller's array holds before the call.
Untouched == Make("CALLER", Unsized)

VARIABLES
  args,     \* the call: through decode_full or not, an array or none, operand_count
  stage,    \* "call", "decode", "check", "build", "returned"
  slots,    \* the caller's operand array
  i,        \* the operand to build next
  immOff,   \* how many immediate bytes are used up
  verdict   \* what the caller gets back
fullVars == <<vars, args, stage, slots, i, immOff, verdict>>

ctx   == context
Count == Len(ctx.entry.shapes)

---------------------------------------------------------------------------
\* The register numbers of the encoding

RexBit(weight) == ctx.raw.hasRex /\ BitSet(ctx.raw.rex, weight)
Extended(low, bit) == IF bit THEN low + 8 ELSE low
RegBit == IF ctx.isVex THEN ctx.vex.r = 1 ELSE RexBit(4)
IdxBit == IF ctx.isVex THEN ctx.vex.x = 1 ELSE RexBit(2)
RmBit  == IF ctx.isVex THEN ctx.vex.b = 1 ELSE RexBit(1)
regf  == Extended(RegOf(ctx.raw.modrm), RegBit)
rmf   == Extended(RmOf(ctx.raw.modrm), RmBit)
opf   == Extended(insn.opcode % 8, RexBit(1))
mod   == ModOf(ctx.raw.modrm)
\* The files of eight registers have no use for the extension.
Low8(n) == n % 8
slot    == eosz_slot(ctx.eosz)
AddressSlot == eosz_slot(ctx.easz)
wide  == ctx.vex.l = 1

\* A move to or from a control or debug register is 64 bits wide.
cr64 == Is64 /\ ~ctx.isVex /\ insn.map = 1 /\ insn.opcode \in Cells(2, 0..3)

\* Mnemonics the builder tests, known by their encoding: BSWAP, RDPID (F3 is
\* no longer a repeat prefix by now, but still among the bytes).
IsBswap == insn.map = 1 /\ insn.opcode \in Cells(C, 8..F)
IsRdpid == /\ insn.map = 1 /\ insn.opcode = x(C,7) /\ RegOf(ctx.raw.modrm) = 7
           /\ \E p \in 1..ctx.raw.count : buf[p] = x(F,3)

\* The registers the tables fix (X86decEntry.fixed).
FixedGpr8  == IF \/ insn.map = 0 /\ insn.opcode \in Cells(D, 2..3)
                 \/ insn.map = 1 /\ insn.opcode \in Cells(A, {5, D}) THEN 1 ELSE 0
FixedGpr16 == IF insn.opcode = x(D,F) THEN 0 ELSE 2
FixedSeg   == IF insn.map = 0 THEN insn.opcode \div 8 ELSE 4 + (insn.opcode % 16) \div 8

---------------------------------------------------------------------------
\* Memory operands

\* The effective-address registers of 16-bit addressing, by rm.
Base16  == <<3, 3, 5, 5, 6, 7, 5, 3>>
Index16 == <<6, 7, 6, 7>>

\* With 67 in 64-bit mode the base of a RIP-relative address stays RIP.
MemBase ==
  LET rm == RmOf(ctx.raw.modrm)
      s  == AddressSlot
  IN  CASE ctx.easz = 16 -> IF mod = 0 /\ rm = 6 THEN REG_NONE ELSE gpr(Base16[rm + 1], 2)
        [] ctx.easz # 16 /\ rm = 4 ->
             IF mod = 0 /\ RmOf(ctx.raw.sib) = 5 THEN REG_NONE ELSE gpr(Extended(RmOf(ctx.raw.sib), RmBit), s)
        [] ctx.easz # 16 /\ rm = 5 /\ mod = 0 -> IF Is64 THEN RIP ELSE REG_NONE
        [] OTHER -> gpr(Extended(rm, RmBit), s)

\* Index 4 means no index, whatever REX.X says.
\* Mutant: it means SP.
HasIndexAlways == TRUE
HasIndex == RegOf(ctx.raw.sib) # 4
MemIndex ==
  LET rm == RmOf(ctx.raw.modrm)
  IN  CASE ctx.easz = 16 /\ rm < 4 -> gpr(Index16[rm + 1], 2)
        [] ctx.easz # 16 /\ rm = 4 /\ HasIndex ->
             gpr(Extended(RegOf(ctx.raw.sib), IdxBit), AddressSlot)
        [] OTHER -> REG_NONE

SegmentOf(prefix) ==
  CASE prefix = x(2,6) -> ES [] prefix = x(2,E) -> CS [] prefix = x(3,6) -> SS
    [] prefix = x(3,E) -> DS [] prefix = x(6,4) -> FS [] prefix = x(6,5) -> GS
    [] OTHER -> REG_NONE
\* 64-bit mode ignores the overrides of CS, DS, ES and SS.
Overrides == insn.raw.segment # 0 /\ (Is64 => SegmentOf(insn.raw.segment) \in {FS, GS})
DefaultSegment(base) ==
  IF base \in {gpr(4, AddressSlot), gpr(5, AddressSlot)} THEN SS ELSE DS
SegmentFor(base) == IF Overrides THEN SegmentOf(insn.raw.segment) ELSE DefaultSegment(base)

\* The displacement follows ModRM and SIB, the memory offset ends the
\* instruction.  Mutant: forgets the SIB byte.
DispBytesNoSib == SubSeq(buf, ctx.raw.modrmOffset + 2, ctx.raw.modrmOffset + 1 + ctx.raw.dispSize)
DispBytes == LET at == ctx.raw.modrmOffset + 1 + OneIf(ctx.raw.hasSib)
             IN  SubSeq(buf, at + 1, at + ctx.raw.dispSize)
MoffsBytes == SubSeq(buf, ctx.length - ctx.easz \div 8 + 1, ctx.length)

\* build_mem.  A scale without an index is dropped; 16-bit pairs have scale 1.
build_mem ==
  [base |-> MemBase, index |-> MemIndex,
   scale |-> IF MemIndex = REG_NONE THEN 0 ELSE IF ctx.easz = 16 THEN 1 ELSE 2 ^ ModOf(ctx.raw.sib),
   disp |-> SignExtended(DispBytes), hasDisp |-> ctx.raw.dispSize # 0,
   segment |-> SegmentFor(MemBase)]

\* mem_size, by encoding instead of mnemonic.
mem_size ==
  LET reg == RegOf(ctx.raw.modrm)
      on(m, ops) == insn.map = m /\ insn.opcode \in ops
  IN  CASE on(1, {x(0,1)}) -> IF Is64 THEN 80 ELSE 48
        [] on(1, {x(A,E)}) -> CASE reg \in {2, 3} -> 32 [] reg = 7 -> 512 [] OTHER -> 4096
        [] on(0, {x(D,9)}) -> IF ctx.eosz = 16 THEN 112 ELSE 224
        [] on(0, {x(D,D)}) -> IF ctx.eosz = 16 THEN 752 ELSE 864
        [] on(0, Cells(C, 4..5)) \/ on(1, Cells(B, {2, 4, 5})) -> IF ctx.eosz = 16 THEN 32 ELSE 48
        [] on(0, {x(6,2)}) -> 2 * ctx.eosz
        [] on(0, {x(8,D)}) -> ctx.easz
        [] on(1, {x(C,7)}) -> IF ctx.eosz = 64 THEN 128 ELSE 64
        [] OTHER -> ctx.eosz

---------------------------------------------------------------------------
\* Immediates: take_imm gives the next n bytes of the immediate field, and
\* zeros behind its end.

ImmByte(n) == IF n <= ctx.raw.immSize THEN buf[ctx.length - ctx.raw.immSize + n] ELSE 0
\* Mutant: always the first ones.
take_immFirst(n) == [b \in 1..n |-> ImmByte(b)]
take_imm(n) == [b \in 1..n |-> ImmByte(immOff + b)]
VSize == IF ctx.eosz = 16 THEN 2 ELSE 4

ImmShapeOperand(shape) ==
  CASE shape = "IMM8"    -> ImmOperand(ZeroExtended(take_imm(1)), 8)
    [] shape = "IMM16"   -> ImmOperand(ZeroExtended(take_imm(2)), 16)
    [] shape = "IMM_V"   -> ImmOperand(ZeroExtended(take_imm(VSize)), 8 * VSize)
    [] shape = "IMM_V64" -> ImmOperand(ZeroExtended(take_imm(ctx.eosz \div 8)), ctx.eosz)
    [] shape = "IMM_VS"  -> ImmOperand(SignExtended(take_imm(VSize)), 8 * VSize)
    [] shape = "REL8"    -> RelOperand(SignExtended(take_imm(1)), 8)
    [] shape = "REL_V"   -> RelOperand(SignExtended(take_imm(VSize)), 8 * VSize)
    [] OTHER             -> ImmOperand(ZeroExtended(<<1>>), 8)
\* How far a shape moves imm_off.  Mutant: in bits.
TakenBits(shape) == IF shape \in {"IMM8", "REL8"} THEN 8 ELSE 0
Taken(shape) == CASE shape = "IMM_V64" -> ctx.eosz \div 8
                  [] shape \in {"IMM8", "REL8"} -> 1
                  [] shape = "IMM16" -> 2
                  [] shape \in {"IMM_V", "IMM_VS", "REL_V"} -> VSize
                  [] OTHER -> 0

\* A memory offset is eight bits wide when an operand is AL.
MoffsOperand ==
  MemOperand([NoMem EXCEPT !.disp = ZeroExtended(MoffsBytes), !.hasDisp = TRUE,
                           !.segment = IF Overrides THEN SegmentOf(insn.raw.segment) ELSE DS],
             IF \E j \in DOMAIN ctx.entry.shapes : ctx.entry.shapes[j] = "FIXED_GPR8" THEN 8 ELSE ctx.eosz)

---------------------------------------------------------------------------
\* One operand, by shape

Sized(size)    == gpr(rmf, eosz_slot(size))
\* A general register or memory of the same width.
OrMem(reg, regSize, memSize) ==
  IF mod = 3 THEN RegOperand(reg, regSize) ELSE MemOperand(build_mem, memSize)
VexSize == IF ctx.vex.w = 1 THEN 64 ELSE 32
OpSize  == IF ctx.isVex THEN VexSize ELSE ctx.eosz

GprOperand(shape) ==
  CASE shape = "GPR_REG" -> LET size == IF cr64 THEN 64 ELSE OpSize
                            IN  RegOperand(gpr(regf, eosz_slot(size)), size)
    [] shape = "GPR_RM" -> LET size == IF cr64 \/ (Is64 /\ IsRdpid /\ ctx.eosz # 16) THEN 64 ELSE OpSize
                           IN  RegOperand(Sized(size), size)
    [] shape = "GPR_OR_MEM"    -> OrMem(Sized(OpSize), OpSize, OpSize)
    [] shape = "GPR_OR_MEM16"  -> OrMem(gpr(rmf, slot), ctx.eosz, 16)
    [] shape = "GPR8_REG"      -> RegOperand(gpr8(regf, ctx.raw.hasRex), 8)
    [] shape = "GPR8_RM"       -> RegOperand(gpr8(rmf, ctx.raw.hasRex), 8)
    [] shape = "GPR8_OR_MEM"   -> OrMem(gpr8(rmf, ctx.raw.hasRex), 8, 8)
    [] shape = "GPR16_REG"     -> RegOperand(gpr(regf, 2), 16)
    [] shape = "GPR16_OR_MEM"  -> OrMem(gpr(rmf, 2), 16, 16)
    [] shape = "R32_REG"       -> RegOperand(gpr(regf, 1), 32)
    [] shape = "R32_OR_MEM"    -> OrMem(gpr(rmf, 1), 32, 32)
    [] shape = "R32_OR_MEM16"  -> OrMem(gpr(rmf, 1), 32, 16)
    [] shape = "REG_OPCODE"    -> LET size == IF IsBswap /\ ctx.eosz = 16 THEN 32 ELSE ctx.eosz
                                  IN  RegOperand(gpr(opf, eosz_slot(size)), size)
    [] shape = "REG8_OPCODE"   -> RegOperand(gpr8(opf, ctx.raw.hasRex), 8)
    [] OTHER -> RegOperand(gpr(ctx.vex.vvvv, eosz_slot(VexSize)), VexSize)
GprShape ==
  {"GPR_REG", "GPR_RM", "GPR_OR_MEM", "GPR_OR_MEM16", "GPR8_REG", "GPR8_RM", "GPR8_OR_MEM", "GPR16_REG",
   "GPR16_OR_MEM", "R32_REG", "R32_OR_MEM", "R32_OR_MEM16", "REG_OPCODE", "REG8_OPCODE", "VEX_VVVV_GPR"}

\* The registers a table row names; INVLPGA's second operand is ECX.
FixedOperand(shape) ==
  CASE shape = "FIXED_GPR"   -> RegOperand(gpr(0, slot), ctx.eosz)
    [] shape = "FIXED_GPR8"  -> RegOperand(gpr8(FixedGpr8, ctx.raw.hasRex), 8)
    [] shape = "FIXED_GPR16" -> RegOperand(gpr(FixedGpr16, 2), 16)
    [] shape = "FIXED_SEG"   -> RegOperand(ES + FixedSeg, 16)
    [] shape = "IMPLICIT_GPR" -> IF Is64 THEN RegOperand(RAX, 64) ELSE RegOperand(gpr(0, slot), ctx.eosz)
    [] shape = "IMPLICIT_GPR32" -> RegOperand(gpr(i - 1, 1), 32)
    [] shape = "IMPLICIT_XMM0"  -> RegOperand(XMM0, 128)
    [] OTHER -> RegOperand(ST0, 80)

\* Segment, control, debug and x87 registers.  ES + reg is not limited to the
\* six segment registers there are.
SystemOperand(shape) ==
  CASE shape = "SEG_REG"  -> RegOperand(ES + regf, 16)
    [] shape = "CREG_REG" -> RegOperand(CR0 + regf, IF cr64 THEN 64 ELSE ctx.eosz)
    [] shape = "DREG_REG" -> RegOperand(DR0 + Low8(regf), IF cr64 THEN 64 ELSE ctx.eosz)
    [] OTHER -> RegOperand(ST0 + RmOf(ctx.raw.modrm), 80)

\* VEX.L picks the YMM registers; the two 128-bit halves of a YMM register
\* that VINSERTF128 and VEXTRACTF128 name are XMM registers.
Half   == ctx.vex.map = 3 /\ ctx.vex.op \in Cells(1, 8..9)
Vector(n, ymm) == RegOperand((IF ymm THEN YMM0 ELSE XMM0) + n, IF ymm THEN 256 ELSE Unsized)
VectorOperand(shape) ==
  CASE shape \in {"MM_REG", "MM32"} -> RegOperand(MM0 + Low8(regf), Unsized)
    [] shape = "MM_RM"       -> RegOperand(MM0 + Low8(rmf), Unsized)
    [] shape = "MM_OR_MEM"   -> OrMem(MM0 + Low8(rmf), Unsized, 64)
    [] shape = "XMM_REG"     -> Vector(regf, ctx.isVex /\ wide)
    [] shape = "XMM_RM"      -> Vector(rmf, ctx.isVex /\ wide)
    [] shape = "XMM_OR_MEM"  -> IF mod = 3 THEN Vector(rmf, ctx.isVex /\ wide /\ ~Half)
                                ELSE MemOperand(build_mem, Unsized)
    [] shape \in {"XMM32", "XMM64"} -> Vector(regf, FALSE)
    [] shape \in {"YMM_REG", "YMM32", "YMM64"} -> Vector(regf, TRUE)
    [] shape = "YMM_RM"      -> Vector(rmf, TRUE)
    [] shape = "YMM_OR_MEM"  -> IF mod = 3 THEN Vector(rmf, TRUE) ELSE MemOperand(build_mem, Unsized)
    [] OTHER -> Vector(ctx.vex.vvvv, wide)
VectorShape ==
  {"MM_REG", "MM32", "MM_RM", "MM_OR_MEM", "XMM_REG", "XMM_RM", "XMM_OR_MEM", "XMM32", "XMM64", "YMM_REG",
   "YMM32", "YMM64", "YMM_RM", "YMM_OR_MEM", "VEX_VVVV"}

MemBits(shape) ==
  CASE shape = "MEM8_RM" -> 8 [] shape = "MEM16_RM" -> 16 [] shape = "MEM32_RM" -> 32
    [] shape = "MEM64_RM" -> 64 [] shape = "MEM80_RM" -> 80 [] OTHER -> mem_size

Built(shape) ==
  CASE shape \in GprShape    -> GprOperand(shape)
    [] shape \in VectorShape -> VectorOperand(shape)
    [] shape \in MemShapes   -> MemOperand(build_mem, MemBits(shape))
    [] shape = "MOFFS"       -> MoffsOperand
    [] shape \in (ImmShapes \ {"MOFFS"}) \cup {"IMM_ONE"} -> ImmShapeOperand(shape)
    [] shape \in {"SEG_REG", "CREG_REG", "DREG_REG", "ST_REG"} -> SystemOperand(shape)
    [] OTHER -> FixedOperand(shape)

---------------------------------------------------------------------------
\* The calls

FullInit ==
  /\ Init
  /\ args \in Calls
  /\ stage = "call" /\ i = 1 /\ immOff = 0 /\ verdict = "NONE"
  /\ slots = [s \in 1..args.capacity |-> Untouched]

Leave(v) == stage' = "returned" /\ verdict' = v

\* decode_full without an array but with a capacity decodes nothing.
RejectFull ==
  /\ stage = "call" /\ args.full /\ ~args.hasArray /\ args.capacity > 0
  /\ Leave("BAD_ARG")
  /\ UNCHANGED <<vars, args, slots, i, immOff>>
StartDecode ==
  /\ stage = "call" /\ (args.full => args.hasArray \/ args.capacity = 0)
  /\ stage' = "decode"
  /\ UNCHANGED <<vars, args, slots, i, immOff, verdict>>
DecodeStep ==
  /\ stage = "decode" /\ Next
  /\ UNCHANGED <<args, stage, slots, i, immOff, verdict>>

\* decode_full passes a failure on.  A caller that does not look at the
\* verdict goes on, unless it never got a context (BAD_ARG).
DecodeFails ==
  /\ stage = "decode" /\ pc = "done" /\ status # "OK" /\ (args.full \/ status = "BAD_ARG")
  /\ Leave(status)
  /\ UNCHANGED <<vars, args, slots, i, immOff>>
DecodeReturns ==
  /\ stage = "decode" /\ pc = "done" /\ (status = "OK" \/ (~args.full /\ status # "BAD_ARG"))
  /\ stage' = "check"
  /\ UNCHANGED <<vars, args, slots, i, immOff, verdict>>

\* The array must exist and have room for every operand.
\* Mutants: an array that is one too short will do; it must be one too long.
RoomButOne == args.capacity + 1 >= Count
RoomAndOne == args.capacity > Count
RoomForAll == args.capacity >= Count
Room == RoomForAll /\ (Count > 0 => args.hasArray)
RejectArray ==
  /\ stage = "check" /\ ~Room
  /\ Leave("BAD_ARG")
  /\ UNCHANGED <<vars, args, slots, i, immOff>>
StartBuild ==
  /\ stage = "check" /\ Room
  /\ stage' = "build"
  /\ UNCHANGED <<vars, args, slots, i, immOff, verdict>>

\* One turn of the loop over the shapes.  Mutant: stays on the same one.
BuildOperandAgain ==
  /\ stage = "build" /\ i <= Count
  /\ slots' = [slots EXCEPT ![i] = Built(ctx.entry.shapes[i])]
  /\ UNCHANGED <<vars, args, stage, i, immOff, verdict>>
BuildOperand ==
  /\ stage = "build" /\ i <= Count
  /\ slots' = [slots EXCEPT ![i] = Built(ctx.entry.shapes[i])]
  /\ immOff' = immOff + Taken(ctx.entry.shapes[i])
  /\ i' = i + 1
  /\ UNCHANGED <<vars, args, stage, verdict>>
FinishBuild ==
  /\ stage = "build" /\ i > Count
  /\ Leave("OK")
  /\ UNCHANGED <<vars, args, slots, i, immOff>>

FullNext ==
  \/ RejectFull \/ StartDecode \/ DecodeStep \/ DecodeFails \/ DecodeReturns
  \/ RejectArray \/ StartBuild \/ BuildOperand \/ FinishBuild
FullSpec == FullInit /\ [][FullNext]_fullVars /\ WF_fullVars(FullNext)
=============================================================================
