------------------------- MODULE OperandProperties -------------------------
(***************************************************************************)
(* What must hold of a call of x86dec_decode_full and of the two calls     *)
(* made one by one.                                                        *)
(***************************************************************************)
EXTENDS Operands

Seqs == INSTANCE SequencesExt

Stage == {"call", "decode", "check", "build", "returned"}
OperandSize == {0, 8, 16, 32, 48, 64, 80, 112, 128, 224, 256, 512, 752, 864, 4096}
Mem == [base : Register, index : Register, scale : {0, 1, 2, 4, 8}, disp : Word, hasDisp : BOOLEAN,
        segment : Segment \cup {REG_NONE}]
OperandRecord == [type : {"CALLER", "REG", "MEM", "IMM"}, size : OperandSize, reg : Register, mem : Mem,
             imm : Word, relative : BOOLEAN]

\* The call's own variables keep to their types: in particular every register
\* the builder computes is a value of the enumeration, and the immediate
\* offset never passes the immediate field.
FullTypeOK ==
  /\ args \in Calls /\ stage \in Stage
  /\ Len(slots) = args.capacity /\ \A s \in DOMAIN slots : slots[s] \in OperandRecord
  /\ i \in 1..Count + 1 /\ immOff \in 0..context.raw.immSize
  /\ verdict \in Verdict \cup {"NONE"}

IsBuilt(s)  == slots[s] # Untouched
Returned   == stage = "returned"
Delivered  == Returned /\ verdict = "OK"
Indices  == 1..Count
IsReg(op)  == op.type = "REG"

---------------------------------------------------------------------------
\* The calls

\* A call delivers every operand of the instruction or touches none: the array
\* is written exactly up to the operand count when the call returns OK, and
\* not at all when it fails, be it in the decoder or because the array is
\* missing or too short (operands.c:260-270, decoder.c:609-628).
AllOrNothing ==
  Returned => \A s \in 1..Max(Indices \cup DOMAIN slots \cup {0}) :
                IF verdict = "OK" /\ s \in Indices THEN s \in DOMAIN slots /\ IsBuilt(s)
                                                     ELSE s \in DOMAIN slots => ~IsBuilt(s)

\* The four operands the benches provide room for are always enough: with
\* them decode_full returns the verdict of the decoder.
FourSlotsSuffice ==
  Returned /\ args.full /\ args.hasArray /\ args.capacity >= 4 => verdict = status

\* A context that a failed call left behind yields no operands, whatever the
\* structure held before: the decoder clears it before it can fail.
FailedCallBuildsNothing == Returned /\ status # "OK" => \A s \in DOMAIN slots : ~IsBuilt(s)

\* Every call of decode_full and every pair of calls comes to an end.
FullReturns == <>Returned

---------------------------------------------------------------------------
\* The operands

\* The family a register operand must belong to, by shape and size.
GprFixed == {"FIXED_GPR", "FIXED_GPR8", "FIXED_GPR16", "IMPLICIT_GPR", "IMPLICIT_GPR32"}
MmxShape == {"MM_REG", "MM32", "MM_RM", "MM_OR_MEM"}
FamilyOf(shape) ==
  CASE shape \in GprShape \cup GprFixed -> Gpr
    [] shape \in MmxShape -> Mmx
    [] shape \in VectorShape \ MmxShape -> Xmm \cup Ymm
    [] shape = "IMPLICIT_XMM0" -> Xmm
    [] shape \in {"SEG_REG", "FIXED_SEG"} -> Segment
    [] shape = "CREG_REG" -> Control
    [] shape = "DREG_REG" -> Debug
    [] OTHER -> X87
RexR == raw.hasRex /\ BitSet(raw.rex, 4)
FamilyNamed(shape) == IF shape = "SEG_REG" /\ RexR THEN Control ELSE FamilyOf(shape)
InFamily(s) == IsReg(slots[s]) => slots[s].reg \in FamilyNamed(context.entry.shapes[s])

\* A register operand is of the family its shape names, however REX or VEX
\* extends its number, and a general register is as wide as the operand says.
\* A REX prefix, even 40, replaces the high bytes: AH to BH never appear
\* beside one.  Outside 64-bit mode no operand names what only that mode has:
\* registers 8 to 15, SPL to DIL, RIP or anything 64 bits wide.  SEG_REG is one
\* of the six segment registers exactly when REX.R is clear: the resolver has
\* refused reg 6 and 7, but REX.R is added to ES all the same (operands.c:444)
\* and leads to the control registers, which follow in the enumeration.
RegistersInFamily ==
  Delivered => \A s \in Indices :
    /\ InFamily(s)
    /\ IsReg(slots[s]) /\ slots[s].reg \in Gpr => BitsOf(slots[s].reg) = slots[s].size
    /\ raw.hasRex => slots[s].reg \notin High8
    /\ ~Is64 => {slots[s].reg, slots[s].mem.base, slots[s].mem.index} \cap LongOnly = {}

\* A memory operand has an address: registers of the address width or RIP, no
\* stack pointer as index, an index exactly when there is a scale, and when
\* there is neither register then a displacement.  16-bit addresses pair a
\* base BX or BP with an index SI or DI.
AddressFormed(m) ==
  LET addr(reg) == reg \in Gpr \ High8 /\ BitsOf(reg) = context.easz
  IN  /\ m.base \in {REG_NONE, RIP} \/ addr(m.base)
      /\ m.base = RIP => Is64 /\ m.index = REG_NONE /\ m.hasDisp
      /\ m.index # REG_NONE => addr(m.index) /\ m.index # gpr(4, eosz_slot(context.easz))
      /\ m.scale # 0 <=> m.index # REG_NONE
      /\ m.base = REG_NONE /\ m.index = REG_NONE => m.hasDisp
      /\ context.easz = 16 /\ m.index # REG_NONE =>
           m.base \in {gpr(3, 2), gpr(5, 2)} /\ m.index \in {gpr(6, 2), gpr(7, 2)}

\* Every memory operand is so formed.  In 64-bit mode an override of CS, DS,
\* ES or SS is ignored: the operand is in SS, DS, FS or GS, in FS or GS only
\* when such a prefix is the last one.
MemoryAddressed ==
  Delivered => \A s \in Indices : slots[s].type = "MEM" =>
    LET m == slots[s].mem
    IN  /\ AddressFormed(m)
        /\ Is64 => /\ m.segment \in {SS, DS, FS, GS}
                   /\ m.segment \in {FS, GS} <=> insn.raw.segment \in {x(6,4), x(6,5)}

\* The immediate operands of an accepted instruction tile its immediate field:
\* put one behind the other, their bytes are the last bytes of the instruction,
\* none twice and none left out.  (A caller that goes on after a failure gets
\* none, whatever immediate bytes the decoder had read when it failed.)
ImmBytesOf(s) ==
  IF slots[s].type = "IMM" /\ context.entry.shapes[s] # "IMM_ONE"
  THEN SubSeq(slots[s].imm, 1, slots[s].size \div 8) ELSE <<>>
ImmediatesTiled ==
  Delivered /\ status = "OK" => Seqs!FlattenSeq([s \in Indices |-> ImmBytesOf(s)])
                                   = SubSeq(buf, insn.length - raw.immSize + 1, insn.length)

\* An accepted instruction has at most one memory operand, and its
\* displacement, sign included, is what stands right before the immediates
\* or the opcode of 3DNow!, although the builder looks for it behind ModRM
\* and SIB.
DisplacementBeforeImmediates ==
  Delivered =>
    /\ Cardinality({s \in Indices : slots[s].type = "MEM"}) <= 1
    /\ \A s \in Indices : slots[s].type = "MEM" /\ context.raw.dispSize # 0 =>
         LET d == context.raw.dispSize
             e == insn.length - raw.immSize - OneIf(TailFollows)
         IN  /\ SubSeq(slots[s].mem.disp, 1, d) = SubSeq(buf, e - d + 1, e)
             /\ slots[s].mem.disp[8] = (IF buf[e] >= 128 THEN 255 ELSE 0)

---------------------------------------------------------------------------
\* What the documentation says

\* README.md:35: "registers (with REX/VEX extension), memory
\* (base+index*scale+disp ...)".  With REX.X the index field names register 8
\* to 15; only the unextended 4 means that there is no index.
ExtendedIndexKept ==
  Delivered => \A s \in Indices : slots[s].type = "MEM" /\ raw.hasSib /\ RexBit(2) =>
    slots[s].mem.index = gpr(8 + RegOf(raw.sib), eosz_slot(context.easz))

\* README.md:35: "immediates (sign-extended where the encoding requires it)".
\* The byte of 83 /r ib and 6B /r ib is sign-extended to the operand size.
ByteImmediatesSigned ==
  Delivered /\ form = "LEGACY" /\ map = 0 /\ opcode \in {x(6,B), x(8,3)} =>
    \A s \in Indices : slots[s].type = "IMM" =>
      slots[s].imm = SignExtended(SubSeq(buf, insn.length, insn.length))
=============================================================================
