---------------------------- MODULE OperandProofs ----------------------------
(***************************************************************************)
(* What x86dec_decode_operands makes of an accepted instruction, for every *)
(* buffer and every initialised decoder: from the bytes and the entry the  *)
(* decoder hands over to each operand, shape by shape.                     *)
(***************************************************************************)
EXTENDS OperandProperties, DecoderProofs, SequenceTheorems

\* The context is the caller's until the call starts, zero while it runs, and
\* zero after every failure behind the check of the arguments.
Cleared ==
  /\ pc # "done" => status = "NONE"
  /\ pc \notin {"call", "done"} \/ (pc = "done" /\ status \notin {"OK", "BAD_ARG"}) => context = ZeroContext

---------------------------------------------------------------------------
\* The decoder inside the call

LEMMA InitFull == ASSUME FullInit PROVE Init
BY DEF FullInit

LEMMA StepFull == ASSUME [FullNext]_fullVars PROVE [Next]_vars
BY DEF FullNext, fullVars, RejectFull, StartDecode, DecodeStep, DecodeFails, DecodeReturns, RejectArray,
       StartBuild, BuildOperand, FinishBuild

\* The tail has a SIB byte exactly when ModRM announces one, and a displacement
\* of the size both ask for.
TailSized ==
  /\ pc = "sib" => SibFollows(raw.modrm, easz)
  /\ (pc \in {"disp", "tail", "resolve"} \/ Settled) /\ raw.hasModrm =>
       /\ raw.hasSib <=> SibFollows(raw.modrm, easz)
       /\ raw.dispSize = DispSize(raw.modrm, RmOf(IF raw.hasSib THEN raw.sib ELSE raw.modrm), easz)

LEMMA InitSized == ASSUME Init PROVE TailSized
BY DEF Init, TailSized, Settled, Accepted

LEMMA StepSized == ASSUME IndInv, LengthInv, TailSized, [Next]_vars PROVE TailSized'
<1>t. raw \in Raw /\ pc \in PcSet
  BY DEF IndInv, TypeOK
<1>s. /\ pc \in OpeningPcs \cup OpcodePcs \cup {"synth", "modrm"} => ~raw.hasModrm /\ ~raw.hasSib
      /\ pc = "sib" => ~raw.hasSib
  BY DEF LengthInv, Unread, OpeningPcs, OpcodePcs, UnreadModrm, UnreadSib
<1> USE DEF TailSized, Settled, Accepted, input, work
<1>1. CASE RejectArgs \/ Begin \/ EndPrefixes \/ TakePrefix \/ TakeRex \/ NoRex
  BY <1>1 DEF RejectArgs, Begin, EndPrefixes, TakePrefix, TakeRex, NoRex, Return
<1>2. CASE TakeOpcode \/ TakeEscape \/ TakeOpcode3
  BY <1>2 DEF TakeOpcode, TakeEscape, TakeOpcode3
<1>3. CASE TakeModrm
  <2>1. /\ raw'.hasModrm /\ raw'.modrm = Next1 /\ ~raw'.hasSib /\ easz' = easz
        /\ pc' = (IF SibFollows(Next1, easz) THEN "sib" ELSE "disp")
        /\ raw'.dispSize = (IF SibFollows(Next1, easz) THEN 0 ELSE DispSize(Next1, RmOf(Next1), easz))
    BY <1>3, <1>t, <1>s DEF TakeModrm, Raw
  <2> QED BY <2>1
<1>4. CASE TakeSib
  <2>1. /\ raw'.hasModrm = raw.hasModrm /\ raw'.modrm = raw.modrm /\ raw'.hasSib /\ raw'.sib = Next1
        /\ easz' = easz /\ pc = "sib" /\ pc' = "disp" /\ raw'.dispSize = DispSize(raw.modrm, RmOf(Next1), easz)
    BY <1>4, <1>t DEF TakeSib, Raw
  <2> QED BY <2>1
<1>5. CASE TakeDisp \/ TakeTail \/ ResolveOk
  BY <1>5 DEF TakeDisp, TakeTail, ResolveOk
<1>6. CASE Promote \/ TakeOperand
  <2>1. /\ raw'.hasModrm = raw.hasModrm /\ raw'.modrm = raw.modrm /\ raw'.hasSib = raw.hasSib
        /\ raw'.sib = raw.sib /\ raw'.dispSize = raw.dispSize /\ easz' = easz
        /\ pc \in {"promote", "operands"} /\ pc' = "operands"
    BY <1>6, <1>t DEF Promote, TakeOperand, Raw
  <2> QED BY <2>1
<1>7. CASE Finish
  BY <1>7 DEF Finish, Return
<1>8. CASE RunOut \/ RejectSynth \/ ResolveFails \/ TooLong \/ DispatchEvex
  BY <1>8 DEF RunOut, RejectSynth, ResolveFails, TooLong, DispatchEvex, Fail, Return
<1>9. CASE DispatchVzeroall \/ DispatchVex \/ DispatchLegacy \/ AcceptSynth
  BY <1>9, <1>s DEF DispatchVzeroall, DispatchVex, DispatchLegacy, AcceptSynth, OpcodePcs, Return
<1>10. CASE UNCHANGED vars
  BY <1>10 DEF vars
<1> QED BY <1>1, <1>2, <1>3, <1>4, <1>5, <1>6, <1>7, <1>8, <1>9, <1>10 DEF Next, TakeField, Dispatch

\* A legacy entry of the one-byte map names a segment register only for an
\* opcode below 30; outside 64-bit mode a MOVQ has no general register.
RegisterFit ==
  form = "LEGACY" /\ Settled =>
    /\ map = 0 => opcode < 48 \/ NoSegment(entry.shapes)
    /\ ~Is64 /\ entry.mn = "MOVQ" => MmxOnly(entry.shapes)

LEMMA RegistersResolved ==
  ASSUME IndInv, Modes, pc = "resolve", form = "LEGACY", Resolved.status = "OK"
  PROVE  /\ map = 0 => opcode < 48 \/ NoSegment(Resolved.shapes)
         /\ ~Is64 /\ Resolved.mn = "MOVQ" => MmxOnly(Resolved.shapes)
<1>t. map \in 0..3 /\ opcode \in Byte /\ raw.modrm \in Byte
  BY DEF IndInv, TypeOK, Raw
<1>1. ~Is64 => ~Flags.rexW
  BY DEF Modes, Flags
<1>2. CASE map \in {0, 1}
  <2> DEFINE r == Resolved
             fx == Flags
  <2>1. r = ResolveEntry(map, opcode, raw.modrm, tail, fx) /\ r.status = "OK"
    BY <1>2 DEF Resolved
  <2> HIDE DEF r, fx
  <2>2. /\ map = 0 => opcode < 48 \/ NoSegment(r.shapes)
        /\ r.mn = "MOVQ" /\ ~fx.rexW => MmxOnly(r.shapes)
    BY <1>t, <1>2, <2>1, EntryQuiet
  <2> QED BY <1>1, <2>2 DEF r, fx
<1>3. CASE map >= 2
  <2> DEFINE fx == Flags
  <2>1. Resolved = ResolveCrypto(map, opcode, raw.modrm, fx)
    BY <1>3 DEF Resolved
  <2> HIDE DEF fx
  <2>2. Resolved.mn # "MOVQ"
    BY <2>1, NotMovqCrypto DEF NotMovq
  <2> QED BY <1>3, <2>2
<1> QED BY <1>t, <1>2, <1>3

LEMMA InitRegisters == ASSUME Init PROVE RegisterFit
BY DEF Init, RegisterFit, Settled, Accepted

LEMMA StepRegisters ==
  ASSUME IndInv, LengthInv, EntryInv, RegisterFit, [Next]_vars PROVE RegisterFit'
<1>t. raw \in Raw
  BY DEF IndInv, TypeOK
<1> USE DEF RegisterFit, Settled, Accepted, Is64, input, work
<1>1. CASE RejectArgs \/ Begin \/ EndPrefixes \/ TakePrefix \/ TakeRex \/ NoRex
  BY <1>1 DEF RejectArgs, Begin, EndPrefixes, TakePrefix, TakeRex, NoRex, Return
<1>2. CASE Later /\ ~Settled'
  BY <1>2
<1>3. CASE Later /\ Settled'
  <2>1. ResolveOk \/ (AcceptSynth /\ entry.shapes = <<>>) \/ Promote \/ TakeOperand \/ Finish
    BY <1>3, SettledBy
  <2>2. CASE ResolveOk
    <3>1. /\ pc = "resolve" /\ Resolved.status = "OK" /\ entry'.mn = Resolved.mn /\ entry'.shapes = Resolved.shapes
          /\ UNCHANGED <<decoder, map, opcode, form>>
      BY <2>2 DEF ResolveOk
    <3>2. form = "LEGACY" => /\ map = 0 => opcode < 48 \/ NoSegment(Resolved.shapes)
                             /\ ~Is64 /\ Resolved.mn = "MOVQ" => MmxOnly(Resolved.shapes)
      BY <3>1, RegistersResolved DEF EntryInv
    <3> HIDE DEF Resolved
    <3> QED BY <3>1, <3>2
  <2>3. CASE AcceptSynth
    BY <2>3 DEF AcceptSynth, LengthInv, Unread
  <2>4. CASE Promote \/ TakeOperand \/ Finish
    <3>1. pc \in {"promote", "operands"} /\ UNCHANGED <<decoder, map, opcode, form, entry>>
      BY <2>4 DEF Promote, TakeOperand, Finish
    <3> QED BY <3>1
  <2> QED BY <2>1, <2>2, <2>3, <2>4
<1>4. CASE UNCHANGED vars
  BY <1>4 DEF vars
<1> QED BY <1>1, <1>2, <1>3, <1>4, StepKinds

\* All that is known of a decoder holds of the one inside a call.
DecoderInv == IndInv /\ LengthInv /\ EntryInv /\ TailSized /\ RegisterFit /\ Cleared

LEMMA InitCleared == ASSUME Init PROVE Cleared
BY DEF Init, Cleared

LEMMA StepCleared == ASSUME IndInv, Cleared, [Next]_vars PROVE Cleared'
<1>t. pos \in Nat /\ Len(buf) \in Nat /\ pos <= Len(buf)
  BY DEF IndInv, TypeOK, CursorInv
<1> USE DEF Cleared, input, work
<1>1. CASE RejectArgs \/ Begin \/ EndPrefixes \/ TakePrefix \/ TakeRex \/ NoRex
  BY <1>1 DEF RejectArgs, Begin, EndPrefixes, TakePrefix, TakeRex, NoRex, Return
<1>2. CASE TakeField
  BY <1>2 DEF TakeField, TakeOpcode, TakeEscape, TakeOpcode3, TakeModrm, TakeSib, TakeDisp, TakeTail
<1>3. CASE RunOut
  <2>1. pc \notin {"call", "done"}
    BY <1>3, <1>t DEF RunOut, Wanted, Left
  <2> QED BY <1>3, <2>1 DEF RunOut, Return
<1>4. CASE Dispatch
  BY <1>4 DEF Dispatch, DispatchVzeroall, DispatchVex, DispatchEvex, DispatchLegacy, Return
<1>5. CASE RejectSynth \/ AcceptSynth \/ ResolveOk \/ ResolveFails
  BY <1>5 DEF RejectSynth, AcceptSynth, ResolveOk, ResolveFails, Fail, Return
<1>6. CASE Promote \/ TakeOperand \/ TooLong \/ Finish
  BY <1>6 DEF Promote, TakeOperand, TooLong, Finish, Fail, Return
<1>7. CASE UNCHANGED vars
  BY <1>7 DEF vars
<1> QED BY <1>1, <1>2, <1>3, <1>4, <1>5, <1>6, <1>7 DEF Next

\* The steps of a call, whether or not it ever ends; what a caller goes on
\* to do with the operands is built on these.
FullRun == FullInit /\ [][FullNext]_fullVars

LEMMA DecoderKept == FullRun => []DecoderInv
<1>1. FullInit => DecoderInv
  BY InitFull, InitIndInv, InitLength, InitEntry, InitSized, InitRegisters, InitCleared DEF DecoderInv
<1>2. DecoderInv /\ [FullNext]_fullVars => DecoderInv'
  BY StepFull, StepIndInv, StepLength, StepEntry, StepSized, StepRegisters, StepCleared DEF DecoderInv
<1> QED BY <1>1, <1>2, PTL DEF FullRun

---------------------------------------------------------------------------
\* The values an operand is made of

\* What the builder relies on when the decoder accepted.
Filled64 ==
  /\ ctx.eosz \in Width /\ ctx.easz \in Width /\ ctx.raw = raw /\ insn.raw = raw /\ raw \in Raw
  /\ ctx.isVex \in BOOLEAN /\ ctx.vex \in VexFields /\ insn.opcode \in Byte /\ insn.map \in 0..31
  /\ ctx.length = pos /\ pos \in Nat /\ pos <= Len(buf) /\ buf \in Seq(Byte)

LEMMA ContextFilled == ASSUME DecoderInv, Accepted PROVE Filled64
<1>1. /\ context.eosz = eosz /\ context.easz = easz /\ context.raw = raw /\ context.length = pos /\ insn.raw = raw
  BY DEF DecoderInv, EntryInv, Handed
<1>2. /\ eosz \in Width /\ easz \in Width /\ raw \in Raw /\ context \in Context /\ insn \in Insn
      /\ pos \in Nat /\ pos <= Len(buf) /\ buf \in Seq(Byte)
  BY DEF DecoderInv, IndInv, TypeOK, CursorInv
<1> QED BY <1>1, <1>2 DEF Filled64, ctx, Context, Insn

\* The register numbers have four bits, and three without an extension.
LEMMA FieldNumbers ==
  ASSUME Filled64
  PROVE  /\ RegOf(raw.modrm) \in 0..7 /\ RmOf(raw.modrm) \in 0..7 /\ ModOf(raw.modrm) \in 0..3
         /\ RegOf(raw.sib) \in 0..7 /\ RmOf(raw.sib) \in 0..7 /\ ModOf(raw.sib) \in 0..3
         /\ insn.opcode % 8 \in 0..7 /\ ctx.vex.vvvv \in 0..15 /\ insn.opcode \div 8 \in 0..31
         /\ ctx.eosz \div 8 \in {2, 4, 8} /\ ctx.easz \div 8 \in {2, 4, 8}
<1>1. \A b \in Byte : RegOf(b) \in 0..7 /\ RmOf(b) \in 0..7 /\ ModOf(b) \in 0..3 /\ b % 8 \in 0..7 /\ b \div 8 \in 0..31
  BY DEF RegOf, RmOf, ModOf, Byte
<1>2. raw.modrm \in Byte /\ raw.sib \in Byte /\ insn.opcode \in Byte /\ ctx.vex.vvvv \in 0..15
  BY DEF Filled64, Raw, VexFields
<1>3. ctx.eosz \div 8 \in {2, 4, 8} /\ ctx.easz \div 8 \in {2, 4, 8}
  <2>1. \A w \in {16, 32, 64} : w \div 8 \in {2, 4, 8}
    OBVIOUS
  <2> QED BY <2>1 DEF Filled64, Width
<1> QED BY <1>1, <1>2, <1>3

LEMMA Extensions ==
  ASSUME NEW low \in 0..7, NEW bit \in BOOLEAN
  PROVE  Extended(low, bit) \in 0..15 /\ (~bit => Extended(low, bit) = low)
BY DEF Extended

LEMMA Numbers ==
  ASSUME Filled64
  PROVE  /\ regf \in 0..15 /\ rmf \in 0..15 /\ opf \in 0..15 /\ mod \in 0..3
         /\ RegBit \in BOOLEAN /\ IdxBit \in BOOLEAN /\ RmBit \in BOOLEAN
         /\ Low8(regf) \in 0..7 /\ Low8(rmf) \in 0..7
<1>1. RegBit \in BOOLEAN /\ IdxBit \in BOOLEAN /\ RmBit \in BOOLEAN /\ RexBit(1) \in BOOLEAN
  BY DEF RegBit, IdxBit, RmBit, RexBit, BitSet, Filled64, Raw
<1>2. regf \in 0..15 /\ rmf \in 0..15 /\ opf \in 0..15 /\ mod \in 0..3
  BY <1>1, FieldNumbers, Extensions DEF regf, rmf, opf, mod, Filled64
<1>3. Low8(regf) \in 0..7 /\ Low8(rmf) \in 0..7
  BY <1>2 DEF Low8
<1> QED BY <1>1, <1>2, <1>3

\* General registers: every number and slot names one, of the slot's width.
LEMMA Slots64 ==
  /\ eosz_slot(64) = 0 /\ eosz_slot(32) = 1 /\ eosz_slot(16) = 2
  /\ \A size \in Width : eosz_slot(size) \in 0..2
BY DEF eosz_slot, Width

LEMMA GprNumbers ==
  ASSUME NEW n \in 0..15, NEW size \in Width
  PROVE  /\ gpr(n, eosz_slot(size)) \in Gpr \ High8 /\ BitsOf(gpr(n, eosz_slot(size))) = size
         /\ gpr(n, eosz_slot(size)) \in Register
         /\ gpr(n, eosz_slot(size)) \in LongOnly => n >= 8 \/ size = 64
<1> DEFINE g == gpr(n, eosz_slot(size))
<1>1. \/ size = 64 /\ g = 1 + n
      \/ size = 32 /\ g = 17 + n
      \/ size = 16 /\ g = 33 + n
  BY Slots64 DEF gpr, RAX, Width
<1> HIDE DEF g
<1>2. g \in Gpr \ High8 /\ BitsOf(g) = size /\ g \in Register
  BY <1>1 DEF Gpr, Gpr64, Gpr32, Gpr16, Gpr8, High8, RAX, EAX, AX, AL, AH, REG_IP, BitsOf, Register, REG_COUNT
<1>3. g \in LongOnly => n >= 8 \/ size = 64
  BY <1>1 DEF LongOnly, Second, Gpr64, RAX, EAX, AX, AL, RIP, CR0, XMM0, YMM0
<1> QED BY <1>2, <1>3 DEF g

LEMMA Gpr8Numbers ==
  ASSUME NEW n \in 0..15, NEW rex \in BOOLEAN
  PROVE  /\ gpr8(n, rex) \in Gpr /\ BitsOf(gpr8(n, rex)) = 8 /\ gpr8(n, rex) \in Register
         /\ rex => gpr8(n, rex) \notin High8
         /\ gpr8(n, rex) \in LongOnly => n >= 8 \/ rex
<1> DEFINE g == gpr8(n, rex)
<1>1. IF ~rex /\ n \in 4..7 THEN g = 61 + n ELSE g = 49 + n
  BY DEF gpr8, gpr, RAX, AH
<1> HIDE DEF g
<1>2. g \in Gpr /\ BitsOf(g) = 8 /\ g \in Register /\ (rex => g \notin High8)
  BY <1>1 DEF Gpr, Gpr64, Gpr32, Gpr16, Gpr8, High8, RAX, EAX, AX, AL, AH, REG_IP, BitsOf, Register, REG_COUNT
<1>3. g \in LongOnly => n >= 8 \/ rex
  BY <1>1 DEF LongOnly, Second, Gpr64, RAX, EAX, AX, AL, RIP, CR0, XMM0, YMM0
<1> QED BY <1>2, <1>3 DEF g

---------------------------------------------------------------------------
\* Words

LEMMA FilledWord == ASSUME NEW s \in Seq(Byte), NEW f \in Byte PROVE Filled(s, f) \in Word
BY DEF Filled, Word

LEMMA ExtendedWords ==
  /\ ZeroWord \in Word
  /\ \A s \in Seq(Byte) : ZeroExtended(s) \in Word /\ SignExtended(s) \in Word
<1>1. 0 \in Byte /\ 255 \in Byte
  BY DEF Byte
<1> QED BY <1>1, FilledWord DEF ZeroWord, Word, ZeroExtended, SignExtended

\* The bytes taken from the immediate field are bytes of the buffer, or zero.
LEMMA TakenBytes ==
  ASSUME Filled64, raw.immSize <= pos, immOff \in Nat, NEW n \in Nat PROVE take_imm(n) \in Seq(Byte)
<1>1. ASSUME NEW j \in Nat \ {0} PROVE ImmByte(j) \in Byte
  <2>1. CASE j <= raw.immSize
    <3>1. pos - raw.immSize + j \in 1..Len(buf)
      BY <2>1 DEF Filled64, Raw
    <3> QED BY <2>1, <3>1 DEF ImmByte, Filled64
  <2>2. CASE ~(j <= raw.immSize)
    BY <2>2 DEF ImmByte, Filled64, Byte
  <2> QED BY <2>1, <2>2
<1>2. \A b \in 1..n : ImmByte(immOff + b) \in Byte
  BY <1>1
<1> DEFINE e(b) == ImmByte(immOff + b)
<1>3. \A b \in 1..n : e(b) \in Byte
  BY <1>2
<1> HIDE DEF e
<1>4. [b \in 1..n |-> e(b)] \in Seq(Byte)
  BY <1>3, IsASeq
<1> QED BY <1>4 DEF e, take_imm

\* A piece of the buffer is a sequence of bytes.
LEMMA BufferBytes ==
  ASSUME buf \in Seq(Byte), NEW m \in Nat, NEW n \in Nat, m >= 1, n <= Len(buf)
  PROVE  SubSeq(buf, m, n) \in Seq(Byte)
<1>1. \A j \in m..n : buf[j] \in Byte
  BY ElementOfSeq
<1> QED BY <1>1, SubSeqProperties

---------------------------------------------------------------------------
\* The kinds of operands

LEMMA Kinds ==
  ASSUME NEW size \in OperandSize
  PROVE  /\ \A r \in Register : /\ RegOperand(r, size) \in OperandRecord /\ RegOperand(r, size).type = "REG"
                                /\ RegOperand(r, size).reg = r /\ RegOperand(r, size).size = size
                                /\ RegOperand(r, size).mem = NoMem
         /\ \A m \in Mem : /\ MemOperand(m, size) \in OperandRecord /\ MemOperand(m, size).type = "MEM"
                           /\ MemOperand(m, size).reg = REG_NONE /\ MemOperand(m, size).mem = m
         /\ \A w \in Word : /\ ImmOperand(w, size) \in OperandRecord /\ ImmOperand(w, size).type = "IMM"
                            /\ ImmOperand(w, size).reg = REG_NONE /\ ImmOperand(w, size).mem = NoMem
                            /\ RelOperand(w, size) \in OperandRecord /\ RelOperand(w, size).type = "IMM"
                            /\ RelOperand(w, size).reg = REG_NONE /\ RelOperand(w, size).mem = NoMem
<1>1. REG_NONE \in Register
  BY DEF REG_NONE, Register, REG_COUNT
<1>2. NoMem \in Mem
  BY <1>1, ExtendedWords DEF NoMem, Mem
<1> QED BY <1>1, <1>2, ExtendedWords DEF RegOperand, MemOperand, ImmOperand, RelOperand, Make, OperandRecord

\* What each operand guarantees: a register of a family, as wide as it says
\* and there in the mode; an address; an immediate.
RegGood(op, family) ==
  /\ op \in OperandRecord /\ op.type = "REG" /\ op.mem = NoMem
  /\ op.reg \in family
  /\ op.reg \in Gpr => BitsOf(op.reg) = op.size
  /\ raw.hasRex => op.reg \notin High8
  /\ ~Is64 => op.reg \notin LongOnly
MemGood(op) ==
  /\ op \in OperandRecord /\ op.type = "MEM" /\ op.reg = REG_NONE
  /\ AddressFormed(op.mem)
  /\ Is64 => /\ op.mem.segment \in {SS, DS, FS, GS}
             /\ op.mem.segment \in {FS, GS} <=> insn.raw.segment \in {x(6,4), x(6,5)}
  /\ ~Is64 => op.mem.base \notin LongOnly /\ op.mem.index \notin LongOnly
ImmGood(op) == op \in OperandRecord /\ op.type = "IMM" /\ op.reg = REG_NONE /\ op.mem = NoMem
OperandSound(op, shape) ==
  ImmGood(op) \/ MemGood(op) \/ RegGood(op, FamilyNamed(shape))

\* What is known of the sizes and the mode.
ModeSound ==
  /\ ~Is64 => ~raw.hasRex /\ ~ctx.isVex /\ ctx.easz # 64
  /\ ctx.isVex => ~raw.hasRex

LEMMA ImmsGood ==
  ASSUME Filled64, raw.immSize <= pos, immOff \in Nat, NEW shape PROVE ImmGood(ImmShapeOperand(shape))
<1>1. ctx.eosz \div 8 \in Nat /\ VSize \in {2, 4} /\ ctx.eosz \in OperandSize
  BY FieldNumbers DEF VSize, Filled64, Width, OperandSize
<1>2. <<1>> \in Seq(Byte)
  BY DEF Byte
<1>3. \A s \in Seq(Byte), size \in OperandSize :
        /\ ImmGood(ImmOperand(ZeroExtended(s), size)) /\ ImmGood(ImmOperand(SignExtended(s), size))
        /\ ImmGood(RelOperand(SignExtended(s), size))
  BY ExtendedWords, Kinds DEF ImmGood
<1>4. {8, 16, 8 * VSize} \subseteq OperandSize
  BY <1>1 DEF OperandSize
<1>5. /\ take_imm(1) \in Seq(Byte) /\ take_imm(2) \in Seq(Byte) /\ take_imm(VSize) \in Seq(Byte)
      /\ take_imm(ctx.eosz \div 8) \in Seq(Byte)
  BY <1>1, TakenBytes
<1> QED BY <1>1, <1>2, <1>3, <1>4, <1>5 DEF ImmShapeOperand

---------------------------------------------------------------------------
\* Memory operands

\* The displacement is inside the buffer, and there is one where the address
\* has no register.
MemKnown ==
  /\ raw.hasModrm
  /\ raw.modrmOffset + 1 + OneIf(raw.hasSib) + raw.dispSize <= pos
  /\ raw.hasSib <=> SibFollows(raw.modrm, ctx.easz)
  /\ raw.dispSize = DispSize(raw.modrm, RmOf(IF raw.hasSib THEN raw.sib ELSE raw.modrm), ctx.easz)

LEMMA MemFacts == ASSUME DecoderInv, Accepted, raw.hasModrm PROVE MemKnown
<1>1. ctx.easz = easz
  BY DEF DecoderInv, EntryInv, Handed, ctx
<1>2. raw.modrmOffset = raw.opcodeOffset + OpcodeBytes /\ raw.opcodeOffset = raw.count + OneIf(raw.hasRex)
  BY DEF DecoderInv, LengthInv, ModrmRead, Opening, OpeningPcs, Accepted
<1> DEFINE rex == OneIf(raw.hasRex)
           sib == OneIf(raw.hasSib)
           disp == raw.dispSize
           last == OneIf(TailFollows)
           off == OffsetBytes
<1>3. pos = raw.count + rex + OpcodeBytes + 1 + sib + disp + off + raw.immSize + last
  <2>1. pos = FieldBytes + last
    BY DEF DecoderInv, LengthInv, Ledger
  <2>2. OneIf(raw.hasModrm) = 1
    BY DEF OneIf
  <2> QED BY <2>1, <2>2 DEF FieldBytes, OffsetBytes
<1>4. /\ raw.count \in Nat /\ rex \in Nat /\ OpcodeBytes \in Nat /\ sib \in Nat /\ disp \in Nat /\ off \in Nat
      /\ raw.immSize \in Nat /\ last \in Nat
  BY FieldLimits, SizeWithinBudget DEF DecoderInv
<1>5. raw.modrmOffset + 1 + sib + disp <= pos
  <2> HIDE DEF rex, sib, disp, last, off
  <2> QED BY <1>2, <1>3, <1>4 DEF rex
<1> QED BY <1>1, <1>5 DEF DecoderInv, TailSized, Settled, MemKnown

LEMMA Scales == \A n \in 0..3 : 2 ^ n \in {1, 2, 4, 8}
<1>1. 2 ^ 0 = 1 /\ 2 ^ 1 = 2 /\ 2 ^ 2 = 4 /\ 2 ^ 3 = 8
  OBVIOUS
<1>2. \A n \in 0..3 : n = 0 \/ n = 1 \/ n = 2 \/ n = 3
  OBVIOUS
<1> QED BY <1>1, <1>2

\* The registers of an address, by the form of the ModRM byte.
LEMMA Bases ==
  ASSUME Filled64, ModeSound
  PROVE  /\ MemBase \in {REG_NONE, RIP} \/ (MemBase \in Gpr \ High8 /\ BitsOf(MemBase) = ctx.easz)
         /\ MemBase \in Register
         /\ ~Is64 => MemBase \notin LongOnly
         /\ MemBase = RIP => Is64 /\ ctx.easz # 16 /\ RmOf(raw.modrm) = 5 /\ mod = 0
         /\ MemBase = REG_NONE =>
              \/ ctx.easz = 16 /\ mod = 0 /\ RmOf(raw.modrm) = 6
              \/ ctx.easz # 16 /\ mod = 0 /\ RmOf(raw.modrm) = 4 /\ RmOf(raw.sib) = 5
              \/ ctx.easz # 16 /\ mod = 0 /\ RmOf(raw.modrm) = 5
         /\ ctx.easz = 16 /\ RmOf(raw.modrm) < 4 => MemBase \in {gpr(3, 2), gpr(5, 2)}
<1> DEFINE rm == RmOf(raw.modrm)
           b == RmOf(raw.sib)
           g(n) == gpr(n, AddressSlot)
<1>1. rm \in 0..7 /\ b \in 0..7 /\ ctx.easz \in Width /\ ctx.raw = raw /\ RmBit \in BOOLEAN
  BY FieldNumbers, Numbers DEF Filled64
<1>2. ~Is64 => ~RmBit /\ ctx.easz # 64
  BY <1>1 DEF ModeSound, RmBit, RexBit
<1>3. \A n \in 0..15 : /\ g(n) \in Gpr \ High8 /\ BitsOf(g(n)) = ctx.easz /\ g(n) \in Register
                       /\ g(n) \in LongOnly => n >= 8 \/ ctx.easz = 64
  BY <1>1, GprNumbers DEF AddressSlot
<1>4. REG_NONE \in Register /\ RIP \in Register /\ REG_NONE \notin LongOnly /\ REG_NONE \notin Gpr /\ RIP \notin Gpr
      /\ REG_NONE # RIP
  BY DEF REG_NONE, RIP, Register, REG_COUNT, LongOnly, Second, Gpr, Gpr64, Gpr32, Gpr16, Gpr8, High8, RAX, EAX, AX,
         AL, AH, REG_IP, CR0, XMM0, YMM0
<1>5. Extended(rm, RmBit) \in 0..15 /\ Extended(b, RmBit) \in 0..15
      /\ (~RmBit => Extended(rm, RmBit) \in 0..7 /\ Extended(b, RmBit) \in 0..7)
  BY <1>1, Extensions
<1>6. CASE ctx.easz = 16 /\ mod = 0 /\ rm = 6
  <2>1. MemBase = REG_NONE
    BY <1>1, <1>6 DEF MemBase
  <2> QED BY <1>4, <1>6, <2>1
<1>7. CASE ctx.easz = 16 /\ ~(mod = 0 /\ rm = 6)
  <2>1. MemBase = gpr(Base16[rm + 1], 2)
    BY <1>1, <1>7 DEF MemBase
  <2>2. Base16[rm + 1] \in 0..7 /\ (rm < 4 => Base16[rm + 1] \in {3, 5})
    <3>1. rm = 0 \/ rm = 1 \/ rm = 2 \/ rm = 3 \/ rm = 4 \/ rm = 5 \/ rm = 6 \/ rm = 7
      BY <1>1
    <3> HIDE DEF rm
    <3> QED BY <3>1 DEF Base16
  <2>3. AddressSlot = 2
    BY <1>7, Slots64 DEF AddressSlot
  <2>4. MemBase = g(Base16[rm + 1]) /\ (rm < 4 => MemBase \in {gpr(3, 2), gpr(5, 2)})
    BY <2>1, <2>2, <2>3
  <2> HIDE DEF g
  <2>5. MemBase \in Gpr \ High8 /\ BitsOf(MemBase) = ctx.easz /\ MemBase \in Register /\ MemBase \notin LongOnly
    BY <1>3, <1>7, <2>2, <2>4
  <2>6. MemBase # REG_NONE /\ MemBase # RIP
    BY <1>4, <2>5
  <2> QED BY <2>4, <2>5, <2>6
<1>8. CASE ctx.easz # 16 /\ rm = 4 /\ mod = 0 /\ b = 5
  <2>1. MemBase = REG_NONE
    BY <1>1, <1>8 DEF MemBase
  <2> QED BY <1>4, <1>8, <2>1
<1>9. CASE ctx.easz # 16 /\ rm = 5 /\ mod = 0
  <2>1. MemBase = IF Is64 THEN RIP ELSE REG_NONE
    BY <1>1, <1>9 DEF MemBase
  <2> QED BY <1>4, <1>9, <2>1
<1>10. CASE ctx.easz # 16 /\ ~(rm = 4 /\ mod = 0 /\ b = 5) /\ ~(rm = 5 /\ mod = 0)
  <2>1. MemBase = g(Extended(IF rm = 4 THEN b ELSE rm, RmBit))
    BY <1>1, <1>10 DEF MemBase
  <2> HIDE DEF g
  <2>2. MemBase \in Gpr \ High8 /\ BitsOf(MemBase) = ctx.easz /\ MemBase \in Register /\ (~Is64 => MemBase \notin LongOnly)
    BY <1>2, <1>3, <1>5, <2>1
  <2>3. MemBase # REG_NONE /\ MemBase # RIP
    BY <1>4, <2>2
  <2> QED BY <1>10, <2>2, <2>3
<1> QED BY <1>6, <1>7, <1>8, <1>9, <1>10

LEMMA Index ==
  ASSUME Filled64, ModeSound
  PROVE  /\ MemIndex \in Register
         /\ ~Is64 => MemIndex \notin LongOnly
         /\ MemIndex # REG_NONE =>
              /\ MemIndex \in Gpr \ High8 /\ BitsOf(MemIndex) = ctx.easz /\ MemIndex # gpr(4, AddressSlot)
              /\ \/ ctx.easz = 16 /\ RmOf(raw.modrm) < 4 /\ MemIndex \in {gpr(6, 2), gpr(7, 2)}
                 \/ ctx.easz # 16 /\ RmOf(raw.modrm) = 4
         /\ ctx.easz = 16 /\ RmOf(raw.modrm) < 4 => MemIndex # REG_NONE
<1> DEFINE rm == RmOf(raw.modrm)
           n == RegOf(raw.sib)
           g(r) == gpr(r, AddressSlot)
<1>1. rm \in 0..7 /\ n \in 0..7 /\ ctx.easz \in Width /\ ctx.raw = raw /\ IdxBit \in BOOLEAN
  BY FieldNumbers, Numbers DEF Filled64
<1>2. ~Is64 => ~IdxBit /\ ctx.easz # 64
  BY <1>1 DEF ModeSound, IdxBit, RexBit
<1>3. \A r \in 0..15 : /\ g(r) \in Gpr \ High8 /\ BitsOf(g(r)) = ctx.easz /\ g(r) \in Register
                       /\ g(r) \in LongOnly => r >= 8 \/ ctx.easz = 64
  BY <1>1, GprNumbers DEF AddressSlot
<1>4. REG_NONE \in Register /\ REG_NONE \notin LongOnly /\ REG_NONE \notin Gpr
  BY DEF REG_NONE, RIP, Register, REG_COUNT, LongOnly, Second, Gpr, Gpr64, Gpr32, Gpr16, Gpr8, High8, RAX, EAX, AX,
         AL, AH, REG_IP, CR0, XMM0, YMM0
<1>5. Extended(n, IdxBit) \in 0..15 /\ (~IdxBit => Extended(n, IdxBit) = n)
  BY <1>1, Extensions
<1>6. \A r, q \in 0..15 : r # q => g(r) # g(q)
  BY Slots64, <1>1 DEF gpr, AddressSlot, RAX
<1>7. CASE ctx.easz = 16 /\ rm < 4
  <2>1. MemIndex = gpr(Index16[rm + 1], 2)
    BY <1>1, <1>7 DEF MemIndex
  <2>2. Index16[rm + 1] \in {6, 7}
    <3>1. rm = 0 \/ rm = 1 \/ rm = 2 \/ rm = 3
      BY <1>1, <1>7
    <3> HIDE DEF rm
    <3> QED BY <3>1 DEF Index16
  <2>3. AddressSlot = 2
    BY <1>7, Slots64 DEF AddressSlot
  <2>4. MemIndex = g(Index16[rm + 1]) /\ MemIndex \in {gpr(6, 2), gpr(7, 2)}
    BY <2>1, <2>2, <2>3
  <2> HIDE DEF g
  <2>5. MemIndex \in Gpr \ High8 /\ BitsOf(MemIndex) = ctx.easz /\ MemIndex \in Register /\ MemIndex \notin LongOnly
    BY <1>3, <1>7, <2>2, <2>4
  <2>6. MemIndex # g(4)
    BY <1>6, <2>2, <2>4
  <2> QED BY <1>4, <1>7, <2>4, <2>5, <2>6 DEF g
<1>8. CASE ctx.easz # 16 /\ rm = 4 /\ HasIndex
  <2>1. MemIndex = g(Extended(n, IdxBit)) /\ n # 4
    BY <1>1, <1>8 DEF MemIndex, HasIndex
  <2>2. Extended(n, IdxBit) # 4
    BY <1>1, <2>1 DEF Extended
  <2> HIDE DEF g
  <2>3. MemIndex \in Gpr \ High8 /\ BitsOf(MemIndex) = ctx.easz /\ MemIndex \in Register
        /\ (~Is64 => MemIndex \notin LongOnly) /\ MemIndex # g(4)
    BY <1>1, <1>2, <1>3, <1>5, <1>6, <2>1, <2>2
  <2> QED BY <1>4, <1>8, <2>3 DEF g
<1>9. CASE ~(ctx.easz = 16 /\ rm < 4) /\ ~(ctx.easz # 16 /\ rm = 4 /\ HasIndex)
  <2>1. MemIndex = REG_NONE
    BY <1>1, <1>9 DEF MemIndex
  <2> QED BY <1>4, <1>9, <2>1
<1> QED BY <1>7, <1>8, <1>9

\* The segment: that of the last override, if the mode heeds it, or the default.
LEMMA Segments ==
  ASSUME insn.raw.segment \in Byte
  PROVE  /\ \A r : SegmentFor(r) \in Segment \cup {REG_NONE}
         /\ \A r : Is64 => /\ SegmentFor(r) \in {SS, DS, FS, GS}
                           /\ SegmentFor(r) \in {FS, GS} <=> insn.raw.segment \in {x(6,4), x(6,5)}
         /\ Is64 /\ Overrides => SegmentOf(insn.raw.segment) \in {FS, GS} /\ insn.raw.segment \in {x(6,4), x(6,5)}
         /\ Is64 /\ ~Overrides => insn.raw.segment \notin {x(6,4), x(6,5)}
         /\ SegmentOf(insn.raw.segment) \in Segment \cup {REG_NONE}
<1> DEFINE q == insn.raw.segment
<1>1. /\ x(2,6) = 38 /\ x(2,E) = 46 /\ x(3,6) = 54 /\ x(3,E) = 62 /\ x(6,4) = 100 /\ x(6,5) = 101
  BY DEF x, E
<1>2. q \in {x(6,4), x(6,5)} <=> SegmentOf(q) \in {FS, GS}
  BY <1>1 DEF SegmentOf, ES, CS, SS, DS, FS, GS, REG_NONE
<1>3. SegmentOf(q) \in Segment \cup {REG_NONE}
  BY DEF SegmentOf, Segment, ES, CS, SS, DS, FS, GS
<1>4. {SS, DS, FS, GS} \subseteq Segment /\ SS \notin {FS, GS} /\ DS \notin {FS, GS}
  BY DEF Segment, ES, SS, DS, FS, GS
<1>5. q \in {x(6,4), x(6,5)} => q # 0
  BY <1>1
<1> QED BY <1>2, <1>3, <1>4, <1>5 DEF SegmentFor, Overrides, DefaultSegment

LEMMA MemFormed ==
  ASSUME Filled64, ModeSound, MemKnown, mod # 3, NEW size \in OperandSize
  PROVE  MemGood(MemOperand(build_mem, size))
<1> DEFINE m == build_mem
           rm == RmOf(raw.modrm)
<1>1. /\ ctx.raw = raw /\ ctx.easz \in Width /\ rm \in 0..7 /\ mod \in 0..3 /\ mod = ModOf(raw.modrm)
      /\ ModOf(raw.sib) \in 0..3 /\ raw \in Raw /\ insn.raw = raw /\ pos <= Len(buf) /\ buf \in Seq(Byte)
      /\ pos \in Nat /\ RmOf(raw.sib) \in 0..7
  BY FieldNumbers, Numbers DEF Filled64, mod
<1>2. SignExtended(DispBytes) \in Word
  <2> DEFINE at == raw.modrmOffset + 1 + OneIf(raw.hasSib)
  <2>1. at \in Nat /\ raw.dispSize \in Nat /\ at + raw.dispSize <= Len(buf) /\ Len(buf) \in Nat
    BY <1>1 DEF MemKnown, Raw, OneIf
  <2>2. DispBytes = SubSeq(buf, at + 1, at + raw.dispSize)
    BY <1>1 DEF DispBytes
  <2> HIDE DEF at
  <2>3. at + 1 \in Nat /\ at + 1 >= 1 /\ at + raw.dispSize \in Nat
    BY <2>1
  <2>4. DispBytes \in Seq(Byte)
    BY <1>1, <2>1, <2>2, <2>3, BufferBytes
  <2> QED BY <2>4, ExtendedWords
<1>3. insn.raw.segment \in Byte
  BY <1>1 DEF Raw
<1>4. m.scale \in {0, 1, 2, 4, 8} /\ (m.scale # 0 <=> MemIndex # REG_NONE)
  <2>1. m.scale = IF MemIndex = REG_NONE THEN 0 ELSE IF ctx.easz = 16 THEN 1 ELSE 2 ^ ModOf(raw.sib)
    BY <1>1 DEF build_mem
  <2>2. 2 ^ ModOf(raw.sib) \in {1, 2, 4, 8}
    BY <1>1, Scales
  <2> HIDE DEF m
  <2> QED BY <2>1, <2>2
<1>5. m.base = MemBase /\ m.index = MemIndex /\ m.hasDisp = (raw.dispSize # 0) /\ m.segment = SegmentFor(MemBase)
      /\ m.disp = SignExtended(DispBytes)
  BY <1>1 DEF build_mem
<1>6. m \in Mem
  <2>1. MemBase \in Register /\ MemIndex \in Register /\ SegmentFor(MemBase) \in Segment \cup {REG_NONE}
    BY <1>3, Bases, Index, Segments
  <2> HIDE DEF m
  <2>2. m = [base |-> m.base, index |-> m.index, scale |-> m.scale, disp |-> m.disp, hasDisp |-> m.hasDisp,
             segment |-> m.segment]
    BY DEF m, build_mem
  <2> QED BY <1>2, <1>4, <1>5, <2>1, <2>2 DEF Mem
<1>7. /\ MemBase = RIP => MemIndex = REG_NONE /\ raw.dispSize # 0
      /\ MemBase = REG_NONE /\ MemIndex = REG_NONE => raw.dispSize # 0
  <2>1. raw.dispSize = DispSize(raw.modrm, RmOf(IF raw.hasSib THEN raw.sib ELSE raw.modrm), ctx.easz)
        /\ (raw.hasSib <=> SibFollows(raw.modrm, ctx.easz))
    BY DEF MemKnown
  <2>2. \/ ctx.easz = 16 /\ mod = 0 /\ rm = 6
        \/ ctx.easz # 16 /\ mod = 0 /\ rm = 4 /\ RmOf(raw.sib) = 5
        \/ ctx.easz # 16 /\ mod = 0 /\ rm = 5
        => raw.dispSize # 0
    BY <1>1, <2>1 DEF DispSize, SibFollows
  <2>3. MemBase = RIP => ctx.easz # 16 /\ rm = 5 /\ mod = 0
    BY Bases
  <2>4. MemBase = REG_NONE =>
              \/ ctx.easz = 16 /\ mod = 0 /\ rm = 6
              \/ ctx.easz # 16 /\ mod = 0 /\ rm = 4 /\ RmOf(raw.sib) = 5
              \/ ctx.easz # 16 /\ mod = 0 /\ rm = 5
    BY Bases
  <2>5. MemIndex # REG_NONE /\ ctx.easz # 16 => rm = 4
    BY Index
  <2> QED BY <2>2, <2>3, <2>4, <2>5
<1>8. AddressFormed(m)
  <2>1. /\ MemBase \in {REG_NONE, RIP} \/ (MemBase \in Gpr \ High8 /\ BitsOf(MemBase) = ctx.easz)
        /\ MemBase = RIP => Is64
        /\ ctx.easz = 16 /\ rm < 4 => MemBase \in {gpr(3, 2), gpr(5, 2)}
    BY Bases
  <2>2. /\ MemIndex # REG_NONE =>
             /\ MemIndex \in Gpr \ High8 /\ BitsOf(MemIndex) = ctx.easz /\ MemIndex # gpr(4, AddressSlot)
             /\ ctx.easz = 16 => rm < 4 /\ MemIndex \in {gpr(6, 2), gpr(7, 2)}
    BY Index
  <2> HIDE DEF m
  <2>3. ctx.easz = context.easz /\ AddressSlot = eosz_slot(context.easz)
    BY DEF ctx, AddressSlot
  <2> QED BY <1>4, <1>5, <1>7, <2>1, <2>2, <2>3 DEF AddressFormed
<1>9. Is64 => /\ m.segment \in {SS, DS, FS, GS}
              /\ m.segment \in {FS, GS} <=> insn.raw.segment \in {x(6,4), x(6,5)}
  BY <1>3, <1>5, Segments
<1>10. ~Is64 => m.base \notin LongOnly /\ m.index \notin LongOnly
  BY <1>5, Bases, Index
<1> HIDE DEF m
<1>11. /\ MemOperand(m, size) \in OperandRecord /\ MemOperand(m, size).type = "MEM"
       /\ MemOperand(m, size).reg = REG_NONE /\ MemOperand(m, size).mem = m
  BY <1>6, Kinds
<1> QED BY <1>8, <1>9, <1>10, <1>11 DEF MemGood, m

---------------------------------------------------------------------------
\* What the builder makes of each shape

\* What the decoder has made sure of for a shape.
Encodable(shape) ==
  /\ ~Is64 /\ shape \in GprShape \cup GprFixed => ctx.eosz # 64
  /\ ~Is64 => shape \notin VvvvShapes
  /\ shape = "FIXED_SEG" /\ insn.map = 0 => insn.opcode < 48
  /\ shape \in MemShapes => mod # 3
  /\ shape \in MemShapes \cup RmShapes => MemKnown
  /\ shape = "MOFFS" => ctx.easz \div 8 <= pos
  /\ shape = "SEG_REG" => ~ctx.isVex /\ RegOf(raw.modrm) <= 5

LEMMA RegMade ==
  ASSUME NEW r \in Register, NEW size \in OperandSize, NEW family, r \in family,
         r \in Gpr => BitsOf(r) = size, raw.hasRex => r \notin High8, ~Is64 => r \notin LongOnly
  PROVE  RegGood(RegOperand(r, size), family)
BY Kinds DEF RegGood

\* A general register of four bits and its width.
LEMMA GprMade ==
  ASSUME Filled64, NEW n \in 0..15, NEW size \in Width, ~Is64 => n < 8 /\ size # 64
  PROVE  RegGood(RegOperand(gpr(n, eosz_slot(size)), size), Gpr)
<1>1. size \in OperandSize
  BY DEF Width, OperandSize
<1>2. /\ gpr(n, eosz_slot(size)) \in Gpr \ High8 /\ BitsOf(gpr(n, eosz_slot(size))) = size
      /\ gpr(n, eosz_slot(size)) \in Register
      /\ gpr(n, eosz_slot(size)) \in LongOnly => n >= 8 \/ size = 64
  BY GprNumbers
<1> HIDE DEF Gpr
<1> QED BY <1>1, <1>2, RegMade

LEMMA Gpr8Made ==
  ASSUME Filled64, ModeSound, NEW n \in 0..15, ~Is64 => n < 8
  PROVE  RegGood(RegOperand(gpr8(n, raw.hasRex), 8), Gpr)
<1>1. raw.hasRex \in BOOLEAN /\ 8 \in OperandSize
  BY DEF Filled64, Raw, OperandSize
<1>2. /\ gpr8(n, raw.hasRex) \in Gpr /\ BitsOf(gpr8(n, raw.hasRex)) = 8 /\ gpr8(n, raw.hasRex) \in Register
      /\ raw.hasRex => gpr8(n, raw.hasRex) \notin High8
      /\ gpr8(n, raw.hasRex) \in LongOnly => n >= 8 \/ raw.hasRex
  BY <1>1, Gpr8Numbers
<1> QED BY <1>1, <1>2, RegMade DEF ModeSound

\* Outside 64-bit mode the numbers have three bits.
LEMMA ShortNumbers ==
  ASSUME Filled64, ModeSound
  PROVE  /\ regf \in 0..15 /\ rmf \in 0..15 /\ opf \in 0..15 /\ ctx.vex.vvvv \in 0..15
         /\ ~Is64 => regf < 8 /\ rmf < 8 /\ opf < 8
<1>1. ~Is64 => ~RegBit /\ ~RmBit /\ ~RexBit(1)
  BY DEF ModeSound, RegBit, RmBit, RexBit, Filled64
<1>2. RegOf(ctx.raw.modrm) \in 0..7 /\ RmOf(ctx.raw.modrm) \in 0..7 /\ insn.opcode % 8 \in 0..7
  BY FieldNumbers DEF Filled64
<1> QED BY <1>1, <1>2, Numbers, FieldNumbers DEF regf, rmf, opf, Extended

\* A register or memory.
LEMMA OrMemMade ==
  ASSUME Filled64, ModeSound, MemKnown, NEW r, NEW size, NEW bits \in OperandSize, NEW family,
         RegGood(RegOperand(r, size), family)
  PROVE  RegGood(OrMem(r, size, bits), family) \/ MemGood(OrMem(r, size, bits))
BY MemFormed DEF OrMem

LEMMA GprBuilt ==
  ASSUME Filled64, ModeSound, NEW shape \in GprShape, Encodable(shape)
  PROVE  RegGood(GprOperand(shape), Gpr) \/ MemGood(GprOperand(shape))
<1> DEFINE good(op) == RegGood(op, Gpr) \/ MemGood(op)
<1>1. ctx.eosz \in Width /\ (~Is64 => ctx.eosz # 64) /\ ctx.raw = raw /\ {16, 32, 64} = Width
  BY DEF Filled64, Encodable, Width
<1>2. VexSize \in {32, 64} /\ (~Is64 => ~ctx.isVex) /\ OpSize \in Width /\ (~Is64 => OpSize # 64)
  BY <1>1 DEF VexSize, OpSize, ModeSound
<1>3. cr64 => Is64
  BY DEF cr64
<1>4. /\ regf \in 0..15 /\ rmf \in 0..15 /\ opf \in 0..15 /\ ctx.vex.vvvv \in 0..15
      /\ ~Is64 => regf < 8 /\ rmf < 8 /\ opf < 8
  BY ShortNumbers
<1>5. \A n \in 0..15, size \in Width :
        (~Is64 => n < 8 /\ size # 64) => RegGood(RegOperand(gpr(n, eosz_slot(size)), size), Gpr)
  BY GprMade
<1>6. \A n \in 0..15 : (~Is64 => n < 8) => /\ RegGood(RegOperand(gpr(n, 1), 32), Gpr)
                                          /\ RegGood(RegOperand(gpr(n, 2), 16), Gpr)
  BY <1>1, <1>5, Slots64
<1>7. \A n \in 0..15 : (~Is64 => n < 8) => RegGood(RegOperand(gpr8(n, ctx.raw.hasRex), 8), Gpr)
  BY <1>1, Gpr8Made
<1>8. {8, 16, 32, 64} \subseteq OperandSize
  BY DEF OperandSize
<1>9. ASSUME MemKnown
      PROVE  \A r, size, bits : bits \in OperandSize /\ RegGood(RegOperand(r, size), Gpr) => good(OrMem(r, size, bits))
  BY <1>9, OrMemMade
<1>10. shape \in RmShapes => MemKnown
  BY DEF Encodable
<1> HIDE DEF good
<1>11. \A op : RegGood(op, Gpr) => good(op)
  BY DEF good
<1>12. CASE shape \in {"GPR_OR_MEM", "GPR_OR_MEM16", "GPR8_OR_MEM", "GPR16_OR_MEM", "R32_OR_MEM", "R32_OR_MEM16"}
  <2>1. MemKnown
    BY <1>10, <1>12 DEF RmShapes
  <2>2. OpSize \in OperandSize
    BY <1>1, <1>2, <1>8
  <2>3. /\ RegGood(RegOperand(Sized(OpSize), OpSize), Gpr) /\ RegGood(RegOperand(gpr(rmf, slot), ctx.eosz), Gpr)
        /\ RegGood(RegOperand(gpr8(rmf, ctx.raw.hasRex), 8), Gpr) /\ RegGood(RegOperand(gpr(rmf, 1), 32), Gpr)
        /\ RegGood(RegOperand(gpr(rmf, 2), 16), Gpr)
    BY <1>1, <1>2, <1>4, <1>5, <1>6, <1>7 DEF Sized, slot
  <2>4. /\ good(OrMem(Sized(OpSize), OpSize, OpSize)) /\ good(OrMem(gpr(rmf, slot), ctx.eosz, 16))
        /\ good(OrMem(gpr8(rmf, ctx.raw.hasRex), 8, 8)) /\ good(OrMem(gpr(rmf, 2), 16, 16))
        /\ good(OrMem(gpr(rmf, 1), 32, 32)) /\ good(OrMem(gpr(rmf, 1), 32, 16))
    BY <1>8, <1>9, <2>1, <2>2, <2>3
  <2>5. good(GprOperand(shape))
    BY <1>12, <2>4 DEF GprOperand
  <2> QED BY <2>5 DEF good
<1>13. CASE shape \notin {"GPR_OR_MEM", "GPR_OR_MEM16", "GPR8_OR_MEM", "GPR16_OR_MEM", "R32_OR_MEM", "R32_OR_MEM16"}
  <2> DEFINE sz1 == IF cr64 THEN 64 ELSE OpSize
             sz2 == IF cr64 \/ (Is64 /\ IsRdpid /\ ctx.eosz # 16) THEN 64 ELSE OpSize
             sz3 == IF IsBswap /\ ctx.eosz = 16 THEN 32 ELSE ctx.eosz
  <2>1. sz1 \in Width /\ (~Is64 => sz1 # 64) /\ sz2 \in Width /\ (~Is64 => sz2 # 64)
        /\ sz3 \in Width /\ (~Is64 => sz3 # 64)
    BY <1>1, <1>2, <1>3
  <2>2. shape = "VEX_VVVV_GPR" => Is64 /\ VexSize \in Width
    BY <1>1, <1>2 DEF Encodable, VvvvShapes
  <2> HIDE DEF sz1, sz2, sz3
  <2>3. /\ RegGood(RegOperand(gpr(regf, eosz_slot(sz1)), sz1), Gpr)
        /\ RegGood(RegOperand(gpr(rmf, eosz_slot(sz2)), sz2), Gpr)
        /\ RegGood(RegOperand(gpr(opf, eosz_slot(sz3)), sz3), Gpr)
        /\ shape = "VEX_VVVV_GPR" => RegGood(RegOperand(gpr(ctx.vex.vvvv, eosz_slot(VexSize)), VexSize), Gpr)
    BY <1>4, <1>5, <2>1, <2>2
  <2>4. /\ RegGood(RegOperand(gpr8(regf, ctx.raw.hasRex), 8), Gpr)
        /\ RegGood(RegOperand(gpr8(rmf, ctx.raw.hasRex), 8), Gpr)
        /\ RegGood(RegOperand(gpr8(opf, ctx.raw.hasRex), 8), Gpr)
        /\ RegGood(RegOperand(gpr(regf, 2), 16), Gpr) /\ RegGood(RegOperand(gpr(regf, 1), 32), Gpr)
    BY <1>4, <1>6, <1>7
  <2>5. RegGood(GprOperand(shape), Gpr)
    BY <1>13, <2>3, <2>4 DEF GprOperand, GprShape, Sized, sz1, sz2, sz3
  <2> QED BY <2>5
<1> QED BY <1>12, <1>13

\* The other files of registers have no width of their own.
LEMMA FileMade ==
  ASSUME Filled64, NEW r \in Register \ Gpr, NEW size \in OperandSize, NEW family, r \in family, ~Is64 => r \notin LongOnly
  PROVE  RegGood(RegOperand(r, size), family)
<1>1. r \notin High8
  BY DEF Gpr
<1> QED BY <1>1, RegMade

LEMMA VectorBuilt ==
  ASSUME Filled64, ModeSound, NEW shape \in VectorShape, Encodable(shape)
  PROVE  RegGood(VectorOperand(shape), FamilyOf(shape)) \/ MemGood(VectorOperand(shape))
<1> DEFINE good(op, family) == RegGood(op, family) \/ MemGood(op)
<1>1. /\ regf \in 0..15 /\ rmf \in 0..15 /\ ctx.vex.vvvv \in 0..15 /\ Low8(regf) \in 0..7 /\ Low8(rmf) \in 0..7
      /\ ~Is64 => regf < 8 /\ rmf < 8
  BY ShortNumbers, Numbers
<1>2. {0, 64, 256} \subseteq OperandSize /\ Unsized = 0
  BY DEF OperandSize, Unsized
<1>3. \A n \in 0..7 : /\ MM0 + n \in Register \ Gpr /\ MM0 + n \in Mmx /\ MM0 + n \notin LongOnly
  BY DEF MM0, Register, REG_COUNT, Gpr, Gpr64, Gpr32, Gpr16, Gpr8, High8, RAX, EAX, AX, AL, AH, REG_IP, Mmx, XMM0,
         YMM0, LongOnly, Second, RIP, CR0
<1>4. \A n \in 0..15, y \in {XMM0, YMM0} :
        y + n \in Register \ Gpr /\ y + n \in Xmm \cup Ymm /\ (y + n \in LongOnly => n >= 8)
  BY DEF Register, REG_COUNT, Gpr, Gpr64, Gpr32, Gpr16, Gpr8, High8, RAX, EAX, AX, AL, AH, REG_IP, Xmm, Ymm, XMM0,
         YMM0, XMM16, LongOnly, Second, RIP, CR0
<1>5. \A n \in 0..7 : RegGood(RegOperand(MM0 + n, Unsized), Mmx)
  BY <1>2, <1>3, FileMade
<1>6. \A n \in 0..15 : \A ymm : (~Is64 => n < 8) => RegGood(Vector(n, ymm), Xmm \cup Ymm)
  <2> SUFFICES ASSUME NEW n \in 0..15, NEW ymm, ~Is64 => n < 8 PROVE RegGood(Vector(n, ymm), Xmm \cup Ymm)
    OBVIOUS
  <2> DEFINE y == IF ymm THEN YMM0 ELSE XMM0
             size == IF ymm THEN 256 ELSE Unsized
  <2>1. y + n \in Register \ Gpr /\ y + n \in Xmm \cup Ymm /\ (~Is64 => y + n \notin LongOnly) /\ size \in OperandSize
    BY <1>2, <1>4
  <2> HIDE DEF y, size
  <2>2. RegGood(RegOperand(y + n, size), Xmm \cup Ymm)
    BY <2>1, FileMade
  <2> QED BY <2>2 DEF Vector, y, size
<1>7. shape \in RmShapes => MemKnown
  BY DEF Encodable
<1>8. shape = "VEX_VVVV" => Is64
  BY DEF Encodable, VvvvShapes
<1> HIDE DEF good
<1>9. CASE shape \in {"MM_REG", "MM32", "MM_RM"}
  <2>1. FamilyOf(shape) = Mmx
    BY <1>9 DEF FamilyOf, GprShape, GprFixed, MmxShape
  <2>2. RegGood(VectorOperand(shape), Mmx)
    BY <1>1, <1>5, <1>9 DEF VectorOperand
  <2> QED BY <2>1, <2>2
<1>10. CASE shape = "MM_OR_MEM"
  <2>1. FamilyOf(shape) = Mmx /\ MemKnown
    BY <1>7, <1>10 DEF FamilyOf, GprShape, GprFixed, MmxShape, RmShapes
  <2>2. RegGood(RegOperand(MM0 + Low8(rmf), Unsized), Mmx)
    BY <1>1, <1>5
  <2>3. good(OrMem(MM0 + Low8(rmf), Unsized, 64), Mmx)
    BY <1>2, <2>1, <2>2, OrMemMade DEF good
  <2>4. good(VectorOperand(shape), Mmx)
    BY <1>10, <2>3 DEF VectorOperand
  <2> QED BY <2>1, <2>4 DEF good
<1>11. CASE shape \in VectorShape \ {"MM_REG", "MM32", "MM_RM", "MM_OR_MEM"}
  <2>1. FamilyOf(shape) = Xmm \cup Ymm
    BY <1>11 DEF FamilyOf, GprShape, GprFixed, MmxShape, VectorShape
  <2>2. shape \in {"XMM_OR_MEM", "YMM_OR_MEM"} /\ mod # 3 => MemGood(MemOperand(build_mem, Unsized))
    BY <1>2, <1>7, MemFormed DEF RmShapes
  <2>3. \A ymm : RegGood(Vector(regf, ymm), Xmm \cup Ymm) /\ RegGood(Vector(rmf, ymm), Xmm \cup Ymm)
                 /\ (shape = "VEX_VVVV" => RegGood(Vector(ctx.vex.vvvv, ymm), Xmm \cup Ymm))
    BY <1>1, <1>6, <1>8
  <2>4. good(VectorOperand(shape), Xmm \cup Ymm)
    BY <1>11, <2>2, <2>3 DEF VectorOperand, VectorShape, good
  <2> QED BY <2>1, <2>4 DEF good
<1> QED BY <1>9, <1>10, <1>11

LEMMA SystemBuilt ==
  ASSUME Filled64, ModeSound, NEW shape \in {"SEG_REG", "CREG_REG", "DREG_REG", "ST_REG"}, Encodable(shape)
  PROVE  RegGood(SystemOperand(shape), FamilyNamed(shape))
<1>1. regf \in 0..15 /\ Low8(regf) \in 0..7 /\ RmOf(ctx.raw.modrm) \in 0..7 /\ (~Is64 => regf < 8)
  BY ShortNumbers, Numbers, FieldNumbers DEF Filled64
<1>2. (IF cr64 THEN 64 ELSE ctx.eosz) \in OperandSize /\ 16 \in OperandSize /\ 80 \in OperandSize
  BY DEF Filled64, Width, OperandSize
<1>3. \A n \in 0..15 : ES + n \in Register \ Gpr /\ (n < 8 => ES + n \notin LongOnly)
  BY DEF ES, Register, REG_COUNT, Gpr, Gpr64, Gpr32, Gpr16, Gpr8, High8, RAX, EAX, AX, AL, AH, REG_IP,
         LongOnly, Second, RIP, CR0, XMM0, YMM0
<1>4. \A n \in 0..15 : CR0 + n \in Register \ Gpr /\ (n < 8 => CR0 + n \notin LongOnly) /\ CR0 + n \in Control
  BY DEF Control, DR0, Register, REG_COUNT, Gpr, Gpr64, Gpr32, Gpr16, Gpr8, High8, RAX, EAX, AX, AL, AH, REG_IP,
         LongOnly, Second, RIP, CR0, XMM0, YMM0
<1>5. \A n \in 0..7 : DR0 + n \in Register \ Gpr /\ DR0 + n \notin LongOnly /\ DR0 + n \in Debug
  BY DEF Debug, DR0, ST0, Register, REG_COUNT, Gpr, Gpr64, Gpr32, Gpr16, Gpr8, High8, RAX, EAX, AX, AL, AH, REG_IP,
         LongOnly, Second, RIP, CR0, XMM0, YMM0
<1>6. \A n \in 0..7 : ST0 + n \in Register \ Gpr /\ ST0 + n \notin LongOnly /\ ST0 + n \in X87
  BY DEF X87, ST0, MM0, Register, REG_COUNT, Gpr, Gpr64, Gpr32, Gpr16, Gpr8, High8, RAX, EAX, AX, AL, AH, REG_IP,
         LongOnly, Second, RIP, CR0, XMM0, YMM0
<1>7. /\ FamilyOf("CREG_REG") = Control /\ FamilyOf("DREG_REG") = Debug /\ FamilyOf("ST_REG") = X87
  BY DEF FamilyOf, GprShape, GprFixed, MmxShape, VectorShape
<1>8. shape = "SEG_REG" => RegGood(RegOperand(ES + regf, 16), FamilyNamed(shape))
  <2> SUFFICES ASSUME shape = "SEG_REG" PROVE RegGood(RegOperand(ES + regf, 16), FamilyNamed(shape))
    OBVIOUS
  <2>1. RegBit = RexR /\ RegOf(raw.modrm) \in 0..5 /\ ctx.raw = raw
    BY FieldNumbers DEF Encodable, RegBit, RexBit, RexR, Filled64
  <2>2. regf = RegOf(raw.modrm) + (IF RexR THEN 8 ELSE 0)
    BY <2>1 DEF regf, Extended
  <2>3. \A n \in 0..5 : ES + n \in Segment /\ ES + (n + 8) \in Control
    BY DEF Segment, ES, GS, Control, CR0, DR0
  <2>4. ES + regf \in FamilyNamed(shape)
    <3>1. FamilyOf(shape) = Segment
      BY DEF FamilyOf, GprShape, GprFixed, MmxShape, VectorShape
    <3>2. CASE RexR
      BY <2>1, <2>2, <2>3, <3>2 DEF FamilyNamed
    <3>3. CASE ~RexR
      <4>1. regf = RegOf(raw.modrm)
        BY <2>1, <2>2, <3>3
      <4> QED BY <2>1, <2>3, <3>1, <3>3, <4>1 DEF FamilyNamed
    <3> QED BY <3>2, <3>3
  <2> QED BY <1>1, <1>2, <1>3, <2>4, FileMade
<1>9. RegGood(RegOperand(CR0 + regf, IF cr64 THEN 64 ELSE ctx.eosz), Control)
  BY <1>1, <1>2, <1>4, FileMade
<1>10. RegGood(RegOperand(DR0 + Low8(regf), IF cr64 THEN 64 ELSE ctx.eosz), Debug)
  BY <1>1, <1>2, <1>5, FileMade
<1>11. RegGood(RegOperand(ST0 + RmOf(ctx.raw.modrm), 80), X87)
  BY <1>1, <1>2, <1>6, FileMade
<1> QED BY <1>7, <1>8, <1>9, <1>10, <1>11 DEF SystemOperand, FamilyNamed

FixedBuiltShapes == FixedShapes \ {"IMM_ONE"}

LEMMA FixedBuilt ==
  ASSUME Filled64, ModeSound, NEW shape \in FixedBuiltShapes \cup {"NONE"}, Encodable(shape), i \in 1..4
  PROVE  RegGood(FixedOperand(shape), FamilyOf(shape))
<1>1. ctx.eosz \in Width /\ ctx.raw = raw /\ 32 \in Width /\ 16 \in Width /\ 64 \in Width
  BY DEF Filled64, Width
<1>2. 16 \in OperandSize /\ 80 \in OperandSize /\ 64 \in OperandSize /\ 128 \in OperandSize
  BY DEF OperandSize
<1>3. i - 1 \in 0..3
  OBVIOUS
<1>4. CASE shape \in GprFixed
  <2>1. FamilyOf(shape) = Gpr
    BY <1>4 DEF FamilyOf, GprFixed, MmxShape, VectorShape
  <2>2. ~Is64 => ctx.eosz # 64
    BY <1>4 DEF Encodable
  <2>3. RegGood(RegOperand(gpr(0, slot), ctx.eosz), Gpr)
    BY <1>1, <2>2, GprMade DEF slot
  <2>4. FixedGpr8 \in 0..7 /\ FixedGpr16 \in 0..7
    BY DEF FixedGpr8, FixedGpr16
  <2>5. RegGood(RegOperand(gpr8(FixedGpr8, ctx.raw.hasRex), 8), Gpr)
    BY <1>1, <2>4, Gpr8Made
  <2>6. RegGood(RegOperand(gpr(FixedGpr16, 2), 16), Gpr) /\ RegGood(RegOperand(gpr(i - 1, 1), 32), Gpr)
    BY <1>1, <1>3, <2>4, GprMade, Slots64
  <2>7. Is64 => RegGood(RegOperand(RAX, 64), Gpr)
    <3>1. RAX = gpr(0, 0)
      BY DEF gpr, RAX
    <3> QED BY <1>1, <3>1, GprMade, Slots64
  <2>8. RegGood(FixedOperand(shape), Gpr)
    BY <1>4, <2>3, <2>5, <2>6, <2>7 DEF FixedOperand, GprFixed
  <2> QED BY <2>1, <2>8
<1>5. CASE shape = "FIXED_SEG"
  <2>1. FixedSeg \in 0..5
    <3>1. insn.opcode \in 0..255 /\ (insn.map = 0 => insn.opcode < 48)
      BY <1>5 DEF Encodable, Filled64, Byte
    <3>2. CASE insn.map = 0
      BY <3>1, <3>2 DEF FixedSeg
    <3>3. CASE insn.map # 0
      <4>1. \A n \in 0..15 : 4 + n \div 8 \in 0..5
        OBVIOUS
      <4>2. insn.opcode % 16 \in 0..15
        BY <3>1
      <4>3. FixedSeg = 4 + (insn.opcode % 16) \div 8
        BY <3>3 DEF FixedSeg
      <4> HIDE DEF FixedSeg
      <4> QED BY <4>1, <4>2, <4>3
    <3> QED BY <3>2, <3>3
  <2>2. FamilyOf(shape) = Segment
    BY <1>5 DEF FamilyOf, GprShape, GprFixed, MmxShape, VectorShape
  <2>3. \A n \in 0..5 : ES + n \in Register \ Gpr /\ ES + n \notin LongOnly /\ ES + n \in Segment
    BY DEF ES, GS, Segment, Register, REG_COUNT, Gpr, Gpr64, Gpr32, Gpr16, Gpr8, High8, RAX, EAX, AX, AL, AH, REG_IP,
           LongOnly, Second, RIP, CR0, XMM0, YMM0
  <2>4. RegGood(RegOperand(ES + FixedSeg, 16), Segment)
    BY <1>2, <2>1, <2>3, FileMade
  <2> QED BY <1>5, <2>2, <2>4 DEF FixedOperand
<1>6. CASE shape = "IMPLICIT_XMM0"
  <2>1. XMM0 \in Register \ Gpr /\ XMM0 \notin LongOnly /\ XMM0 \in Xmm
    BY DEF Xmm, Register, REG_COUNT, Gpr, Gpr64, Gpr32, Gpr16, Gpr8, High8, RAX, EAX, AX, AL, AH, REG_IP,
           LongOnly, Second, RIP, CR0, XMM0, YMM0
  <2>2. FamilyOf(shape) = Xmm
    BY <1>6 DEF FamilyOf, GprShape, GprFixed, MmxShape, VectorShape
  <2>3. RegGood(RegOperand(XMM0, 128), Xmm)
    BY <1>2, <2>1, FileMade
  <2> QED BY <1>6, <2>2, <2>3 DEF FixedOperand
<1>7. CASE shape \in {"FIXED_ST0", "FIXED_ST", "IMPLICIT_ST0", "NONE"}
  <2>1. ST0 \in Register \ Gpr /\ ST0 \notin LongOnly /\ ST0 \in X87
    BY DEF ST0, X87, MM0, Register, REG_COUNT, Gpr, Gpr64, Gpr32, Gpr16, Gpr8, High8, RAX, EAX, AX, AL, AH, REG_IP,
           LongOnly, Second, RIP, CR0, XMM0, YMM0
  <2>2. FamilyOf(shape) = X87
    BY <1>7 DEF FamilyOf, GprShape, GprFixed, MmxShape, VectorShape
  <2>3. RegGood(RegOperand(ST0, 80), X87)
    BY <1>2, <2>1, FileMade
  <2> QED BY <1>7, <2>2, <2>3 DEF FixedOperand
<1> QED BY <1>4, <1>5, <1>6, <1>7 DEF FixedBuiltShapes, FixedShapes, GprFixed

LEMMA MoffsBuilt ==
  ASSUME Filled64, ModeSound, Encodable("MOFFS") PROVE MemGood(MoffsOperand)
<1> DEFINE seg == IF Overrides THEN SegmentOf(insn.raw.segment) ELSE DS
           m == [NoMem EXCEPT !.disp = ZeroExtended(MoffsBytes), !.hasDisp = TRUE, !.segment = seg]
           size == IF \E j \in DOMAIN ctx.entry.shapes : ctx.entry.shapes[j] = "FIXED_GPR8" THEN 8 ELSE ctx.eosz
<1>1. insn.raw.segment \in Byte /\ ctx.easz \div 8 \in {2, 4, 8} /\ ctx.length = pos /\ pos \in Nat /\ pos <= Len(buf)
      /\ buf \in Seq(Byte) /\ ctx.easz \div 8 <= pos
  BY FieldNumbers DEF Filled64, Raw, Encodable
<1>2. seg \in Segment \cup {REG_NONE} /\ (Is64 => /\ seg \in {SS, DS, FS, GS}
                                                  /\ seg \in {FS, GS} <=> insn.raw.segment \in {x(6,4), x(6,5)})
  <2>1. DS \in Segment /\ DS \notin {FS, GS}
    BY DEF Segment, ES, DS, FS, GS
  <2> QED BY <1>1, <2>1, Segments
<1>3. ZeroExtended(MoffsBytes) \in Word
  <2>1. pos - ctx.easz \div 8 + 1 \in Nat /\ pos - ctx.easz \div 8 + 1 >= 1
    BY <1>1
  <2>2. MoffsBytes \in Seq(Byte)
    BY <1>1, <2>1, BufferBytes DEF MoffsBytes
  <2> QED BY <2>2, ExtendedWords
<1>4. size \in OperandSize
  BY DEF Filled64, Width, OperandSize
<1>5. REG_NONE \in Register /\ REG_NONE \notin LongOnly /\ REG_NONE # RIP
  BY DEF REG_NONE, Register, REG_COUNT, LongOnly, Second, Gpr64, RAX, EAX, AX, AL, RIP, CR0, XMM0, YMM0
<1> HIDE DEF seg
<1>6. m \in Mem
  BY <1>2, <1>3, <1>5 DEF NoMem, Mem
<1>7. m.base = REG_NONE /\ m.index = REG_NONE /\ m.hasDisp /\ m.scale = 0 /\ m.segment = seg
  BY DEF NoMem
<1> HIDE DEF m
<1>8. AddressFormed(m)
  BY <1>5, <1>7 DEF AddressFormed
<1>9. /\ MemOperand(m, size) \in OperandRecord /\ MemOperand(m, size).type = "MEM"
      /\ MemOperand(m, size).reg = REG_NONE /\ MemOperand(m, size).mem = m
  BY <1>4, <1>6, Kinds
<1>10. MoffsOperand = MemOperand(m, size)
  BY DEF MoffsOperand, m, seg
<1> HIDE DEF size
<1>11. MemGood(MemOperand(m, size))
  BY <1>2, <1>5, <1>7, <1>8, <1>9 DEF MemGood
<1> QED BY <1>10, <1>11

LEMMA MemSizes == ASSUME Filled64, NEW shape PROVE MemBits(shape) \in OperandSize
<1>1. ctx.eosz \in {16, 32, 64} /\ ctx.easz \in {16, 32, 64}
  BY DEF Filled64, Width
<1>2. 2 * ctx.eosz \in {32, 64, 128}
  BY <1>1
<1>3. mem_size \in OperandSize
  BY <1>1, <1>2 DEF mem_size, OperandSize
<1> QED BY <1>3 DEF MemBits, OperandSize

\* Every operand of an accepted instruction is sound.
LEMMA BuiltSound ==
  ASSUME Filled64, ModeSound, NEW shape \in Shape, Encodable(shape), i \in 1..4, raw.immSize <= pos, immOff \in Nat
  PROVE  OperandSound(Built(shape), shape)
<1>1. CASE shape \in GprShape
  <2>1. FamilyOf(shape) = Gpr /\ shape # "SEG_REG" /\ Built(shape) = GprOperand(shape)
    BY <1>1 DEF FamilyOf, GprShape, MmxShape, VectorShape, Built, MemShapes, ImmShapes
  <2> QED BY <1>1, <2>1, GprBuilt DEF OperandSound, FamilyNamed
<1>2. CASE shape \in VectorShape
  <2>1. shape # "SEG_REG" /\ Built(shape) = VectorOperand(shape)
    BY <1>2 DEF GprShape, VectorShape, Built, MemShapes, ImmShapes
  <2> QED BY <1>2, <2>1, VectorBuilt DEF OperandSound, FamilyNamed
<1>3. CASE shape \in MemShapes
  <2>1. Built(shape) = MemOperand(build_mem, MemBits(shape))
    BY <1>3 DEF GprShape, VectorShape, Built, MemShapes, ImmShapes
  <2>2. MemKnown /\ mod # 3
    BY <1>3 DEF Encodable
  <2> QED BY <2>1, <2>2, MemSizes, MemFormed DEF OperandSound
<1>4. CASE shape = "MOFFS"
  <2>1. Built(shape) = MoffsOperand
    BY <1>4 DEF GprShape, VectorShape, Built, MemShapes, ImmShapes
  <2> QED BY <1>4, <2>1, MoffsBuilt DEF OperandSound
<1>5. CASE shape \in (ImmShapes \ {"MOFFS"}) \cup {"IMM_ONE"}
  <2>1. Built(shape) = ImmShapeOperand(shape)
    BY <1>5 DEF GprShape, VectorShape, Built, MemShapes, ImmShapes
  <2> QED BY <2>1, ImmsGood DEF OperandSound
<1>6. CASE shape \in {"SEG_REG", "CREG_REG", "DREG_REG", "ST_REG"}
  <2>1. Built(shape) = SystemOperand(shape)
    BY <1>6 DEF GprShape, VectorShape, Built, MemShapes, ImmShapes
  <2> QED BY <1>6, <2>1, SystemBuilt DEF OperandSound
<1>7. CASE shape \in FixedBuiltShapes \cup {"NONE"}
  <2>1. Built(shape) = FixedOperand(shape) /\ shape # "SEG_REG"
    BY <1>7 DEF GprShape, VectorShape, Built, MemShapes, ImmShapes, FixedBuiltShapes, FixedShapes
  <2> QED BY <1>7, <2>1, FixedBuilt DEF OperandSound, FamilyNamed
<1>8. shape \in GprShape \cup VectorShape \cup MemShapes \cup ImmShapes \cup {"IMM_ONE", "NONE"}
                \cup {"SEG_REG", "CREG_REG", "DREG_REG", "ST_REG"} \cup FixedBuiltShapes
  BY DEF Shape, ModrmShapes, MemShapes, RegShapes, YmmRegShapes, RmShapes, RegFieldShapes, ImmShapes, OpcodeShapes,
         VvvvShapes, FixedShapes, GprShape, VectorShape, FixedBuiltShapes
<1> QED BY <1>1, <1>2, <1>3, <1>4, <1>5, <1>6, <1>7, <1>8

---------------------------------------------------------------------------
\* What an accepting decoder has made sure of

\* The bytes of the offset and of the immediates are inside the instruction.
LEMMA TailInside ==
  ASSUME DecoderInv, Accepted
  PROVE  OffsetBytes \in Nat /\ raw.immSize \in Nat /\ pos \in Nat /\ OffsetBytes + raw.immSize <= pos
<1> DEFINE front == raw.count + OneIf(raw.hasRex) + OpcodeBytes + OneIf(raw.hasModrm) + OneIf(raw.hasSib) + raw.dispSize
           last == OneIf(TailFollows)
<1>1. front \in Nat /\ last \in Nat /\ raw.immSize \in Nat /\ pos \in Nat
  BY FieldLimits DEF DecoderInv
<1>2. OffsetBytes \in Nat
  BY SizeWithinBudget DEF DecoderInv
<1>3. pos = front + OffsetBytes + raw.immSize + last
  BY DEF DecoderInv, LengthInv, Ledger, FieldBytes, OffsetBytes
<1> HIDE DEF front, last
<1> QED BY <1>1, <1>2, <1>3

LEMMA AcceptedModes == ASSUME DecoderInv, Accepted PROVE ModeSound
<1>1. ctx.isVex = (form = "VEX") /\ ctx.easz = easz
  BY DEF DecoderInv, EntryInv, Handed, ctx
<1>2. ~Is64 => ~raw.hasRex /\ form = "LEGACY" /\ easz # 64
  BY DEF DecoderInv, EntryInv, Modes
<1>3. form = "VEX" => ~raw.hasRex
  BY DEF DecoderInv, EntryInv, VexRead, Settled
<1> QED BY <1>1, <1>2, <1>3 DEF ModeSound

LEMMA AcceptedCount ==
  ASSUME DecoderInv, Accepted PROVE Count \in 0..4 /\ ctx.entry.shapes \in Seq(Shape)
<1>1. ctx.entry = entry /\ entry.shapes \in OperandLists
  BY DEF DecoderInv, EntryInv, Handed, ctx, IndInv, TypeOK, Entry
<1>2. Len(entry.shapes) <= 4
  BY EntrySmall DEF DecoderInv, EntryInv, Settled
<1>3. entry.shapes \in Seq(Shape)
  <2>1. PlainShape \subseteq Shape /\ {"FIXED_GPR8", "FIXED_GPR", "MOFFS"} \subseteq Shape
    BY DEF PlainShape, Shape, ImmShapes, FixedShapes
  <2>2. \A p, q \in Shape : <<p, q>> \in Seq(Shape)
    OBVIOUS
  <2> HIDE DEF Shape
  <2>3. entry.shapes \in Seq(PlainShape) => entry.shapes \in Seq(Shape)
    BY <2>1
  <2>4. entry.shapes \in OffsetLists => entry.shapes \in Seq(Shape)
    BY <2>1, <2>2 DEF OffsetLists
  <2> QED BY <1>1, <2>3, <2>4 DEF OperandLists
<1>4. Len(entry.shapes) \in Nat
  BY <1>3
<1>5. ctx.entry.shapes = entry.shapes
  BY <1>1
<1>6. Len(entry.shapes) \in 0..4
  <2> DEFINE n == Len(entry.shapes)
  <2>1. n \in Nat /\ n <= 4
    BY <1>2, <1>4
  <2> HIDE DEF n
  <2>2. n \in 0..4
    BY <2>1
  <2> QED BY <2>2 DEF n
<1> HIDE DEF Shape
<1> QED BY <1>3, <1>5, <1>6 DEF Count

LEMMA AcceptedShapes ==
  ASSUME DecoderInv, Accepted, NEW s \in 1..Count
  PROVE  ctx.entry.shapes[s] \in Shape /\ Encodable(ctx.entry.shapes[s])
<1> DEFINE p == ctx.entry.shapes[s]
<1>1. /\ ctx.entry = entry /\ ctx.isVex = (form = "VEX") /\ ctx.eosz = eosz /\ ctx.easz = easz /\ ctx.raw = raw
      /\ insn.map = (IF form = "VEX" THEN vex.map ELSE map)
  BY DEF DecoderInv, EntryInv, Handed, ctx
<1>2. ctx.entry.shapes \in Seq(Shape) /\ s \in 1..Len(ctx.entry.shapes)
  BY AcceptedCount DEF Count
<1>3. p \in Shape /\ s \in DOMAIN context.entry.shapes
  BY <1>2 DEF ctx
<1>4. OperandsBacked
  BY Backed DEF DecoderInv
<1>5. /\ p \in ModrmShapes => raw.hasModrm
      /\ p \in MemShapes => ModOf(raw.modrm) # 3
      /\ p \in VvvvShapes => ctx.isVex
  BY <1>3, <1>4 DEF OperandsBacked, ctx
<1>6. ~Is64 => form = "LEGACY" /\ (eosz = 64 => entry.mn = "MOVQ")
  BY DEF DecoderInv, EntryInv, Modes, Accepted
<1>7. form = "VEX" => vex.map \in 1..3
  BY DEF DecoderInv, EntryInv, VexRead, Settled, VexRowFits
<1>8. form = "VZEROALL" => entry.shapes = <<>>
  BY DEF DecoderInv, EntryInv, VexRead, Settled
<1>9. form = "LEGACY" =>
        /\ map = 0 => opcode < 48 \/ NoSegment(entry.shapes)
        /\ ~Is64 /\ entry.mn = "MOVQ" => MmxOnly(entry.shapes)
  BY DEF DecoderInv, RegisterFit, Settled
<1>10. form # "VEX" => insn.opcode = opcode
  BY DEF DecoderInv, LengthInv, Reported
<1>11. form \in {"LEGACY", "VEX", "VZEROALL"}
  BY DEF DecoderInv, IndInv, TypeOK
<1>12. raw.hasMoffs <=> \E j \in DOMAIN context.entry.shapes : context.entry.shapes[j] = "MOFFS"
  BY Reconciled DEF DecoderInv, ImmediatesReconcile, Handed, EntryInv
<1>13. raw.hasModrm => MemKnown
  BY MemFacts
<1> HIDE DEF p
<1>a. ~Is64 /\ p \in GprShape \cup GprFixed => ctx.eosz # 64
  <2>1. p \notin {"MM_REG", "MM_OR_MEM"} \/ p \notin GprShape \cup GprFixed
    BY DEF GprShape, GprFixed
  <2>2. ~Is64 /\ eosz = 64 => p \in {"MM_REG", "MM_OR_MEM"}
    BY <1>1, <1>2, <1>6, <1>9 DEF MmxOnly, p
  <2> QED BY <1>1, <2>1, <2>2
<1>b. ~Is64 => p \notin VvvvShapes
  BY <1>1, <1>5, <1>6
<1>c. p = "FIXED_SEG" /\ insn.map = 0 => insn.opcode < 48
  <2>1. form = "LEGACY" /\ p = "FIXED_SEG" /\ map = 0 => opcode < 48
    BY <1>1, <1>2, <1>9 DEF NoSegment, p
  <2>2. form # "VZEROALL"
    BY <1>1, <1>2, <1>8
  <2> QED BY <1>1, <1>7, <1>10, <1>11, <2>1, <2>2
<1>d. p \in MemShapes => mod # 3
  BY <1>1, <1>5 DEF mod
<1>e. p \in MemShapes \cup RmShapes => MemKnown
  <2>1. p \in MemShapes \cup RmShapes => p \in ModrmShapes
    BY DEF ModrmShapes
  <2> QED BY <1>5, <1>13, <2>1
<1>f. p = "MOFFS" => ctx.easz \div 8 <= pos
  <2>1. p = "MOFFS" => raw.hasMoffs
    BY <1>3, <1>12 DEF p, ctx
  <2>2. raw.hasMoffs => OffsetBytes = ctx.easz \div 8
    BY <1>1 DEF OffsetBytes
  <2>3. OffsetBytes <= pos
    BY TailInside
  <2> QED BY <2>1, <2>2, <2>3
<1>g. p = "SEG_REG" => ~ctx.isVex /\ RegOf(raw.modrm) <= 5
  <2>1. p = "SEG_REG" => RegOf(raw.modrm) <= 5
    BY <1>3, <1>4 DEF OperandsBacked, ctx, p
  <2>2. form = "VEX" => VexList(entry.shapes)
    BY DEF DecoderInv, EntryInv, VexRead, Settled, VexRowFits
  <2>3. form = "VEX" => p \in VexShapes
    BY <1>1, <1>2, <2>2 DEF VexList, Within, p
  <2> QED BY <1>1, <2>1, <2>3 DEF VexShapes
<1> QED BY <1>3, <1>a, <1>b, <1>c, <1>d, <1>e, <1>f, <1>g DEF Encodable, p
=============================================================================
