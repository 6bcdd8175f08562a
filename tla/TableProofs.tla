---------------------------- MODULE TableProofs ----------------------------
(***************************************************************************)
(* What the opcode tables and the resolvers return, for every opcode,      *)
(* ModRM byte, prefix and mode: a known mnemonic with known operand shapes,*)
(* or one of the two refusals.  A resolver never asks for more bytes.      *)
(***************************************************************************)
EXTENDS Resolve, Vex, SequenceTheorems, TLAPS

\* Every shape name the tables use is a shape the operand builder knows.
LEMMA ShapeNames ==
  /\ {"MEM_RM", "MEM8_RM", "MEM16_RM", "MEM32_RM", "MEM64_RM", "MEM80_RM"} \subseteq PlainShape
  /\ {"GPR_RM", "GPR8_RM", "XMM_RM", "XMM32", "XMM64", "MM32", "MM_RM"} \subseteq PlainShape
  /\ {"GPR_OR_MEM", "GPR8_OR_MEM", "GPR16_OR_MEM", "GPR_OR_MEM16", "R32_OR_MEM", "R32_OR_MEM16",
      "MM_OR_MEM", "XMM_OR_MEM", "YMM_OR_MEM", "ST_REG"} \subseteq PlainShape
  /\ {"GPR_REG", "GPR8_REG", "GPR16_REG", "R32_REG", "SEG_REG", "CREG_REG", "DREG_REG", "MM_REG",
      "XMM_REG", "YMM_REG"} \subseteq PlainShape
  /\ {"IMM8", "IMM16", "IMM_V", "IMM_V64", "IMM_VS", "REL8", "REL_V"} \subseteq PlainShape
  /\ {"REG_OPCODE", "REG8_OPCODE", "VEX_VVVV", "VEX_VVVV_GPR", "NONE"} \subseteq PlainShape
  /\ {"FIXED_GPR", "FIXED_GPR8", "FIXED_GPR16", "FIXED_SEG", "FIXED_ST0", "IMM_ONE", "IMPLICIT_GPR",
      "IMPLICIT_GPR32", "IMPLICIT_ST0", "IMPLICIT_XMM0"} \subseteq PlainShape
BY DEF PlainShape, Shape, ModrmShapes, MemShapes, RegShapes, YmmRegShapes, RmShapes, RegFieldShapes, ImmShapes,
       OpcodeShapes, VvvvShapes, FixedShapes

\* Up to four shapes are a list of operands.
LEMMA ShapeLists ==
  /\ <<>> \in Seq(PlainShape) /\ <<>> \in OperandLists
  /\ \A p \in PlainShape : <<p>> \in Seq(PlainShape) /\ <<p>> \in OperandLists
  /\ \A p, q \in PlainShape : <<p, q>> \in Seq(PlainShape) /\ <<p, q>> \in OperandLists
  /\ \A p, q, r \in PlainShape : <<p, q, r>> \in Seq(PlainShape) /\ <<p, q, r>> \in OperandLists
  /\ \A p, q, r, s \in PlainShape : <<p, q, r, s>> \in Seq(PlainShape) /\ <<p, q, r, s>> \in OperandLists
  /\ \A s \in Seq(PlainShape) : s \in OperandLists
BY DEF OperandLists

LEMMA MnemonicNames ==
  /\ StackMnemonic \subseteq Mnemonic
  /\ {"PUSH", "POP", "PUSHF", "POPF", "CALL", "JMP", "RET", "ENTER", "LEAVE"} \subseteq Mnemonic
  /\ {"NONE", "INSN", "MOVQ", "PAUSE", "MOVMEM", "VMOVNT", "V256"} \subseteq Mnemonic
BY DEF Mnemonic, StackMnemonic

LEMMA Appended ==
  ASSUME NEW s \in Seq(PlainShape), NEW t \in Seq(PlainShape) PROVE s \o t \in Seq(PlainShape)
OBVIOUS

\* The constructors keep to their types.
LEMMA Constructors ==
  /\ \A mn \in Mnemonic, s \in OperandLists : Direct(mn, s) \in Row
  /\ \A s \in OperandLists : Modrm(s) \in Row
  /\ \A g \in GroupName : Group(g) \in Row
  /\ \A mn \in Mnemonic, s \in OperandLists : Found(mn, s) \in Resolution
  /\ \A v \in {"INVALID", "UNSUPPORTED"} : Refuse(v) \in Resolution
  /\ \A mn \in Mnemonic, s \in Seq(PlainShape) : Variant(mn, s) \in VariantRow
  /\ NoVariant \in VariantRow
  /\ \A v \in VariantRow : Pick(v) \in Resolution
BY ShapeLists, MnemonicNames
DEF Direct, Modrm, Group, Row, GroupName, Found, Refuse, Resolution, Variant, VariantRow, NoVariant, Pick

---------------------------------------------------------------------------
\* The one-byte map and the 0F map

LEMMA Map0LowType == ASSUME NEW op \in Byte PROVE Map0Low(op) \in Row
BY Constructors, ShapeNames, ShapeLists, MnemonicNames DEF Map0Low, NoRow

LEMMA Map0HighType == ASSUME NEW op \in Byte PROVE Map0High(op) \in Row
<1>1. [Modrm(<<"GPR_OR_MEM">>) EXCEPT !.mn = "POP"] \in Row
  BY ShapeNames, ShapeLists, MnemonicNames DEF Modrm, Row, GroupName
<1>2. {"G1", "G2", "G11B", "G11V", "FPU", "G3B", "G3V", "G4", "G5"} \subseteq GroupName
  BY DEF GroupName
<1>3. \A s \in OffsetLists : Direct("INSN", s) \in Row
  BY Constructors, MnemonicNames DEF OperandLists
<1>4. \A r \in {"FIXED_GPR8", "FIXED_GPR"} : {<<r, "MOFFS">>, <<"MOFFS", r>>} \subseteq OffsetLists
  BY DEF OffsetLists
<1> QED BY <1>1, <1>2, <1>3, <1>4, Constructors, ShapeNames, ShapeLists, MnemonicNames DEF Map0High, NoRow

LEMMA Map1RowType == ASSUME NEW op \in Byte PROVE Map1Row(op) \in Row
<1>1. {"G6", "G7", "G8", "G9", "G15", "SSE", "3DNOW", "0F0D", "0F18"} \subseteq GroupName
  BY DEF GroupName
<1> QED BY <1>1, Constructors, ShapeNames, ShapeLists, MnemonicNames DEF Map1Row, NoRow

LEMMA MapTypes == \A op \in Byte : Map0[op] \in Row /\ Map1[op] \in Row
BY Map0LowType, Map0HighType, Map1RowType DEF Map0, Map1

---------------------------------------------------------------------------
\* SSE, x87 and the three-byte maps

LEMMA MovVariantType == ASSUME NEW op, NEW col PROVE MovVariant(op, col) \in VariantRow
<1>1. /\ MemoryOnly(XmmLoad) \in VariantRow /\ MemoryOnly(XmmStore) \in VariantRow
      /\ MemoryOnly(MmStore) \in VariantRow
      /\ [MmLoad EXCEPT !.mn = "MOVQ"] \in VariantRow /\ [MmStore EXCEPT !.mn = "MOVQ"] \in VariantRow
  BY ShapeNames, ShapeLists, MnemonicNames
  DEF MemoryOnly, XmmLoad, XmmStore, MmStore, MmLoad, Variant, VariantRow
<1> QED BY <1>1, Constructors, ShapeNames, ShapeLists, MnemonicNames
        DEF MovVariant, XmmLoad, XmmStore, MmLoad

LEMMA AluVariantType == ASSUME NEW op, NEW col PROVE AluVariant(op, col) \in VariantRow
BY Constructors, ShapeNames, ShapeLists, MnemonicNames DEF AluVariant, XmmLoad, MmLoad, XmmImm

LEMMA ResolveSseType == ASSUME NEW op, NEW modrm, NEW fx PROVE ResolveSse(op, modrm, fx) \in Resolution
<1>1. ResolveShift(op, modrm, fx) \in Resolution
  BY Constructors, ShapeNames, ShapeLists, MnemonicNames DEF ResolveShift
<1>2. ResolveMovdq(op, fx) \in Resolution
  BY Constructors, ShapeNames, ShapeLists, MnemonicNames DEF ResolveMovdq
<1>3. ResolveWord(op, modrm, fx) \in Resolution
  BY Constructors, ShapeNames, ShapeLists, MnemonicNames DEF ResolveWord
<1>4. ResolveRow(op, modrm, fx) \in Resolution
  BY Constructors, MovVariantType, AluVariantType DEF ResolveRow
<1> QED BY <1>1, <1>2, <1>3, <1>4, Constructors, ShapeNames, ShapeLists, MnemonicNames DEF ResolveSse

LEMMA ResolveFpuType == ASSUME NEW escape, NEW modrm \in Byte PROVE ResolveFpu(escape, modrm) \in Resolution
<1>1. \A r \in 0..7 : FpuMem(escape)[r] \in PlainShape \cup {""}
  BY ShapeNames DEF FpuMem
<1>2. RegOf(modrm) \in 0..7
  BY DEF RegOf, Byte
<1>3. FpuLow(escape, modrm) \in Resolution
  BY Constructors, ShapeNames, ShapeLists, MnemonicNames DEF FpuLow, None0, St, Pair, PairRev
<1>4. FpuHigh(escape, modrm) \in Resolution
  BY Constructors, ShapeNames, ShapeLists, MnemonicNames DEF FpuHigh, None0, St, Pair, PairRev
<1> QED BY <1>1, <1>2, <1>3, <1>4, Constructors, ShapeLists, MnemonicNames DEF ResolveFpu

LEMMA Variant38Type == ASSUME NEW op, NEW col PROVE Variant38(op, col) \in VariantRow
<1>1. Xmm2 \o <<"IMPLICIT_XMM0">> \in Seq(PlainShape)
  BY Appended, ShapeNames, ShapeLists DEF Xmm2
<1> QED BY <1>1, Constructors, ShapeNames, ShapeLists, MnemonicNames DEF Variant38, Mm2, Xmm2

LEMMA Variant3AType == ASSUME NEW op, NEW col PROVE Variant3A(op, col) \in VariantRow
<1>1. Mm2 \o <<"IMM8">> \in Seq(PlainShape)
  BY Appended, ShapeNames, ShapeLists DEF Mm2
<1> QED BY <1>1, Constructors, ShapeNames, ShapeLists, MnemonicNames DEF Variant3A, Xmm3

LEMMA ResolveCryptoType ==
  ASSUME NEW m, NEW op, NEW modrm, NEW fx
  PROVE  ResolveCrypto(m, op, modrm, fx) \in Resolution
<1>1. Mm2 \o <<"IMM8">> \in Seq(PlainShape) /\ Xmm2 \o <<"IMM8">> \in Seq(PlainShape)
  BY Appended, ShapeNames, ShapeLists DEF Mm2, Xmm2
<1>2. Resolve38(op, modrm, fx) \in Resolution
  BY Constructors, ShapeNames, ShapeLists, MnemonicNames DEF Resolve38, Xmm2, Mm2
<1>3. Resolve3A(op, fx) \in Resolution
  BY <1>1, Constructors, ShapeNames, ShapeLists, MnemonicNames DEF Resolve3A, Xmm3
<1>4. \A v \in VariantRow, i \in 1..2 : Found("INSN", [v.shapes EXCEPT ![i] = "GPR_OR_MEM"]) \in Resolution
  <2>1. \A p \in PlainShape, s \in Seq(PlainShape), i \in 1..2 : [s EXCEPT ![i] = p] \in Seq(PlainShape)
    <3> TAKE p \in PlainShape, s \in Seq(PlainShape), i \in 1..2
    <3>1. CASE i \in 1..Len(s)
      BY <3>1, ExceptSeq
    <3>2. CASE i \notin 1..Len(s)
      <4>1. DOMAIN s = 1..Len(s) /\ s = [j \in 1..Len(s) |-> s[j]]
        OBVIOUS
      <4>2. [s EXCEPT ![i] = p] = [j \in 1..Len(s) |-> s[j]]
        BY <3>2, <4>1
      <4> QED BY <4>1, <4>2
    <3> QED BY <3>1, <3>2
  <2>2. "GPR_OR_MEM" \in PlainShape
    BY ShapeNames
  <2>3. \A v \in VariantRow : v.shapes \in Seq(PlainShape)
    BY DEF VariantRow
  <2> QED BY <2>1, <2>2, <2>3, Constructors, ShapeLists, MnemonicNames
<1> QED BY <1>2, <1>3, <1>4, Constructors, Variant38Type, Variant3AType DEF ResolveCrypto

---------------------------------------------------------------------------
\* Groups

LEMMA ResolveGroupType ==
  ASSUME NEW g, NEW op, NEW modrm, NEW tl, NEW fx
  PROVE  ResolveGroup(g, op, modrm, tl, fx) \in Resolution
<1>1. SmallGroup(g, op, RegOf(modrm)) \in Resolution
  BY Constructors, ShapeNames, ShapeLists, MnemonicNames DEF SmallGroup, Operand
<1>2. Group7(modrm, fx) \in Resolution
  BY Constructors, ShapeNames, ShapeLists, MnemonicNames DEF Group7
<1>3. Group9(modrm, fx) \in Resolution
  BY Constructors, ShapeNames, ShapeLists, MnemonicNames DEF Group9
<1>4. Group15(modrm, fx) \in Resolution
  BY Constructors, ShapeNames, ShapeLists, MnemonicNames DEF Group15
<1>5. OtherGroup(g, RegOf(modrm), tl) \in Resolution
  BY Constructors, ShapeNames, ShapeLists, MnemonicNames DEF OtherGroup, Mm2
<1> QED BY <1>1, <1>2, <1>3, <1>4, <1>5 DEF ResolveGroup

LEMMA FixTypes ==
  ASSUME NEW op, NEW row \in Row, NEW modrm, NEW fx
  PROVE  Fix0(op, row, modrm, fx) \in Resolution /\ Fix1(op, row, modrm, fx) \in Resolution
<1>1. row.mn \in Mnemonic /\ row.shapes \in OperandLists
  BY DEF Row
<1> QED BY <1>1, Constructors, ShapeNames, ShapeLists, MnemonicNames DEF Fix0, Fix1

\* x86dec_resolve returns an entry or a refusal for every opcode of the maps
\* 0 and 1, every ModRM byte, 3DNow! opcode, mode and prefix combination.
THEOREM ResolveEntryType ==
  ASSUME NEW m, NEW op \in Byte, NEW modrm \in Byte, NEW tl, NEW fx
  PROVE  ResolveEntry(m, op, modrm, tl, fx) \in Resolution
<1> DEFINE row == IF m = 0 THEN Map0[op] ELSE Map1[op]
<1>1. row \in Row
  BY MapTypes
<1>2. NoBaseRow(m, op, modrm, fx) \in Resolution
  BY Constructors, ResolveSseType DEF NoBaseRow
<1>3. (IF m = 0 THEN Fix0(op, row, modrm, fx) ELSE Fix1(op, row, modrm, fx)) \in Resolution
  BY <1>1, FixTypes
<1> HIDE DEF row
<1> QED BY <1>2, <1>3, Constructors, ResolveGroupType, ResolveFpuType, ResolveSseType DEF ResolveEntry, row

---------------------------------------------------------------------------
\* VEX

LEMMA VexVariantType == ASSUME NEW m, NEW op, NEW pp PROVE VexVariant(m, op, pp) \in VariantRow
<1>1. \A v \in VariantRow : Scalar(v) \in VariantRow
  BY DEF Scalar, VariantRow
<1>2. [VexOut EXCEPT !.mn = "VMOVNT"] \in VariantRow
  BY ShapeNames, ShapeLists, MnemonicNames DEF VexOut, Variant, VariantRow
<1>3. \A col : Vex0fScalarRow(op, col) \in VariantRow /\ Vex0fPackedRow(op, col) \in VariantRow
  BY <1>2, Constructors, ShapeNames, ShapeLists, MnemonicNames
  DEF Vex0fScalarRow, Vex0fPackedRow, Vex2, VexOut, Vex3, Vex2Imm, Vex3Imm
<1>4. \A col : Vex0f38(op, col) \in VariantRow
  BY <1>1, Constructors, ShapeNames, ShapeLists, MnemonicNames
  DEF Vex0f38, VexGpr3, Vex3, Vex2, Vex2Imm, V256
<1>5. \A col : Vex0f3a(op, col) \in VariantRow
  BY <1>1, Constructors, ShapeNames, ShapeLists, MnemonicNames DEF Vex0f3a, Vex3Imm, Vex2Imm, V256
<1> QED BY <1>1, <1>3, <1>4, <1>5 DEF VexVariant, Vex0f

LEMMA VexEntryType == ASSUME NEW f, NEW long PROVE VexEntry(f, long) \in Resolution
<1>1. VexVariant(f.map, f.op, f.pp) \in VariantRow
  BY VexVariantType
<1>2. Deferred \in Resolution
  BY Constructors, ShapeNames, ShapeLists, MnemonicNames DEF Deferred
<1>3. \A v \in VariantRow : Found(v.mn, v.shapes) \in Resolution
  BY Constructors, ShapeLists DEF VariantRow
<1> QED BY <1>1, <1>2, <1>3, Constructors DEF VexEntry

\* The fields read from a VEX prefix are as wide as their bit fields.
LEMMA VexFieldTypes ==
  ASSUME NEW b2 \in Byte, NEW b3 \in Byte, NEW op \in Byte
  PROVE  LongForm(b2, b3, op) \in VexFields /\ ShortForm(b2, op) \in VexFields
BY DEF LongForm, ShortForm, VexFields, Bit, NotBit, Vvvv, Byte, x, C

\* x86dec_decode_vex takes no byte beyond the buffer, takes them all when it
\* runs out, and otherwise takes the prefix and the opcode.
THEOREM DecodeVexType ==
  ASSUME NEW s \in Seq(Byte), NEW p \in Nat, p < Len(s), s[p + 1] \in {x(C,4), x(C,5)}
  PROVE  LET d == DecodeVex(s, p)
         IN  /\ d.status \in {"OK", "NEED_MORE", "INVALID", "UNSUPPORTED"}
             /\ d.mn \in Mnemonic /\ d.shapes \in OperandLists /\ d.vex \in VexFields
             /\ d.pos \in p + 1 .. Len(s)
             /\ d.status = "NEED_MORE" => d.pos = Len(s)
             /\ d.status = "OK" => d.pos = p + VexBytes(s, p)
<1>1. VexBytes(s, p) \in {3, 4}
  BY DEF VexBytes
<1>2. CASE VexComplete(s, p)
  <2> DEFINE long == s[p + 1] = x(C,4)
             f == IF long THEN LongForm(s[p + 2], s[p + 3], s[p + 4]) ELSE ShortForm(s[p + 2], s[p + 3])
             e == VexEntry(f, long)
  <2>1. p + VexBytes(s, p) <= Len(s)
    BY <1>2 DEF VexComplete
  <2>2. s[p + 2] \in Byte /\ s[p + 3] \in Byte /\ (long => s[p + 4] \in Byte)
    BY <1>1, <2>1 DEF VexBytes
  <2>3. f \in VexFields
    BY <2>2, VexFieldTypes
  <2>4. e \in Resolution
    BY VexEntryType
  <2>5. DecodeVex(s, p) = [status |-> e.status, mn |-> e.mn, shapes |-> e.shapes, vex |-> f,
                           pos |-> p + VexBytes(s, p)]
    BY <1>2 DEF DecodeVex
  <2> HIDE DEF f, e
  <2> QED BY <1>1, <2>1, <2>3, <2>4, <2>5 DEF Resolution
<1>3. CASE ~VexComplete(s, p)
  <2>1. NoVexFields \in VexFields
    BY DEF NoVexFields, VexFields, Byte
  <2>2. DecodeVex(s, p) = [status |-> "NEED_MORE", mn |-> "NONE", shapes |-> <<>>, vex |-> NoVexFields,
                           pos |-> Len(s)]
    BY <1>3 DEF DecodeVex
  <2> QED BY <2>1, <2>2, ShapeLists, MnemonicNames
<1> QED BY <1>2, <1>3

LEMMA ResolveVexType ==
  ASSUME NEW e, e.mn \in Mnemonic, e.shapes \in OperandLists, NEW f, NEW modrm
  PROVE  ResolveVex(e, f, modrm) \in Resolution
<1>1. ResolveDeferred(f, RegOf(modrm)) \in Resolution
  BY Constructors, ShapeNames, ShapeLists, MnemonicNames DEF ResolveDeferred
<1> QED BY <1>1, Constructors DEF ResolveVex

---------------------------------------------------------------------------
\* How many operands an entry has, of which shapes, and how many bytes they ask
\* for behind the ModRM tail

\* The most bytes an operand of a shape takes behind the ModRM tail, and the
\* most all the operands of an entry take.
ImmLimit(shape) ==
  CASE shape \in {"IMM8", "REL8"} -> 1
    [] shape = "IMM16" -> 2
    [] shape \in {"IMM_V", "IMM_VS", "REL_V"} -> 4
    [] shape \in {"IMM_V64", "MOFFS"} -> 8
    [] OTHER -> 0
LimitAt(s, j) == IF j <= Len(s) THEN ImmLimit(s[j]) ELSE 0
Budget(s) == LimitAt(s, 1) + LimitAt(s, 2) + LimitAt(s, 3) + LimitAt(s, 4)

\* At most n operands of these shapes with at most b bytes.
Within(s, shapes, n, b) == Len(s) <= n /\ Budget(s) <= b /\ \A j \in 1..Len(s) : s[j] \in shapes

\* The shapes that go with ModRM in a legacy entry, and those without it.
VexOnlyShapes == VvvvShapes \cup YmmRegShapes \cup {"YMM_REG", "YMM_OR_MEM"}
LegacyShapes == Shape \ (VexOnlyShapes \cup {"NONE"})
BareShapes   == LegacyShapes \ ModrmShapes
PickyShapes  == MemShapes \cup {"SEG_REG", "ST_REG"}
VexShapes    == Shape \ {"NONE", "SEG_REG", "ST_REG"}

\* The ModRM byte gives each operand what its shape asks of it.
ModFits(s, m) ==
  \A j \in 1..Len(s) : /\ s[j] \in MemShapes => ModOf(m) # 3
                       /\ s[j] = "ST_REG" => ModOf(m) = 3
                       /\ s[j] = "SEG_REG" => RegOf(m) <= 5
Rows(s, b)    == Within(s, LegacyShapes \ {"ST_REG"}, 3, b)
Fits(s, b, m) == Within(s, LegacyShapes, 3, b) /\ ModFits(s, m)

EasyShapes == {p \in LegacyShapes \ PickyShapes : ImmLimit(p) = 0}
RowShapes  == {p \in LegacyShapes \ {"ST_REG"} : ImmLimit(p) = 0}

LEMMA EasyNames ==
  /\ {"GPR_RM", "GPR8_RM", "XMM_RM", "XMM32", "XMM64", "MM32", "MM_RM"} \subseteq EasyShapes
  /\ {"GPR_OR_MEM", "GPR8_OR_MEM", "GPR16_OR_MEM", "GPR_OR_MEM16", "R32_OR_MEM", "R32_OR_MEM16",
      "MM_OR_MEM", "XMM_OR_MEM"} \subseteq EasyShapes
  /\ {"GPR_REG", "GPR8_REG", "GPR16_REG", "R32_REG", "CREG_REG", "DREG_REG", "MM_REG", "XMM_REG"} \subseteq EasyShapes
  /\ {"REG_OPCODE", "REG8_OPCODE"} \subseteq EasyShapes
  /\ {"FIXED_GPR", "FIXED_GPR8", "FIXED_GPR16", "FIXED_SEG", "FIXED_ST0", "IMM_ONE", "IMPLICIT_GPR",
      "IMPLICIT_GPR32", "IMPLICIT_ST0", "IMPLICIT_XMM0"} \subseteq EasyShapes
BY DEF EasyShapes, LegacyShapes, VexOnlyShapes, PickyShapes, Shape, ModrmShapes, MemShapes, RegShapes,
       YmmRegShapes, RmShapes, RegFieldShapes, ImmShapes, OpcodeShapes, VvvvShapes, FixedShapes, ImmLimit

LEMMA RowNames ==
  EasyShapes \cup {"MEM_RM", "MEM8_RM", "MEM16_RM", "MEM32_RM", "MEM64_RM", "MEM80_RM", "SEG_REG"} \subseteq RowShapes
BY DEF EasyShapes, RowShapes, LegacyShapes, VexOnlyShapes, PickyShapes, Shape, ModrmShapes, MemShapes,
       RegShapes, YmmRegShapes, RmShapes, RegFieldShapes, ImmShapes, OpcodeShapes, VvvvShapes, FixedShapes, ImmLimit

LEMMA ImmNames ==
  /\ {"IMM8", "IMM_VS"} \subseteq LegacyShapes \ PickyShapes
  /\ ImmLimit("IMM8") = 1 /\ ImmLimit("IMM_VS") = 4
BY DEF LegacyShapes, VexOnlyShapes, PickyShapes, Shape, ModrmShapes, MemShapes, RegShapes, YmmRegShapes,
       RmShapes, RegFieldShapes, ImmShapes, OpcodeShapes, VvvvShapes, FixedShapes, ImmLimit

\* Lists of up to three shapes, with one immediate or none.
LEMMA RowLists ==
  /\ \A b \in Nat : Rows(<<>>, b)
  /\ \A b \in Nat, p \in RowShapes : Rows(<<p>>, b)
  /\ \A b \in Nat, p, q \in RowShapes : Rows(<<p, q>>, b)
  /\ \A b \in Nat, p, q, r \in RowShapes : Rows(<<p, q, r>>, b)
  /\ \A p \in RowShapes : Rows(<<p, "IMM8">>, 1) /\ Rows(<<p, "IMM_VS">>, 4)
  /\ \A p, q \in RowShapes : Rows(<<p, q, "IMM8">>, 1) /\ Rows(<<p, q, "IMM_VS">>, 4)
<1>1. \A p \in RowShapes : ImmLimit(p) = 0 /\ p \in LegacyShapes \ {"ST_REG"}
  BY DEF RowShapes
<1>2. "IMM8" \in LegacyShapes \ {"ST_REG"} /\ "IMM_VS" \in LegacyShapes \ {"ST_REG"}
  BY ImmNames DEF PickyShapes
<1> QED BY <1>1, <1>2, ImmNames DEF Rows, Within, Budget, LimitAt

LEMMA RowsWiden == ASSUME NEW s, Rows(s, 1) PROVE Rows(s, 4)
BY DEF Rows, Within, Budget, LimitAt, ImmLimit

LEMMA RowsFit ==
  ASSUME NEW s, NEW b, NEW m, Rows(s, b), ModAllows(s, m), DOMAIN s = 1..Len(s) PROVE Fits(s, b, m)
BY DEF Rows, Fits, Within, ModFits, ModAllows

\* Lists that ask nothing of the ModRM byte.
LEMMA EasyLists ==
  ASSUME NEW m
  PROVE  /\ \A b \in Nat : Fits(<<>>, b, m)
         /\ \A b \in Nat, p \in EasyShapes : Fits(<<p>>, b, m)
         /\ \A b \in Nat, p, q \in EasyShapes : Fits(<<p, q>>, b, m)
         /\ \A b \in Nat, p, q, r \in EasyShapes : Fits(<<p, q, r>>, b, m)
         /\ \A p \in EasyShapes : Fits(<<p, "IMM8">>, 1, m)
         /\ \A p, q \in EasyShapes : Fits(<<p, q, "IMM8">>, 1, m)
<1>1. \A p \in EasyShapes : ImmLimit(p) = 0 /\ p \in LegacyShapes \ PickyShapes
  BY DEF EasyShapes
<1> QED BY <1>1, ImmNames DEF Fits, Within, ModFits, Budget, LimitAt, PickyShapes

\* Entries without a ModRM byte: nothing is read out of one, and only MOV with
\* an immediate or a memory offset takes eight bytes.
Bare(mn, s) ==
  /\ Within(s, BareShapes, 2, 8)
  /\ mn \in StackMnemonic => Budget(s) <= 4

BarePlain == {p \in BareShapes : ImmLimit(p) = 0}
BareImm   == {p \in BareShapes : ImmLimit(p) <= 4}

LEMMA BareNames ==
  /\ {"REG_OPCODE", "REG8_OPCODE", "FIXED_GPR", "FIXED_GPR8", "FIXED_GPR16", "FIXED_SEG"} \subseteq BarePlain
  /\ {"IMM8", "IMM16", "IMM_V", "IMM_VS", "REL8", "REL_V"} \subseteq BareImm
  /\ {"IMM_V64", "MOFFS"} \subseteq BareShapes /\ ImmLimit("IMM_V64") = 8 /\ ImmLimit("MOFFS") = 8
  /\ ImmLimit("IMM16") = 2 /\ ImmLimit("IMM8") = 1
BY DEF BarePlain, BareImm, BareShapes, LegacyShapes, VexOnlyShapes, Shape, ModrmShapes, MemShapes, RegShapes,
       YmmRegShapes, RmShapes, RegFieldShapes, ImmShapes, OpcodeShapes, VvvvShapes, FixedShapes, ImmLimit

LEMMA BareLists ==
  /\ \A mn \in Mnemonic : Bare(mn, <<>>)
  /\ \A mn \in Mnemonic, p \in BarePlain \cup BareImm : Bare(mn, <<p>>)
  /\ \A mn \in Mnemonic, p, q \in BarePlain : Bare(mn, <<p, q>>)
  /\ \A mn \in Mnemonic, p \in BarePlain, q \in BareImm : Bare(mn, <<p, q>>) /\ Bare(mn, <<q, p>>)
  /\ \A mn \in Mnemonic : Bare(mn, <<"IMM16", "IMM8">>)
  /\ \A p \in BarePlain, q \in {"IMM_V64", "MOFFS"} : Bare("INSN", <<p, q>>) /\ Bare("INSN", <<q, p>>)
<1>1. \A p \in BarePlain : ImmLimit(p) = 0 /\ p \in BareShapes
  BY DEF BarePlain
<1>2. \A p \in BareImm : ImmLimit(p) <= 4 /\ p \in BareShapes /\ ImmLimit(p) \in Nat
  BY DEF BareImm, ImmLimit
<1>3. {"IMM8", "IMM16"} \subseteq BareShapes
  BY <1>2, BareNames
<1>4. "INSN" \notin StackMnemonic
  BY DEF StackMnemonic
<1> QED BY <1>1, <1>2, <1>3, <1>4, BareNames DEF Bare, Within, Budget, LimitAt

\* The rows of the one-byte map and of the 0F map.
RowFits(row, b) ==
  /\ row.group # "NONE" => row.modrm
  /\ row.modrm => Rows(row.shapes, b)
  /\ ~row.modrm => Bare(row.mn, row.shapes)

\* The same of the rows themselves; map 0 has rows with four bytes.
LEMMA RowKinds ==
  ASSUME NEW b \in {1, 4}
  PROVE  /\ \A mn \in Mnemonic : RowFits(Direct(mn, <<>>), b)
         /\ \A mn \in Mnemonic, p \in BarePlain \cup BareImm : RowFits(Direct(mn, <<p>>), b)
         /\ \A mn \in Mnemonic, p, q \in BarePlain : RowFits(Direct(mn, <<p, q>>), b)
         /\ \A mn \in Mnemonic, p \in BarePlain, q \in BareImm :
              RowFits(Direct(mn, <<p, q>>), b) /\ RowFits(Direct(mn, <<q, p>>), b)
         /\ \A mn \in Mnemonic : RowFits(Direct(mn, <<"IMM16", "IMM8">>), b)
         /\ \A p \in BarePlain, q \in {"IMM_V64", "MOFFS"} :
              RowFits(Direct("INSN", <<p, q>>), b) /\ RowFits(Direct("INSN", <<q, p>>), b)
         /\ \A p \in RowShapes : RowFits(Modrm(<<p>>), b)
         /\ \A p, q \in RowShapes : RowFits(Modrm(<<p, q>>), b)
         /\ \A p, q, r \in RowShapes : RowFits(Modrm(<<p, q, r>>), b)
         /\ \A p, q \in RowShapes : RowFits(Modrm(<<p, q, "IMM8">>), b)
         /\ b = 4 => \A p, q \in RowShapes : RowFits(Modrm(<<p, q, "IMM_VS">>), b)
         /\ \A g \in GroupName : RowFits(Group(g), b)
<1>1. \A p, q \in RowShapes : Rows(<<p, q, "IMM8">>, b)
  BY RowLists, RowsWiden
<1>2. \A mn, s : Bare(mn, s) => RowFits(Direct(mn, s), b)
  BY DEF Direct, RowFits
<1>3. \A s : Rows(s, b) => RowFits(Modrm(s), b)
  BY DEF Modrm, RowFits
<1>4. \A g : RowFits(Group(g), b)
  BY RowLists DEF Group, RowFits
<1> QED BY <1>1, <1>2, <1>3, <1>4, RowLists, BareLists, MnemonicNames

LEMMA Map0LowFits == ASSUME NEW op \in Byte PROVE RowFits(Map0Low(op), 4)
BY RowKinds, RowNames, EasyNames, BareNames, MnemonicNames DEF Map0Low, NoRow

LEMMA Map0HighFits == ASSUME NEW op \in Byte PROVE RowFits(Map0High(op), 4)
<1>1. RowFits([Modrm(<<"GPR_OR_MEM">>) EXCEPT !.mn = "POP"], 4)
  BY RowLists, RowNames, EasyNames DEF Modrm, RowFits
<1>2. {"G1", "G2", "G11B", "G11V", "FPU", "G3B", "G3V", "G4", "G5"} \subseteq GroupName
  BY DEF GroupName
<1> QED BY <1>1, <1>2, RowKinds, RowNames, EasyNames, BareNames, MnemonicNames DEF Map0High, NoRow

LEMMA Map1RowFits == ASSUME NEW op \in Byte PROVE RowFits(Map1Row(op), 1)
<1>1. {"G6", "G7", "G8", "G9", "G15", "SSE", "3DNOW", "0F0D", "0F18"} \subseteq GroupName
  BY DEF GroupName
<1> QED BY <1>1, RowKinds, RowNames, EasyNames, BareNames, MnemonicNames DEF Map1Row, NoRow

LEMMA MapFits == \A op \in Byte : RowFits(Map0[op], 4) /\ RowFits(Map1[op], 1)
BY Map0LowFits, Map0HighFits, Map1RowFits DEF Map0, Map1

---------------------------------------------------------------------------
\* A resolver that finds an entry finds one that fits.

OkFits(r, b, m) == r.status = "OK" => Fits(r.shapes, b, m)

LEMMA OkKinds ==
  ASSUME NEW m, NEW b \in {1, 4}
  PROVE  /\ \A v \in {"INVALID", "UNSUPPORTED"} : OkFits(Refuse(v), b, m)
         /\ \A mn \in Mnemonic : OkFits(Found(mn, <<>>), b, m)
         /\ \A mn \in Mnemonic, p \in EasyShapes : OkFits(Found(mn, <<p>>), b, m)
         /\ \A mn \in Mnemonic, p, q \in EasyShapes : OkFits(Found(mn, <<p, q>>), b, m)
         /\ \A mn \in Mnemonic, p, q, r \in EasyShapes : OkFits(Found(mn, <<p, q, r>>), b, m)
         /\ \A mn \in Mnemonic, p \in EasyShapes : OkFits(Found(mn, <<p, "IMM8">>), 1, m)
         /\ \A mn \in Mnemonic, p, q \in EasyShapes : OkFits(Found(mn, <<p, q, "IMM8">>), 1, m)
<1>1. \A v \in {"INVALID", "UNSUPPORTED"} : OkFits(Refuse(v), b, m)
  BY DEF OkFits, Refuse
<1>2. \A mn, s : \A c : Fits(s, c, m) => OkFits(Found(mn, s), c, m)
  BY DEF OkFits, Found
<1> QED BY <1>1, <1>2, EasyLists

\* The columns of the SSE rows.
LEMMA VariantKinds ==
  ASSUME NEW m
  PROVE  /\ \A mn \in Mnemonic, p, q \in EasyShapes : OkFits(Pick(Variant(mn, <<p, q>>)), 1, m)
         /\ \A mn \in Mnemonic, p, q, r \in EasyShapes : OkFits(Pick(Variant(mn, <<p, q, r>>)), 1, m)
         /\ \A mn \in Mnemonic, p, q \in EasyShapes : OkFits(Pick(Variant(mn, <<p, q, "IMM8">>)), 1, m)
         /\ OkFits(Pick(NoVariant), 1, m)
         /\ \A mn \in Mnemonic, p, q \in EasyShapes :
              OkFits(Pick([Variant("INSN", <<p, q>>) EXCEPT !.mn = mn]), 1, m)
<1>1. \A mn, s : Fits(s, 1, m) => OkFits(Pick(Variant(mn, s)), 1, m)
  BY DEF OkFits, Found, Pick, Variant, Refuse
<1>2. OkFits(Pick(NoVariant), 1, m)
  BY DEF OkFits, Pick, NoVariant, Variant, Refuse
<1>3. \A mn, s : Fits(s, 1, m) => OkFits(Pick([Variant("INSN", s) EXCEPT !.mn = mn]), 1, m)
  BY DEF OkFits, Found, Pick, Variant, Refuse
<1> QED BY <1>1, <1>2, <1>3, EasyLists

LEMMA SseFits == ASSUME NEW op, NEW m, NEW fx PROVE OkFits(ResolveSse(op, m, fx), 1, m)
<1>1. OkFits(ResolveShift(op, m, fx), 1, m)
  BY OkKinds, EasyNames, MnemonicNames DEF ResolveShift
<1>2. OkFits(ResolveMovdq(op, fx), 1, m)
  BY OkKinds, EasyNames, MnemonicNames DEF ResolveMovdq
<1>3. OkFits(ResolveWord(op, m, fx), 1, m)
  BY OkKinds, EasyNames, MnemonicNames DEF ResolveWord
<1>4. \A o, col : OkFits(Pick(MovVariant(o, col)), 1, m)
  <2> DEFINE ok(v) == OkFits(Pick(v), 1, m)
  <2>1. /\ ok(XmmLoad) /\ ok(XmmStore) /\ ok(MmLoad) /\ ok(MmStore) /\ ok(NoVariant)
        /\ ok([MmLoad EXCEPT !.mn = "MOVQ"]) /\ ok([MmStore EXCEPT !.mn = "MOVQ"])
    BY VariantKinds, EasyNames, MnemonicNames DEF XmmLoad, XmmStore, MmLoad, MmStore
  <2>2. ok(MemoryOnly(XmmLoad)) /\ ok(MemoryOnly(XmmStore)) /\ ok(MemoryOnly(MmStore))
    BY VariantKinds, EasyNames, MnemonicNames DEF XmmLoad, XmmStore, MmStore, MemoryOnly
  <2>3. /\ ok(Variant("INSN", <<"R32_REG", "XMM_RM">>)) /\ ok(Variant("MOVMEM", <<"GPR_OR_MEM", "GPR_REG">>))
        /\ ok(Variant("INSN", <<"XMM_REG", "MM_OR_MEM">>)) /\ ok(Variant("INSN", <<"MM_REG", "XMM_OR_MEM">>))
        /\ ok(Variant("INSN", <<"R32_REG", "MM_OR_MEM">>)) /\ ok(Variant("INSN", <<"R32_REG", "XMM_OR_MEM">>))
    BY VariantKinds, EasyNames, MnemonicNames
  <2> HIDE DEF ok
  <2>4. \A o, col : ok(MovVariant(o, col))
    BY <2>1, <2>2, <2>3 DEF MovVariant
  <2> QED BY <2>4 DEF ok
<1>5. \A o, col : OkFits(Pick(AluVariant(o, col)), 1, m)
  BY VariantKinds, EasyNames, MnemonicNames DEF AluVariant, XmmLoad, MmLoad, XmmImm
<1>6. OkFits(ResolveRow(op, m, fx), 1, m)
  BY <1>4, <1>5, OkKinds DEF ResolveRow
<1> QED BY <1>1, <1>2, <1>3, <1>6, OkKinds, EasyNames, MnemonicNames DEF ResolveSse

LEMMA FpuFits == ASSUME NEW op, NEW m \in Byte PROVE OkFits(ResolveFpu(op, m), 4, m)
<1>1. RegOf(m) \in 0..7
  BY DEF RegOf, Byte
<1>2. \A r \in 0..7 : FpuMem(op)[r] \in MemShapes \cup {""}
  BY DEF FpuMem, MemShapes
<1>3. ASSUME ModOf(m) # 3, NEW p \in MemShapes PROVE Fits(<<p>>, 4, m)
  <2>1. p \in RowShapes /\ p # "SEG_REG" /\ p # "ST_REG" /\ p \in LegacyShapes /\ ImmLimit(p) = 0
    BY RowNames DEF MemShapes, RowShapes
  <2> QED BY <1>3, <2>1 DEF Fits, Within, ModFits, Budget, LimitAt
<1>4. CASE ModOf(m) # 3
  BY <1>1, <1>2, <1>3, <1>4, OkKinds DEF ResolveFpu, OkFits, Found
<1>5. CASE ModOf(m) = 3
  <2>0. "ST_REG" \in LegacyShapes \ {"SEG_REG"} /\ ImmLimit("ST_REG") = 0 /\ "ST_REG" \notin MemShapes
    BY DEF LegacyShapes, VexOnlyShapes, Shape, ModrmShapes, MemShapes, RegShapes, YmmRegShapes, RmShapes,
           RegFieldShapes, ImmShapes, OpcodeShapes, VvvvShapes, FixedShapes, ImmLimit
  <2>1. \A p \in EasyShapes : p \in LegacyShapes \ PickyShapes /\ ImmLimit(p) = 0
    BY DEF EasyShapes
  <2>2. /\ Fits(<<"ST_REG">>, 4, m)
        /\ \A p \in EasyShapes : Fits(<<p, "ST_REG">>, 4, m) /\ Fits(<<"ST_REG", p>>, 4, m)
    BY <1>5, <2>0, <2>1 DEF Fits, Within, ModFits, Budget, LimitAt, PickyShapes
  <2>3. /\ OkFits(St, 4, m) /\ OkFits(Pair, 4, m) /\ OkFits(PairRev, 4, m)
        /\ OkFits(Found("INSN", <<"IMPLICIT_ST0", "ST_REG">>), 4, m)
    BY <2>2, EasyNames DEF OkFits, Found, St, Pair, PairRev
  <2>4. OkFits(FpuLow(op, m), 4, m)
    BY <2>3, OkKinds, MnemonicNames DEF FpuLow, None0
  <2>5. OkFits(FpuHigh(op, m), 4, m)
    BY <2>3, OkKinds, EasyNames, MnemonicNames DEF FpuHigh, None0
  <2> QED BY <1>5, <2>4, <2>5 DEF ResolveFpu
<1> QED BY <1>4, <1>5

LEMMA Joined == ASSUME NEW S, NEW p \in S, NEW q \in S, NEW r \in S PROVE <<p, q>> \o <<r>> = <<p, q, r>>
<1>1. <<p, q>> \in Seq(S) /\ <<r>> \in Seq(S) /\ <<p, q, r>> \in Seq(S)
  OBVIOUS
<1>2. <<p, q>> \o <<r>> \in Seq(S) /\ Len(<<p, q>> \o <<r>>) = 3
  BY <1>1
<1>3. \A i \in 1..3 : (<<p, q>> \o <<r>>)[i] = <<p, q, r>>[i]
  BY <1>1
<1> QED BY <1>1, <1>2, <1>3, SeqEqual

LEMMA CryptoFits == ASSUME NEW n, NEW op, NEW m, NEW fx PROVE OkFits(ResolveCrypto(n, op, m, fx), 1, m)
<1>1. \A mn, s : Fits(s, 1, m) => OkFits(Found(mn, s), 1, m)
  BY DEF OkFits, Found
<1>2. Mm2 \o <<"IMM8">> = <<"MM_REG", "MM_OR_MEM", "IMM8">> /\ Xmm2 \o <<"IMM8">> = Xmm3
      /\ Xmm2 \o <<"IMPLICIT_XMM0">> = <<"XMM_REG", "XMM_OR_MEM", "IMPLICIT_XMM0">>
  BY Joined, ShapeNames DEF Mm2, Xmm2, Xmm3
<1>3. ModOf(m) # 3 => Fits(<<"GPR_REG", "MEM_RM">>, 1, m) /\ Fits(<<"MEM_RM", "GPR_REG">>, 1, m)
  <2>1. "MEM_RM" \in RowShapes \ {"SEG_REG"} /\ "GPR_REG" \in EasyShapes
    BY RowNames, EasyNames
  <2> QED BY <2>1 DEF RowShapes, EasyShapes, PickyShapes, Fits, Within, ModFits, Budget, LimitAt
<1>4. OkFits(Resolve38(op, m, fx), 1, m)
  BY <1>1, <1>3, OkKinds, EasyLists, EasyNames, MnemonicNames DEF Resolve38, Xmm2, Mm2
<1>5. OkFits(Resolve3A(op, fx), 1, m)
  BY <1>2, OkKinds, EasyNames, MnemonicNames DEF Resolve3A, Xmm3
<1>6. \A o, col : OkFits(Pick(Variant38(o, col)), 1, m)
  BY <1>2, VariantKinds, EasyNames, MnemonicNames DEF Variant38, Mm2, Xmm2
<1>7. \A o, col : OkFits(Pick(Variant3A(o, col)), 1, m)
  BY <1>2, VariantKinds, EasyNames, MnemonicNames DEF Variant3A, Xmm3
<1>8. \A p, q, r, t : /\ [<<p, q, r>> EXCEPT ![1] = t] = <<t, q, r>>
                       /\ [<<p, q, r>> EXCEPT ![2] = t] = <<p, t, r>>
  OBVIOUS
<1>9. \A o \in {x(1,6), x(2,2)} : \A col :
        Variant3A(o, col).mn # "NONE" =>
          \E p, q \in EasyShapes : Variant3A(o, col).shapes = <<p, q, "IMM8">>
  BY <1>2, EasyNames DEF Variant3A, Xmm3, Variant, NoVariant
<1>10. ASSUME NEW o \in {x(1,6), x(2,2)}, NEW col, Variant3A(o, col).mn # "NONE", NEW i \in {1, 2}
       PROVE  OkFits(Found("INSN", [Variant3A(o, col).shapes EXCEPT ![i] = "GPR_OR_MEM"]), 1, m)
  <2>1. PICK p \in EasyShapes, q \in EasyShapes : Variant3A(o, col).shapes = <<p, q, "IMM8">>
    BY <1>9, <1>10
  <2>2. /\ OkFits(Found("INSN", <<"GPR_OR_MEM", q, "IMM8">>), 1, m)
        /\ OkFits(Found("INSN", <<p, "GPR_OR_MEM", "IMM8">>), 1, m)
    BY OkKinds, EasyNames, MnemonicNames
  <2>3. CASE i = 1
    BY <1>8, <2>1, <2>2, <2>3
  <2>4. CASE i = 2
    BY <1>8, <2>1, <2>2, <2>4
  <2> QED BY <2>3, <2>4
<1> QED BY <1>4, <1>5, <1>6, <1>7, <1>10, OkKinds DEF ResolveCrypto

LEMMA FitsWiden == ASSUME NEW s, NEW m, Fits(s, 1, m) PROVE Fits(s, 4, m)
BY DEF Fits, Within, Budget, LimitAt, ImmLimit

\* The groups are held to the mod of the ModRM byte afterwards, by ModAllows.
OkRows(r, b) == r.status = "OK" => Rows(r.shapes, b)

LEMMA GroupKinds ==
  ASSUME NEW b \in {1, 4}
  PROVE  /\ \A v \in {"INVALID", "UNSUPPORTED"} : OkRows(Refuse(v), b)
         /\ \A mn \in Mnemonic : OkRows(Found(mn, <<>>), b)
         /\ \A mn \in Mnemonic, p \in RowShapes : OkRows(Found(mn, <<p>>), b)
         /\ \A mn \in Mnemonic, p, q \in RowShapes : OkRows(Found(mn, <<p, q>>), b)
         /\ \A mn \in Mnemonic, p \in RowShapes : OkRows(Found(mn, <<p, "IMM8">>), b)
         /\ \A mn \in Mnemonic, p \in RowShapes : b = 4 => OkRows(Found(mn, <<p, "IMM_VS">>), b)
<1>1. \A v \in {"INVALID", "UNSUPPORTED"} : OkRows(Refuse(v), b)
  BY DEF OkRows, Refuse
<1>2. \A mn, s : Rows(s, b) => OkRows(Found(mn, s), b)
  BY DEF OkRows, Found
<1>3. \A p \in RowShapes : Rows(<<p, "IMM8">>, b)
  BY RowLists, RowsWiden
<1> QED BY <1>1, <1>2, <1>3, RowLists

LEMMA SmallGroupRows == ASSUME NEW g, NEW op, NEW reg PROVE OkRows(SmallGroup(g, op, reg), 4)
BY GroupKinds, RowNames, EasyNames, MnemonicNames DEF SmallGroup, Operand

LEMMA Group6Rows == ASSUME NEW op, NEW reg PROVE OkRows(SmallGroup("G6", op, reg), 1)
BY GroupKinds, RowNames, EasyNames, MnemonicNames DEF SmallGroup

LEMMA OtherGroupRows ==
  ASSUME NEW g, NEW reg, NEW m, NEW tl, NEW fx, NEW b \in {1, 4}
  PROVE  /\ OkRows(Group7(m, fx), b) /\ OkRows(Group9(m, fx), b) /\ OkRows(Group15(m, fx), b)
         /\ OkRows(OtherGroup(g, reg, tl), b)
<1>1. OkRows(Group7(m, fx), b)
  BY GroupKinds, RowNames, EasyNames, MnemonicNames DEF Group7
<1>2. OkRows(Group9(m, fx), b)
  BY GroupKinds, RowNames, EasyNames, MnemonicNames DEF Group9
<1>3. OkRows(Group15(m, fx), b)
  BY GroupKinds, RowNames, EasyNames, MnemonicNames DEF Group15
<1>4. OkRows(OtherGroup(g, reg, tl), b)
  BY GroupKinds, RowNames, EasyNames, MnemonicNames DEF OtherGroup, Mm2
<1> QED BY <1>1, <1>2, <1>3, <1>4

LEMMA GroupRows ==
  ASSUME NEW g, NEW op, NEW m, NEW tl, NEW fx
  PROVE  /\ OkRows(ResolveGroup(g, op, m, tl, fx), 4)
         /\ g \in {"G6", "G7", "G8", "G9", "G15", "3DNOW", "0F0D", "0F18"} =>
              OkRows(ResolveGroup(g, op, m, tl, fx), 1)
BY SmallGroupRows, Group6Rows, OtherGroupRows DEF ResolveGroup

\* Single rows the corrections and the mod check depend on.
LEMMA Row0Facts ==
  /\ Map0[x(6,3)].modrm
  /\ \A op \in Line(4) : Map0[op] = Direct("INSN", <<"REG_OPCODE">>)
<1>1. Map0Low(x(6,3)) = Modrm(<<"GPR_REG", "GPR_OR_MEM">>)
  BY SMTT(30) DEF Map0Low, Alu, Line, Cells, x, A, B, C, D, E, F
<1>2. \A op \in 64..79 : Map0Low(op) = Direct("INSN", <<"REG_OPCODE">>)
  BY SMTT(60) DEF Map0Low, Alu, Line, Cells, x, A, B, C, D, E, F
<1>3. x(6,3) \in 0..127 /\ \A op \in Line(4) : op \in 64..79
  BY DEF x, Line, Cells
<1> QED BY <1>1, <1>2, <1>3 DEF Map0, Byte, Modrm

LEMMA NoRow0 ==
  \A op \in {x(2,E), x(3,6), x(3,E), x(2,6), x(6,4), x(6,5), x(F,0), x(F,3), x(F,2), x(6,6), x(6,7), x(0,F)} :
    Map0[op] = NoRow
<1> USE DEF Line, Cells, x, A, B, C, D, E, F
<1>1. Map0Low(38) = NoRow
  BY DEF Map0Low, Alu
<1>2. Map0Low(46) = NoRow
  BY DEF Map0Low, Alu
<1>3. Map0Low(54) = NoRow
  BY DEF Map0Low, Alu
<1>4. Map0Low(62) = NoRow
  BY DEF Map0Low, Alu
<1>5. Map0Low(15) = NoRow
  BY DEF Map0Low, Alu
<1>6. Map0Low(100) = NoRow
  BY DEF Map0Low, Alu
<1>7. Map0Low(101) = NoRow
  BY DEF Map0Low, Alu
<1>8. Map0Low(102) = NoRow
  BY DEF Map0Low, Alu
<1>9. Map0Low(103) = NoRow
  BY DEF Map0Low, Alu
<1>10. Map0High(240) = NoRow
  BY DEF Map0High, PlainHigh
<1>11. Map0High(242) = NoRow
  BY DEF Map0High, PlainHigh
<1>12. Map0High(243) = NoRow
  BY DEF Map0High, PlainHigh
<1> QED BY <1>1, <1>2, <1>3, <1>4, <1>5, <1>6, <1>7, <1>8, <1>9, <1>10, <1>11, <1>12 DEF Map0, Byte

LEMMA Row1Facts ==
  /\ Map1[x(1,E)].modrm
  /\ \A op \in Cells(2, 0..3) : /\ Map1[op].group = "NONE" /\ Map1[op].modrm
                                /\ \E p, q \in EasyShapes : Map1[op].shapes = <<p, q>>
<1>1. Map1Row(30) = Modrm(<<"GPR_OR_MEM", "GPR_REG">>)
  BY DEF Map1Row, SseOpcodes, Line, Cells, x, A, B, C, D, E, F
<1>2. Map1Row(32) = Modrm(<<"GPR_RM", "CREG_REG">>)
  BY DEF Map1Row, SseOpcodes, Line, Cells, x, A, B, C, D, E, F
<1>3. Map1Row(33) = Modrm(<<"GPR_RM", "DREG_REG">>)
  BY DEF Map1Row, SseOpcodes, Line, Cells, x, A, B, C, D, E, F
<1>4. Map1Row(34) = Modrm(<<"CREG_REG", "GPR_RM">>)
  BY DEF Map1Row, SseOpcodes, Line, Cells, x, A, B, C, D, E, F
<1>5. Map1Row(35) = Modrm(<<"DREG_REG", "GPR_RM">>)
  BY DEF Map1Row, SseOpcodes, Line, Cells, x, A, B, C, D, E, F
<1>6. \A op \in Cells(2, 0..3) : op \in {32, 33, 34, 35} /\ op \in Byte
  BY DEF Cells, x, Byte
<1>7. x(1,E) = 30 /\ 30 \in Byte
  BY DEF x, E, Byte
<1>8. \A p, q : /\ Modrm(<<p, q>>).group = "NONE" /\ Modrm(<<p, q>>).modrm
                /\ Modrm(<<p, q>>).shapes = <<p, q>>
  BY DEF Modrm
<1>9. \A op \in Byte : Map1[op] = Map1Row(op)
  BY DEF Map1
<1>10. {"GPR_RM", "CREG_REG", "DREG_REG"} \subseteq EasyShapes
  BY EasyNames
<1>11. Map1[x(1,E)].modrm
  BY <1>1, <1>7, <1>8, <1>9
<1>12. ASSUME NEW op \in Cells(2, 0..3)
       PROVE  /\ Map1[op].group = "NONE" /\ Map1[op].modrm
              /\ \E p, q \in EasyShapes : Map1[op].shapes = <<p, q>>
  <2>1. PICK p \in EasyShapes, q \in EasyShapes : Map1[op] = Modrm(<<p, q>>)
    BY <1>2, <1>3, <1>4, <1>5, <1>6, <1>9, <1>10
  <2> QED BY <1>8, <2>1
<1> QED BY <1>11, <1>12

\* The SSE resolver finds nothing outside the opcodes the 0F map sends to it.
LEMMA SseOpcodesOnly ==
  ASSUME NEW op, op \notin SseOpcodes, NEW m, NEW fx PROVE ResolveSse(op, m, fx).status # "OK"
<1>1. \A o \in Cells(7, 1..3) \cup {x(1,6), x(6,E), x(7,E), x(C,4), x(C,5)} : o \in SseOpcodes
  BY DEF SseOpcodes, Line, Cells, x, A, B, C, D, E, F
<1>2. \A o \in MovRows : o \in SseOpcodes
  BY DEF MovRows, SseOpcodes, Line, Cells, x, A, B, C, D, E, F
<1>3. \A o \in AluRows : o \in SseOpcodes
  <2> USE DEF Line, Cells, x, A, B, C, D, E, F
  <2>1. \A o \in FloatNp \cup Float66 : o \in SseOpcodes
    BY DEF FloatNp, Float66, SseOpcodes
  <2>2. \A o \in ScalarF3 \cup ScalarF2 : o \in SseOpcodes
    BY DEF ScalarF3, ScalarF2, SseOpcodes
  <2>3. \A o \in MmxPacked : o \in SseOpcodes
    BY DEF MmxPacked, SseOpcodes
  <2>4. \A o \in XmmOnly66 \cup {x(2,A), x(2,C), x(2,D), x(7,0), x(C,2), x(C,6)} : o \in SseOpcodes
    BY DEF XmmOnly66, SseOpcodes
  <2> QED BY <2>1, <2>2, <2>3, <2>4 DEF AluRows
<1>4. ResolveRow(op, m, fx).status # "OK"
  BY <1>2, <1>3 DEF ResolveRow, Refuse
<1> QED BY <1>1, <1>4 DEF ResolveSse

LEMMA ListDomain == ASSUME NEW s \in OperandLists PROVE DOMAIN s = 1..Len(s)
BY DEF OperandLists, OffsetLists

\* An entry of map 0 fits the ModRM byte it was found with, or goes without.
LEMMA Entry0Fits ==
  ASSUME NEW op \in Byte, NEW m \in Byte, NEW tl, NEW fx, NEW r, r = ResolveEntry(0, op, m, tl, fx), r.status = "OK"
  PROVE  IF Map0[op].modrm THEN Fits(r.shapes, 4, m) ELSE Bare(r.mn, r.shapes)
<1> DEFINE row == Map0[op]
           fixed == Fix0(op, row, m, fx)
           found == IF row.group = "NONE" THEN fixed ELSE ResolveGroup(row.group, op, m, tl, fx)
<1>1. row \in Row /\ RowFits(row, 4)
  BY MapTypes, MapFits
<1>2. fixed.status = "OK" => IF row.modrm THEN Rows(fixed.shapes, 4) ELSE Bare(fixed.mn, fixed.shapes)
  <2>1. Rows(<<>>, 4) /\ Rows(<<"GPR16_OR_MEM", "GPR16_REG">>, 4)
    BY RowLists, RowNames, EasyNames
  <2>2. Bare("INSN", <<>>) /\ Bare("PAUSE", <<>>)
    BY BareLists, MnemonicNames
  <2>3. op = x(6,3) => row.modrm
    BY Row0Facts
  <2>4. IF row.modrm THEN Rows(row.shapes, 4) ELSE Bare(row.mn, row.shapes)
    BY <1>1 DEF RowFits
  <2> HIDE DEF row
  <2> QED BY <2>1, <2>2, <2>3, <2>4 DEF Fix0, Found, Refuse
<1>3. fixed \in Resolution /\ ResolveGroup(row.group, op, m, tl, fx) \in Resolution
  BY <1>1, FixTypes, ResolveGroupType
<1>4. row.group # "NONE" => row.modrm
  BY <1>1 DEF RowFits
<1>5. OkRows(ResolveGroup(row.group, op, m, tl, fx), 4)
  BY GroupRows
<1>6. OkFits(ResolveFpu(op, m), 4, m) /\ OkFits(ResolveSse(op, m, fx), 4, m)
  BY FpuFits, SseFits, FitsWiden DEF OkFits
<1>7. found.status = "OK" => /\ IF row.modrm THEN Rows(found.shapes, 4) ELSE Bare(found.mn, found.shapes)
                            /\ found.shapes \in OperandLists
  BY <1>2, <1>3, <1>4, <1>5 DEF OkRows, Resolution
<1>8. r = CASE row.mn = "NONE" /\ row.group = "NONE" -> NoBaseRow(0, op, m, fx)
            [] row.group # "NONE" /\ fixed.status # "OK" -> fixed
            [] row.group = "FPU" -> ResolveFpu(op, m)
            [] row.group = "SSE" -> ResolveSse(op, m, fx)
            [] OTHER -> IF found.status = "OK" /\ row.modrm /\ ~ModAllows(found.shapes, m)
                        THEN Refuse("INVALID") ELSE found
  BY DEF ResolveEntry
<1>9. NoBaseRow(0, op, m, fx).status # "OK" /\ Refuse("INVALID").status # "OK"
  BY DEF NoBaseRow, Refuse
<1> HIDE DEF row, fixed, found
<1>10. CASE row.group \in {"FPU", "SSE"}
  BY <1>4, <1>6, <1>8, <1>9, <1>10 DEF OkFits, row
<1>11. CASE row.group \notin {"FPU", "SSE"}
  <2>1. r = found /\ (row.modrm => ModAllows(found.shapes, m))
    BY <1>8, <1>9, <1>11
  <2>2. found.shapes \in OperandLists
    BY <1>7, <2>1
  <2> QED BY <1>7, <2>1, <2>2, RowsFit, ListDomain DEF row
<1> QED BY <1>10, <1>11

\* The groups of the 0F map, and its empty rows.
LEMMA Map1Groups ==
  ASSUME NEW op \in Byte
  PROVE  /\ Map1[op].group \in {"NONE", "SSE", "G6", "G7", "G8", "G9", "G15", "3DNOW", "0F0D", "0F18"}
         /\ Map1[op].mn = "NONE" /\ Map1[op].group = "NONE" => op \notin SseOpcodes
<1>1. \A mn, s : /\ Direct(mn, s).group = "NONE" /\ Direct(mn, s).mn = mn
                 /\ Modrm(s).group = "NONE" /\ Modrm(s).mn = "INSN"
  BY DEF Direct, Modrm
<1>2. \A g : Group(g).group = g
  BY DEF Group
<1>3. Map1[op] = Map1Row(op)
  BY DEF Map1
<1>4. Map1Row(op).group \in {"NONE", "SSE", "G6", "G7", "G8", "G9", "G15", "3DNOW", "0F0D", "0F18"}
  BY <1>1, <1>2 DEF Map1Row, NoRow
<1>5. ASSUME op \in SseOpcodes PROVE Map1Row(op).group # "NONE" \/ Map1Row(op).mn # "NONE"
  <2> DEFINE named(row) == row.group # "NONE" \/ row.mn # "NONE"
  <2>1. \A s : /\ named(Direct("INSN", s)) /\ named(Direct("PUSH", s)) /\ named(Direct("POP", s))
               /\ named(Modrm(s))
    BY <1>1
  <2>2. \A g \in GroupName \ {"NONE"} : named(Group(g))
    BY <1>2
  <2>3. {"G6", "G7", "G8", "G9", "G15", "SSE", "3DNOW", "0F0D", "0F18"} \subseteq GroupName \ {"NONE"}
    BY DEF GroupName
  <2> HIDE DEF named
  <2>4. named(Map1Row(op))
    BY <1>5, <2>1, <2>2, <2>3 DEF Map1Row
  <2> QED BY <2>4 DEF named
<1> QED BY <1>3, <1>4, <1>5

\* The same of map 1, whose entries take one byte at most.
LEMMA Entry1Fits ==
  ASSUME NEW op \in Byte, NEW m \in Byte, NEW tl, NEW fx, NEW r, r = ResolveEntry(1, op, m, tl, fx), r.status = "OK"
  PROVE  IF Map1[op].modrm THEN Fits(r.shapes, 1, m) ELSE Bare(r.mn, r.shapes)
<1> DEFINE row == Map1[op]
           fixed == Fix1(op, row, m, fx)
           found == IF row.group = "NONE" THEN fixed ELSE ResolveGroup(row.group, op, m, tl, fx)
<1>1. row \in Row /\ RowFits(row, 1)
  BY MapTypes, MapFits
<1>2. fixed.status = "OK" => IF row.modrm THEN Rows(fixed.shapes, 1) ELSE Bare(fixed.mn, fixed.shapes)
  <2>1. Rows(<<>>, 1) /\ Rows(<<"GPR_RM">>, 1)
    BY RowLists, RowNames, EasyNames
  <2>2. op = x(1,E) => row.modrm
    BY Row1Facts
  <2>3. IF row.modrm THEN Rows(row.shapes, 1) ELSE Bare(row.mn, row.shapes)
    BY <1>1 DEF RowFits
  <2> HIDE DEF row
  <2> QED BY <2>1, <2>2, <2>3 DEF Fix1, Found, Refuse
<1>3. fixed \in Resolution /\ ResolveGroup(row.group, op, m, tl, fx) \in Resolution
  BY <1>1, FixTypes, ResolveGroupType
<1>4. row.group # "NONE" => row.modrm
  BY <1>1 DEF RowFits
<1>5. /\ row.group \in {"NONE", "SSE", "G6", "G7", "G8", "G9", "G15", "3DNOW", "0F0D", "0F18"}
      /\ row.group \notin {"NONE", "SSE"} => OkRows(ResolveGroup(row.group, op, m, tl, fx), 1)
  BY GroupRows, Map1Groups
<1>6. OkFits(ResolveSse(op, m, fx), 1, m)
  BY SseFits
<1>7. row.group # "SSE" /\ found.status = "OK" =>
        /\ IF row.modrm THEN Rows(found.shapes, 1) ELSE Bare(found.mn, found.shapes)
        /\ found.shapes \in OperandLists
  BY <1>2, <1>3, <1>4, <1>5 DEF OkRows, Resolution
<1>8. r = CASE row.mn = "NONE" /\ row.group = "NONE" -> NoBaseRow(1, op, m, fx)
            [] row.group # "NONE" /\ fixed.status # "OK" -> fixed
            [] row.group = "FPU" -> ResolveFpu(op, m)
            [] row.group = "SSE" -> ResolveSse(op, m, fx)
            [] OTHER -> IF found.status = "OK" /\ row.modrm /\ op \notin Cells(2, 0..3) /\ ~ModAllows(found.shapes, m)
                        THEN Refuse("INVALID") ELSE found
  BY DEF ResolveEntry
<1>9. row.mn = "NONE" /\ row.group = "NONE" => NoBaseRow(1, op, m, fx).status # "OK"
  BY Map1Groups, SseOpcodesOnly DEF NoBaseRow, Refuse
<1>10. Refuse("INVALID").status # "OK"
  BY DEF Refuse
<1>11. op \in Cells(2, 0..3) => row.group = "NONE" /\ row.modrm /\ (fixed.status = "OK" => Fits(fixed.shapes, 1, m))
  <2> SUFFICES ASSUME op \in Cells(2, 0..3)
               PROVE  row.group = "NONE" /\ row.modrm /\ (fixed.status = "OK" => Fits(fixed.shapes, 1, m))
    OBVIOUS
  <2>1. row.group = "NONE" /\ row.modrm /\ Fits(row.shapes, 1, m)
    BY Row1Facts, EasyLists
  <2>2. op \notin {x(A,0), x(A,1), x(A,8), x(A,9)} /\ op # x(1,E) /\ op # x(B,8)
    BY DEF Cells, x, A, B, E
  <2>3. fixed = Found(row.mn, row.shapes)
    BY <2>2 DEF Fix1
  <2> QED BY <2>1, <2>3 DEF Found
<1> HIDE DEF row, fixed, found
<1>12. CASE row.group = "SSE"
  BY <1>4, <1>6, <1>8, <1>12 DEF OkFits, row
<1>13. CASE row.group # "SSE"
  <2>1. r = found /\ (row.modrm /\ op \notin Cells(2, 0..3) => ModAllows(found.shapes, m))
    BY <1>5, <1>8, <1>9, <1>10, <1>13
  <2>2. found.shapes \in OperandLists
    BY <1>7, <1>13, <2>1
  <2>3. CASE op \in Cells(2, 0..3)
    BY <1>11, <2>1, <2>3 DEF found, row
  <2>4. CASE op \notin Cells(2, 0..3)
    BY <1>7, <1>13, <2>1, <2>2, <2>4, RowsFit, ListDomain DEF row
  <2> QED BY <2>3, <2>4
<1> QED BY <1>12, <1>13

\* What decides that a prefix byte is no opcode, and that 40-4F is INC and DEC
\* outside 64-bit mode.
LEMMA Entry0Opcodes ==
  ASSUME NEW op \in Byte, NEW m, NEW tl, NEW fx, NEW r, r = ResolveEntry(0, op, m, tl, fx), r.status = "OK"
  PROVE  /\ op \notin {x(2,E), x(3,6), x(3,E), x(2,6), x(6,4), x(6,5), x(F,0), x(F,3), x(F,2), x(6,6), x(6,7), x(0,F)}
         /\ op \in Line(4) => r.shapes = <<"REG_OPCODE">> /\ ~Map0[op].modrm
<1>1. ASSUME Map0[op] = NoRow PROVE FALSE
  <2>1. r = NoBaseRow(0, op, m, fx)
    BY <1>1 DEF ResolveEntry, NoRow, Direct
  <2> QED BY <2>1 DEF NoBaseRow, Refuse
<1>2. ASSUME op \in Line(4) PROVE r.shapes = <<"REG_OPCODE">> /\ ~Map0[op].modrm
  <2>1. Map0[op] = Direct("INSN", <<"REG_OPCODE">>)
    BY <1>2, Row0Facts
  <2>2. op \in 64..79
    BY <1>2 DEF Line, Cells, x
  <2>3. Fix0(op, Map0[op], m, fx) = Found("INSN", <<"REG_OPCODE">>)
    <3>1. /\ op \notin GoneIn64 /\ op \notin {x(6,2), x(C,4), x(C,5), x(9,C), x(9,D)}
          /\ op # x(6,3) /\ op # x(8,F) /\ op # x(9,0)
      BY <2>2 DEF GoneIn64, x, C, D, E, F
    <3> QED BY <2>1, <3>1 DEF Fix0, Direct
  <2>4. r = Found("INSN", <<"REG_OPCODE">>)
    BY <2>1, <2>3 DEF ResolveEntry, Direct
  <2> QED BY <2>1, <2>4 DEF Found, Direct
<1> QED BY <1>1, <1>2, NoRow0

---------------------------------------------------------------------------
\* VEX entries: up to four operands, one byte of immediates at most.
VexList(s) == Within(s, VexShapes, 4, 1)
VexPlain   == {p \in VexShapes : ImmLimit(p) = 0}

LEMMA VexNames ==
  /\ {"MEM_RM", "MEM32_RM", "MEM64_RM", "XMM_RM", "GPR_OR_MEM", "GPR8_OR_MEM", "R32_OR_MEM", "XMM_OR_MEM",
      "YMM_OR_MEM", "GPR_REG", "R32_REG", "XMM_REG", "YMM_REG", "VEX_VVVV", "VEX_VVVV_GPR",
      "IMPLICIT_XMM0"} \subseteq VexPlain
  /\ "IMM8" \in VexShapes
BY DEF VexPlain, VexShapes, Shape, ModrmShapes, MemShapes, RegShapes, YmmRegShapes, RmShapes, RegFieldShapes,
       ImmShapes, OpcodeShapes, VvvvShapes, FixedShapes, ImmLimit

LEMMA VexLists ==
  /\ VexList(<<>>)
  /\ \A p, q \in VexPlain : VexList(<<p, q>>) /\ VexList(<<p, "IMM8">>)
  /\ \A p, q, r \in VexPlain : VexList(<<p, q, r>>) /\ VexList(<<p, q, "IMM8">>)
  /\ \A p, q, r, s \in VexPlain : VexList(<<p, q, r, s>>) /\ VexList(<<p, q, r, "IMM8">>)
<1>1. \A p \in VexPlain : ImmLimit(p) = 0 /\ p \in VexShapes
  BY DEF VexPlain
<1>2. "IMM8" \in VexShapes /\ ImmLimit("IMM8") = 1
  BY VexNames, ImmNames
<1> QED BY <1>1, <1>2 DEF VexList, Within, Budget, LimitAt

LEMMA VexVariantFits == ASSUME NEW m, NEW op, NEW pp PROVE VexList(VexVariant(m, op, pp).shapes)
<1> DEFINE ok(v) == VexList(v.shapes)
<1>1. \A mn, s : VexList(s) => ok(Variant(mn, s)) /\ ok(Scalar(Variant(mn, s)))
  BY DEF Variant, Scalar
<1>2. ok([VexOut EXCEPT !.mn = "VMOVNT"]) /\ ok(NoVariant)
  BY VexLists, VexNames DEF VexOut, Variant, NoVariant
<1>3. \A v \in VariantRow : ok(v) => ok(Scalar(v))
  BY DEF Scalar, VariantRow
<1>4. \A mn : /\ \A p, q \in VexPlain : ok(Variant(mn, <<p, q>>))
              /\ \A p, q \in VexPlain : ok(Variant(mn, <<p, q, "IMM8">>)) /\ ok(Scalar(Variant(mn, <<p, q, "IMM8">>)))
              /\ \A p, q, r \in VexPlain : ok(Variant(mn, <<p, q, r>>)) /\ ok(Scalar(Variant(mn, <<p, q, r>>)))
              /\ \A p, q, r \in VexPlain :
                   ok(Variant(mn, <<p, q, r, "IMM8">>)) /\ ok(Scalar(Variant(mn, <<p, q, r, "IMM8">>)))
              /\ \A p, q, r, s \in VexPlain : ok(Variant(mn, <<p, q, r, s>>))
              /\ \A p, q \in VexPlain : ok(Scalar(Variant(mn, <<p, q>>)))
              /\ ok(Variant(mn, <<>>))
  BY <1>1, VexLists
<1> HIDE DEF ok
<1>5. /\ ok(Vex2) /\ ok(VexOut) /\ ok(Vex3) /\ ok(Vex2Imm) /\ ok(Vex3Imm) /\ ok(VexGpr3)
      /\ ok(Scalar(Vex2)) /\ ok(Scalar(Vex3)) /\ ok(Scalar(Vex3Imm))
  BY <1>4, VexNames DEF Vex2, VexOut, Vex3, Vex2Imm, Vex3Imm, VexGpr3
<1>6. \A col : ok(Vex0fPackedRow(op, col)) /\ ok(Vex0fScalarRow(op, col))
  BY <1>2, <1>4, <1>5, VexNames DEF Vex0fPackedRow, Vex0fScalarRow
<1>7. \A col : Vex0fScalarRow(op, col) \in VariantRow
  BY Constructors, ShapeNames, ShapeLists, MnemonicNames DEF Vex0fScalarRow, Vex2, Vex3, Vex3Imm
<1>8. \A col : ok(Vex0f(op, col))
  BY <1>3, <1>6, <1>7 DEF Vex0f
<1>9. \A col : ok(Vex0f38(op, col))
  BY <1>2, <1>4, <1>5, VexNames DEF Vex0f38, V256
<1>10. \A col : ok(Vex0f3a(op, col))
  BY <1>2, <1>4, <1>5, VexNames DEF Vex0f3a, V256
<1>11. ok(VexVariant(m, op, pp))
  BY <1>8, <1>9, <1>10 DEF VexVariant
<1> QED BY <1>11 DEF ok

\* What an entry of a VEX prefix guarantees: a row with the fields it has a
\* use for, or an opcode whose ModRM byte is still to pick the row.
VexEntryFits(e, f) ==
  /\ f.map \in 1..3
  /\ IF e.mn = "NONE"
     THEN e.shapes # <<>> /\ ((DeferredBls(f) /\ f.l = 0) \/ (~DeferredBls(f) /\ DeferredShift(f) /\ f.vvvv = 0))
     ELSE /\ VexList(e.shapes)
          /\ f.vvvv # 0 => HasShape(e, VvvvShapes)
          /\ HasShape(e, GprShapes) => f.l = 0

LEMMA VexEntryFound ==
  ASSUME NEW f, NEW long, NEW e, e = VexEntry(f, long), e.status = "OK" PROVE VexEntryFits(e, f)
<1> DEFINE v == VexVariant(f.map, f.op, f.pp)
<1>1. VexList(v.shapes)
  BY VexVariantFits
<1>2. Refuse("INVALID").status # "OK" /\ Refuse("UNSUPPORTED").status # "OK"
  BY DEF Refuse
<1>3. f.map \in 1..3
  BY <1>2 DEF VexEntry
<1> HIDE DEF v
<1>4. CASE v.mn # "NONE"
  <2>1. VexCheck(v, f) /\ e = Found(v.mn, v.shapes)
    BY <1>2, <1>3, <1>4 DEF VexEntry, v
  <2>2. e.mn = v.mn /\ e.shapes = v.shapes
    BY <2>1 DEF Found
  <2>3. \A S : HasShape(e, S) <=> HasShape(v, S)
    BY <2>2 DEF HasShape
  <2>4. HasShape(v, GprShapes) => v.shapes # <<>>
    BY DEF HasShape
  <2>5. (f.vvvv # 0 => HasShape(v, VvvvShapes)) /\ (HasShape(v, GprShapes) => f.l = 0)
    BY <2>1, <2>4 DEF VexCheck
  <2> QED BY <1>1, <1>3, <1>4, <2>2, <2>3, <2>5 DEF VexEntryFits
<1>5. CASE v.mn = "NONE"
  <2>1. e = Deferred /\ ((DeferredBls(f) /\ f.l = 0) \/ (~DeferredBls(f) /\ DeferredShift(f) /\ f.vvvv = 0))
    <3>1. ~(DeferredBls(f) /\ DeferredShift(f))
      BY DEF DeferredBls, DeferredShift
    <3> QED BY <1>2, <1>3, <1>5, <3>1 DEF VexEntry, v
  <2>2. e.mn = "NONE" /\ e.shapes = <<"NONE", "NONE">>
    BY <2>1 DEF Deferred, Found
  <2> QED BY <1>3, <2>1, <2>2 DEF VexEntryFits
<1> QED BY <1>4, <1>5

\* The same once the ModRM byte is known: now there is a row, and its operands
\* go with the mod of the byte.
VexRowFits(r, f) ==
  /\ f.map \in 1..3 /\ r.mn # "NONE" /\ VexList(r.shapes)
  /\ f.vvvv # 0 => HasShape(r, VvvvShapes)
  /\ HasShape(r, GprShapes) => f.l = 0
VexModFits(s, m) == \A j \in 1..Len(s) : s[j] \in MemShapes => ModOf(m) # 3

LEMMA VexResolved ==
  ASSUME NEW e, NEW f, NEW m, VexEntryFits(e, f), e.shapes \in OperandLists,
         NEW r, r = ResolveVex(e, f, m), r.status = "OK"
  PROVE  VexRowFits(r, f) /\ VexModFits(r.shapes, m)
<1> DEFINE q == IF e.mn = "NONE" THEN ResolveDeferred(f, RegOf(m)) ELSE Found(e.mn, e.shapes)
<1>1. r = q /\ q.status = "OK" /\ VexModAllows(q.mn, q.shapes, ModOf(m))
  BY DEF ResolveVex, Refuse
<1>2. CASE e.mn # "NONE"
  <2>1. q.mn = e.mn /\ q.shapes = e.shapes
    BY <1>2 DEF Found
  <2>2. \A S : HasShape(q, S) <=> HasShape(e, S)
    BY <2>1 DEF HasShape
  <2>3. DOMAIN q.shapes = 1..Len(q.shapes)
    BY <2>1, ListDomain
  <2> HIDE DEF q
  <2> QED BY <1>1, <1>2, <2>1, <2>2, <2>3 DEF VexEntryFits, VexRowFits, VexModFits, VexModAllows
<1>3. CASE e.mn = "NONE"
  <2>1. q = ResolveDeferred(f, RegOf(m))
    BY <1>3
  <2>2. CASE DeferredBls(f)
    <3>1. q = Found("INSN", <<"VEX_VVVV_GPR", "GPR_OR_MEM">>)
      BY <1>1, <2>1, <2>2 DEF ResolveDeferred, Refuse
    <3>2. f.l = 0
      BY <1>3, <2>2 DEF VexEntryFits
    <3>3. VexList(<<"VEX_VVVV_GPR", "GPR_OR_MEM">>)
      BY VexLists, VexNames
    <3>4. HasShape(Found("INSN", <<"VEX_VVVV_GPR", "GPR_OR_MEM">>), VvvvShapes)
      BY DEF HasShape, VvvvShapes, Found
    <3>5. VexModFits(<<"VEX_VVVV_GPR", "GPR_OR_MEM">>, m)
      BY DEF VexModFits, MemShapes
    <3> QED BY <1>1, <3>1, <3>2, <3>3, <3>4, <3>5 DEF VexRowFits, Found, VexEntryFits
  <2>3. CASE ~DeferredBls(f)
    <3>1. q = Found("INSN", <<"XMM_OR_MEM", "IMM8">>)
      BY <1>1, <2>1, <2>3 DEF ResolveDeferred, Refuse
    <3>2. f.vvvv = 0
      BY <1>3, <2>3 DEF VexEntryFits
    <3>3. VexList(<<"XMM_OR_MEM", "IMM8">>)
      BY VexLists, VexNames
    <3>4. ~HasShape(Found("INSN", <<"XMM_OR_MEM", "IMM8">>), GprShapes)
      BY DEF HasShape, GprShapes, Found
    <3>5. VexModFits(<<"XMM_OR_MEM", "IMM8">>, m)
      BY DEF VexModFits, MemShapes
    <3> QED BY <1>1, <3>1, <3>2, <3>3, <3>4, <3>5 DEF VexRowFits, Found, VexEntryFits
  <2> QED BY <2>2, <2>3
<1> QED BY <1>2, <1>3

---------------------------------------------------------------------------
\* Two facts the operand builder relies on: the one-byte map names a segment
\* register only by an opcode below 30, and without REX.W a MOVQ has operands
\* in MMX registers and memory.
NoSegment(s) == \A j \in 1..Len(s) : s[j] # "FIXED_SEG"
MmxOnly(s)   == \A j \in 1..Len(s) : s[j] \in {"MM_REG", "MM_OR_MEM"}
Quiet(r) == r.status = "OK" => r.mn # "MOVQ" /\ NoSegment(r.shapes)

Ordinary == Shape \ {"FIXED_SEG"}
QuietMn  == Mnemonic \ {"MOVQ"}

LEMMA OrdinaryNames ==
  /\ MemShapes \cup RegShapes \cup RmShapes \cup RegFieldShapes \cup ImmShapes \cup OpcodeShapes \subseteq Ordinary
  /\ {"FIXED_GPR", "FIXED_GPR8", "FIXED_GPR16", "FIXED_ST0", "IMM_ONE", "IMPLICIT_GPR", "IMPLICIT_GPR32",
      "IMPLICIT_ST0"} \subseteq Ordinary
  /\ StackMnemonic \cup {"NONE", "INSN", "PAUSE", "MOVMEM"} \subseteq QuietMn
BY DEF Ordinary, QuietMn, Shape, ModrmShapes, MemShapes, RegShapes, YmmRegShapes, RmShapes, RegFieldShapes, ImmShapes,
       OpcodeShapes, VvvvShapes, FixedShapes, Mnemonic, StackMnemonic

LEMMA QuietNames ==
  /\ {"MEM_RM", "MEM8_RM", "MEM16_RM", "MEM32_RM", "MEM64_RM", "MEM80_RM", "GPR_RM"} \subseteq Ordinary
  /\ {"GPR_OR_MEM", "GPR8_OR_MEM", "GPR16_OR_MEM", "GPR_OR_MEM16", "MM_OR_MEM", "ST_REG"} \subseteq Ordinary
  /\ {"GPR_REG", "GPR8_REG", "GPR16_REG", "SEG_REG", "MM_REG"} \subseteq Ordinary
  /\ {"IMM8", "IMM16", "IMM_V", "IMM_V64", "IMM_VS", "REL8", "REL_V", "MOFFS", "REG_OPCODE", "REG8_OPCODE"} \subseteq Ordinary
  /\ {"FIXED_GPR", "FIXED_GPR8", "FIXED_GPR16", "FIXED_ST0", "IMM_ONE", "IMPLICIT_GPR", "IMPLICIT_GPR32",
      "IMPLICIT_ST0"} \subseteq Ordinary
  /\ {"PUSH", "POP", "PUSHF", "POPF", "CALL", "JMP", "RET", "ENTER", "LEAVE"} \subseteq QuietMn
  /\ {"NONE", "INSN", "PAUSE", "MOVMEM"} \subseteq QuietMn
BY OrdinaryNames DEF MemShapes, RegShapes, RmShapes, RegFieldShapes, ImmShapes, OpcodeShapes, StackMnemonic

LEMMA QuietLists ==
  /\ NoSegment(<<>>)
  /\ \A p \in Ordinary : NoSegment(<<p>>)
  /\ \A p, q \in Ordinary : NoSegment(<<p, q>>)
  /\ \A p, q, r \in Ordinary : NoSegment(<<p, q, r>>)
BY DEF NoSegment, Ordinary

LEMMA QuietKinds ==
  /\ \A v \in {"INVALID", "UNSUPPORTED"} : Quiet(Refuse(v))
  /\ \A mn \in QuietMn : Quiet(Found(mn, <<>>))
  /\ \A mn \in QuietMn, p \in Ordinary : Quiet(Found(mn, <<p>>))
  /\ \A mn \in QuietMn, p, q \in Ordinary : Quiet(Found(mn, <<p, q>>))
<1>1. \A mn \in QuietMn : \A s : NoSegment(s) => Quiet(Found(mn, s))
  BY DEF Quiet, Found, QuietMn
<1>2. \A v \in {"INVALID", "UNSUPPORTED"} : Quiet(Refuse(v))
  BY DEF Quiet, Refuse
<1> QED BY <1>1, <1>2, QuietLists

LEMMA QuietGroups ==
  ASSUME NEW g, NEW op, NEW m, NEW tl, NEW fx PROVE Quiet(ResolveGroup(g, op, m, tl, fx))
<1>1. \A reg : Quiet(SmallGroup(g, op, reg))
  BY QuietKinds, QuietNames DEF SmallGroup, Operand
<1>2. Quiet(Group7(m, fx))
  BY QuietKinds, QuietNames DEF Group7
<1>3. Quiet(Group9(m, fx))
  BY QuietKinds, QuietNames DEF Group9
<1>4. Quiet(Group15(m, fx))
  BY QuietKinds, QuietNames DEF Group15
<1>5. \A reg : Quiet(OtherGroup(g, reg, tl))
  BY QuietKinds, QuietNames DEF OtherGroup, Mm2
<1> QED BY <1>1, <1>2, <1>3, <1>4, <1>5 DEF ResolveGroup

LEMMA QuietFpu == ASSUME NEW op, NEW m \in Byte PROVE Quiet(ResolveFpu(op, m))
<1>1. RegOf(m) \in 0..7
  BY DEF RegOf, Byte
<1>2. \A r \in 0..7 : FpuMem(op)[r] \in MemShapes \cup {""}
  BY DEF FpuMem, MemShapes
<1>3. Quiet(St) /\ Quiet(Pair) /\ Quiet(PairRev) /\ Quiet(None0) /\ Quiet(Found("INSN", <<"IMPLICIT_ST0", "ST_REG">>))
      /\ Quiet(Found("INSN", <<"FIXED_GPR16">>))
  BY QuietKinds, QuietNames DEF St, Pair, PairRev, None0
<1>4. Quiet(FpuLow(op, m))
  BY <1>3, QuietKinds DEF FpuLow
<1>5. Quiet(FpuHigh(op, m))
  BY <1>3, QuietKinds DEF FpuHigh
<1> DEFINE shape == FpuMem(op)[RegOf(m)]
<1>6. shape \in MemShapes => Quiet(Found("INSN", <<shape>>))
  BY QuietKinds, QuietNames, OrdinaryNames
<1>7. shape \in MemShapes \cup {""}
  BY <1>1, <1>2
<1> HIDE DEF shape
<1>8. Quiet(IF shape = "" THEN Refuse("INVALID") ELSE Found("INSN", <<shape>>))
  BY <1>6, <1>7, QuietKinds
<1> QED BY <1>4, <1>5, <1>8 DEF ResolveFpu, shape

\* The rows of map 0.
QuietRow(row) == row.mn # "MOVQ" /\ NoSegment(row.shapes) /\ row.group # "SSE"

LEMMA QuietRows ==
  /\ \A mn \in QuietMn : QuietRow(Direct(mn, <<>>))
  /\ \A mn \in QuietMn, p \in Ordinary : QuietRow(Direct(mn, <<p>>))
  /\ \A mn \in QuietMn, p, q \in Ordinary : QuietRow(Direct(mn, <<p, q>>))
  /\ \A p \in Ordinary : QuietRow(Modrm(<<p>>)) /\ QuietRow([Modrm(<<p>>) EXCEPT !.mn = "POP"])
  /\ \A p, q \in Ordinary : QuietRow(Modrm(<<p, q>>))
  /\ \A p, q, r \in Ordinary : QuietRow(Modrm(<<p, q, r>>))
  /\ \A g \in GroupName \ {"SSE"} : QuietRow(Group(g))
<1>1. \A mn \in QuietMn : \A s : NoSegment(s) => QuietRow(Direct(mn, s))
  BY DEF QuietRow, Direct, QuietMn
<1>2. \A s : NoSegment(s) => QuietRow(Modrm(s)) /\ QuietRow([Modrm(s) EXCEPT !.mn = "POP"])
  BY DEF QuietRow, Modrm
<1>3. \A g \in GroupName \ {"SSE"} : QuietRow(Group(g))
  BY QuietLists DEF QuietRow, Group
<1> QED BY <1>1, <1>2, <1>3, QuietLists

LEMMA QuietLow ==
  ASSUME NEW op \in Byte
  PROVE QuietRow(Map0Low(op)) \/ (op < 48 /\ Map0Low(op).mn # "MOVQ" /\ Map0Low(op).group = "NONE")
<1>1. \A o \in {x(0,6), x(0,E), x(1,6), x(1,E), x(0,7), x(1,7), x(1,F)} : o < 48
  BY DEF x, E, F
<1>2. \A s : Direct("PUSH", s).mn # "MOVQ" /\ Direct("POP", s).mn # "MOVQ" /\ Direct("PUSH", s).group = "NONE"
             /\ Direct("POP", s).group = "NONE"
  BY DEF Direct
<1> DEFINE good(row) == QuietRow(row) \/ (op < 48 /\ row.mn # "MOVQ" /\ row.group = "NONE")
<1>3. \A row : QuietRow(row) => good(row)
  OBVIOUS
<1>4. op < 48 => good(Direct("PUSH", <<"FIXED_SEG">>)) /\ good(Direct("POP", <<"FIXED_SEG">>))
  BY <1>2
<1> HIDE DEF good
<1>5. good(Map0Low(op))
  BY <1>1, <1>3, <1>4, QuietRows, QuietNames DEF Map0Low, NoRow
<1> QED BY <1>5 DEF good

LEMMA QuietHigh == ASSUME NEW op \in Byte PROVE QuietRow(Map0High(op))
<1>1. {"G1", "G2", "G11B", "G11V", "FPU", "G3B", "G3V", "G4", "G5"} \subseteq GroupName \ {"SSE"}
  BY DEF GroupName
<1> QED BY <1>1, QuietRows, QuietNames DEF Map0High, NoRow
\* The rows of the 0F map, segment registers among them.
NotMovq(r) == r.mn # "MOVQ"

LEMMA NotMovqRows ==
  /\ \A mn \in QuietMn : \A s : NotMovq(Direct(mn, s)) /\ NotMovq(Found(mn, s))
  /\ \A s : NotMovq(Modrm(s)) /\ NotMovq(Group(s))
  /\ \A v : NotMovq(Refuse(v))
BY DEF NotMovq, Direct, Modrm, Group, Found, Refuse, QuietMn

LEMMA NotMovq1 == ASSUME NEW op \in Byte PROVE NotMovq(Map1Row(op))
BY NotMovqRows, QuietNames DEF Map1Row, NoRow

LEMMA NotMovqCrypto == ASSUME NEW n, NEW op, NEW m, NEW fx PROVE NotMovq(ResolveCrypto(n, op, m, fx))
<1>1. \A s : NotMovq(Pick(Variant("INSN", s))) /\ NotMovq(Found("INSN", s))
  BY NotMovqRows, QuietNames DEF Pick, Variant
<1>2. NotMovq(Pick(NoVariant))
  BY NotMovqRows DEF Pick, NoVariant, Variant
<1>3. \A o, c : NotMovq(Pick(Variant38(o, c)))
  BY <1>1, <1>2 DEF Variant38
<1>4. \A o, c : NotMovq(Pick(Variant3A(o, c)))
  BY <1>1, <1>2 DEF Variant3A
<1>5. \A o, mm, f : NotMovq(Resolve38(o, mm, f))
  BY <1>1, NotMovqRows DEF Resolve38
<1>6. \A o, f : NotMovq(Resolve3A(o, f))
  BY <1>1, NotMovqRows DEF Resolve3A
<1> QED BY <1>1, <1>3, <1>4, <1>5, <1>6, NotMovqRows DEF ResolveCrypto

\* Only the SSE rows have MOVQ.
MmxMovq(r, fx) == r.status = "OK" /\ r.mn = "MOVQ" /\ ~fx.rexW => MmxOnly(r.shapes)

LEMMA SseMovq == ASSUME NEW op, NEW m, NEW fx PROVE MmxMovq(ResolveSse(op, m, fx), fx)
<1>1. \A r : NotMovq(r) => MmxMovq(r, fx)
  BY DEF MmxMovq, NotMovq
<1>2. NotMovq(ResolveShift(op, m, fx)) /\ NotMovq(ResolveWord(op, m, fx))
  BY NotMovqRows, QuietNames DEF ResolveShift, ResolveWord
<1>3. MmxMovq(ResolveMovdq(op, fx), fx)
  BY <1>1, NotMovqRows, QuietNames DEF ResolveMovdq, MmxMovq, Found, NotMovq
<1>4. \A s : /\ NotMovq(Pick(Variant("INSN", s))) /\ NotMovq(Pick(MemoryOnly(Variant("INSN", s))))
             /\ NotMovq(Pick(Variant("MOVMEM", s))) /\ NotMovq(Pick(NoVariant))
  BY NotMovqRows, QuietNames DEF Pick, Variant, MemoryOnly, NoVariant, NotMovq, Found, Refuse
<1>5. \A o, col : NotMovq(Pick(AluVariant(o, col)))
  BY <1>4 DEF AluVariant, XmmLoad, MmLoad, XmmImm
<1>6. /\ MmxMovq(Pick([MmLoad EXCEPT !.mn = "MOVQ"]), fx) /\ MmxMovq(Pick([MmStore EXCEPT !.mn = "MOVQ"]), fx)
  BY DEF MmxMovq, MmxOnly, Pick, Found, Refuse, MmLoad, MmStore, Variant
<1>7. \A o, col : MmxMovq(Pick(MovVariant(o, col)), fx)
  <2> DEFINE ok(v) == MmxMovq(Pick(v), fx)
  <2>1. \A s : ok(Variant("INSN", s)) /\ ok(MemoryOnly(Variant("INSN", s))) /\ ok(Variant("MOVMEM", s))
    BY <1>1, <1>4
  <2>2. ok(NoVariant) /\ ok([MmLoad EXCEPT !.mn = "MOVQ"]) /\ ok([MmStore EXCEPT !.mn = "MOVQ"])
    BY <1>1, <1>4, <1>6
  <2>3. ok(XmmLoad) /\ ok(XmmStore) /\ ok(MmLoad) /\ ok(MemoryOnly(XmmLoad)) /\ ok(MemoryOnly(XmmStore))
        /\ ok(MemoryOnly(MmStore))
    BY <2>1 DEF XmmLoad, XmmStore, MmLoad, MmStore
  <2> HIDE DEF ok
  <2>4. \A o, col : ok(MovVariant(o, col))
    BY <2>1, <2>2, <2>3 DEF MovVariant
  <2> QED BY <2>4 DEF ok
<1>8. MmxMovq(ResolveRow(op, m, fx), fx)
  BY <1>1, <1>5, <1>7, NotMovqRows DEF ResolveRow
<1> QED BY <1>1, <1>2, <1>3, <1>8, NotMovqRows, QuietNames DEF ResolveSse

LEMMA EntryQuiet ==
  ASSUME NEW n \in {0, 1}, NEW op \in Byte, NEW m \in Byte, NEW tl, NEW fx, NEW r,
         r = ResolveEntry(n, op, m, tl, fx), r.status = "OK"
  PROVE  /\ n = 0 => op < 48 \/ NoSegment(r.shapes)
         /\ r.mn = "MOVQ" /\ ~fx.rexW => MmxOnly(r.shapes)
<1> DEFINE row == IF n = 0 THEN Map0[op] ELSE Map1[op]
           fixed == IF n = 0 THEN Fix0(op, row, m, fx) ELSE Fix1(op, row, m, fx)
           g == ResolveGroup(row.group, op, m, tl, fx)
           found == IF row.group = "NONE" THEN fixed ELSE g
           cut(e) == IF e.status = "OK" /\ row.modrm /\ ~(n = 1 /\ op \in Cells(2, 0..3)) /\ ~ModAllows(e.shapes, m)
                     THEN Refuse("INVALID") ELSE e
<1>1. \/ r \in {NoBaseRow(n, op, m, fx), fixed, ResolveFpu(op, m), Refuse("INVALID"), found}
      \/ row.group = "SSE" /\ r = ResolveSse(op, m, fx)
  <2>1. r = CASE row.mn = "NONE" /\ row.group = "NONE" -> NoBaseRow(n, op, m, fx)
              [] row.group # "NONE" /\ fixed.status # "OK" -> fixed
              [] row.group = "FPU" -> ResolveFpu(op, m)
              [] row.group = "SSE" -> ResolveSse(op, m, fx)
              [] OTHER -> cut(found)
    BY DEF ResolveEntry
  <2> HIDE DEF row, fixed, found
  <2> QED BY <2>1
<1>2. n = 0 => /\ NoBaseRow(n, op, m, fx).status # "OK"
               /\ row.group # "SSE"
  <2>1. Refuse("UNSUPPORTED").status # "OK" /\ Refuse("INVALID").status # "OK"
    BY DEF Refuse
  <2>2. n = 0 => Map0[op].group # "SSE"
    BY QuietLow, QuietHigh DEF Map0, QuietRow
  <2> QED BY <2>1, <2>2 DEF NoBaseRow
<1>3. Quiet(g) /\ Quiet(ResolveFpu(op, m)) /\ Refuse("INVALID").status # "OK" /\ MmxMovq(ResolveSse(op, m, fx), fx)
  BY QuietGroups, QuietFpu, SseMovq DEF Refuse
<1>4. n = 0 => NotMovq(fixed) /\ (op < 48 \/ fixed.status # "OK" \/ NoSegment(fixed.shapes))
  <2> SUFFICES ASSUME n = 0 PROVE NotMovq(fixed) /\ (op < 48 \/ fixed.status # "OK" \/ NoSegment(fixed.shapes))
    OBVIOUS
  <2>1. NotMovq(Map0[op]) /\ (op < 48 \/ NoSegment(Map0[op].shapes))
    BY QuietLow, QuietHigh DEF Map0, QuietRow, NotMovq
  <2>2. \A v \in {"INVALID", "UNSUPPORTED"} : NotMovq(Refuse(v)) /\ Refuse(v).status # "OK"
    BY DEF Refuse, NotMovq
  <2>3. /\ NotMovq(Found("INSN", <<>>)) /\ NotMovq(Found("PAUSE", <<>>))
        /\ NotMovq(Found("INSN", <<"GPR16_OR_MEM", "GPR16_REG">>)) /\ NotMovq(Found(Map0[op].mn, Map0[op].shapes))
        /\ NoSegment(Found("INSN", <<>>).shapes) /\ NoSegment(Found("PAUSE", <<>>).shapes)
        /\ NoSegment(Found("INSN", <<"GPR16_OR_MEM", "GPR16_REG">>).shapes)
        /\ Found(Map0[op].mn, Map0[op].shapes).shapes = Map0[op].shapes
    BY <2>1, QuietLists, QuietNames DEF Found, NotMovq
  <2> DEFINE p == Map0[op]
  <2>4. fixed = Fix0(op, p, m, fx)
    OBVIOUS
  <2> DEFINE good(e) == NotMovq(e) /\ (op < 48 \/ e.status # "OK" \/ NoSegment(e.shapes))
  <2>5. /\ good(Refuse("INVALID")) /\ good(Refuse("UNSUPPORTED")) /\ good(Found("INSN", <<>>)) /\ good(Found("PAUSE", <<>>))
        /\ good(Found("INSN", <<"GPR16_OR_MEM", "GPR16_REG">>)) /\ good(Found(p.mn, p.shapes))
    BY <2>1, <2>2, <2>3
  <2> HIDE DEF good, p, fixed
  <2>6. good(Fix0(op, p, m, fx))
    BY <2>5 DEF Fix0
  <2> QED BY <2>4, <2>6 DEF good
<1>5. n = 1 => NotMovq(fixed)
  <2>1. NotMovq(Map1[op])
    BY NotMovq1 DEF Map1
  <2>2. n = 1 => fixed = Fix1(op, Map1[op], m, fx)
    OBVIOUS
  <2>3. \A s : NotMovq(Found("INSN", s)) /\ NotMovq(Found(Map1[op].mn, s))
    BY <2>1 DEF NotMovq, Found
  <2> DEFINE p == Map1[op]
  <2>4. \A s : NotMovq(Found("INSN", s)) /\ NotMovq(Found(p.mn, s))
    BY <2>3
  <2> HIDE DEF p, fixed
  <2>5. NotMovq(Fix1(op, p, m, fx))
    BY <2>4, NotMovqRows DEF Fix1
  <2> QED BY <2>2, <2>5 DEF p
<1>6. n = 1 => MmxMovq(NoBaseRow(n, op, m, fx), fx)
  BY <1>3, NotMovqRows DEF NoBaseRow, MmxMovq, NotMovq
<1> HIDE DEF row, fixed, g
<1>8. CASE n = 0
  BY <1>1, <1>2, <1>3, <1>4, <1>8 DEF Quiet, MmxMovq, NotMovq
<1>9. CASE n = 1
  BY <1>1, <1>3, <1>5, <1>6, <1>9 DEF Quiet, MmxMovq, NotMovq
<1> QED BY <1>8, <1>9

---------------------------------------------------------------------------
\* No entry names two addresses: there is one ModRM byte and one memory offset,
\* and a ModRM byte stands for one memory operand at most.
AddressShapes == MemShapes \cup (RmShapes \ {"ST_REG"}) \cup {"MOFFS"}
Located == Shape \ AddressShapes
OneAddress(s) == \A i, j \in 1..Len(s) : s[i] \in AddressShapes /\ s[j] \in AddressShapes => i = j
Single(r)     == OneAddress(r.shapes)

LEMMA LocatedNames ==
  /\ {"GPR_RM", "GPR8_RM", "XMM_RM", "XMM32", "XMM64", "MM32", "MM_RM", "ST_REG"} \subseteq Located
  /\ {"GPR_REG", "GPR8_REG", "GPR16_REG", "R32_REG", "SEG_REG", "CREG_REG", "DREG_REG", "MM_REG", "XMM_REG", "YMM_REG"}
       \subseteq Located
  /\ {"IMM8", "IMM16", "IMM_V", "IMM_V64", "IMM_VS", "REL8", "REL_V", "REG_OPCODE", "REG8_OPCODE"} \subseteq Located
  /\ {"VEX_VVVV", "VEX_VVVV_GPR", "NONE"} \subseteq Located
  /\ {"FIXED_GPR", "FIXED_GPR8", "FIXED_GPR16", "FIXED_SEG", "FIXED_ST0", "IMM_ONE", "IMPLICIT_GPR",
      "IMPLICIT_GPR32", "IMPLICIT_ST0", "IMPLICIT_XMM0"} \subseteq Located
BY DEF Located, AddressShapes, Shape, ModrmShapes, MemShapes, RegShapes, YmmRegShapes, RmShapes, RegFieldShapes,
       ImmShapes, OpcodeShapes, VvvvShapes, FixedShapes

LEMMA SingleLists ==
  /\ OneAddress(<<>>)
  /\ \A p : OneAddress(<<p>>)
  /\ \A p \in Located : \A q : OneAddress(<<p, q>>) /\ OneAddress(<<q, p>>)
  /\ \A p, q \in Located : \A r : OneAddress(<<p, q, r>>) /\ OneAddress(<<p, r, q>>) /\ OneAddress(<<r, p, q>>)
  /\ \A p, q, r \in Located : \A s : OneAddress(<<p, q, s, r>>)
BY DEF OneAddress, Located

LEMMA SingleKinds ==
  /\ \A v : Single(Refuse(v))
  /\ \A mn, s : OneAddress(s) => /\ Single(Found(mn, s)) /\ Single(Variant(mn, s)) /\ Single(Scalar(Variant(mn, s)))
                                 /\ Single(Direct(mn, s)) /\ Single(Modrm(s))
                                 /\ Single([Modrm(s) EXCEPT !.mn = mn]) /\ Single([Variant("INSN", s) EXCEPT !.mn = mn])
  /\ \A g : Single(Group(g))
  /\ Single(NoVariant) /\ Single(NoRow)
BY SingleLists DEF Single, Refuse, Found, Variant, Scalar, Direct, Modrm, Group, NoVariant, NoRow

LEMMA SinglePick == ASSUME NEW v, Single(v) PROVE Single(Pick(v))
BY SingleKinds DEF Pick, Single

LEMMA SingleMaps == ASSUME NEW op \in Byte PROVE Single(Map0[op]) /\ Single(Map1[op])
<1>1. Single(Map0Low(op))
  BY SingleKinds, SingleLists, LocatedNames DEF Map0Low
<1>2. Single(Map0High(op))
  BY SingleKinds, SingleLists, LocatedNames DEF Map0High
<1>3. Single(Map1Row(op))
  BY SingleKinds, SingleLists, LocatedNames DEF Map1Row
<1> QED BY <1>1, <1>2, <1>3 DEF Map0, Map1

LEMMA SingleGroups == ASSUME NEW g, NEW op, NEW m, NEW tl, NEW fx PROVE Single(ResolveGroup(g, op, m, tl, fx))
<1>1. \A reg : Single(SmallGroup(g, op, reg))
  BY SingleKinds, SingleLists, LocatedNames DEF SmallGroup
<1>2. Single(Group7(m, fx))
  BY SingleKinds, SingleLists, LocatedNames DEF Group7
<1>3. Single(Group9(m, fx))
  BY SingleKinds, SingleLists DEF Group9
<1>4. Single(Group15(m, fx))
  BY SingleKinds, SingleLists DEF Group15
<1>5. \A reg : Single(OtherGroup(g, reg, tl))
  BY SingleKinds, SingleLists, LocatedNames DEF OtherGroup, Mm2
<1> QED BY <1>1, <1>2, <1>3, <1>4, <1>5 DEF ResolveGroup

LEMMA SingleFpu == ASSUME NEW op, NEW m PROVE Single(ResolveFpu(op, m))
<1>1. Single(FpuLow(op, m))
  BY SingleKinds, SingleLists, LocatedNames DEF FpuLow, St, Pair, None0
<1>2. Single(FpuHigh(op, m))
  BY SingleKinds, SingleLists, LocatedNames DEF FpuHigh, St, Pair, PairRev, None0
<1> QED BY <1>1, <1>2, SingleKinds, SingleLists DEF ResolveFpu

LEMMA SingleSse == ASSUME NEW op, NEW m, NEW fx PROVE Single(ResolveSse(op, m, fx))
<1> USE SingleKinds, SingleLists, LocatedNames
<1>1. Single(ResolveShift(op, m, fx))
  BY DEF ResolveShift
<1>2. Single(ResolveMovdq(op, fx))
  BY DEF ResolveMovdq
<1>3. Single(ResolveWord(op, m, fx))
  BY DEF ResolveWord
<1>4. \A col : Single(MovVariant(op, col))
  BY DEF MovVariant, XmmLoad, XmmStore, MmLoad, MmStore, MemoryOnly
<1>5. \A col : Single(AluVariant(op, col))
  BY DEF AluVariant, XmmLoad, MmLoad, XmmImm
<1>6. Single(ResolveRow(op, m, fx))
  BY <1>4, <1>5, SinglePick DEF ResolveRow
<1> QED BY <1>1, <1>2, <1>3, <1>6 DEF ResolveSse

LEMMA SingleCrypto == ASSUME NEW n, NEW op, NEW m, NEW fx PROVE Single(ResolveCrypto(n, op, m, fx))
<1>1. Mm2 \o <<"IMM8">> = <<"MM_REG", "MM_OR_MEM", "IMM8">> /\ Xmm2 \o <<"IMM8">> = Xmm3
      /\ Xmm2 \o <<"IMPLICIT_XMM0">> = <<"XMM_REG", "XMM_OR_MEM", "IMPLICIT_XMM0">>
  BY Joined, ShapeNames DEF Mm2, Xmm2, Xmm3
<1> USE SingleKinds, SingleLists, LocatedNames
<1>2. Single(Resolve38(op, m, fx))
  BY DEF Resolve38, Xmm2, Mm2
<1>3. Single(Resolve3A(op, fx))
  BY <1>1 DEF Resolve3A, Xmm3
<1>4. \A col : Single(Variant38(op, col))
  BY <1>1 DEF Variant38, Mm2, Xmm2
<1>5. \A col : Single(Variant3A(op, col))
  BY <1>1 DEF Variant3A, Xmm3
<1>6. ASSUME NEW col, Variant3A(op, col).mn # "NONE"
      PROVE  /\ op = x(1,6) => Single(Found("INSN", [Variant3A(op, col).shapes EXCEPT ![1] = "GPR_OR_MEM"]))
             /\ op = x(2,2) => Single(Found("INSN", [Variant3A(op, col).shapes EXCEPT ![2] = "GPR_OR_MEM"]))
  <2>1. /\ [<<"R32_OR_MEM", "XMM_REG", "IMM8">> EXCEPT ![1] = "GPR_OR_MEM"] = <<"GPR_OR_MEM", "XMM_REG", "IMM8">>
        /\ [<<"XMM_REG", "R32_OR_MEM", "IMM8">> EXCEPT ![2] = "GPR_OR_MEM"] = <<"XMM_REG", "GPR_OR_MEM", "IMM8">>
    OBVIOUS
  <2>2. /\ op = x(1,6) => Variant3A(op, col).shapes = <<"R32_OR_MEM", "XMM_REG", "IMM8">>
        /\ op = x(2,2) => Variant3A(op, col).shapes = <<"XMM_REG", "R32_OR_MEM", "IMM8">>
    <3>1. /\ x(1,6) # x(0,F) /\ x(1,6) \in Extracts /\ x(1,6) \notin Inserts
          /\ x(2,2) # x(0,F) /\ x(2,2) \notin Extracts /\ x(2,2) \in Inserts
      BY DEF Extracts, Inserts, Cells, x, F
    <3>2. \A s : Variant("INSN", s).shapes = s
      BY DEF Variant
    <3>3. NoVariant.mn = "NONE"
      BY DEF NoVariant, Variant
    <3>4. op = x(1,6) => Variant3A(op, col) \in {Variant("INSN", <<"R32_OR_MEM", "XMM_REG", "IMM8">>), NoVariant}
      BY <3>1 DEF Variant3A
    <3>5. op = x(2,2) => Variant3A(op, col) \in {Variant("INSN", <<"XMM_REG", "R32_OR_MEM", "IMM8">>), NoVariant}
      BY <3>1 DEF Variant3A
    <3> QED BY <1>6, <3>2, <3>3, <3>4, <3>5
  <2> QED BY <2>1, <2>2
<1> QED BY <1>2, <1>3, <1>4, <1>5, <1>6, SinglePick DEF ResolveCrypto

\* Whatever the resolver finds has one address at most.
LEMMA SingleEntry ==
  ASSUME NEW n, NEW op \in Byte, NEW m, NEW tl, NEW fx PROVE Single(ResolveEntry(n, op, m, tl, fx))
<1> DEFINE row == IF n = 0 THEN Map0[op] ELSE Map1[op]
           fixed == IF n = 0 THEN Fix0(op, row, m, fx) ELSE Fix1(op, row, m, fx)
           g == ResolveGroup(row.group, op, m, tl, fx)
<1>1. Single(row)
  BY SingleMaps
<1>2. \A mn : Single(Found(mn, row.shapes))
  BY <1>1, SingleKinds DEF Single
<1>3. \A q : (\A mn : Single(Found(mn, q.shapes))) => Single(Fix0(op, q, m, fx)) /\ Single(Fix1(op, q, m, fx))
  BY SingleKinds, SingleLists, LocatedNames DEF Fix0, Fix1
<1>4. Single(fixed)
  <2> HIDE DEF row
  <2> QED BY <1>2, <1>3
<1>5. Single(NoBaseRow(n, op, m, fx))
  BY SingleKinds, SingleSse DEF NoBaseRow
<1>6. Single(g) /\ Single(ResolveFpu(op, m)) /\ Single(ResolveSse(op, m, fx)) /\ Single(Refuse("INVALID"))
  BY SingleGroups, SingleFpu, SingleSse, SingleKinds
<1>7. \/ ResolveEntry(n, op, m, tl, fx) \in {NoBaseRow(n, op, m, fx), fixed, ResolveFpu(op, m), ResolveSse(op, m, fx)}
      \/ ResolveEntry(n, op, m, tl, fx) \in {Refuse("INVALID"), g}
  <2> DEFINE found == IF row.group = "NONE" THEN fixed ELSE g
             cut(e) == IF e.status = "OK" /\ row.modrm /\ ~(n = 1 /\ op \in Cells(2, 0..3)) /\ ~ModAllows(e.shapes, m)
                       THEN Refuse("INVALID") ELSE e
  <2>1. ResolveEntry(n, op, m, tl, fx)
          = CASE row.mn = "NONE" /\ row.group = "NONE" -> NoBaseRow(n, op, m, fx)
              [] row.group # "NONE" /\ fixed.status # "OK" -> fixed
              [] row.group = "FPU" -> ResolveFpu(op, m)
              [] row.group = "SSE" -> ResolveSse(op, m, fx)
              [] OTHER -> cut(found)
    BY DEF ResolveEntry
  <2> HIDE DEF row, fixed, g
  <2> QED BY <2>1
<1> HIDE DEF fixed, g
<1> QED BY <1>4, <1>5, <1>6, <1>7

\* The same for VEX.
LEMMA SingleVariant == ASSUME NEW m, NEW op, NEW pp PROVE Single(VexVariant(m, op, pp))
<1> USE SingleKinds, SingleLists, LocatedNames
<1>1. /\ Single(Vex2) /\ Single(VexOut) /\ Single(Vex3) /\ Single(Vex2Imm) /\ Single(Vex3Imm) /\ Single(VexGpr3)
      /\ Single(Scalar(Vex2)) /\ Single(Scalar(Vex3)) /\ Single(Scalar(Vex3Imm))
  BY DEF Vex2, VexOut, Vex3, Vex2Imm, Vex3Imm, VexGpr3
<1>2. \A col : Single(Vex0fPackedRow(op, col))
  BY <1>1 DEF Vex0fPackedRow, VexOut
<1>3. \A col : Single(Vex0fScalarRow(op, col)) /\ Single(Scalar(Vex0fScalarRow(op, col)))
  <2>1. \A col : Single(Vex0fScalarRow(op, col)) /\ Vex0fScalarRow(op, col) \in VariantRow
    BY <1>1, Constructors, ShapeNames, ShapeLists, MnemonicNames DEF Vex0fScalarRow, Vex2, Vex3, Vex3Imm
  <2>2. \A v \in VariantRow : Single(v) => Single(Scalar(v))
    BY DEF Scalar, Single, VariantRow
  <2> QED BY <2>1, <2>2
<1>4. \A col : Single(Vex0f(op, col))
  BY <1>2, <1>3 DEF Vex0f
<1>5. \A col : Single(Vex0f38(op, col))
  BY <1>1 DEF Vex0f38, V256
<1>6. \A col : Single(Vex0f3a(op, col))
  BY <1>1 DEF Vex0f3a, V256
<1> QED BY <1>4, <1>5, <1>6 DEF VexVariant

LEMMA SingleVex ==
  /\ \A b, p : Single(DecodeVex(b, p))
  /\ \A e, f, m : Single(e) => Single(ResolveVex(e, f, m))
<1>1. \A f, long : Single(VexEntry(f, long))
  <2> SUFFICES ASSUME NEW f, NEW long PROVE Single(VexEntry(f, long))
    OBVIOUS
  <2> DEFINE v == VexVariant(f.map, f.op, f.pp)
  <2>1. Single(Found(v.mn, v.shapes))
    BY SingleVariant, SingleKinds DEF Single
  <2>2. Single(Deferred)
    BY SingleKinds, SingleLists, LocatedNames DEF Deferred
  <2> HIDE DEF v
  <2> QED BY <2>1, <2>2, SingleKinds DEF VexEntry, v
<1>2. \A b, p : Single(DecodeVex(b, p))
  BY <1>1, SingleLists DEF DecodeVex, Single
<1>3. \A f, reg : Single(ResolveDeferred(f, reg))
  BY SingleKinds, SingleLists, LocatedNames DEF ResolveDeferred
<1>4. ASSUME NEW e, NEW f, NEW m, Single(e) PROVE Single(ResolveVex(e, f, m))
  <2>1. Single(Found(e.mn, e.shapes)) /\ Single(Refuse("INVALID"))
    BY <1>4, SingleKinds DEF Single
  <2> QED BY <1>3, <2>1 DEF ResolveVex
<1> QED BY <1>2, <1>4
=============================================================================
