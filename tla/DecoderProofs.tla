--------------------------- MODULE DecoderProofs ---------------------------
(***************************************************************************)
(* Theorems about one call of x86dec_decode_insn, for every buffer and     *)
(* every initialised decoder: the types; where every byte of an accepted   *)
(* instruction goes, so that the offsets in raw point at the fields they   *)
(* name and the length is the sum of the fields; what a call has worked    *)
(* out when it accepts, the entry that goes with the bytes that were read  *)
(* and the sizes that go with the prefixes and the mode; how many bytes a  *)
(* call looks at; and the contract.                                        *)
(***************************************************************************)
EXTENDS DecoderProperties, TableProofs

\* Where the cursor is: inside the buffer, on the byte after an opcode when
\* the front-end is chosen.  The type invariant is inductive only with this:
\* it is what makes the next byte a byte.
CursorInv ==
  /\ pos <= Len(buf)
  /\ pc \in {"call", "prefix", "rex", "opcode", "escape"} => map = 0
  /\ pc \in {"escape", "opcode3", "dispatch", "synth", "modrm", "sib", "disp", "tail", "resolve",
             "promote", "operands"} => pos >= 1
  /\ pc = "dispatch" /\ map = 0 => buf[pos] = opcode
  /\ pc \notin {"call", "done"} => buf # <<>> /\ insn.length = 0

IndInv == TypeOK /\ CursorInv

LEMMA DispSizes == ASSUME NEW m, NEW b, NEW a PROVE DispSize(m, b, a) \in {0, 1, 2, 4}
BY DEF DispSize

LEMMA WantedBytes == ASSUME TypeOK PROVE Wanted \in Nat
<1>1. raw.dispSize \in Nat
  BY DEF TypeOK, Raw
<1>2. \A s : OperandBytes(s, eosz, easz) \in Nat
  BY DEF TypeOK, Width, OperandBytes, ShapeImmBytes
<1> QED BY <1>1, <1>2 DEF Wanted

LEMMA ZeroTypes ==
  /\ ZeroRaw \in Raw /\ NoEntry \in Entry /\ NoVexFields \in VexFields
  /\ CallerInsn \in Insn /\ ZeroInsn \in Insn /\ CallerContext \in Context /\ ZeroContext \in Context
<1>1. ZeroRaw \in Raw
  BY DEF ZeroRaw, Raw, MaxPrefixes, Byte
<1>2. NoEntry \in Entry
  BY ShapeLists, MnemonicNames DEF NoEntry, Entry
<1>3. NoVexFields \in VexFields
  BY DEF NoVexFields, VexFields, Byte
<1>4. ZeroInsn \in Insn /\ CallerInsn \in Insn
  BY <1>1, MnemonicNames DEF ZeroInsn, CallerInsn, Insn, Byte
<1>5. ZeroContext \in Context
  BY <1>1, <1>2, <1>3 DEF ZeroContext, Context
<1>6. CallerContext \in Context
  <2>1. StaleEntry \in Entry
    BY ShapeNames, ShapeLists, MnemonicNames DEF StaleEntry, Entry
  <2>2. \A c \in Context, n \in Nat, e \in Entry : [c EXCEPT !.length = n, !.entry = e] \in Context
    BY DEF Context
  <2>3. 255 \in Nat
    OBVIOUS
  <2> QED BY <1>5, <2>1, <2>2, <2>3 DEF CallerContext
<1> QED BY <1>1, <1>2, <1>3, <1>4, <1>5, <1>6

LEMMA ErrorInsnType ==
  ASSUME TypeOK, NEW n \in Nat, NEW r \in Raw PROVE ErrorInsn(n, r) \in Insn
BY MnemonicNames DEF TypeOK, ErrorInsn, Insn, MaxInsnLength

\* The updates of the raw fields keep to its type.
LEMMA RawUpdates ==
  ASSUME NEW r \in Raw, NEW b \in BOOLEAN, NEW c \in BOOLEAN, NEW n \in Nat, NEW byte \in Byte
  PROVE  /\ [r EXCEPT !.rep = b, !.repne = c] \in Raw
         /\ [r EXCEPT !.hasRex = TRUE, !.rex = byte, !.opcodeOffset = n] \in Raw
         /\ [r EXCEPT !.hasMoffs = TRUE] \in Raw
         /\ [r EXCEPT !.immSize = n] \in Raw
BY DEF Raw

LEMMA PrefixAdded ==
  ASSUME NEW r \in Raw, r.count < MaxPrefixes, NEW byte \in Byte PROVE AddPrefix(r, byte) \in Raw
<1> DEFINE seg == IF byte \in SegmentPrefixes THEN byte ELSE r.segment
           lock == r.lock \/ byte = x(F,0)
           rep == r.rep \/ byte = x(F,3)
           repne == r.repne \/ byte = x(F,2)
           osz == r.osz \/ byte = x(6,6)
           asz == r.asz \/ byte = x(6,7)
<1>1. seg \in Byte /\ r.count + 1 \in 0..MaxPrefixes
  BY DEF Raw, MaxPrefixes
<1>2. lock \in BOOLEAN /\ rep \in BOOLEAN /\ repne \in BOOLEAN /\ osz \in BOOLEAN /\ asz \in BOOLEAN
  OBVIOUS
<1>3. AddPrefix(r, byte) = [r EXCEPT !.count = r.count + 1, !.lock = lock, !.rep = rep, !.repne = repne,
                                     !.osz = osz, !.asz = asz, !.segment = seg]
  BY DEF AddPrefix
<1> HIDE DEF seg, lock, rep, repne, osz, asz
<1> QED BY <1>1, <1>2, <1>3 DEF Raw

LEMMA InitIndInv == ASSUME Init PROVE IndInv
<1>1. decoder \in Decoder /\ InitAccepts(decoder) /\ buf \in Seq(Byte)
  BY BuffersAssumption, DecodersAssumption DEF Init
<1>2. eosz \in Width /\ easz \in Width
  BY DEF Init, DefaultEosz, DefaultEasz, Width
<1> QED BY <1>1, <1>2, ZeroTypes DEF Init, IndInv, TypeOK, CursorInv, PcSet, Byte, Verdict

LEMMA StepIndInv == ASSUME IndInv, [Next]_vars PROVE IndInv'
<1> USE DEF IndInv
<1>w. Wanted \in Nat /\ pos \in Nat /\ Len(buf) \in Nat
  BY WantedBytes DEF TypeOK
<1>1. CASE RejectArgs
  BY <1>1 DEF RejectArgs, Return, TypeOK, CursorInv, input, work, PcSet, Verdict
<1>2. CASE Begin
  <2>1. ZeroInsn.length = 0
    BY DEF ZeroInsn
  <2> QED BY <1>2, <2>1, ZeroTypes DEF Begin, TypeOK, CursorInv, input, work, PcSet
<1>3. CASE TakePrefix
  <2>1. Next1 \in Byte
    BY <1>3, <1>w DEF TakePrefix, MorePrefixes, Left, Next1, TypeOK
  <2>2. raw' \in Raw
    BY <1>3, <2>1, PrefixAdded DEF TakePrefix, MorePrefixes, TypeOK
  <2> QED BY <1>3, <2>2, <1>w DEF TakePrefix, MorePrefixes, Left, TypeOK, CursorInv, input
<1>4. CASE EndPrefixes
  BY <1>4 DEF EndPrefixes, Toggle, TypeOK, CursorInv, input, Width, PcSet
<1>5. CASE TakeRex
  <2>1. Next1 \in Byte
    BY <1>5, <1>w DEF TakeRex, RexFollows, Left, Next1, TypeOK
  <2>2. raw' \in Raw
    <3>1. raw' = [raw EXCEPT !.hasRex = TRUE, !.rex = Next1, !.opcodeOffset = pos + 1]
      BY <1>5 DEF TakeRex
    <3>2. pos + 1 \in Nat /\ raw \in Raw
      BY <1>w DEF TypeOK
    <3> QED BY <2>1, <3>1, <3>2, RawUpdates
  <2> QED BY <1>5, <2>2, <1>w DEF TakeRex, RexFollows, Left, TypeOK, CursorInv, input, Width, PcSet
<1>6. CASE NoRex
  <2>1. raw' \in Raw
    BY <1>6 DEF NoRex, TypeOK, Raw
  <2> QED BY <1>6, <2>1 DEF NoRex, TypeOK, CursorInv, input, PcSet
<1>7. CASE TakeField
  <2>1. pc \in {"opcode", "escape", "opcode3", "modrm", "sib", "tail"} /\ Take => Next1 \in Byte /\ pos' = pos + 1 /\ pos' <= Len(buf)
    BY <1>w DEF Take, Wanted, Left, Next1, TypeOK
  <2>2. CASE TakeOpcode
    BY <2>1, <2>2 DEF TakeOpcode, TypeOK, CursorInv, input, PcSet, Next1
  <2>3. CASE TakeEscape
    BY <2>1, <2>3 DEF TakeEscape, TypeOK, CursorInv, input, PcSet, Next1
  <2>4. CASE TakeOpcode3
    BY <2>1, <2>4 DEF TakeOpcode3, TypeOK, CursorInv, input, PcSet, Next1
  <2>5. CASE TakeModrm
    <3>1. raw' \in Raw
      BY <2>1, <2>5, DispSizes DEF TakeModrm, TypeOK, Raw
    <3> QED BY <2>1, <2>5, <3>1 DEF TakeModrm, TypeOK, CursorInv, input, PcSet
  <2>6. CASE TakeSib
    <3>1. raw' \in Raw
      BY <2>1, <2>6, DispSizes DEF TakeSib, TypeOK, Raw
    <3> QED BY <2>1, <2>6, <3>1 DEF TakeSib, TypeOK, CursorInv, input, PcSet
  <2>7. CASE TakeDisp
    BY <2>7, <1>w DEF TakeDisp, Take, Left, TypeOK, CursorInv, input, work, PcSet
  <2>8. CASE TakeTail
    BY <2>1, <2>8 DEF TakeTail, TypeOK, CursorInv, input, PcSet
  <2> QED BY <1>7, <2>2, <2>3, <2>4, <2>5, <2>6, <2>7, <2>8 DEF TakeField
<1>8. CASE RunOut
  BY <1>8, <1>w DEF RunOut, Return, TypeOK, CursorInv, input, work, PcSet, Verdict
<1>9. CASE Dispatch
  <2>1. CASE DispatchVzeroall
    BY <1>w, <2>1, ShapeLists, MnemonicNames
    DEF DispatchVzeroall, VzeroallAhead, Left, TypeOK, CursorInv, input, PcSet, Entry
  <2>2. CASE DispatchVex
    <3> DEFINE d == DecodeVex(buf, pos - 1)
    <3>1. pos - 1 \in Nat /\ pos - 1 < Len(buf) /\ buf[(pos - 1) + 1] \in {x(C,4), x(C,5)}
      BY <1>w, <2>2 DEF DispatchVex, VexAhead, CursorInv
    <3>2. /\ d.status \in {"OK", "NEED_MORE", "INVALID", "UNSUPPORTED"}
          /\ d.mn \in Mnemonic /\ d.shapes \in OperandLists /\ d.vex \in VexFields
          /\ d.pos \in (pos - 1) + 1 .. Len(buf)
      BY <3>1, DecodeVexType DEF TypeOK
    <3> HIDE DEF d
    <3>3. d.pos \in Nat /\ d.pos <= Len(buf) /\ d.pos >= 1
      BY <1>w, <3>1, <3>2
    <3>4. ErrorInsn(d.pos, ZeroRaw) \in Insn
      BY <3>3, ErrorInsnType, ZeroTypes
    <3> QED BY <2>2, <3>2, <3>3, <3>4
            DEF DispatchVex, Return, TypeOK, CursorInv, input, PcSet, Entry, Verdict, d
  <2>3. CASE DispatchEvex
    <3>1. ErrorInsn(pos, ZeroRaw) \in Insn
      BY <1>w, ErrorInsnType, ZeroTypes
    <3> QED BY <2>3, <3>1 DEF DispatchEvex, Return, TypeOK, CursorInv, input, work, PcSet, Verdict
  <2>4. CASE DispatchLegacy
    BY <2>4 DEF DispatchLegacy, TypeOK, CursorInv, input, work, PcSet
  <2> QED BY <1>9, <2>1, <2>2, <2>3, <2>4 DEF Dispatch
<1>10. ErrorInsn(pos, raw) \in Insn
  BY <1>w, ErrorInsnType DEF TypeOK
<1>11. CASE RejectSynth
  BY <1>10, <1>11 DEF RejectSynth, Fail, Return, TypeOK, CursorInv, input, work, PcSet, Verdict
<1>12. CASE AcceptSynth
  BY <1>12 DEF AcceptSynth, TypeOK, CursorInv, input, work, PcSet
<1>13. Resolved \in Resolution
  BY ResolveVexType, ResolveCryptoType, ResolveEntryType DEF Resolved, TypeOK, Entry, Raw
<1>14. CASE ResolveOk
  BY <1>13, <1>14 DEF ResolveOk, TypeOK, CursorInv, input, PcSet, Entry, Resolution
<1>15. CASE ResolveFails
  BY <1>10, <1>13, <1>15
  DEF ResolveFails, Fail, Return, TypeOK, CursorInv, input, work, PcSet, Resolution, Verdict
<1>16. CASE Promote
  <2>1. raw' \in Raw
    <3> DEFINE b == raw.rep /\ map = 0 /\ entry.mn # "PAUSE"
               c == raw.repne /\ map = 0
    <3>1. raw' = [raw EXCEPT !.rep = b, !.repne = c] /\ b \in BOOLEAN /\ c \in BOOLEAN
      BY <1>16 DEF Promote
    <3> HIDE DEF b, c
    <3> QED BY <3>1, RawUpdates DEF TypeOK
  <2>2. eosz' \in Width
    BY <1>16 DEF Promote, PromotedEosz, TypeOK, Width
  <2> QED BY <1>16, <2>1, <2>2 DEF Promote, TypeOK, CursorInv, input, PcSet
<1>17. CASE TakeOperand
  <2>1. raw' \in Raw
    <3>1. raw.immSize + Wanted \in Nat
      BY <1>w DEF TypeOK, Raw
    <3> QED BY <1>17, <3>1, RawUpdates DEF TakeOperand, TypeOK
  <2> QED BY <1>17, <1>w, <2>1 DEF TakeOperand, Take, Left, TypeOK, CursorInv, input
<1>18. CASE TooLong
  BY <1>10, <1>18 DEF TooLong, Fail, Return, TypeOK, CursorInv, input, work, PcSet, Verdict
<1>19. CASE Finish
  <2>1. insn' \in Insn
    BY <1>19 DEF Finish, TypeOK, Insn, VexFields, Entry, Width
  <2>2. context' \in Context
    <3> DEFINE n == IF Len(entry.shapes) < 3 THEN Len(entry.shapes) ELSE 3
    <3>1. entry.shapes \in OperandLists /\ entry.mn \in Mnemonic
      BY DEF TypeOK, Entry
    <3>2. SubSeq(entry.shapes, 1, n) \in OperandLists
      <4>1. CASE entry.shapes \in Seq(PlainShape)
        BY <4>1 DEF OperandLists
      <4>2. CASE entry.shapes \in OffsetLists
        <5>1. Len(entry.shapes) = 2 /\ SubSeq(entry.shapes, 1, 2) = entry.shapes
          BY <4>2 DEF OffsetLists
        <5>2. n = 2
          BY <5>1
        <5> HIDE DEF n
        <5> QED BY <3>1, <5>1, <5>2
      <4> QED BY <3>1, <4>1, <4>2 DEF OperandLists
    <3>3. [entry EXCEPT !.shapes = SubSeq(entry.shapes, 1, n)] \in Entry
      BY <3>2 DEF TypeOK, Entry
    <3>4. (form = "VEX") \in BOOLEAN
      OBVIOUS
    <3> QED BY <1>19, <3>3, <3>4 DEF Finish, TypeOK, Context
  <2> QED BY <1>19, <2>1, <2>2 DEF Finish, Return, TypeOK, CursorInv, input, work, PcSet, Verdict
<1>20. CASE UNCHANGED vars
  BY <1>20 DEF vars, TypeOK, CursorInv
<1> QED BY <1>1, <1>2, <1>3, <1>4, <1>5, <1>6, <1>7, <1>8, <1>9, <1>11, <1>12, <1>14, <1>15, <1>16,
           <1>17, <1>18, <1>19, <1>20 DEF Next

LEMMA Inductive == Spec => []IndInv
<1> QED BY InitIndInv, StepIndInv, PTL DEF Spec

\* Every variable keeps to its type in every call: the eight bytes of
\* raw->bytes are enough, and whatever the buffer holds, what comes back is a
\* known mnemonic with known shapes.
THEOREM TypeCorrect == Spec => []TypeOK
BY Inductive, PTL DEF IndInv

---------------------------------------------------------------------------
\* The length

OpeningPcs  == {"call", "prefix", "rex"}
OpcodePcs   == {"opcode", "escape", "opcode3", "dispatch"}
UnreadModrm == OpeningPcs \cup OpcodePcs \cup {"synth", "modrm"}
UnreadSib   == UnreadModrm \cup {"sib"}
UnreadImm   == UnreadSib \cup {"disp", "tail", "resolve", "promote"}

\* Up to the opcode the cursor counts prefixes; from then on the offset of the
\* opcode is behind them and REX.
Opening ==
  /\ pc = "call" => raw = ZeroRaw
  /\ pc \in OpeningPcs => pos = raw.count /\ ~raw.hasRex
  /\ pc \notin OpeningPcs => raw.opcodeOffset = raw.count + OneIf(raw.hasRex)

\* A field that is still to be read is as the call cleared it, and the
\* front-end is the legacy one until the dispatch says otherwise.
Unread ==
  /\ pc \in OpeningPcs \cup OpcodePcs => form = "LEGACY"
  /\ pc = "synth" => form # "LEGACY"
  /\ pc \in UnreadModrm => ~raw.hasModrm
  /\ pc \in UnreadSib => ~raw.hasSib /\ raw.dispSize = 0
  /\ pc \in UnreadImm => ~raw.hasMoffs /\ raw.immSize = 0 /\ k = 1

\* The cursor is behind the bytes of the opcode read so far.
OpcodeRead ==
  /\ pc = "opcode"  => pos = raw.opcodeOffset
  /\ pc = "escape"  => pos = raw.opcodeOffset + 1
  /\ pc = "opcode3" => pos = raw.opcodeOffset + 2 /\ map \in {2, 3}
  /\ pc \in {"dispatch", "synth", "modrm"} => pos = raw.opcodeOffset + OpcodeBytes
  /\ pc \notin OpeningPcs \cup {"opcode", "done"} \/ Accepted =>
       (form = "LEGACY" /\ map = 0 => buf[raw.opcodeOffset + 1] = opcode)

\* The ModRM and SIB bytes are where their offset says.
ModrmRead ==
  /\ pc \in {"sib", "disp", "tail"} => raw.hasModrm
  /\ raw.hasModrm => raw.modrmOffset = raw.opcodeOffset + OpcodeBytes /\ buf[raw.modrmOffset + 1] = raw.modrm
  /\ pc = "sib" => pos = raw.modrmOffset + 1
  /\ raw.hasSib => raw.hasModrm /\ buf[raw.modrmOffset + 2] = raw.sib

\* The bytes of the fields read so far, a 3DNow! opcode apart.
FieldBytes ==
  raw.count + OneIf(raw.hasRex) + OpcodeBytes + OneIf(raw.hasModrm) + OneIf(raw.hasSib) + raw.dispSize
    + (IF raw.hasMoffs THEN easz \div 8 ELSE 0) + raw.immSize
Ledger ==
  /\ pc = "disp" => pos + raw.dispSize = FieldBytes
  /\ pc = "tail" => pos = FieldBytes /\ TailFollows
  /\ pc \in {"resolve", "promote", "operands"} \/ Accepted => pos = FieldBytes + OneIf(TailFollows)
  /\ pc = "operands" /\ raw.hasMoffs => \E i \in 1..Len(entry.shapes) : i < k /\ entry.shapes[i] = "MOFFS"

Reported == Accepted => insn.length = pos /\ (form # "VEX" => insn.opcode = opcode)

LengthInv == Opening /\ Unread /\ OpcodeRead /\ ModrmRead /\ Ledger /\ Reported

---------------------------------------------------------------------------
\* Facts about the tables and the fields

\* The driver keeps one flag for a memory offset: no entry has two.
LEMMA OneOffset ==
  ASSUME NEW s \in OperandLists, NEW i \in 1..Len(s), NEW j \in 1..Len(s), s[i] = "MOFFS", s[j] = "MOFFS"
  PROVE  i = j
<1>1. CASE s \in Seq(PlainShape)
  <2>1. s[i] \in PlainShape
    BY <1>1
  <2> QED BY <2>1 DEF PlainShape
<1>2. CASE s \in OffsetLists
  BY <1>2 DEF OffsetLists
<1> QED BY <1>1, <1>2 DEF OperandLists

\* 0F 0F has a ModRM byte, so the 3DNow! opcode behind the tail is read.
LEMMA AmdHasModrm == Map1[x(0,F)].modrm
<1>1. x(0,F) \in Byte
  BY DEF Byte, x, F
<1>2. Map1Row(x(0,F)) = Group("3DNOW")
  BY SMTT(30) DEF Map1Row, SseOpcodes, Line, Cells, x, A, B, C, D, E, F
<1> QED BY <1>1, <1>2 DEF Map1, Group

LEMMA OpcodeSizes == OpcodeBytes \in Nat
BY DEF OpcodeBytes

---------------------------------------------------------------------------
\* The ledger is kept by every step

LEMMA InitLength == ASSUME Init PROVE LengthInv
BY DEF Init, LengthInv, Opening, Unread, OpcodeRead, ModrmRead, Ledger, Reported, ZeroRaw, OneIf, Accepted,
       OpeningPcs, OpcodePcs, UnreadModrm, UnreadSib, UnreadImm

\* One case per step of a call; a step of the call after it starts afresh.
LEMMA StepLength == ASSUME IndInv, IndInv', LengthInv, [Next]_vars PROVE LengthInv'
<1>t. /\ pos \in Nat /\ buf \in Seq(Byte) /\ raw \in Raw /\ pos <= Len(buf)
      /\ raw.count \in Nat /\ raw.opcodeOffset \in Nat /\ raw.modrmOffset \in Nat
      /\ raw.dispSize \in Nat /\ raw.immSize \in Nat
      /\ pc \in {"opcode", "escape"} \/ (pc = "dispatch" /\ VexAhead) => map = 0
  BY DEF IndInv, TypeOK, CursorInv, Raw, VexAhead
<1>w. Wanted \in Nat /\ OpcodeBytes \in Nat /\ raw'.dispSize \in Nat
  BY WantedBytes, OpcodeSizes DEF IndInv, TypeOK, Raw
<1>o. UNCHANGED <<buf, form, map>> /\ raw'.opcodeOffset = raw.opcodeOffset => OpcodeBytes' = OpcodeBytes
  BY DEF OpcodeBytes
<1> USE DEF LengthInv, Accepted, input, work, OpeningPcs, OpcodePcs, UnreadModrm, UnreadSib, UnreadImm
<1>1. CASE RejectArgs
  <2>1. Opening'
    BY <1>1, <1>t, <1>w, <1>o DEF RejectArgs, Opening, Return, OneIf, ZeroRaw
  <2>2. Unread'
    BY <1>1, <1>t, <1>w, <1>o DEF RejectArgs, Unread, Return
  <2>3. OpcodeRead'
    BY <1>1, <1>t, <1>w, <1>o DEF RejectArgs, OpcodeRead, Opening, Unread, Return
  <2>4. ModrmRead'
    BY <1>1, <1>t, <1>w, <1>o DEF RejectArgs, ModrmRead, Unread, OpcodeRead, Return
  <2>5. Ledger'
    BY <1>1, <1>t, <1>w, <1>o DEF RejectArgs, Ledger, Opening, Unread, OpcodeRead, ModrmRead, Return, FieldBytes,
       OneIf, TailFollows
  <2>6. Reported'
    BY <1>1, <1>t, <1>w, <1>o DEF RejectArgs, Reported, Return
  <2> QED BY <2>1, <2>2, <2>3, <2>4, <2>5, <2>6
<1>2. CASE Begin
  <2>1. Opening'
    BY <1>2, <1>t, <1>w, <1>o DEF Begin, Opening, OneIf
  <2>2. Unread'
    BY <1>2, <1>t, <1>w, <1>o DEF Begin, Unread
  <2>3. OpcodeRead'
    BY <1>2, <1>t, <1>w, <1>o DEF Begin, OpcodeRead, Opening, Unread
  <2>4. ModrmRead'
    BY <1>2, <1>t, <1>w, <1>o DEF Begin, ModrmRead, Unread, OpcodeRead
  <2>5. Ledger'
    BY <1>2, <1>t, <1>w, <1>o DEF Begin, Ledger, Opening, Unread, OpcodeRead, ModrmRead, FieldBytes, OneIf,
       TailFollows
  <2>6. Reported'
    BY <1>2, <1>t, <1>w, <1>o DEF Begin, Reported
  <2> QED BY <2>1, <2>2, <2>3, <2>4, <2>5, <2>6
<1>3. CASE TakePrefix
  <2>1. Opening'
    BY <1>3, <1>t, <1>w, <1>o DEF TakePrefix, Opening, AddPrefix, OneIf, Raw
  <2>2. Unread'
    BY <1>3, <1>t, <1>w, <1>o DEF TakePrefix, Unread, AddPrefix, Raw
  <2>3. OpcodeRead'
    BY <1>3, <1>t, <1>w, <1>o DEF TakePrefix, OpcodeRead, Opening, Unread, AddPrefix, Raw
  <2>4. ModrmRead'
    BY <1>3, <1>t, <1>w, <1>o DEF TakePrefix, ModrmRead, Unread, OpcodeRead, AddPrefix, Raw
  <2>5. Ledger'
    BY <1>3, <1>t, <1>w, <1>o DEF TakePrefix, Ledger, Opening, Unread, OpcodeRead, ModrmRead, AddPrefix, FieldBytes,
       OneIf, TailFollows, Raw
  <2>6. Reported'
    BY <1>3, <1>t, <1>w, <1>o DEF TakePrefix, Reported, AddPrefix, Raw
  <2> QED BY <2>1, <2>2, <2>3, <2>4, <2>5, <2>6
<1>4. CASE EndPrefixes
  <2>1. Opening'
    BY <1>4, <1>t, <1>w, <1>o DEF EndPrefixes, Opening, OneIf
  <2>2. Unread'
    BY <1>4, <1>t, <1>w, <1>o DEF EndPrefixes, Unread
  <2>3. OpcodeRead'
    BY <1>4, <1>t, <1>w, <1>o DEF EndPrefixes, OpcodeRead, Opening, Unread
  <2>4. ModrmRead'
    BY <1>4, <1>t, <1>w, <1>o DEF EndPrefixes, ModrmRead, Unread, OpcodeRead
  <2>5. Ledger'
    BY <1>4, <1>t, <1>w, <1>o DEF EndPrefixes, Ledger, Opening, Unread, OpcodeRead, ModrmRead, FieldBytes, OneIf,
       TailFollows
  <2>6. Reported'
    BY <1>4, <1>t, <1>w, <1>o DEF EndPrefixes, Reported
  <2> QED BY <2>1, <2>2, <2>3, <2>4, <2>5, <2>6
<1>5. CASE TakeRex
  <2>1. Opening'
    BY <1>5, <1>t, <1>w, <1>o DEF TakeRex, Opening, OneIf
  <2>2. Unread'
    BY <1>5, <1>t, <1>w, <1>o DEF TakeRex, Unread
  <2>3. OpcodeRead'
    BY <1>5, <1>t, <1>w, <1>o DEF TakeRex, OpcodeRead, Opening, Unread
  <2>4. ModrmRead'
    BY <1>5, <1>t, <1>w, <1>o DEF TakeRex, ModrmRead, Unread, OpcodeRead
  <2>5. Ledger'
    BY <1>5, <1>t, <1>w, <1>o DEF TakeRex, Ledger, Opening, Unread, OpcodeRead, ModrmRead, FieldBytes, OneIf,
       TailFollows
  <2>6. Reported'
    BY <1>5, <1>t, <1>w, <1>o DEF TakeRex, Reported
  <2> QED BY <2>1, <2>2, <2>3, <2>4, <2>5, <2>6
<1>6. CASE NoRex
  <2>1. Opening'
    BY <1>6, <1>t, <1>w, <1>o DEF NoRex, Opening, OneIf
  <2>2. Unread'
    BY <1>6, <1>t, <1>w, <1>o DEF NoRex, Unread
  <2>3. OpcodeRead'
    BY <1>6, <1>t, <1>w, <1>o DEF NoRex, OpcodeRead, Opening, Unread
  <2>4. ModrmRead'
    BY <1>6, <1>t, <1>w, <1>o DEF NoRex, ModrmRead, Unread, OpcodeRead
  <2>5. Ledger'
    BY <1>6, <1>t, <1>w, <1>o DEF NoRex, Ledger, Opening, Unread, OpcodeRead, ModrmRead, FieldBytes, OneIf,
       TailFollows
  <2>6. Reported'
    BY <1>6, <1>t, <1>w, <1>o DEF NoRex, Reported
  <2> QED BY <2>1, <2>2, <2>3, <2>4, <2>5, <2>6
<1>7. CASE TakeOpcode
  <2>1. Opening'
    BY <1>7, <1>t, <1>w, <1>o DEF TakeOpcode, Opening, Take, Wanted, Next1, OneIf
  <2>2. Unread'
    BY <1>7, <1>t, <1>w, <1>o DEF TakeOpcode, Unread, Take, Wanted, Next1
  <2>3. OpcodeRead'
    BY <1>7, <1>t, <1>w, <1>o DEF TakeOpcode, OpcodeRead, Opening, Unread, Take, Wanted, Next1, OpcodeBytes
  <2>4. ModrmRead'
    BY <1>7, <1>t, <1>w, <1>o DEF TakeOpcode, ModrmRead, Unread, OpcodeRead, Take, Wanted, Next1
  <2>5. Ledger'
    BY <1>7, <1>t, <1>w, <1>o DEF TakeOpcode, Ledger, Opening, Unread, OpcodeRead, ModrmRead, Take, Wanted, Next1,
       FieldBytes, OneIf, TailFollows
  <2>6. Reported'
    BY <1>7, <1>t, <1>w, <1>o DEF TakeOpcode, Reported, Take, Wanted, Next1
  <2> QED BY <2>1, <2>2, <2>3, <2>4, <2>5, <2>6
<1>8. CASE TakeEscape
  <2>1. Opening'
    BY <1>8, <1>t, <1>w, <1>o DEF TakeEscape, Opening, Take, Wanted, Next1, OneIf
  <2>2. Unread'
    BY <1>8, <1>t, <1>w, <1>o DEF TakeEscape, Unread, Take, Wanted, Next1
  <2>3. OpcodeRead'
    BY <1>8, <1>t, <1>w, <1>o DEF TakeEscape, OpcodeRead, Opening, Unread, Take, Wanted, Next1, OpcodeBytes
  <2>4. ModrmRead'
    BY <1>8, <1>t, <1>w, <1>o DEF TakeEscape, ModrmRead, Unread, OpcodeRead, Take, Wanted, Next1
  <2>5. Ledger'
    BY <1>8, <1>t, <1>w, <1>o DEF TakeEscape, Ledger, Opening, Unread, OpcodeRead, ModrmRead, Take, Wanted, Next1,
       FieldBytes, OneIf, TailFollows
  <2>6. Reported'
    BY <1>8, <1>t, <1>w, <1>o DEF TakeEscape, Reported, Take, Wanted, Next1
  <2> QED BY <2>1, <2>2, <2>3, <2>4, <2>5, <2>6
<1>9. CASE TakeOpcode3
  <2>1. Opening'
    BY <1>9, <1>t, <1>w, <1>o DEF TakeOpcode3, Opening, Take, Wanted, Next1, OneIf
  <2>2. Unread'
    BY <1>9, <1>t, <1>w, <1>o DEF TakeOpcode3, Unread, Take, Wanted, Next1
  <2>3. OpcodeRead'
    BY <1>9, <1>t, <1>w, <1>o DEF TakeOpcode3, OpcodeRead, Opening, Unread, Take, Wanted, Next1, OpcodeBytes
  <2>4. ModrmRead'
    BY <1>9, <1>t, <1>w, <1>o DEF TakeOpcode3, ModrmRead, Unread, OpcodeRead, Take, Wanted, Next1
  <2>5. Ledger'
    BY <1>9, <1>t, <1>w, <1>o DEF TakeOpcode3, Ledger, Opening, Unread, OpcodeRead, ModrmRead, Take, Wanted, Next1,
       FieldBytes, OneIf, TailFollows
  <2>6. Reported'
    BY <1>9, <1>t, <1>w, <1>o DEF TakeOpcode3, Reported, Take, Wanted, Next1
  <2> QED BY <2>1, <2>2, <2>3, <2>4, <2>5, <2>6
<1>10. CASE TakeModrm
  <2>0. /\ raw'.count = raw.count /\ raw'.hasRex = raw.hasRex /\ raw'.opcodeOffset = raw.opcodeOffset /\ raw'.hasSib = raw.hasSib
        /\ raw'.hasMoffs = raw.hasMoffs /\ raw'.immSize = raw.immSize /\ raw'.hasModrm /\ raw'.modrmOffset = pos
    BY <1>10, <1>t DEF TakeModrm, Raw
  <2>1. Opening'
    BY <1>10, <1>t, <1>w, <1>o DEF TakeModrm, Opening, Take, Wanted, Next1, OneIf
  <2>2. Unread'
    BY <1>10, <1>t, <1>w, <1>o DEF TakeModrm, Unread, Take, Wanted, Next1
  <2>3. OpcodeRead'
    BY <1>10, <1>t, <1>w, <1>o DEF TakeModrm, OpcodeRead, Opening, Unread, Take, Wanted, Next1
  <2>4. ModrmRead'
    BY <1>10, <1>t, <1>w, <1>o DEF TakeModrm, ModrmRead, Unread, OpcodeRead, Take, Wanted, Next1
  <2>5. Ledger'
    <3>1. pos' = pos + 1 /\ pc' \in {"sib", "disp"}
      BY <1>10, <1>t DEF TakeModrm, Take, Wanted
    <3>2. FieldBytes' = raw.count + OneIf(raw.hasRex) + OpcodeBytes + 1 + raw'.dispSize
      BY <1>10, <1>t, <1>w, <1>o, <2>0 DEF TakeModrm, FieldBytes, OneIf, Unread
    <3>3. pos = raw.count + OneIf(raw.hasRex) + OpcodeBytes
      BY <1>10 DEF TakeModrm, Opening, OpcodeRead
    <3> QED BY <1>t, <1>w, <3>1, <3>2, <3>3 DEF Ledger, OneIf
  <2>6. Reported'
    BY <1>10, <1>t, <1>w, <1>o DEF TakeModrm, Reported, Take, Wanted, Next1
  <2> QED BY <2>1, <2>2, <2>3, <2>4, <2>5, <2>6
<1>11. CASE TakeSib
  <2>0. /\ raw'.count = raw.count /\ raw'.hasRex = raw.hasRex /\ raw'.opcodeOffset = raw.opcodeOffset /\ raw'.hasModrm = raw.hasModrm
        /\ raw'.hasMoffs = raw.hasMoffs /\ raw'.immSize = raw.immSize /\ raw'.hasSib
    BY <1>11, <1>t DEF TakeSib, Raw
  <2>1. Opening'
    BY <1>11, <1>t, <1>w, <1>o DEF TakeSib, Opening, Take, Wanted, Next1, OneIf
  <2>2. Unread'
    BY <1>11, <1>t, <1>w, <1>o DEF TakeSib, Unread, Take, Wanted, Next1
  <2>3. OpcodeRead'
    BY <1>11, <1>t, <1>w, <1>o DEF TakeSib, OpcodeRead, Opening, Unread, Take, Wanted, Next1
  <2>4. ModrmRead'
    BY <1>11, <1>t, <1>w, <1>o DEF TakeSib, ModrmRead, Unread, OpcodeRead, Take, Wanted, Next1
  <2>5. Ledger'
    BY <1>11, <1>t, <1>w, <1>o, <2>0 DEF TakeSib, Ledger, Opening, Unread, OpcodeRead, ModrmRead, Take, Wanted,
       Next1, FieldBytes, OneIf, TailFollows
  <2>6. Reported'
    BY <1>11, <1>t, <1>w, <1>o DEF TakeSib, Reported, Take, Wanted, Next1
  <2> QED BY <2>1, <2>2, <2>3, <2>4, <2>5, <2>6
<1>12. CASE TakeDisp
  <2>1. Opening'
    BY <1>12, <1>t, <1>w, <1>o DEF TakeDisp, Opening, Take, Wanted, OneIf
  <2>2. Unread'
    BY <1>12, <1>t, <1>w, <1>o DEF TakeDisp, Unread, Take, Wanted
  <2>3. OpcodeRead'
    BY <1>12, <1>t, <1>w, <1>o DEF TakeDisp, OpcodeRead, Opening, Unread, Take, Wanted
  <2>4. ModrmRead'
    BY <1>12, <1>t, <1>w, <1>o DEF TakeDisp, ModrmRead, Unread, OpcodeRead, Take, Wanted
  <2>5. Ledger'
    BY <1>12, <1>t, <1>w, <1>o DEF TakeDisp, Ledger, Opening, Unread, OpcodeRead, ModrmRead, Take, Wanted,
       FieldBytes, OneIf, TailFollows
  <2>6. Reported'
    BY <1>12, <1>t, <1>w, <1>o DEF TakeDisp, Reported, Take, Wanted
  <2> QED BY <2>1, <2>2, <2>3, <2>4, <2>5, <2>6
<1>13. CASE TakeTail
  <2>1. Opening'
    BY <1>13, <1>t, <1>w, <1>o DEF TakeTail, Opening, Take, Wanted, Next1, OneIf
  <2>2. Unread'
    BY <1>13, <1>t, <1>w, <1>o DEF TakeTail, Unread, Take, Wanted, Next1
  <2>3. OpcodeRead'
    BY <1>13, <1>t, <1>w, <1>o DEF TakeTail, OpcodeRead, Opening, Unread, Take, Wanted, Next1
  <2>4. ModrmRead'
    BY <1>13, <1>t, <1>w, <1>o DEF TakeTail, ModrmRead, Unread, OpcodeRead, Take, Wanted, Next1
  <2>5. Ledger'
    BY <1>13, <1>t, <1>w, <1>o DEF TakeTail, Ledger, Opening, Unread, OpcodeRead, ModrmRead, Take, Wanted, Next1,
       FieldBytes, OneIf, TailFollows
  <2>6. Reported'
    BY <1>13, <1>t, <1>w, <1>o DEF TakeTail, Reported, Take, Wanted, Next1
  <2> QED BY <2>1, <2>2, <2>3, <2>4, <2>5, <2>6
<1>14. CASE RunOut
  <2>1. Opening'
    BY <1>14, <1>t, <1>w, <1>o DEF RunOut, Opening, Return, Wanted, Left, OneIf
  <2>2. Unread'
    BY <1>14, <1>t, <1>w, <1>o DEF RunOut, Unread, Return, Wanted, Left
  <2>3. OpcodeRead'
    BY <1>14, <1>t, <1>w, <1>o DEF RunOut, OpcodeRead, Opening, Unread, Return, Wanted, Left
  <2>4. ModrmRead'
    BY <1>14, <1>t, <1>w, <1>o DEF RunOut, ModrmRead, Unread, OpcodeRead, Return, Wanted, Left
  <2>5. Ledger'
    BY <1>14, <1>t, <1>w, <1>o DEF RunOut, Ledger, Opening, Unread, OpcodeRead, ModrmRead, Return, Wanted, Left,
       FieldBytes, OneIf, TailFollows
  <2>6. Reported'
    BY <1>14, <1>t, <1>w, <1>o DEF RunOut, Reported, Return, Wanted, Left
  <2> QED BY <2>1, <2>2, <2>3, <2>4, <2>5, <2>6
<1>15. CASE DispatchVzeroall
  <2>1. Opening'
    BY <1>15, <1>t, <1>w, <1>o DEF DispatchVzeroall, Opening, VexAhead, OneIf
  <2>2. Unread'
    BY <1>15, <1>t, <1>w, <1>o DEF DispatchVzeroall, Unread, VexAhead
  <2>3. OpcodeRead'
    BY <1>15, <1>t, <1>w, <1>o DEF DispatchVzeroall, OpcodeRead, Opening, Unread, VexAhead, OpcodeBytes
  <2>4. ModrmRead'
    BY <1>15, <1>t, <1>w, <1>o DEF DispatchVzeroall, ModrmRead, Unread, OpcodeRead, VexAhead
  <2>5. Ledger'
    BY <1>15, <1>t, <1>w, <1>o DEF DispatchVzeroall, Ledger, Opening, Unread, OpcodeRead, ModrmRead, VexAhead,
       FieldBytes, OneIf, TailFollows
  <2>6. Reported'
    BY <1>15, <1>t, <1>w, <1>o DEF DispatchVzeroall, Reported, VexAhead
  <2> QED BY <2>1, <2>2, <2>3, <2>4, <2>5, <2>6
<1>16. CASE DispatchEvex
  <2>1. Opening'
    BY <1>16, <1>t, <1>w, <1>o DEF DispatchEvex, Opening, Return, OneIf
  <2>2. Unread'
    BY <1>16, <1>t, <1>w, <1>o DEF DispatchEvex, Unread, Return
  <2>3. OpcodeRead'
    BY <1>16, <1>t, <1>w, <1>o DEF DispatchEvex, OpcodeRead, Opening, Unread, Return
  <2>4. ModrmRead'
    BY <1>16, <1>t, <1>w, <1>o DEF DispatchEvex, ModrmRead, Unread, OpcodeRead, Return
  <2>5. Ledger'
    BY <1>16, <1>t, <1>w, <1>o DEF DispatchEvex, Ledger, Opening, Unread, OpcodeRead, ModrmRead, Return, FieldBytes,
       OneIf, TailFollows
  <2>6. Reported'
    BY <1>16, <1>t, <1>w, <1>o DEF DispatchEvex, Reported, Return
  <2> QED BY <2>1, <2>2, <2>3, <2>4, <2>5, <2>6
<1>17. CASE DispatchLegacy
  <2>1. Opening'
    BY <1>17, <1>t, <1>w, <1>o DEF DispatchLegacy, Opening, OneIf
  <2>2. Unread'
    BY <1>17, <1>t, <1>w, <1>o DEF DispatchLegacy, Unread
  <2>3. OpcodeRead'
    BY <1>17, <1>t, <1>w, <1>o DEF DispatchLegacy, OpcodeRead, Opening, Unread
  <2>4. ModrmRead'
    BY <1>17, <1>t, <1>w, <1>o DEF DispatchLegacy, ModrmRead, Unread, OpcodeRead
  <2>5. Ledger'
    BY <1>17, <1>t, <1>w, <1>o, AmdHasModrm DEF DispatchLegacy, Ledger, Opening, Unread, OpcodeRead, ModrmRead,
       FieldBytes, OneIf, TailFollows, HasModrm
  <2>6. Reported'
    BY <1>17, <1>t, <1>w, <1>o DEF DispatchLegacy, Reported
  <2> QED BY <2>1, <2>2, <2>3, <2>4, <2>5, <2>6
<1>18. CASE RejectSynth
  <2>1. Opening'
    BY <1>18, <1>t, <1>w, <1>o DEF RejectSynth, Opening, Fail, Return, OneIf
  <2>2. Unread'
    BY <1>18, <1>t, <1>w, <1>o DEF RejectSynth, Unread, Fail, Return
  <2>3. OpcodeRead'
    BY <1>18, <1>t, <1>w, <1>o DEF RejectSynth, OpcodeRead, Opening, Unread, Fail, Return
  <2>4. ModrmRead'
    BY <1>18, <1>t, <1>w, <1>o DEF RejectSynth, ModrmRead, Unread, OpcodeRead, Fail, Return
  <2>5. Ledger'
    BY <1>18, <1>t, <1>w, <1>o DEF RejectSynth, Ledger, Opening, Unread, OpcodeRead, ModrmRead, Fail, Return,
       FieldBytes, OneIf, TailFollows
  <2>6. Reported'
    BY <1>18, <1>t, <1>w, <1>o DEF RejectSynth, Reported, Fail, Return
  <2> QED BY <2>1, <2>2, <2>3, <2>4, <2>5, <2>6
<1>19. CASE AcceptSynth
  <2>1. Opening'
    BY <1>19, <1>t, <1>w, <1>o DEF AcceptSynth, Opening, OneIf
  <2>2. Unread'
    BY <1>19, <1>t, <1>w, <1>o DEF AcceptSynth, Unread
  <2>3. OpcodeRead'
    BY <1>19, <1>t, <1>w, <1>o DEF AcceptSynth, OpcodeRead, Opening, Unread
  <2>4. ModrmRead'
    BY <1>19, <1>t, <1>w, <1>o DEF AcceptSynth, ModrmRead, Unread, OpcodeRead
  <2>5. Ledger'
    BY <1>19, <1>t, <1>w, <1>o DEF AcceptSynth, Ledger, Opening, Unread, OpcodeRead, ModrmRead, FieldBytes, OneIf,
       TailFollows
  <2>6. Reported'
    BY <1>19, <1>t, <1>w, <1>o DEF AcceptSynth, Reported
  <2> QED BY <2>1, <2>2, <2>3, <2>4, <2>5, <2>6
<1>20. CASE ResolveOk
  <2>1. Opening'
    BY <1>20, <1>t, <1>w, <1>o DEF ResolveOk, Opening, OneIf
  <2>2. Unread'
    BY <1>20, <1>t, <1>w, <1>o DEF ResolveOk, Unread
  <2>3. OpcodeRead'
    BY <1>20, <1>t, <1>w, <1>o DEF ResolveOk, OpcodeRead, Opening, Unread
  <2>4. ModrmRead'
    BY <1>20, <1>t, <1>w, <1>o DEF ResolveOk, ModrmRead, Unread, OpcodeRead
  <2>5. Ledger'
    BY <1>20, <1>t, <1>w, <1>o DEF ResolveOk, Ledger, Opening, Unread, OpcodeRead, ModrmRead, FieldBytes, OneIf,
       TailFollows
  <2>6. Reported'
    BY <1>20, <1>t, <1>w, <1>o DEF ResolveOk, Reported
  <2> QED BY <2>1, <2>2, <2>3, <2>4, <2>5, <2>6
<1>21. CASE ResolveFails
  <2>1. Opening'
    BY <1>21, <1>t, <1>w, <1>o DEF ResolveFails, Opening, Fail, Return, OneIf
  <2>2. Unread'
    BY <1>21, <1>t, <1>w, <1>o DEF ResolveFails, Unread, Fail, Return
  <2>3. OpcodeRead'
    BY <1>21, <1>t, <1>w, <1>o DEF ResolveFails, OpcodeRead, Opening, Unread, Fail, Return
  <2>4. ModrmRead'
    BY <1>21, <1>t, <1>w, <1>o DEF ResolveFails, ModrmRead, Unread, OpcodeRead, Fail, Return
  <2>5. Ledger'
    BY <1>21, <1>t, <1>w, <1>o DEF ResolveFails, Ledger, Opening, Unread, OpcodeRead, ModrmRead, Fail, Return,
       FieldBytes, OneIf, TailFollows
  <2>6. Reported'
    BY <1>21, <1>t, <1>w, <1>o DEF ResolveFails, Reported, Fail, Return
  <2> QED BY <2>1, <2>2, <2>3, <2>4, <2>5, <2>6
<1>22. CASE Promote
  <2>0. /\ raw'.count = raw.count /\ raw'.hasRex = raw.hasRex /\ raw'.opcodeOffset = raw.opcodeOffset /\ raw'.hasModrm = raw.hasModrm
        /\ raw'.hasSib = raw.hasSib /\ raw'.dispSize = raw.dispSize /\ raw'.hasMoffs = raw.hasMoffs /\ raw'.immSize = raw.immSize
    BY <1>22, <1>t DEF Promote, Raw
  <2>1. Opening'
    BY <1>22, <1>t, <1>w, <1>o DEF Promote, Opening, OneIf
  <2>2. Unread'
    BY <1>22, <1>t, <1>w, <1>o DEF Promote, Unread
  <2>3. OpcodeRead'
    BY <1>22, <1>t, <1>w, <1>o DEF Promote, OpcodeRead, Opening, Unread
  <2>4. ModrmRead'
    BY <1>22, <1>t, <1>w, <1>o DEF Promote, ModrmRead, Unread, OpcodeRead
  <2>5. Ledger'
    BY <1>22, <1>t, <1>w, <1>o, <2>0 DEF Promote, Ledger, Opening, Unread, OpcodeRead, ModrmRead, FieldBytes, OneIf,
       TailFollows
  <2>6. Reported'
    BY <1>22, <1>t, <1>w, <1>o DEF Promote, Reported
  <2> QED BY <2>1, <2>2, <2>3, <2>4, <2>5, <2>6
<1>23. CASE TooLong
  <2>1. Opening'
    BY <1>23, <1>t, <1>w, <1>o DEF TooLong, Opening, Fail, Return, OneIf
  <2>2. Unread'
    BY <1>23, <1>t, <1>w, <1>o DEF TooLong, Unread, Fail, Return
  <2>3. OpcodeRead'
    BY <1>23, <1>t, <1>w, <1>o DEF TooLong, OpcodeRead, Opening, Unread, Fail, Return
  <2>4. ModrmRead'
    BY <1>23, <1>t, <1>w, <1>o DEF TooLong, ModrmRead, Unread, OpcodeRead, Fail, Return
  <2>5. Ledger'
    BY <1>23, <1>t, <1>w, <1>o DEF TooLong, Ledger, Opening, Unread, OpcodeRead, ModrmRead, Fail, Return, FieldBytes,
       OneIf, TailFollows
  <2>6. Reported'
    BY <1>23, <1>t, <1>w, <1>o DEF TooLong, Reported, Fail, Return
  <2> QED BY <2>1, <2>2, <2>3, <2>4, <2>5, <2>6
<1>24. CASE Finish
  <2>1. Opening'
    BY <1>24, <1>t, <1>w, <1>o DEF Finish, Opening, Return, OneIf
  <2>2. Unread'
    BY <1>24, <1>t, <1>w, <1>o DEF Finish, Unread, Return
  <2>3. OpcodeRead'
    BY <1>24, <1>t, <1>w, <1>o DEF Finish, OpcodeRead, Opening, Unread, Return
  <2>4. ModrmRead'
    BY <1>24, <1>t, <1>w, <1>o DEF Finish, ModrmRead, Unread, OpcodeRead, Return
  <2>5. Ledger'
    BY <1>24, <1>t, <1>w, <1>o DEF Finish, Ledger, Opening, Unread, OpcodeRead, ModrmRead, Return, FieldBytes, OneIf,
       TailFollows
  <2>6. Reported'
    BY <1>24, <1>t, <1>w, <1>o DEF Finish, Reported, Return
  <2> QED BY <2>1, <2>2, <2>3, <2>4, <2>5, <2>6
<1>25. CASE DispatchVex
  <2> DEFINE d == DecodeVex(buf, pos - 1)
  <2>1. /\ pc = "dispatch" /\ pos' = d.pos /\ UNCHANGED <<buf, raw, map, opcode, easz, k>>
        /\ \/ d.status = "OK" /\ form' = "VEX" /\ pc' = "synth" /\ UNCHANGED <<status, insn>>
           \/ d.status # "OK" /\ pc' = "done" /\ status' = d.status /\ form' = form
    BY <1>25 DEF DispatchVex, Return
  <2>2. /\ pos = raw.opcodeOffset + 1 /\ map = 0 /\ form = "LEGACY" /\ buf[pos] = opcode
        /\ opcode \in {x(C,4), x(C,5)}
    BY <1>25, <1>t DEF DispatchVex, VexAhead, OpcodeRead, OpcodeBytes, Unread
  <2>3. d.status = "OK" => d.pos = (pos - 1) + VexBytes(buf, pos - 1)
    <3>1. pos - 1 \in Nat /\ pos - 1 < Len(buf) /\ buf[(pos - 1) + 1] \in {x(C,4), x(C,5)}
      BY <1>t, <2>2
    <3> QED BY <1>t, <3>1, DecodeVexType
  <2> HIDE DEF d
  <2>4. CASE d.status = "OK"
    <3>1. OpcodeBytes' = VexBytes(buf, pos - 1)
      BY <1>t, <2>1, <2>2, <2>4 DEF OpcodeBytes, VexBytes
    <3>2. pos' = raw'.opcodeOffset + OpcodeBytes'
      <4> DEFINE v == VexBytes(buf, pos - 1)
      <4>1. v \in Nat /\ OpcodeBytes' = v
        BY <3>1 DEF VexBytes
      <4>2. raw'.opcodeOffset = raw.opcodeOffset /\ pos' = (pos - 1) + v
        BY <2>1, <2>3, <2>4
      <4>3. raw.opcodeOffset \in Nat /\ pos = raw.opcodeOffset + 1
        BY <1>t, <2>2
      <4> HIDE DEF v
      <4> QED BY <4>1, <4>2, <4>3
    <3>3. pc' = "synth" /\ form' = "VEX" /\ raw' = raw /\ ~raw.hasModrm
      BY <2>1, <2>4 DEF Unread
    <3>4. Opening' /\ Unread'
      BY <2>1, <3>3 DEF Opening, Unread
    <3>5. OpcodeRead' /\ ModrmRead'
      BY <2>1, <3>2, <3>3 DEF OpcodeRead, ModrmRead
    <3>6. Ledger' /\ Reported'
      BY <3>3 DEF Ledger, Reported
    <3> QED BY <3>4, <3>5, <3>6
  <2>5. CASE d.status # "OK"
    <3> QED BY <1>t, <1>o, <2>1, <2>5
            DEF Opening, Unread, OpcodeRead, ModrmRead, Ledger, Reported
  <2> QED BY <2>4, <2>5
<1>26. CASE TakeOperand
  <2>1. /\ pc = "operands" /\ pc' = "operands" /\ k \in 1..Len(entry.shapes) /\ k' = k + 1
        /\ pos' = pos + OperandBytes(entry.shapes[k], eosz, easz)
        /\ UNCHANGED <<buf, form, map, opcode, easz, entry, status, insn>>
    BY <1>26 DEF TakeOperand, Take, Wanted, IndInv, TypeOK
  <2>2. /\ raw'.count = raw.count /\ raw'.hasRex = raw.hasRex /\ raw'.opcodeOffset = raw.opcodeOffset /\ raw'.hasModrm = raw.hasModrm
        /\ raw'.hasSib = raw.hasSib /\ raw'.dispSize = raw.dispSize
    BY <1>26, <1>t DEF TakeOperand, Raw
  <2>3. raw'.modrmOffset = raw.modrmOffset /\ raw'.modrm = raw.modrm /\ raw'.sib = raw.sib
    BY <1>26, <1>t DEF TakeOperand, Raw
  <2>4. Opening' /\ Unread' /\ OpcodeRead' /\ ModrmRead' /\ Reported'
    BY <1>o, <2>1, <2>2, <2>3 DEF Opening, Unread, OpcodeRead, ModrmRead, Reported
  <2>5. pos = FieldBytes + OneIf(TailFollows) /\ TailFollows' = TailFollows
    BY <2>1 DEF Ledger, TailFollows
  <2>6. Ledger'
    <3> DEFINE Before == raw.count + OneIf(raw.hasRex) + OpcodeBytes + OneIf(raw.hasModrm) + OneIf(raw.hasSib) + raw.dispSize
               Offset == IF raw.hasMoffs THEN easz \div 8 ELSE 0
    <3>1. easz \div 8 \in Nat
      BY DEF IndInv, TypeOK, Width
    <3>2. Before \in Nat
      <4>1. OneIf(raw.hasRex) \in Nat /\ OneIf(raw.hasModrm) \in Nat /\ OneIf(raw.hasSib) \in Nat
        BY DEF OneIf
      <4>2. raw.count \in Nat /\ raw.dispSize \in Nat /\ OpcodeBytes \in Nat
        BY <1>t, <1>w
      <4> QED BY <4>1, <4>2
    <3>3. Before' = Before
      BY <1>o, <2>1, <2>2
    <3>4. FieldBytes = Before + Offset + raw.immSize /\ FieldBytes' = Before' + Offset' + raw'.immSize
      BY DEF FieldBytes
    <3>5. raw.immSize \in Nat /\ Offset \in Nat /\ pos \in Nat /\ Wanted \in Nat
      BY <1>t, <1>w, <3>1
    <3>6. OneIf(TailFollows) \in Nat /\ OneIf(TailFollows)' = OneIf(TailFollows)
      BY <2>5 DEF OneIf
    <3>7. CASE entry.shapes[k] = "MOFFS"
      <4>1. ~raw.hasMoffs
        BY <2>1, <3>7, OneOffset DEF Ledger, IndInv, TypeOK, Entry
      <4>2. raw'.hasMoffs /\ raw'.immSize = raw.immSize /\ pos' = pos + (easz \div 8)
        BY <1>26, <1>t, <2>1, <3>7 DEF TakeOperand, Raw, OperandBytes
      <4>3. Offset = 0 /\ Offset' = easz \div 8
        BY <2>1, <4>1, <4>2
      <4> HIDE DEF Before, Offset
      <4>4. pos' = FieldBytes' + OneIf(TailFollows)'
        BY <2>5, <3>1, <3>2, <3>3, <3>4, <3>5, <3>6, <4>2, <4>3
      <4>5. k \in 1..Len(entry'.shapes) /\ k < k' /\ entry'.shapes[k] = "MOFFS"
        BY <2>1, <3>7
      <4> QED BY <2>1, <4>4, <4>5 DEF Ledger
    <3>8. CASE entry.shapes[k] # "MOFFS"
      <4>1. raw'.hasMoffs = raw.hasMoffs /\ raw'.immSize = raw.immSize + Wanted /\ pos' = pos + Wanted
        BY <1>26, <1>t, <3>8 DEF TakeOperand, Take, Raw
      <4>2. Offset' = Offset
        BY <2>1, <4>1
      <4> HIDE DEF Before, Offset
      <4>3. pos' = FieldBytes' + OneIf(TailFollows)'
        BY <2>5, <3>2, <3>3, <3>4, <3>5, <3>6, <4>1, <4>2
      <4>4. raw'.hasMoffs => \E i \in 1..Len(entry'.shapes) : i < k' /\ entry'.shapes[i] = "MOFFS"
        BY <2>1, <4>1 DEF Ledger
      <4> QED BY <2>1, <4>3, <4>4 DEF Ledger
    <3> QED BY <3>7, <3>8
  <2> QED BY <2>4, <2>6
<1>27. CASE UNCHANGED vars
  BY <1>27 DEF vars, Opening, Unread, OpcodeRead, ModrmRead, Ledger, Reported, FieldBytes, OpcodeBytes, TailFollows
<1> QED BY <1>1, <1>2, <1>3, <1>4, <1>5, <1>6, <1>7, <1>8, <1>9, <1>10, <1>11, <1>12, <1>13, <1>14, <1>15, <1>16,
   <1>17, <1>18, <1>19, <1>20, <1>21, <1>22, <1>23, <1>24, <1>25, <1>26, <1>27 DEF Next, TakeField, Dispatch

LEMMA LedgerKept == Spec => []LengthInv
<1>1. Init => LengthInv
  BY InitLength
<1>2. IndInv /\ IndInv' /\ LengthInv /\ [Next]_vars => LengthInv'
  BY StepLength
<1> QED BY <1>1, <1>2, Inductive, PTL DEF Spec

---------------------------------------------------------------------------
\* Whatever the buffer holds, the length of an accepted instruction is the sum
\* of the fields raw reports: the cursor, which prefix.c, decoder.c, mem.c and
\* vex.c each move, counts no byte twice and skips none.
THEOREM BytesAccounted == Spec => []ByteAccounting
<1>1. IndInv /\ LengthInv => ByteAccounting
  <2> SUFFICES ASSUME IndInv, LengthInv, Accepted PROVE ByteAccounting
    BY DEF ByteAccounting
  <2> DEFINE Before == raw.count + OneIf(raw.hasRex) + OpcodeBytes + OneIf(raw.hasModrm) + OneIf(raw.hasSib) + raw.dispSize
             Offset == IF raw.hasMoffs THEN easz \div 8 ELSE 0
  <2>1. insn.length = pos /\ pos = FieldBytes + OneIf(TailFollows)
    BY DEF LengthInv, Ledger, Reported
  <2>2. FieldBytes = Before + Offset + raw.immSize
    BY DEF FieldBytes
  <2>3. Before \in Nat
    <3>1. OneIf(raw.hasRex) \in Nat /\ OneIf(raw.hasModrm) \in Nat /\ OneIf(raw.hasSib) \in Nat
      BY DEF OneIf
    <3>2. raw.count \in Nat /\ raw.dispSize \in Nat /\ OpcodeBytes \in Nat
      BY OpcodeSizes DEF IndInv, TypeOK, CursorInv, Raw
    <3> QED BY <3>1, <3>2
  <2>4. Offset \in Nat /\ raw.immSize \in Nat /\ OneIf(TailFollows) \in Nat
    <3>1. easz \div 8 \in Nat
      BY DEF IndInv, TypeOK, Width
    <3>2. raw.immSize \in Nat /\ OneIf(TailFollows) \in Nat
      BY DEF IndInv, TypeOK, CursorInv, Raw, OneIf
    <3> QED BY <3>1, <3>2
  <2> SUFFICES insn.length = Before + OneIf(TailFollows) + Offset + raw.immSize
    BY DEF ByteAccounting
  <2> HIDE DEF Before, Offset
  <2> QED BY <2>1, <2>2, <2>3, <2>4
<1> QED BY <1>1, Inductive, LedgerKept, PTL

\* The offsets x86dec_insn_raw_t hands out point at the bytes they name, for
\* every buffer: the opcode is behind the prefixes and REX, the ModRM byte
\* behind the opcode and the SIB byte behind it.
THEOREM OffsetsRecorded == Spec => []OffsetsPointRight
<1>1. LengthInv => OffsetsPointRight
  BY DEF LengthInv, Opening, OpcodeRead, ModrmRead, Reported, OffsetsPointRight, Accepted, OpeningPcs
<1> QED BY <1>1, LedgerKept, PTL

---------------------------------------------------------------------------
\* The entry

\* From here on the entry is the instruction's.
Settled == pc \in {"promote", "operands"} \/ Accepted
TailPcs == {"modrm", "sib", "disp", "tail", "resolve"}

\* The operand size the prefixes ask for in 64-bit mode.
SizeInForce == IF raw.hasRex /\ BitSet(raw.rex, 8) THEN 64 ELSE IF raw.osz THEN 16 ELSE 32

\* What the mode of the decoder allows.
Modes ==
  /\ ~Is64 => ~raw.hasRex /\ form = "LEGACY" /\ easz # 64
  /\ ~Is64 /\ eosz = 64 => pc \in {"operands", "done"} /\ entry.mn = "MOVQ"
  /\ Is64 /\ pc \in {"call", "prefix"} => eosz = 32
  /\ Is64 /\ pc \notin {"call", "prefix", "operands", "done"} => eosz = SizeInForce
  /\ Is64 /\ (pc = "operands" \/ Accepted) /\ entry.mn \in StackMnemonic =>
       eosz = IF SizeInForce = 32 THEN 64 ELSE SizeInForce

\* A legacy instruction has read a ModRM byte exactly when its opcode asks for
\* one; without one there is no displacement.
TailRead ==
  /\ ~raw.hasModrm => raw.dispSize = 0
  /\ pc \in TailPcs \ {"resolve"} => (form = "LEGACY" => HasModrm)
  /\ pc = "resolve" \/ Settled => (form = "LEGACY" => (raw.hasModrm <=> HasModrm))

\* A VEX instruction has neither LOCK nor REX, and its entry has a use for the
\* fields of the prefix.  The byte of VZEROALL is complete without a tail.
VexRead ==
  /\ pc \in TailPcs => form \in {"LEGACY", "VEX"}
  /\ form # "LEGACY" /\ (pc \in TailPcs \/ Settled) => ~raw.lock /\ ~raw.hasRex
  /\ form = "VEX" /\ pc \in TailPcs \cup {"synth"} => VexEntryFits(entry, vex)
  /\ form = "VEX" /\ pc = "resolve" => raw.hasModrm
  /\ form = "VEX" /\ Settled => /\ VexRowFits(entry, vex)
                                /\ IF raw.hasModrm THEN VexModFits(entry.shapes, raw.modrm) ELSE entry.shapes = <<>>
  /\ form = "VZEROALL" /\ (pc = "synth" \/ Settled) => entry = [mn |-> "INSN", shapes |-> <<>>]

\* The entry of a legacy instruction goes with the ModRM byte, or without one,
\* and asks for no more bytes behind it than its map has.
LegacyFit ==
  form = "LEGACY" /\ Settled =>
    /\ IF raw.hasModrm THEN Fits(entry.shapes, IF map = 0 THEN 4 ELSE 1, raw.modrm)
       ELSE Bare(entry.mn, entry.shapes)
    /\ map = 0 => /\ opcode \notin Prefixes \cup {x(0,F)}
                  /\ opcode \in Line(4) => entry.shapes = <<"REG_OPCODE">> /\ ~raw.hasModrm

\* The bytes of the operands before the k-th are read: their sum without the
\* memory offset, and with it.
ImmAt(j)  == IF j < k /\ j <= Len(entry.shapes) THEN ShapeImmBytes(entry.shapes[j], eosz) ELSE 0
SlotAt(j) == IF j < k /\ j <= Len(entry.shapes) THEN OperandBytes(entry.shapes[j], eosz, easz) ELSE 0
OffsetBytes == IF raw.hasMoffs THEN easz \div 8 ELSE 0
Collected ==
  pc = "operands" \/ Accepted =>
    /\ raw.immSize = ImmAt(1) + ImmAt(2) + ImmAt(3) + ImmAt(4)
    /\ OffsetBytes + raw.immSize = SlotAt(1) + SlotAt(2) + SlotAt(3) + SlotAt(4)
    /\ raw.hasMoffs <=> \E j \in 1..Len(entry.shapes) : j < k /\ entry.shapes[j] = "MOFFS"
    /\ k <= Len(entry.shapes) + 1
    /\ Accepted => k = Len(entry.shapes) + 1

\* The caller gets what the call worked out.
Handed ==
  Accepted =>
    /\ context.eosz = eosz /\ context.easz = easz /\ context.raw = raw /\ context.entry = entry
    /\ context.isVex = (form = "VEX") /\ context.vex = vex
    /\ insn.operandWidth = eosz /\ insn.addressWidth = easz /\ insn.mn = entry.mn
    /\ insn.operandCount = Len(entry.shapes) /\ context.length = pos /\ insn.raw = raw
    /\ insn.map = (IF form = "VEX" THEN vex.map ELSE map)

EntryInv == Modes /\ TailRead /\ VexRead /\ LegacyFit /\ Collected /\ Handed

\* The steps behind the REX prefix, and what all of them leave alone.
Later ==
  \/ TakeField \/ RunOut \/ Dispatch \/ RejectSynth \/ AcceptSynth \/ ResolveOk \/ ResolveFails
  \/ Promote \/ TakeOperand \/ TooLong \/ Finish

LEMMA LaterKeeps ==
  ASSUME IndInv, Later
  PROVE  /\ UNCHANGED <<input, easz>> /\ raw'.hasRex = raw.hasRex /\ raw'.rex = raw.rex
         /\ raw'.osz = raw.osz /\ raw'.lock = raw.lock
         /\ pc \notin {"call", "prefix", "rex", "done"} /\ pc' \notin {"call", "prefix", "rex"}
         /\ (eosz' = eosz \/ Promote)
         /\ (form' = form /\ vex' = vex) \/ DispatchVex \/ DispatchVzeroall
         /\ entry' = entry \/ DispatchVex \/ DispatchVzeroall \/ ResolveOk
<1>t. pos \in Nat /\ Len(buf) \in Nat /\ pos <= Len(buf) /\ raw \in Raw
  BY DEF IndInv, TypeOK, CursorInv
<1> USE DEF input, work, Raw
<1>1. CASE TakeField
  BY <1>1, <1>t DEF TakeField, TakeOpcode, TakeEscape, TakeOpcode3, TakeModrm, TakeSib, TakeDisp, TakeTail
<1>2. CASE RunOut
  <2>1. pc \in {"opcode", "escape", "opcode3", "modrm", "sib", "disp", "tail", "operands"}
    BY <1>2, <1>t DEF RunOut, Wanted, Left
  <2> QED BY <1>2, <2>1 DEF RunOut, Return
<1>3. CASE Dispatch
  BY <1>3, <1>t DEF Dispatch, DispatchVzeroall, DispatchVex, DispatchEvex, DispatchLegacy, Return
<1>4. CASE RejectSynth \/ AcceptSynth \/ ResolveOk \/ ResolveFails
  BY <1>4, <1>t DEF RejectSynth, AcceptSynth, ResolveOk, ResolveFails, Fail, Return
<1>5. CASE Promote \/ TakeOperand
  BY <1>5, <1>t DEF Promote, TakeOperand
<1>6. CASE TooLong \/ Finish
  BY <1>6, <1>t DEF TooLong, Finish, Fail, Return
<1> QED BY <1>1, <1>2, <1>3, <1>4, <1>5, <1>6 DEF Later

\* Only the last step accepts, and only three steps lead to it.
LEMMA SettledBy ==
  ASSUME IndInv, Later
  PROVE  /\ Accepted' => Finish
         /\ pc' = "operands" => Promote \/ TakeOperand
         /\ pc = "operands" => entry' = entry /\ pc' \in {"operands", "done"}
         /\ pc' = "promote" => ResolveOk \/ (AcceptSynth /\ entry.shapes = <<>>)
<1>t. pos \in Nat /\ Len(buf) \in Nat /\ pos <= Len(buf)
  BY DEF IndInv, TypeOK, CursorInv
<1> USE DEF input, work, Accepted
<1>1. CASE TakeField
  BY <1>1, <1>t DEF TakeField, TakeOpcode, TakeEscape, TakeOpcode3, TakeModrm, TakeSib, TakeDisp, TakeTail
<1>2. CASE RunOut
  BY <1>2, <1>t DEF RunOut, Return
<1>3. CASE Dispatch
  BY <1>3, <1>t DEF Dispatch, DispatchVzeroall, DispatchVex, DispatchEvex, DispatchLegacy, Return
<1>4. CASE RejectSynth \/ AcceptSynth \/ ResolveOk \/ ResolveFails
  BY <1>4, <1>t DEF RejectSynth, AcceptSynth, ResolveOk, ResolveFails, Fail, Return
<1>5. CASE Promote \/ TakeOperand
  BY <1>5, <1>t DEF Promote, TakeOperand
<1>6. CASE TooLong \/ Finish
  BY <1>6, <1>t DEF TooLong, Finish, Fail, Return
<1> QED BY <1>1, <1>2, <1>3, <1>4, <1>5, <1>6 DEF Later

LEMMA StepKinds ==
  ASSUME [Next]_vars
  PROVE  RejectArgs \/ Begin \/ TakePrefix \/ EndPrefixes \/ TakeRex \/ NoRex \/ Later \/ UNCHANGED vars
BY DEF Next, Later

---------------------------------------------------------------------------
\* Modes and sizes

LEMMA InitModes == ASSUME Init, IndInv PROVE Modes
BY DEF Init, IndInv, TypeOK, Decoder, InitAccepts, Modes, Is64, DefaultEosz, DefaultEasz, ZeroRaw, Accepted

LEMMA StepModes == ASSUME IndInv, LengthInv, Modes, [Next]_vars PROVE Modes'
<1>t. raw \in Raw /\ pc \in PcSet
  BY DEF IndInv, TypeOK
<1> USE DEF Modes, Accepted, Is64, input, work
<1>1. CASE RejectArgs \/ Begin
  BY <1>1 DEF RejectArgs, Begin, Return, SizeInForce
<1>2. CASE TakePrefix
  BY <1>2, <1>t DEF TakePrefix, AddPrefix, Raw
<1>3. CASE EndPrefixes
  <2>1. ~raw.hasRex
    BY <1>3 DEF EndPrefixes, LengthInv, Opening, OpeningPcs
  <2> QED BY <1>3, <2>1 DEF EndPrefixes, Toggle, SizeInForce
<1>4. CASE TakeRex
  <2>1. raw'.hasRex /\ raw'.rex = Next1 /\ raw'.osz = raw.osz
    BY <1>4, <1>t DEF TakeRex, Raw
  <2>2. ~raw.hasRex
    BY <1>4 DEF TakeRex, LengthInv, Opening, OpeningPcs
  <2> QED BY <1>4, <2>1, <2>2 DEF TakeRex, RexFollows, SizeInForce
<1>5. CASE NoRex
  BY <1>5, <1>t DEF NoRex, SizeInForce, Raw
<1>6. CASE Later
  <2>1. SizeInForce' = SizeInForce
    BY <1>6, LaterKeeps DEF SizeInForce
  <2>2. CASE Promote
    BY <1>6, <2>1, <2>2, LaterKeeps, MnemonicNames DEF Promote, PromotedEosz, SizeInForce, StackMnemonic
  <2>3. CASE ~Promote
    <3>1. eosz' = eosz /\ easz' = easz /\ decoder' = decoder /\ raw'.hasRex = raw.hasRex
      BY <1>6, <2>3, LaterKeeps
    <3>2. ~Is64 => form' = form
      BY <1>6, LaterKeeps DEF DispatchVex, DispatchVzeroall, VexAhead
    <3>3. pc \in {"operands", "done"} => entry' = entry /\ pc = "operands" /\ pc' \in {"operands", "done"}
      BY <1>6, LaterKeeps, SettledBy
    <3>4. (pc' = "operands" \/ Accepted') => pc = "operands"
      BY <1>6, <2>3, SettledBy DEF TakeOperand, Finish
    <3> QED BY <1>6, <2>1, <3>1, <3>2, <3>3, <3>4, LaterKeeps
  <2> QED BY <2>2, <2>3
<1>7. CASE UNCHANGED vars
  BY <1>7 DEF vars, SizeInForce
<1> QED BY <1>1, <1>2, <1>3, <1>4, <1>5, <1>6, <1>7, StepKinds

---------------------------------------------------------------------------
\* The ModRM tail

LEMMA InitTail == ASSUME Init PROVE TailRead
BY DEF Init, TailRead, ZeroRaw, TailPcs, Settled, Accepted

LEMMA StepTail == ASSUME IndInv, LengthInv, TailRead, [Next]_vars PROVE TailRead'
<1>t. raw \in Raw /\ pc \in PcSet
  BY DEF IndInv, TypeOK
<1>h. UNCHANGED <<map, opcode>> => (HasModrm' <=> HasModrm)
  BY DEF HasModrm
<1>s. /\ pc = "synth" => form # "LEGACY" /\ ~raw.hasModrm
      /\ pc = "dispatch" => form = "LEGACY" /\ ~raw.hasModrm
      /\ pc \in {"sib", "disp", "tail"} => raw.hasModrm
  BY DEF LengthInv, Unread, ModrmRead, OpcodePcs, UnreadModrm, OpeningPcs
<1> USE DEF TailRead, TailPcs, Settled, Accepted, input, work
<1>1. CASE RejectArgs \/ Begin \/ EndPrefixes
  BY <1>1, <1>t DEF RejectArgs, Begin, EndPrefixes, Return
<1>2. CASE TakePrefix \/ TakeRex \/ NoRex
  <2>1. raw'.hasModrm = raw.hasModrm /\ raw'.dispSize = raw.dispSize
    BY <1>2, <1>t DEF TakePrefix, TakeRex, NoRex, AddPrefix, Raw
  <2>2. pc' \in {"prefix", "opcode"}
    BY <1>2 DEF TakePrefix, TakeRex, NoRex
  <2> QED BY <2>1, <2>2
<1>3. CASE TakeOpcode \/ TakeEscape \/ TakeOpcode3
  BY <1>3, <1>t DEF TakeOpcode, TakeEscape, TakeOpcode3
<1>4. CASE TakeModrm \/ TakeSib
  BY <1>4, <1>t, <1>h, <1>s DEF TakeModrm, TakeSib, Raw
<1>5. CASE TakeDisp \/ TakeTail
  BY <1>5, <1>t, <1>h, <1>s DEF TakeDisp, TakeTail
<1>6. CASE RunOut \/ RejectSynth \/ ResolveFails \/ TooLong
  BY <1>6 DEF RunOut, RejectSynth, ResolveFails, TooLong, Fail, Return
<1>7. CASE DispatchVzeroall \/ DispatchVex \/ DispatchEvex
  BY <1>7 DEF DispatchVzeroall, DispatchVex, DispatchEvex, Return
<1>8. CASE DispatchLegacy
  BY <1>8, <1>h, <1>s DEF DispatchLegacy
<1>9. CASE AcceptSynth \/ ResolveOk
  BY <1>9, <1>h, <1>s DEF AcceptSynth, ResolveOk
<1>10. CASE Promote \/ TakeOperand
  BY <1>10, <1>t, <1>h DEF Promote, TakeOperand, Raw
<1>11. CASE Finish
  BY <1>11, <1>h DEF Finish, Return
<1>12. CASE UNCHANGED vars
  BY <1>12, <1>h DEF vars
<1> QED BY <1>1, <1>2, <1>3, <1>4, <1>5, <1>6, <1>7, <1>8, <1>9, <1>10, <1>11, <1>12 DEF Next, TakeField, Dispatch

---------------------------------------------------------------------------
\* VEX instructions

LEMMA InitVex == ASSUME Init PROVE VexRead
BY DEF Init, VexRead, TailPcs, Settled, Accepted

LEMMA StepVex == ASSUME IndInv, LengthInv, VexRead, [Next]_vars PROVE VexRead'
<1>t. raw \in Raw /\ pc \in PcSet /\ entry.shapes \in OperandLists /\ entry \in Entry
  BY DEF IndInv, TypeOK, Entry
<1>s. /\ pc \in OpeningPcs \cup OpcodePcs => form = "LEGACY"
      /\ pc = "synth" => form # "LEGACY" /\ ~raw.hasModrm
      /\ pc \in {"sib", "disp", "tail"} => raw.hasModrm
  BY DEF LengthInv, Unread, ModrmRead, OpcodePcs, UnreadModrm, OpeningPcs
<1>f. form \in {"LEGACY", "VEX", "VZEROALL"}
  BY DEF IndInv, TypeOK
<1> USE DEF VexRead, TailPcs, Settled, Accepted, input, work, OpeningPcs, OpcodePcs
<1>1. CASE RejectArgs \/ Begin \/ EndPrefixes \/ TakePrefix \/ TakeRex \/ NoRex
  BY <1>1, <1>s DEF RejectArgs, Begin, EndPrefixes, TakePrefix, TakeRex, NoRex, Return
<1>2. CASE TakeOpcode \/ TakeEscape \/ TakeOpcode3 \/ DispatchLegacy
  BY <1>2, <1>s DEF TakeOpcode, TakeEscape, TakeOpcode3, DispatchLegacy
<1>3. CASE TakeModrm \/ TakeSib \/ TakeDisp \/ TakeTail
  <2>1. Later /\ pc' \in TailPcs /\ pc \in TailPcs /\ form' = form /\ vex' = vex /\ entry' = entry
    BY <1>3 DEF Later, TakeField, TakeModrm, TakeSib, TakeDisp, TakeTail
  <2>2. raw'.hasRex = raw.hasRex /\ raw'.lock = raw.lock
    BY <2>1, LaterKeeps
  <2>3. pc' = "resolve" => raw'.hasModrm
    BY <1>3, <1>s DEF TakeModrm, TakeSib, TakeDisp, TakeTail
  <2> QED BY <2>1, <2>2, <2>3
<1>4. CASE RunOut \/ RejectSynth \/ ResolveFails \/ TooLong \/ DispatchEvex
  BY <1>4 DEF RunOut, RejectSynth, ResolveFails, TooLong, DispatchEvex, Fail, Return
<1>5. CASE DispatchVzeroall
  BY <1>5 DEF DispatchVzeroall
<1>6. CASE DispatchVex
  <2> DEFINE long == buf[(pos - 1) + 1] = x(C,4)
             f == IF long THEN LongForm(buf[(pos - 1) + 2], buf[(pos - 1) + 3], buf[(pos - 1) + 4])
                  ELSE ShortForm(buf[(pos - 1) + 2], buf[(pos - 1) + 3])
             e == VexEntry(f, long)
             d == DecodeVex(buf, pos - 1)
  <2>1. d.status = "OK" => d = [status |-> e.status, mn |-> e.mn, shapes |-> e.shapes, vex |-> f,
                                pos |-> (pos - 1) + VexBytes(buf, pos - 1)]
    BY DEF DecodeVex
  <2>2. e.status = "OK" => VexEntryFits(e, f)
    BY VexEntryFound
  <2>3. \/ /\ d.status = "OK" /\ form' = "VEX" /\ vex' = d.vex /\ entry' = [mn |-> d.mn, shapes |-> d.shapes]
           /\ pc' = "synth"
        \/ d.status # "OK" /\ pc' = "done" /\ status' = d.status
    BY <1>6 DEF DispatchVex, Return
  <2> HIDE DEF d, e, f
  <2>4. CASE d.status = "OK"
    <3>1. /\ vex' = f /\ entry'.mn = e.mn /\ entry'.shapes = e.shapes
          /\ e.status = "OK" /\ form' = "VEX" /\ pc' = "synth"
      BY <2>1, <2>3, <2>4
    <3>2. VexEntryFits(entry', vex')
      <4>1. \A S : HasShape(entry', S) <=> HasShape(e, S)
        BY <3>1 DEF HasShape
      <4> QED BY <2>2, <3>1, <4>1 DEF VexEntryFits
    <3> QED BY <3>1, <3>2
  <2>5. CASE d.status # "OK"
    BY <2>3, <2>5
  <2> QED BY <2>4, <2>5
<1>7. CASE AcceptSynth
  <2>1. form = "VEX" /\ entry.shapes = <<>> => VexRowFits(entry, vex)
    BY <1>7 DEF AcceptSynth, VexEntryFits, VexRowFits
  <2> QED BY <1>7, <1>s, <1>f, <2>1 DEF AcceptSynth
<1>8. CASE ResolveOk
  <2>1. CASE form = "VEX"
    <3>1. Resolved = ResolveVex(entry, vex, raw.modrm) /\ Resolved.status = "OK"
      BY <1>8, <2>1 DEF ResolveOk, Resolved
    <3>2. VexRowFits(Resolved, vex) /\ VexModFits(Resolved.shapes, raw.modrm)
      BY <1>8, <1>t, <2>1, <3>1, VexResolved DEF ResolveOk
    <3>3. entry'.mn = Resolved.mn /\ entry'.shapes = Resolved.shapes
      BY <1>8 DEF ResolveOk
    <3>4. \A S : HasShape(entry', S) <=> HasShape(Resolved, S)
      BY <3>3 DEF HasShape
    <3>5. VexRowFits(entry', vex)
      BY <3>2, <3>3, <3>4 DEF VexRowFits
    <3> HIDE DEF Resolved
    <3> QED BY <1>8, <2>1, <3>2, <3>3, <3>5 DEF ResolveOk
  <2>2. CASE form # "VEX"
    BY <1>8, <2>2 DEF ResolveOk
  <2> QED BY <2>1, <2>2
<1>9. CASE Promote \/ TakeOperand
  BY <1>9, <1>t DEF Promote, TakeOperand, Raw
<1>10. CASE Finish
  BY <1>10 DEF Finish, Return
<1>11. CASE UNCHANGED vars
  BY <1>11 DEF vars
<1> QED BY <1>1, <1>2, <1>3, <1>4, <1>5, <1>6, <1>7, <1>8, <1>9, <1>10, <1>11 DEF Next, TakeField, Dispatch

---------------------------------------------------------------------------
\* Legacy entries

LEMMA LegacyResolved ==
  ASSUME IndInv, TailRead, pc = "resolve", form = "LEGACY", Resolved.status = "OK"
  PROVE  /\ IF raw.hasModrm THEN Fits(Resolved.shapes, IF map = 0 THEN 4 ELSE 1, raw.modrm)
            ELSE Bare(Resolved.mn, Resolved.shapes)
         /\ map = 0 => /\ opcode \notin Prefixes \cup {x(0,F)}
                       /\ opcode \in Line(4) => Resolved.shapes = <<"REG_OPCODE">> /\ ~raw.hasModrm
<1>t. map \in 0..3 /\ opcode \in Byte /\ raw.modrm \in Byte
  BY DEF IndInv, TypeOK, Raw
<1>1. raw.hasModrm <=> HasModrm
  BY DEF TailRead
<1>2. CASE map = 0
  <2>1. Resolved = ResolveEntry(0, opcode, raw.modrm, tail, Flags)
    BY <1>2 DEF Resolved
  <2>2. HasModrm <=> Map0[opcode].modrm
    BY <1>2 DEF HasModrm
  <2> DEFINE r == Resolved
             fx == Flags
  <2>3. r = ResolveEntry(0, opcode, raw.modrm, tail, fx) /\ r.status = "OK"
    BY <2>1
  <2> HIDE DEF r, fx
  <2>4. IF Map0[opcode].modrm THEN Fits(r.shapes, 4, raw.modrm) ELSE Bare(r.mn, r.shapes)
    BY <1>t, <2>3, Entry0Fits
  <2>5. /\ opcode \notin Prefixes \cup {x(0,F)}
        /\ opcode \in Line(4) => r.shapes = <<"REG_OPCODE">> /\ ~Map0[opcode].modrm
    BY <1>t, <2>3, Entry0Opcodes DEF Prefixes, SegmentPrefixes
  <2> QED BY <1>1, <1>2, <2>2, <2>4, <2>5 DEF r
<1>3. CASE map = 1
  <2>1. Resolved = ResolveEntry(1, opcode, raw.modrm, tail, Flags)
    BY <1>3 DEF Resolved
  <2>2. HasModrm <=> Map1[opcode].modrm
    BY <1>3 DEF HasModrm
  <2> DEFINE r == Resolved
             fx == Flags
  <2>3. r = ResolveEntry(1, opcode, raw.modrm, tail, fx) /\ r.status = "OK"
    BY <2>1
  <2> HIDE DEF r, fx
  <2>4. IF Map1[opcode].modrm THEN Fits(r.shapes, 1, raw.modrm) ELSE Bare(r.mn, r.shapes)
    BY <1>t, <2>3, Entry1Fits
  <2> QED BY <1>1, <1>3, <2>2, <2>4 DEF r
<1>4. CASE map >= 2
  <2>1. HasModrm
    BY <1>4 DEF HasModrm
  <2> DEFINE fx == Flags
  <2>2. Resolved = ResolveCrypto(map, opcode, raw.modrm, fx)
    BY <1>4 DEF Resolved
  <2> HIDE DEF fx
  <2>3. Fits(Resolved.shapes, 1, raw.modrm)
    BY <2>2, CryptoFits DEF OkFits
  <2> QED BY <1>1, <1>4, <2>1, <2>3
<1> QED BY <1>t, <1>2, <1>3, <1>4

LEMMA InitLegacy == ASSUME Init PROVE LegacyFit
BY DEF Init, LegacyFit, Settled, Accepted

LEMMA StepLegacy == ASSUME IndInv, LengthInv, TailRead, LegacyFit, [Next]_vars PROVE LegacyFit'
<1>t. raw \in Raw
  BY DEF IndInv, TypeOK
<1> USE DEF LegacyFit, Settled, Accepted, input, work
<1>1. CASE RejectArgs \/ Begin \/ EndPrefixes \/ TakePrefix \/ TakeRex \/ NoRex
  BY <1>1 DEF RejectArgs, Begin, EndPrefixes, TakePrefix, TakeRex, NoRex, Return
<1>2. CASE Later /\ ~Settled'
  BY <1>2
<1>3. CASE Later /\ Settled'
  <2>1. ResolveOk \/ (AcceptSynth /\ entry.shapes = <<>>) \/ Promote \/ TakeOperand \/ Finish
    BY <1>3, SettledBy
  <2>2. CASE ResolveOk
    <3>1. /\ pc = "resolve" /\ Resolved.status = "OK" /\ entry'.mn = Resolved.mn /\ entry'.shapes = Resolved.shapes
          /\ UNCHANGED <<raw, map, opcode, form>>
      BY <2>2 DEF ResolveOk
    <3> HIDE DEF Resolved
    <3>2. CASE form = "LEGACY"
      BY <3>1, <3>2, LegacyResolved
    <3>3. CASE form # "LEGACY"
      BY <3>1, <3>3
    <3> QED BY <3>2, <3>3
  <2>3. CASE AcceptSynth
    BY <2>3 DEF AcceptSynth, LengthInv, Unread
  <2>4. CASE Promote
    BY <1>t, <2>4 DEF Promote, Raw
  <2>5. CASE TakeOperand
    BY <1>t, <2>5 DEF TakeOperand, Raw
  <2>6. CASE Finish
    BY <2>6 DEF Finish
  <2> QED BY <2>1, <2>2, <2>3, <2>4, <2>5, <2>6
<1>4. CASE UNCHANGED vars
  BY <1>4 DEF vars
<1> QED BY <1>1, <1>2, <1>3, <1>4, StepKinds

---------------------------------------------------------------------------
\* Immediates and the memory offset

\* How long a settled entry can be, and how many bytes its operands take.
LEMMA EntrySmall ==
  ASSUME IndInv, VexRead, LegacyFit, Settled
  PROVE  /\ Len(entry.shapes) <= 4 /\ (form # "VEX" => Len(entry.shapes) <= 3)
         /\ Budget(entry.shapes) <= 8
         /\ raw.hasModrm => Budget(entry.shapes) <= IF form = "LEGACY" /\ map = 0 THEN 4 ELSE 1
         /\ form # "LEGACY" => Budget(entry.shapes) <= 1
         /\ entry.mn \in StackMnemonic => Budget(entry.shapes) <= 4
<1>f. form \in {"LEGACY", "VEX", "VZEROALL"} /\ raw.hasModrm \in BOOLEAN
  BY DEF IndInv, TypeOK, Raw
<1>b. Budget(<<>>) = 0
  BY DEF Budget, LimitAt
<1>n. entry.shapes \in OperandLists
  BY DEF IndInv, TypeOK, Entry
<1>g. Len(entry.shapes) \in Nat /\ Budget(entry.shapes) \in Nat
  BY <1>n DEF OperandLists, OffsetLists, Budget, LimitAt, ImmLimit
<1>1. CASE form = "VEX"
  BY <1>1, <1>g DEF VexRead, VexRowFits, VexList, Within
<1>2. CASE form = "VZEROALL"
  BY <1>2, <1>b DEF VexRead
<1>3. CASE form = "LEGACY"
  <2>1. CASE raw.hasModrm
    <3>1. Within(entry.shapes, LegacyShapes, 3, IF map = 0 THEN 4 ELSE 1)
      BY <1>3, <2>1 DEF LegacyFit, Fits
    <3> QED BY <1>3, <1>g, <3>1 DEF Within
  <2>2. CASE ~raw.hasModrm
    <3>1. Bare(entry.mn, entry.shapes)
      BY <1>3, <2>2 DEF LegacyFit
    <3> QED BY <1>3, <1>g, <2>2, <3>1 DEF Bare, Within
  <2> QED BY <1>f, <2>1, <2>2
<1> QED BY <1>f, <1>1, <1>2, <1>3

\* Filling one of four slots adds what is filled in.
LEMMA OneMore ==
  ASSUME NEW f \in [1..4 -> Nat], NEW i \in 1..4, f[i] = 0, NEW w \in Nat, NEW g, g = [f EXCEPT ![i] = w]
  PROVE  g[1] + g[2] + g[3] + g[4] = f[1] + f[2] + f[3] + f[4] + w
<1>1. f[1] \in Nat /\ f[2] \in Nat /\ f[3] \in Nat /\ f[4] \in Nat
  OBVIOUS
<1>2. CASE i = 1
  BY <1>1, <1>2
<1>3. CASE i = 2
  BY <1>1, <1>3
<1>4. CASE i = 3
  BY <1>1, <1>4
<1>5. CASE i = 4
  BY <1>1, <1>5
<1> QED BY <1>2, <1>3, <1>4, <1>5

LEMMA ShapeBytes ==
  ASSUME IndInv, NEW s
  PROVE  /\ ShapeImmBytes(s, eosz) \in Nat /\ OperandBytes(s, eosz, easz) \in Nat
         /\ OperandBytes(s, eosz, easz) <= ImmLimit(s) /\ ImmLimit(s) \in Nat
         /\ s # "MOFFS" => OperandBytes(s, eosz, easz) = ShapeImmBytes(s, eosz)
         /\ ShapeImmBytes("MOFFS", eosz) = 0
<1>1. eosz \in {16, 32, 64} /\ easz \in {16, 32, 64}
  BY DEF IndInv, TypeOK, Width
<1>2. eosz \div 8 \in {2, 4, 8} /\ easz \div 8 \in {2, 4, 8}
  BY <1>1
<1> QED BY <1>1, <1>2 DEF OperandBytes, ShapeImmBytes, ImmLimit

LEMMA InitCollected == ASSUME Init PROVE Collected
BY DEF Init, Collected, Accepted

LEMMA StepCollected ==
  ASSUME IndInv, LengthInv, VexRead, LegacyFit, Collected, [Next]_vars PROVE Collected'
<1>t. raw \in Raw /\ k \in Nat \ {0} /\ entry.shapes \in OperandLists /\ Len(entry.shapes) \in Nat
  <2>1. entry.shapes \in OperandLists
    BY DEF IndInv, TypeOK, Entry
  <2> QED BY <2>1 DEF IndInv, TypeOK, OperandLists, OffsetLists
<1> USE DEF Accepted, input, work
<1>1. CASE RejectArgs \/ Begin \/ EndPrefixes \/ TakePrefix \/ TakeRex \/ NoRex
  BY <1>1 DEF RejectArgs, Begin, EndPrefixes, TakePrefix, TakeRex, NoRex, Return, Collected
<1>2. CASE Later /\ pc' # "operands" /\ ~Accepted'
  BY <1>2 DEF Collected
<1>3. CASE Promote
  <2>1. /\ pc = "promote" /\ k' = k /\ entry' = entry /\ pc' = "operands"
        /\ raw'.immSize = raw.immSize /\ raw'.hasMoffs = raw.hasMoffs
    BY <1>3, <1>t DEF Promote, Raw
  <2>2. raw.immSize = 0 /\ ~raw.hasMoffs /\ k = 1
    BY <2>1 DEF LengthInv, Unread, UnreadImm
  <2>3. /\ (ImmAt(1))' = 0 /\ (ImmAt(2))' = 0 /\ (ImmAt(3))' = 0 /\ (ImmAt(4))' = 0
        /\ (SlotAt(1))' = 0 /\ (SlotAt(2))' = 0 /\ (SlotAt(3))' = 0 /\ (SlotAt(4))' = 0
    BY <2>1, <2>2 DEF ImmAt, SlotAt
  <2> QED BY <1>t, <2>1, <2>2, <2>3 DEF Collected, OffsetBytes
<1>4. CASE TakeOperand
  <2> DEFINE s == entry.shapes[k]
             w == OperandBytes(s, eosz, easz)
             wi == ShapeImmBytes(s, eosz)
             f == [j \in 1..4 |-> ImmAt(j)]
             g == [j \in 1..4 |-> SlotAt(j)]
             fn == [j \in 1..4 |-> (ImmAt(j))']
             gn == [j \in 1..4 |-> (SlotAt(j))']
  <2>1. /\ pc = "operands" /\ pc' = "operands" /\ k \in 1..Len(entry.shapes) /\ k' = k + 1
        /\ UNCHANGED <<entry, eosz, easz>>
    BY <1>4, <1>t DEF TakeOperand
  <2>2. k \in 1..4
    BY <1>t, <2>1, EntrySmall DEF Settled
  <2>3. Wanted = w
    BY <2>1 DEF Wanted
  <2>4. /\ \A j \in 1..4 : ImmAt(j) \in Nat /\ SlotAt(j) \in Nat
        /\ w \in Nat /\ wi \in Nat
    BY <1>t, ShapeBytes DEF ImmAt, SlotAt
  <2>5. f \in [1..4 -> Nat] /\ g \in [1..4 -> Nat] /\ f[k] = 0 /\ g[k] = 0
    BY <1>t, <2>2, <2>4 DEF ImmAt, SlotAt
  <2>6. fn = [f EXCEPT ![k] = wi] /\ gn = [g EXCEPT ![k] = w]
    <3>1. \A j \in 1..4 : /\ (ImmAt(j))' = (IF j = k THEN wi ELSE ImmAt(j))
                          /\ (SlotAt(j))' = (IF j = k THEN w ELSE SlotAt(j))
      BY <1>t, <2>1, <2>2 DEF ImmAt, SlotAt
    <3> QED BY <3>1
  <2>7. /\ fn[1] + fn[2] + fn[3] + fn[4] = f[1] + f[2] + f[3] + f[4] + wi
        /\ gn[1] + gn[2] + gn[3] + gn[4] = g[1] + g[2] + g[3] + g[4] + w
    <3> HIDE DEF f, g, fn, gn, w, wi
    <3> QED BY <2>2, <2>4, <2>5, <2>6, OneMore
  <2> DEFINE Imms == ImmAt(1) + ImmAt(2) + ImmAt(3) + ImmAt(4)
             Slots == SlotAt(1) + SlotAt(2) + SlotAt(3) + SlotAt(4)
  <2>8. Imms' = Imms + wi /\ Slots' = Slots + w /\ Imms \in Nat /\ Slots \in Nat
    BY <2>4, <2>7
  <2>9. raw.immSize = Imms /\ OffsetBytes + raw.immSize = Slots /\ OffsetBytes \in Nat /\ raw.immSize \in Nat
    <3>1. easz \div 8 \in Nat
      BY DEF IndInv, TypeOK, Width
    <3> QED BY <1>t, <2>1, <3>1 DEF Collected, OffsetBytes, Raw
  <2>10. raw.hasMoffs <=> \E j \in 1..Len(entry.shapes) : j < k /\ entry.shapes[j] = "MOFFS"
    BY <2>1 DEF Collected
  <2>11. \E j \in 1..Len(entry.shapes) : j < k' /\ entry.shapes[j] = "MOFFS" <=>
           s = "MOFFS" \/ \E i \in 1..Len(entry.shapes) : i < k /\ entry.shapes[i] = "MOFFS"
    BY <1>t, <2>1
  <2>12. k' <= Len(entry.shapes) + 1
    BY <1>t, <2>1
  <2>13. CASE s = "MOFFS"
    <3>1. ~raw.hasMoffs
      BY <1>t, <2>1, <2>10, <2>13, OneOffset
    <3>2. raw'.hasMoffs /\ raw'.immSize = raw.immSize
      BY <1>4, <1>t, <2>13 DEF TakeOperand, Raw
    <3>3. OffsetBytes = 0 /\ OffsetBytes' = w /\ wi = 0
      BY <2>1, <2>13, <3>1, <3>2, ShapeBytes DEF OffsetBytes, OperandBytes
    <3>4. raw'.immSize = Imms' /\ OffsetBytes' + raw'.immSize = Slots'
      <4> HIDE DEF Imms, Slots, w, wi
      <4> QED BY <2>4, <2>8, <2>9, <3>2, <3>3
    <3>5. raw'.hasMoffs <=> \E j \in 1..Len(entry'.shapes) : j < k' /\ entry'.shapes[j] = "MOFFS"
      BY <2>1, <2>11, <2>13, <3>2
    <3> QED BY <2>1, <2>12, <3>4, <3>5 DEF Collected
  <2>14. CASE s # "MOFFS"
    <3>1. raw'.hasMoffs = raw.hasMoffs /\ raw'.immSize = raw.immSize + w
      BY <1>4, <1>t, <2>3, <2>14 DEF TakeOperand, Raw
    <3>2. w = wi /\ OffsetBytes' = OffsetBytes
      BY <2>1, <2>14, <3>1, ShapeBytes DEF OffsetBytes
    <3>3. raw'.immSize = Imms' /\ OffsetBytes' + raw'.immSize = Slots'
      <4> HIDE DEF Imms, Slots, w, wi
      <4>1. raw.immSize \in Nat /\ OffsetBytes \in Nat /\ w \in Nat /\ Imms \in Nat /\ Slots \in Nat
        BY <2>4, <2>8, <2>9
      <4>2. raw.immSize = Imms /\ OffsetBytes + raw.immSize = Slots /\ Imms' = Imms + w /\ Slots' = Slots + w
        BY <2>8, <2>9, <3>2
      <4>3. raw'.immSize = Imms'
        BY <3>1, <4>2
      <4>4. OffsetBytes' + raw'.immSize = Slots'
        BY <3>1, <3>2, <4>1, <4>2
      <4> QED BY <4>3, <4>4
    <3>4. raw'.hasMoffs <=> \E j \in 1..Len(entry'.shapes) : j < k' /\ entry'.shapes[j] = "MOFFS"
      BY <2>1, <2>10, <2>11, <2>14, <3>1
    <3> QED BY <2>1, <2>12, <3>3, <3>4 DEF Collected
  <2> QED BY <2>13, <2>14
<1>5. CASE Finish
  <2>1. /\ pc = "operands" /\ k > Len(entry.shapes)
        /\ UNCHANGED <<raw, entry, eosz, easz, k>> /\ pc' = "done"
    BY <1>5 DEF Finish, Return
  <2>2. k = Len(entry.shapes) + 1
    BY <1>t, <2>1 DEF Collected
  <2>3. /\ UNCHANGED <<ImmAt(1), ImmAt(2), ImmAt(3), ImmAt(4)>>
        /\ UNCHANGED <<SlotAt(1), SlotAt(2), SlotAt(3), SlotAt(4)>> /\ UNCHANGED OffsetBytes
    BY <2>1 DEF ImmAt, SlotAt, OffsetBytes
  <2> QED BY <2>1, <2>2, <2>3 DEF Collected
<1>6. CASE UNCHANGED vars
  BY <1>6 DEF vars, Collected, ImmAt, SlotAt, OffsetBytes
<1> QED BY <1>1, <1>2, <1>3, <1>4, <1>5, <1>6, StepKinds, SettledBy

---------------------------------------------------------------------------
\* The results

LEMMA WholeList == ASSUME NEW s \in OperandLists PROVE SubSeq(s, 1, Len(s)) = s
<1>1. CASE s \in Seq(PlainShape)
  BY <1>1
<1>2. CASE s \in OffsetLists
  BY <1>2 DEF OffsetLists
<1> QED BY <1>1, <1>2 DEF OperandLists

LEMMA StepHanded ==
  ASSUME IndInv, VexRead, LegacyFit, Handed, [Next]_vars PROVE Handed'
<1> USE DEF Accepted, input, work
<1>t. entry \in Entry /\ entry.shapes \in OperandLists
  BY DEF IndInv, TypeOK, Entry
<1>1. CASE RejectArgs \/ Begin \/ EndPrefixes \/ TakePrefix \/ TakeRex \/ NoRex
  BY <1>1 DEF RejectArgs, Begin, EndPrefixes, TakePrefix, TakeRex, NoRex, Return, Handed
<1>2. CASE Later /\ ~Accepted'
  BY <1>2 DEF Handed
<1>3. CASE Finish
  <2>1. form # "VEX" => [entry EXCEPT !.shapes = SubSeq(@, 1, IF Len(@) < 3 THEN Len(@) ELSE 3)] = entry
    <3> SUFFICES ASSUME form # "VEX"
                 PROVE [entry EXCEPT !.shapes = SubSeq(@, 1, IF Len(@) < 3 THEN Len(@) ELSE 3)] = entry
      OBVIOUS
    <3>1. Len(entry.shapes) <= 3 /\ Len(entry.shapes) \in Nat
      BY <1>3, <1>t, EntrySmall DEF Finish, Settled, OperandLists, OffsetLists
    <3>2. (IF Len(entry.shapes) < 3 THEN Len(entry.shapes) ELSE 3) = Len(entry.shapes)
      BY <3>1
    <3>3. SubSeq(entry.shapes, 1, IF Len(entry.shapes) < 3 THEN Len(entry.shapes) ELSE 3) = entry.shapes
      BY <1>t, <3>2, WholeList
    <3> QED BY <1>t, <3>3 DEF Entry
  <2>2. context'.entry = entry
    BY <1>3, <2>1 DEF Finish
  <2>3. /\ UNCHANGED <<pos, eosz, easz, raw, entry, form, vex>>
        /\ context'.eosz = eosz /\ context'.easz = easz /\ context'.raw = raw
        /\ context'.isVex = (form = "VEX") /\ context'.vex = vex
        /\ insn'.operandWidth = eosz /\ insn'.addressWidth = easz /\ insn'.mn = entry.mn
        /\ insn'.operandCount = Len(entry.shapes) /\ context'.length = pos /\ insn'.raw = raw
        /\ insn'.map = (IF form = "VEX" THEN vex.map ELSE map)
    BY <1>3 DEF Finish
  <2>4. UNCHANGED map
    BY <1>3 DEF Finish
  <2> QED BY <2>2, <2>3, <2>4 DEF Handed
<1>4. CASE UNCHANGED vars
  BY <1>4 DEF vars, Handed
<1> QED BY <1>1, <1>2, <1>3, <1>4, StepKinds, SettledBy

LEMMA InitEntry == ASSUME Init, IndInv PROVE EntryInv
<1>1. Handed
  BY DEF Init, Handed, Accepted
<1> QED BY <1>1, InitModes, InitTail, InitVex, InitLegacy, InitCollected DEF EntryInv

LEMMA StepEntry == ASSUME IndInv, LengthInv, EntryInv, [Next]_vars PROVE EntryInv'
BY StepModes, StepTail, StepVex, StepLegacy, StepCollected, StepHanded DEF EntryInv

\* Together: what an accepted call has worked out, and that the caller has it.
LEMMA EntryKept == Spec => []EntryInv
<1>1. Init /\ IndInv => EntryInv
  BY InitEntry
<1>2. IndInv /\ LengthInv /\ EntryInv /\ [Next]_vars => EntryInv'
  BY StepEntry
<1> QED BY <1>1, <1>2, Inductive, LedgerKept, PTL DEF Spec

---------------------------------------------------------------------------
\* For every buffer and decoder, the shapes x86dec_decode_operands finds in the
\* context are as many as the operands the instruction claims, although the
\* legacy context has room for three.
THEOREM ContextHoldsAll == Spec => []ContextComplete
<1>1. EntryInv => ContextComplete
  BY DEF EntryInv, Handed, ContextComplete, Accepted
<1> QED BY <1>1, EntryKept, PTL

LEMMA Backed == ASSUME IndInv, EntryInv PROVE OperandsBacked
<1> SUFFICES ASSUME Accepted, NEW i \in DOMAIN context.entry.shapes
             PROVE  LET shape == context.entry.shapes[i]
                    IN  /\ shape # "NONE"
                        /\ shape \in ModrmShapes \ {"ST_REG"} => raw.hasModrm
                        /\ shape = "ST_REG" => raw.hasModrm /\ ModOf(raw.modrm) = 3
                        /\ shape \in MemShapes => ModOf(raw.modrm) # 3
                        /\ shape = "SEG_REG" => RegOf(raw.modrm) <= 5
                        /\ shape \in VvvvShapes \cup YmmRegShapes \cup {"YMM_REG", "YMM_OR_MEM"} => context.isVex
  BY DEF OperandsBacked
<1> DEFINE s == entry.shapes
<1>1. context.entry = entry /\ context.isVex = (form = "VEX") /\ form \in {"LEGACY", "VEX", "VZEROALL"}
  BY DEF EntryInv, Handed, IndInv, TypeOK
<1>2. i \in 1..Len(s) /\ raw.hasModrm \in BOOLEAN
  <2>1. s \in OperandLists /\ raw.hasModrm \in BOOLEAN
    BY DEF IndInv, TypeOK, Entry, Raw
  <2> QED BY <1>1, <2>1, ListDomain
<1>3. CASE form = "VEX"
  <2>1. VexRowFits(entry, vex) /\ IF raw.hasModrm THEN VexModFits(s, raw.modrm) ELSE s = <<>>
    BY <1>3 DEF EntryInv, VexRead, Settled
  <2>2. raw.hasModrm
    BY <1>2, <2>1
  <2>3. s[i] \in VexShapes
    BY <1>2, <2>1 DEF VexRowFits, VexList, Within
  <2>4. s[i] \in MemShapes => ModOf(raw.modrm) # 3
    BY <1>2, <2>1, <2>2 DEF VexModFits
  <2> QED BY <1>1, <1>3, <2>2, <2>3, <2>4 DEF VexShapes
<1>4. CASE form = "VZEROALL"
  <2>1. s = <<>>
    BY <1>4 DEF EntryInv, VexRead, Settled
  <2> QED BY <1>2, <2>1
<1>5. CASE form = "LEGACY" /\ raw.hasModrm
  <2>1. Within(s, LegacyShapes, 3, IF map = 0 THEN 4 ELSE 1) /\ ModFits(s, raw.modrm)
    BY <1>5 DEF EntryInv, LegacyFit, Settled, Fits
  <2>2. s[i] \in LegacyShapes
    BY <1>2, <2>1 DEF Within
  <2>3. /\ s[i] \in MemShapes => ModOf(raw.modrm) # 3
        /\ s[i] = "ST_REG" => ModOf(raw.modrm) = 3
        /\ s[i] = "SEG_REG" => RegOf(raw.modrm) <= 5
    BY <1>2, <2>1 DEF ModFits
  <2> QED BY <1>1, <1>5, <2>2, <2>3 DEF LegacyShapes, VexOnlyShapes
<1>6. CASE form = "LEGACY" /\ ~raw.hasModrm
  <2>1. s[i] \in BareShapes
    BY <1>2, <1>6 DEF EntryInv, LegacyFit, Settled, Bare, Within
  <2>2. s[i] \notin ModrmShapes /\ s[i] \in LegacyShapes
    BY <2>1 DEF BareShapes
  <2>3. "ST_REG" \in ModrmShapes /\ "SEG_REG" \in ModrmShapes /\ MemShapes \subseteq ModrmShapes
    BY DEF ModrmShapes, RmShapes, RegFieldShapes
  <2> QED BY <1>1, <1>6, <2>2, <2>3 DEF LegacyShapes, VexOnlyShapes
<1> QED BY <1>1, <1>2, <1>3, <1>4, <1>5, <1>6

\* Every operand of an accepted instruction has the bytes it is built from,
\* whatever table its entry came from.
THEOREM OperandsHaveBytes == Spec => []OperandsBacked
<1>1. IndInv /\ EntryInv => OperandsBacked
  BY Backed
<1> QED BY <1>1, Inductive, EntryKept, PTL

\* No buffer makes the decoder accept a prefix byte as a one-byte opcode.
THEOREM PrefixesStayPrefixes == Spec => []PrefixNeverOpcode
<1>1. LengthInv /\ EntryInv => PrefixNeverOpcode
  BY DEF LengthInv, Reported, EntryInv, LegacyFit, Settled, PrefixNeverOpcode
<1> QED BY <1>1, LedgerKept, EntryKept, PTL

\* The immediates read so far are within the budget of the entry.
LEMMA SizeWithinBudget ==
  ASSUME IndInv, EntryInv, pc = "operands" \/ Accepted
  PROVE  /\ raw.immSize \in Nat /\ Budget(entry.shapes) \in Nat /\ OffsetBytes \in Nat
         /\ OffsetBytes + raw.immSize <= Budget(entry.shapes) /\ raw.immSize <= Budget(entry.shapes)
<1> DEFINE s == entry.shapes
           sum == SlotAt(1) + SlotAt(2) + SlotAt(3) + SlotAt(4)
           b == Budget(s)
<1>1. raw.immSize \in Nat /\ Len(s) \in Nat /\ OffsetBytes \in Nat
  <2>1. s \in OperandLists /\ raw.immSize \in Nat /\ easz \in Width
    BY DEF IndInv, TypeOK, Entry, Raw
  <2> QED BY <2>1 DEF OperandLists, OffsetLists, OffsetBytes, Width
<1>2. \A j \in 1..4 : SlotAt(j) \in Nat /\ LimitAt(s, j) \in Nat /\ SlotAt(j) <= LimitAt(s, j)
  BY <1>1, ShapeBytes DEF SlotAt, LimitAt
<1>3. sum \in Nat /\ b \in Nat /\ sum <= b
  BY <1>2 DEF Budget
<1>4. OffsetBytes + raw.immSize = sum
  BY DEF EntryInv, Collected
<1> HIDE DEF sum, b
<1>5. OffsetBytes + raw.immSize <= b /\ raw.immSize <= b
  BY <1>1, <1>3, <1>4
<1> QED BY <1>1, <1>3, <1>5 DEF b

LEMMA Reconciled == ASSUME IndInv, EntryInv PROVE ImmediatesReconcile
<1> SUFFICES ASSUME Accepted PROVE ImmediatesReconcile
  BY DEF ImmediatesReconcile
<1> DEFINE s == entry.shapes
           at(j) == IF j <= Len(s) THEN OperandReads(s[j], eosz) ELSE 0
<1>1. context.entry = entry /\ context.eosz = eosz /\ context.raw = raw
  BY DEF EntryInv, Handed
<1>2. s \in OperandLists /\ raw.immSize \in Nat /\ Len(s) \in Nat /\ Len(s) <= 4 /\ Budget(s) <= 8
  <2>1. s \in OperandLists /\ raw.immSize \in Nat
    BY DEF IndInv, TypeOK, Entry, Raw
  <2> QED BY <2>1, EntrySmall DEF EntryInv, Settled, OperandLists, OffsetLists
<1>3. DOMAIN s = 1..Len(s)
  BY <1>2, ListDomain
<1>4. /\ raw.immSize = ImmAt(1) + ImmAt(2) + ImmAt(3) + ImmAt(4)
      /\ OffsetBytes + raw.immSize = SlotAt(1) + SlotAt(2) + SlotAt(3) + SlotAt(4)
      /\ raw.hasMoffs <=> \E j \in 1..Len(s) : j < k /\ s[j] = "MOFFS"
      /\ k = Len(s) + 1
  BY DEF EntryInv, Collected
<1>5. \A j \in 1..4 : ImmAt(j) = at(j)
  <2>1. \A p : OperandReads(p, eosz) = ShapeImmBytes(p, eosz)
    BY DEF OperandReads, ShapeImmBytes
  <2> QED BY <1>2, <1>4, <2>1 DEF ImmAt
<1>6. Reads(s, eosz) = raw.immSize
  <2>1. ImmAt(1) = at(1) /\ ImmAt(2) = at(2) /\ ImmAt(3) = at(3) /\ ImmAt(4) = at(4)
    BY <1>5
  <2> QED BY <1>4, <2>1 DEF Reads
<1>7. raw.immSize <= 8
  BY <1>2, SizeWithinBudget
<1>8. raw.hasMoffs <=> \E j \in DOMAIN s : s[j] = "MOFFS"
  BY <1>2, <1>3, <1>4
<1> QED BY <1>1, <1>6, <1>7, <1>8 DEF ImmediatesReconcile

\* What the driver read as immediates and what the operand builder takes apart
\* are the same number of bytes, and they fit in raw.imm.
THEOREM ImmediatesAgree == Spec => []ImmediatesReconcile
<1>1. IndInv /\ EntryInv => ImmediatesReconcile
  BY Reconciled
<1> QED BY <1>1, Inductive, EntryKept, PTL

---------------------------------------------------------------------------
\* Stack operations

\* The rows of the stack operations, which no correction renames in 64-bit
\* mode, and of PUSHF and POPF, which one does.
StackBytes == Line(5) \cup Cells(6, {8, A}) \cup Cells(C, {2, 3, 8, 9, A, B}) \cup Cells(E, {8, 9, B}) \cup {x(8,F)}

LEMMA StackRows ==
  /\ \A op \in StackBytes : op \in Byte /\ Map0[op].mn \in StackMnemonic /\ Map0[op].group = "NONE"
  /\ Map0[x(F,F)].group = "G5"
  /\ \A op \in {x(9,C), x(9,D)} : Map0[op].mn # "NONE" /\ Map0[op].group = "NONE" /\ ~Map0[op].modrm
<1>1. /\ \A op \in 80..87 : Map0Low(op) = Direct("PUSH", <<"REG_OPCODE">>)
      /\ \A op \in 88..95 : Map0Low(op) = Direct("POP", <<"REG_OPCODE">>)
  BY SMTT(60) DEF Map0Low, Alu, Line, Cells, x, A, B, C, D, E, F
<1>2. Map0Low(104) = Direct("PUSH", <<"IMM_V">>) /\ Map0Low(106) = Direct("PUSH", <<"IMM8">>)
  BY SMTT(60) DEF Map0Low, Alu, Line, Cells, x, A, B, C, D, E, F
<1>3. /\ Map0High(143) = [Modrm(<<"GPR_OR_MEM">>) EXCEPT !.mn = "POP"]
      /\ Map0High(156) = Direct("PUSHF", <<>>) /\ Map0High(157) = Direct("POPF", <<>>)
  BY SMTT(60) DEF Map0High, PlainHigh, Line, Cells, x, A, B, C, D, E, F
<1>4. /\ \A op \in {194, 202} : Map0High(op) = Direct("RET", <<"IMM16">>)
      /\ \A op \in {195, 203} : Map0High(op) = Direct("RET", <<>>)
  BY SMTT(60) DEF Map0High, PlainHigh, Line, Cells, x, A, B, C, D, E, F
<1>5. Map0High(200) = Direct("ENTER", <<"IMM16", "IMM8">>) /\ Map0High(201) = Direct("LEAVE", <<>>)
  BY SMTT(60) DEF Map0High, PlainHigh, Line, Cells, x, A, B, C, D, E, F
<1>6. /\ Map0High(232) = Direct("CALL", <<"REL_V">>) /\ Map0High(233) = Direct("JMP", <<"REL_V">>)
      /\ Map0High(235) = Direct("JMP", <<"REL8">>)
  BY SMTT(60) DEF Map0High, PlainHigh, Line, Cells, x, A, B, C, D, E, F
<1>7. Map0High(255) = Group("G5")
  BY SMTT(60) DEF Map0High, PlainHigh, Line, Cells, x, A, B, C, D, E, F
<1>8. \A op \in 80..95 \cup {104, 106} : Map0[op].mn \in StackMnemonic /\ Map0[op].group = "NONE"
  <2> SUFFICES ASSUME NEW op \in 80..95 \cup {104, 106}
               PROVE  Map0[op].mn \in StackMnemonic /\ Map0[op].group = "NONE"
    OBVIOUS
  <2>1. Map0[op] = Map0Low(op) /\ (op \in 80..87 \/ op \in 88..95 \/ op \in {104, 106})
    BY DEF Map0, Byte
  <2> QED BY <1>1, <1>2, <2>1 DEF Direct, StackMnemonic
<1>9. /\ Map0[143].mn = "POP" /\ Map0[143].group = "NONE" /\ Map0[255].group = "G5"
      /\ \A op \in {156, 157} : Map0[op].mn # "NONE" /\ Map0[op].group = "NONE" /\ ~Map0[op].modrm
  BY <1>3, <1>7 DEF Map0, Byte, Direct, Modrm, Group
<1>10. \A op \in {194, 195, 200, 201, 202, 203, 232, 233, 235} :
         Map0[op].mn \in StackMnemonic /\ Map0[op].group = "NONE"
  <2>1. \A op \in {194, 195, 200, 201, 202, 203, 232, 233, 235} : Map0[op] = Map0High(op)
    BY DEF Map0, Byte
  <2>2. \A mn \in StackMnemonic : \A s : Direct(mn, s).mn \in StackMnemonic /\ Direct(mn, s).group = "NONE"
    BY DEF Direct
  <2>3. {"RET", "ENTER", "LEAVE", "CALL", "JMP"} \subseteq StackMnemonic
    BY DEF StackMnemonic
  <2> QED BY <1>4, <1>5, <1>6, <2>1, <2>2, <2>3
<1>11. /\ x(F,F) = 255 /\ x(9,C) = 156 /\ x(9,D) = 157
       /\ StackBytes \subseteq 80..95 \cup {104, 106, 143, 194, 195, 200, 201, 202, 203, 232, 233, 235}
  BY DEF StackBytes, Line, Cells, x, A, B, C, D, E, F
<1> QED BY <1>8, <1>9, <1>10, <1>11 DEF Byte, StackMnemonic

\* In 64-bit mode the opcode of a stack operation, wherever it is found, has
\* a mnemonic the promotion tests; PUSHF and POPF have none any more.
LEMMA StackResolved ==
  ASSUME NEW op \in Byte, NEW m, NEW tl, NEW fx, fx.is64,
         NEW r, r = ResolveEntry(0, op, m, tl, fx), r.status = "OK"
  PROVE  /\ StackOpcode(op, m) => r.mn \in StackMnemonic
         /\ FlagsOpcode(op) => r.mn = "INSN" /\ r.shapes = <<>>
<1> DEFINE row == Map0[op]
           fixed == Fix0(op, row, m, fx)
<1>1. ASSUME op \in StackBytes PROVE r.mn \in StackMnemonic
  <2>1. row.mn \in StackMnemonic /\ row.group = "NONE" /\ row.mn # "NONE"
    BY <1>1, StackRows DEF StackMnemonic
  <2>2. r = fixed
    <3>1. r = fixed \/ r = Refuse("INVALID")
      BY <2>1 DEF ResolveEntry
    <3> QED BY <3>1 DEF Refuse
  <2>3. fixed = Found(row.mn, row.shapes) \/ fixed.status # "OK"
    <3>1. op \notin GoneIn64 /\ op \notin {x(6,2), x(C,4), x(C,5), x(9,0), x(9,C), x(9,D), x(6,3)}
      BY <1>1 DEF StackBytes, GoneIn64, Line, Cells, x, A, B, C, D, E, F
    <3> HIDE DEF row
    <3> QED BY <3>1 DEF Fix0, Refuse
  <2> HIDE DEF fixed
  <2>4. r.mn = row.mn
    BY <2>2, <2>3 DEF Found
  <2> QED BY <2>1, <2>4
<1>2. ASSUME op = x(F,F), RegOf(m) \in {2, 4, 6} PROVE r.mn \in StackMnemonic
  <2>1. row.group = "G5"
    BY <1>2, StackRows
  <2> DEFINE g == ResolveGroup("G5", op, m, tl, fx)
  <2>2. g = SmallGroup("G5", op, RegOf(m))
    BY DEF ResolveGroup
  <2>3. g.mn \in StackMnemonic
    BY <1>2, <2>2 DEF SmallGroup, Found, StackMnemonic
  <2>4. (r = fixed /\ fixed.status # "OK") \/ r = Refuse("INVALID") \/ r = g
    BY <2>1 DEF ResolveEntry
  <2> HIDE DEF g, fixed
  <2> QED BY <2>3, <2>4 DEF Refuse
<1>3. ASSUME op \in {x(9,C), x(9,D)} PROVE r.mn = "INSN" /\ r.shapes = <<>>
  <2>1. row.mn # "NONE" /\ row.group = "NONE" /\ ~row.modrm
    BY <1>3, StackRows
  <2>2. r = fixed
    BY <2>1 DEF ResolveEntry
  <2>3. op \notin GoneIn64 /\ op \notin {x(6,2), x(C,4), x(C,5), x(9,0), x(6,3), x(8,F)}
    BY <1>3 DEF GoneIn64, x, A, B, C, D, E, F
  <2>4. fixed = Found("INSN", <<>>)
    BY <1>3, <2>3 DEF Fix0
  <2> HIDE DEF fixed
  <2> QED BY <2>2, <2>4 DEF Found
<1> QED BY <1>1, <1>2, <1>3 DEF StackOpcode, FlagsOpcode, StackBytes

\* A settled entry of 64-bit mode has the mnemonic its opcode stands for, and
\* the size of PUSHFQ and POPFQ is left as the prefixes made it.
StackNames ==
  form = "LEGACY" /\ map = 0 /\ Settled /\ Is64 =>
    /\ StackOpcode(opcode, raw.modrm) => entry.mn \in StackMnemonic
    /\ FlagsOpcode(opcode) => entry.mn = "INSN" /\ entry.shapes = <<>> /\ eosz = SizeInForce

LEMMA InitStack == ASSUME Init PROVE StackNames
BY DEF Init, StackNames, Settled, Accepted

LEMMA StepStack == ASSUME IndInv, LengthInv, Modes, StackNames, [Next]_vars PROVE StackNames'
<1>t. raw \in Raw /\ opcode \in Byte
  BY DEF IndInv, TypeOK
<1> USE DEF StackNames, Settled, Accepted, Is64, input, work
<1>1. CASE RejectArgs \/ Begin \/ EndPrefixes \/ TakePrefix \/ TakeRex \/ NoRex
  BY <1>1 DEF RejectArgs, Begin, EndPrefixes, TakePrefix, TakeRex, NoRex, Return
<1>2. CASE Later /\ ~Settled'
  BY <1>2
<1>3. CASE Later /\ Settled'
  <2>1. ResolveOk \/ (AcceptSynth /\ entry.shapes = <<>>) \/ Promote \/ TakeOperand \/ Finish
    BY <1>3, SettledBy
  <2>2. SizeInForce' = SizeInForce
    BY <1>3, LaterKeeps DEF SizeInForce
  <2>3. CASE ResolveOk
    <3>1. /\ pc = "resolve" /\ Resolved.status = "OK" /\ entry'.mn = Resolved.mn /\ entry'.shapes = Resolved.shapes
          /\ UNCHANGED <<decoder, raw, map, opcode, form, eosz>>
      BY <2>3 DEF ResolveOk
    <3>2. Is64 => eosz = SizeInForce
      BY <3>1 DEF Modes
    <3>3. CASE form = "LEGACY" /\ map = 0 /\ Is64
      <4> DEFINE fx == Flags
                 r == Resolved
      <4>1. fx.is64
        BY <3>3 DEF Flags
      <4>2. r = ResolveEntry(0, opcode, raw.modrm, tail, fx) /\ r.status = "OK"
        BY <3>1, <3>3 DEF Resolved
      <4> HIDE DEF fx, r
      <4>3. /\ StackOpcode(opcode, raw.modrm) => r.mn \in StackMnemonic
            /\ FlagsOpcode(opcode) => r.mn = "INSN" /\ r.shapes = <<>>
        BY <1>t, <4>1, <4>2, StackResolved
      <4> HIDE DEF Is64, Resolved
      <4>4. entry'.mn = r.mn /\ entry'.shapes = r.shapes
        BY <3>1 DEF r
      <4>5. StackOpcode(opcode, raw.modrm)' = StackOpcode(opcode, raw.modrm)
            /\ FlagsOpcode(opcode)' = FlagsOpcode(opcode)
        BY <3>1 DEF StackOpcode, FlagsOpcode
      <4> QED BY <2>2, <3>1, <3>2, <3>3, <4>3, <4>4, <4>5
    <3> HIDE DEF Resolved
    <3> QED BY <3>1, <3>3
  <2>4. CASE AcceptSynth
    BY <2>4 DEF AcceptSynth, LengthInv, Unread
  <2>5. CASE Promote
    <3>1. /\ raw'.modrm = raw.modrm /\ UNCHANGED <<decoder, map, opcode, form, entry>> /\ pc = "promote"
          /\ eosz' = PromotedEosz
      BY <1>t, <2>5 DEF Promote, Raw
    <3>2. entry.mn = "INSN" => eosz' = eosz
      BY <3>1 DEF PromotedEosz, StackMnemonic
    <3>3. StackOpcode(opcode, raw.modrm)' = StackOpcode(opcode, raw.modrm)
          /\ FlagsOpcode(opcode)' = FlagsOpcode(opcode)
      BY <3>1 DEF StackOpcode, FlagsOpcode
    <3> QED BY <2>2, <3>1, <3>2, <3>3
  <2>6. CASE TakeOperand \/ Finish
    <3>1. /\ raw'.modrm = raw.modrm /\ UNCHANGED <<decoder, map, opcode, form, entry, eosz>> /\ pc = "operands"
      BY <1>t, <2>6 DEF TakeOperand, Finish, Raw
    <3>2. StackOpcode(opcode, raw.modrm)' = StackOpcode(opcode, raw.modrm)
          /\ FlagsOpcode(opcode)' = FlagsOpcode(opcode)
      BY <3>1 DEF StackOpcode, FlagsOpcode
    <3> QED BY <2>2, <3>1, <3>2
  <2> QED BY <2>1, <2>3, <2>4, <2>5, <2>6
<1>4. CASE UNCHANGED vars
  BY <1>4 DEF vars, SizeInForce, StackOpcode, FlagsOpcode
<1> QED BY <1>1, <1>2, <1>3, <1>4, StepKinds

LEMMA StackKept == Spec => []StackNames
<1>1. Init => StackNames
  BY InitStack
<1>2. IndInv /\ LengthInv /\ EntryInv /\ StackNames /\ [Next]_vars => StackNames'
  BY StepStack DEF EntryInv
<1> QED BY <1>1, <1>2, Inductive, LedgerKept, EntryKept, PTL DEF Spec

\* A stack operation of 64-bit mode, named by its opcode, is 64 bits wide
\* unless 66 makes it 16, whatever the buffer; PUSHFQ and POPFQ, renamed before
\* the promotion, stay at the 32 bits of an instruction without prefixes.  No
\* stack operation has more than four immediate bytes.
THEOREM StackOperationsWide == Spec => []StackWidth
<1>1. IndInv /\ LengthInv /\ EntryInv /\ StackNames => StackWidth
  <2> SUFFICES ASSUME IndInv, LengthInv, EntryInv, StackNames, Accepted, Is64, form = "LEGACY", map = 0
               PROVE  /\ StackOpcode(insn.opcode, raw.modrm) =>
                           /\ insn.operandWidth = IF SizeInForce = 32 THEN 64 ELSE SizeInForce
                           /\ raw.immSize <= 4
                      /\ FlagsOpcode(insn.opcode) => insn.operandWidth = SizeInForce /\ raw.immSize = 0
    BY DEF StackWidth, SizeInForce
  <2>1. insn.operandWidth = eosz /\ insn.opcode = opcode
    BY DEF EntryInv, Handed, LengthInv, Reported
  <2>2. raw.immSize <= Budget(entry.shapes) /\ raw.immSize \in Nat /\ Budget(entry.shapes) \in Nat
    BY SizeWithinBudget
  <2>3. ASSUME StackOpcode(opcode, raw.modrm)
        PROVE  eosz = (IF SizeInForce = 32 THEN 64 ELSE SizeInForce) /\ raw.immSize <= 4
    <3>1. entry.mn \in StackMnemonic
      BY <2>3 DEF StackNames, Settled
    <3>2. eosz = IF SizeInForce = 32 THEN 64 ELSE SizeInForce
      BY <3>1 DEF EntryInv, Modes
    <3>3. Budget(entry.shapes) <= 4
      BY <3>1, EntrySmall DEF EntryInv, Settled
    <3> QED BY <2>2, <3>2, <3>3
  <2>4. ASSUME FlagsOpcode(opcode) PROVE eosz = SizeInForce /\ raw.immSize = 0
    <3>1. entry.shapes = <<>> /\ eosz = SizeInForce
      BY <2>4 DEF StackNames, Settled
    <3>2. Budget(entry.shapes) = 0
      BY <3>1 DEF Budget, LimitAt
    <3> QED BY <2>2, <3>1, <3>2
  <2> QED BY <2>1, <2>3, <2>4
<1> QED BY <1>1, Inductive, LedgerKept, EntryKept, StackKept, PTL

---------------------------------------------------------------------------
\* Modes and VEX

\* Outside 64-bit mode nothing of 64-bit mode is reported, whatever the bytes.
THEOREM LegacyModes == Spec => []LegacyStays32
<1>1. IndInv /\ LengthInv /\ EntryInv /\ ByteAccounting => LegacyStays32
  <2> SUFFICES ASSUME IndInv, LengthInv, EntryInv, ByteAccounting, Accepted, ~Is64
               PROVE  /\ ~raw.hasRex /\ ~context.isVex /\ insn.addressWidth # 64
                      /\ insn.operandWidth = 64 => insn.mn = "MOVQ"
                      /\ insn.opcode \in Line(4) /\ map = 0 => insn.length = raw.count + 1
    BY DEF LegacyStays32
  <2>1. /\ insn.operandWidth = eosz /\ insn.addressWidth = easz /\ insn.mn = entry.mn
        /\ context.isVex = (form = "VEX")
    BY DEF EntryInv, Handed
  <2>2. ~raw.hasRex /\ form = "LEGACY" /\ easz # 64 /\ (eosz = 64 => entry.mn = "MOVQ")
    BY DEF EntryInv, Modes, Accepted
  <2>3. ASSUME insn.opcode \in Line(4), map = 0 PROVE insn.length = raw.count + 1
    <3>1. insn.opcode = opcode
      BY <2>2 DEF LengthInv, Reported
    <3>2. entry.shapes = <<"REG_OPCODE">> /\ ~raw.hasModrm
      BY <2>2, <2>3, <3>1 DEF EntryInv, LegacyFit, Settled
    <3>3. raw.dispSize = 0 /\ ~raw.hasSib
      BY <3>2 DEF EntryInv, TailRead, LengthInv, ModrmRead
    <3>4. OpcodeBytes = 1 /\ ~TailFollows
      BY <2>2, <2>3 DEF OpcodeBytes, TailFollows
    <3>5. ~raw.hasMoffs
      <4>1. \A j \in 1..Len(entry.shapes) : entry.shapes[j] = "REG_OPCODE"
        BY <3>2
      <4> QED BY <4>1 DEF EntryInv, Collected
    <3>6. raw.immSize = 0
      <4>1. raw.immSize = ImmAt(1) + ImmAt(2) + ImmAt(3) + ImmAt(4)
        BY DEF EntryInv, Collected
      <4>2. \A j \in 1..4 : ImmAt(j) = 0
        BY <3>2 DEF ImmAt, ShapeImmBytes
      <4> QED BY <4>1, <4>2
    <3>7. raw.count \in Nat
      BY DEF IndInv, TypeOK, Raw
    <3> QED BY <2>2, <3>2, <3>3, <3>4, <3>5, <3>6, <3>7 DEF ByteAccounting, OneIf
  <2> QED BY <2>1, <2>2, <2>3
<1> QED BY <1>1, Inductive, LedgerKept, EntryKept, BytesAccounted, PTL

\* No field of a VEX prefix is silently ignored by the entry it selects.
THEOREM VexFieldsHaveUse == Spec => []VexFieldsUsed
<1>1. EntryInv => VexFieldsUsed
  <2> SUFFICES ASSUME EntryInv, Accepted, context.isVex
               PROVE  /\ context.vex.vvvv # 0 => HasShape(context.entry, VvvvShapes)
                      /\ HasShape(context.entry, GprShapes) => context.vex.l = 0
                      /\ ~raw.lock /\ ~raw.hasRex
                      /\ insn.map \in 1..3 /\ insn.mn # "NONE"
    BY DEF VexFieldsUsed
  <2>1. form = "VEX" /\ context.vex = vex /\ context.entry = entry /\ insn.map = vex.map /\ insn.mn = entry.mn
    BY DEF EntryInv, Handed
  <2>2. VexRowFits(entry, vex) /\ ~raw.lock /\ ~raw.hasRex
    BY <2>1 DEF EntryInv, VexRead, Settled
  <2> QED BY <2>1, <2>2 DEF VexRowFits
<1> QED BY <1>1, EntryKept, PTL

---------------------------------------------------------------------------
\* How far a call reads

\* The fields before the operands' bytes, without the opcode.
LEMMA FieldLimits ==
  ASSUME IndInv, LengthInv
  PROVE  /\ pos \in Nat /\ raw.count \in 0..8 /\ raw.dispSize \in 0..4 /\ raw.immSize \in Nat
         /\ OneIf(raw.hasRex) \in 0..1 /\ OneIf(raw.hasModrm) \in 0..1 /\ OneIf(raw.hasSib) \in 0..1
         /\ OpcodeBytes \in 0..4 /\ OneIf(TailFollows) \in 0..1 /\ Wanted \in Nat
         /\ pc \notin OpeningPcs => raw.opcodeOffset \in 0..9
<1>1. OneIf(TRUE) = 1 /\ OneIf(FALSE) = 0
  BY DEF OneIf
<1>2. raw \in Raw /\ pos \in Nat
  BY DEF IndInv, TypeOK
<1>3. raw.count \in 0..8 /\ raw.dispSize \in 0..4 /\ raw.immSize \in Nat
  BY <1>2 DEF Raw, MaxPrefixes
<1>4. /\ OneIf(raw.hasRex) \in 0..1 /\ OneIf(raw.hasModrm) \in 0..1 /\ OneIf(raw.hasSib) \in 0..1
      /\ OneIf(TailFollows) \in 0..1
  BY DEF OneIf
<1>5. OpcodeBytes \in 0..4
  BY DEF OpcodeBytes
<1>6. Wanted \in Nat
  BY WantedBytes DEF IndInv
<1>7. pc \notin OpeningPcs => raw.opcodeOffset \in 0..9
  BY <1>3, <1>4 DEF LengthInv, Opening
<1> QED BY <1>2, <1>3, <1>4, <1>5, <1>6, <1>7

\* An operand still to be read has its share of the entry's budget left.
LEMMA NextOperandFits ==
  ASSUME IndInv, EntryInv, pc = "operands"
  PROVE  OffsetBytes + raw.immSize + Wanted <= Budget(entry.shapes)
<1> DEFINE s == entry.shapes
<1>1. s \in OperandLists /\ Len(s) \in Nat /\ k \in Nat \ {0}
  <2>1. s \in OperandLists
    BY DEF IndInv, TypeOK, Entry
  <2> QED BY <2>1 DEF IndInv, TypeOK, OperandLists, OffsetLists
<1>2. CASE k > Len(s)
  <2>1. Wanted = 0
    BY <1>1, <1>2 DEF Wanted
  <2>2. OffsetBytes \in Nat /\ raw.immSize \in Nat /\ OffsetBytes + raw.immSize <= Budget(s)
    BY SizeWithinBudget
  <2> QED BY <2>1, <2>2
<1>3. CASE k <= Len(s)
  <2> DEFINE w == OperandBytes(s[k], eosz, easz)
             f == [j \in 1..4 |-> SlotAt(j)]
             g == [f EXCEPT ![k] = w]
             l == [j \in 1..4 |-> LimitAt(s, j)]
  <2>1. k \in 1..4 /\ Wanted = w /\ w \in Nat
    BY <1>1, <1>3, EntrySmall, ShapeBytes DEF EntryInv, Settled, Wanted
  <2>2. \A j \in 1..4 : SlotAt(j) \in Nat /\ LimitAt(s, j) \in Nat /\ SlotAt(j) <= LimitAt(s, j)
    BY <1>1, ShapeBytes DEF SlotAt, LimitAt
  <2>3. f \in [1..4 -> Nat] /\ f[k] = 0
    BY <1>1, <2>1, <2>2 DEF SlotAt
  <2>4. w <= l[k]
    BY <1>3, <2>1, ShapeBytes DEF LimitAt
  <2>5. \A j \in 1..4 : g[j] \in Nat /\ l[j] \in Nat /\ g[j] <= l[j]
    BY <2>1, <2>2, <2>3, <2>4
  <2>6. g[1] + g[2] + g[3] + g[4] = f[1] + f[2] + f[3] + f[4] + w
    <3> HIDE DEF f, w
    <3> QED BY <2>1, <2>3, OneMore
  <2>7. /\ OffsetBytes + raw.immSize = f[1] + f[2] + f[3] + f[4]
        /\ Budget(s) = l[1] + l[2] + l[3] + l[4]
    BY DEF EntryInv, Collected, Budget
  <2>8. f[1] \in Nat /\ f[2] \in Nat /\ f[3] \in Nat /\ f[4] \in Nat
    BY <2>3
  <2>9. g[1] + g[2] + g[3] + g[4] <= l[1] + l[2] + l[3] + l[4]
    <3>1. /\ g[1] \in Nat /\ g[2] \in Nat /\ g[3] \in Nat /\ g[4] \in Nat
          /\ l[1] \in Nat /\ l[2] \in Nat /\ l[3] \in Nat /\ l[4] \in Nat
          /\ g[1] <= l[1] /\ g[2] <= l[2] /\ g[3] <= l[3] /\ g[4] <= l[4]
      BY <2>5
    <3> HIDE DEF g, l
    <3> QED BY <3>1
  <2> DEFINE before == OffsetBytes + raw.immSize
  <2>10. before = f[1] + f[2] + f[3] + f[4]
    BY <2>7
  <2>11. before + w <= Budget(s)
    <3> HIDE DEF f, g, l, w, before
    <3> QED BY <2>1, <2>6, <2>7, <2>8, <2>9, <2>10
  <2> QED BY <2>1, <2>11
<1> QED BY <1>1, <1>2, <1>3

\* The bytes before the operands are few enough that what the next step wants
\* ends within twenty.
LEMMA OperandsFit ==
  ASSUME IndInv, LengthInv, EntryInv, pc = "operands" PROVE pos + Wanted <= 20
<1> DEFINE b == Budget(entry.shapes)
           behind == OffsetBytes + raw.immSize
           rex == OneIf(raw.hasRex)
           modrm == OneIf(raw.hasModrm)
           sib == OneIf(raw.hasSib)
           disp == raw.dispSize
           last == OneIf(TailFollows)
<1>1. /\ raw.count \in 0..8 /\ disp \in 0..4 /\ rex \in 0..1 /\ modrm \in 0..1 /\ sib \in 0..1 /\ last \in 0..1
      /\ OpcodeBytes \in 0..4 /\ Wanted \in Nat
  BY FieldLimits
<1>2. b \in Nat /\ behind \in Nat /\ behind + Wanted <= b
  <2>1. b \in Nat /\ OffsetBytes \in Nat /\ raw.immSize \in Nat
    BY SizeWithinBudget
  <2> QED BY <2>1, NextOperandFits
<1>3. pos = raw.count + rex + OpcodeBytes + modrm + sib + disp + behind + last
  <2>1. pos = FieldBytes + last
    BY DEF LengthInv, Ledger
  <2>2. FieldBytes = raw.count + rex + OpcodeBytes + modrm + sib + disp + OffsetBytes + raw.immSize
    BY DEF FieldBytes, OffsetBytes
  <2>3. OffsetBytes \in Nat /\ raw.immSize \in Nat
    BY SizeWithinBudget
  <2> HIDE DEF rex, modrm, sib, disp, last
  <2> QED BY <1>1, <2>1, <2>2, <2>3
<1>4. rex + OpcodeBytes + modrm + sib + disp + last + b <= 12
  <2>1. form \in {"LEGACY", "VEX", "VZEROALL"} /\ raw.hasModrm \in BOOLEAN /\ map \in 0..3
    BY DEF IndInv, TypeOK, Raw
  <2>2. CASE form # "LEGACY"
    <3>1. b <= 1
      BY <2>2, EntrySmall DEF EntryInv, Settled
    <3>2. rex = 0 /\ last = 0
      BY <2>2 DEF EntryInv, VexRead, Settled, OneIf, TailFollows
    <3> HIDE DEF b, rex, modrm, sib, disp, last
    <3> QED BY <1>1, <1>2, <3>1, <3>2
  <2>3. CASE form = "LEGACY" /\ raw.hasModrm
    <3>1. b <= IF map = 0 THEN 4 ELSE 1
      BY <2>3, EntrySmall DEF EntryInv, Settled
    <3>2. OpcodeBytes + last <= IF map = 0 THEN 1 ELSE 3
      BY <2>1, <2>3 DEF OpcodeBytes, TailFollows, OneIf
    <3> HIDE DEF b, rex, modrm, sib, disp, last
    <3> QED BY <1>1, <1>2, <3>1, <3>2
  <2>4. CASE form = "LEGACY" /\ ~raw.hasModrm
    <3>1. b <= 8
      BY EntrySmall DEF EntryInv, Settled
    <3>2. modrm = 0 /\ sib = 0 /\ disp = 0
      BY <2>4 DEF EntryInv, TailRead, LengthInv, ModrmRead, OneIf
    <3>3. ~HasModrm
      BY <2>4 DEF EntryInv, TailRead, Settled
    <3>4. OpcodeBytes + last <= 2
      BY <2>1, <2>4, <3>3, AmdHasModrm DEF OpcodeBytes, TailFollows, OneIf, HasModrm
    <3> HIDE DEF b, rex, modrm, sib, disp, last
    <3> QED BY <1>1, <1>2, <3>1, <3>2, <3>4
  <2> QED BY <2>1, <2>2, <2>3, <2>4
<1> HIDE DEF b, behind, rex, modrm, sib, disp, last
<1> QED BY <1>1, <1>2, <1>3, <1>4

LEMMA NextFits ==
  ASSUME IndInv, LengthInv, EntryInv, pc # "done" PROVE pos + Wanted <= 20
<1>1. CASE pc \in OpeningPcs
  <2>1. pos = raw.count /\ Wanted = 0
    BY <1>1 DEF LengthInv, Opening, OpeningPcs, Wanted
  <2> QED BY <2>1, FieldLimits
<1>2. CASE pc \in {"opcode", "escape", "opcode3", "dispatch", "synth", "modrm", "sib"}
  <2>1. raw.opcodeOffset \in 0..9 /\ OpcodeBytes \in 0..4
    BY <1>2, FieldLimits DEF OpeningPcs
  <2>2. Wanted \in 0..1
    BY <1>2 DEF Wanted
  <2>3. pc = "sib" => pos = raw.opcodeOffset + OpcodeBytes + 1
    BY DEF LengthInv, ModrmRead
  <2>4. pc # "sib" => pos \in {raw.opcodeOffset, raw.opcodeOffset + 1, raw.opcodeOffset + 2,
                               raw.opcodeOffset + OpcodeBytes}
    BY <1>2 DEF LengthInv, OpcodeRead
  <2> QED BY <2>1, <2>2, <2>3, <2>4
<1>3. CASE pc \in {"disp", "tail", "resolve", "promote"}
  <2> DEFINE rex == OneIf(raw.hasRex)
             modrm == OneIf(raw.hasModrm)
             sib == OneIf(raw.hasSib)
             disp == raw.dispSize
             last == OneIf(TailFollows)
  <2>1. FieldBytes = raw.count + rex + OpcodeBytes + modrm + sib + disp
    <3>1. ~raw.hasMoffs /\ raw.immSize = 0
      BY <1>3 DEF LengthInv, Unread, UnreadImm
    <3> QED BY <3>1, FieldLimits DEF FieldBytes
  <2>2. /\ raw.count \in 0..8 /\ disp \in 0..4 /\ rex \in 0..1 /\ modrm \in 0..1 /\ sib \in 0..1 /\ last \in 0..1
        /\ OpcodeBytes \in 0..4 /\ pos \in Nat
    BY FieldLimits
  <2>3. /\ pc = "disp" => pos + disp = FieldBytes /\ Wanted = disp
        /\ pc = "tail" => pos = FieldBytes /\ Wanted = 1
        /\ pc \in {"resolve", "promote"} => pos = FieldBytes + last /\ Wanted = 0
    BY DEF LengthInv, Ledger, Wanted
  <2> HIDE DEF rex, modrm, sib, disp, last
  <2> QED BY <1>3, <2>1, <2>2, <2>3
<1>4. CASE pc = "operands"
  BY <1>4, OperandsFit
<1>5. pc \in PcSet
  BY DEF IndInv, TypeOK
<1> QED BY <1>1, <1>2, <1>3, <1>4, <1>5 DEF PcSet, OpeningPcs

\* The bytes x86dec_decode_vex takes: at most three behind C4 or C5.
LEMMA VexReads ==
  ASSUME IndInv, LengthInv, DispatchVex PROVE pos' <= pos + 3
<1> DEFINE d == DecodeVex(buf, pos - 1)
<1>1. pos' = d.pos /\ pos \in Nat /\ Len(buf) \in Nat
  BY DEF DispatchVex, IndInv, TypeOK
<1>2. VexBytes(buf, pos - 1) \in {3, 4}
  BY DEF VexBytes
<1>3. d.pos = IF VexComplete(buf, pos - 1) THEN (pos - 1) + VexBytes(buf, pos - 1) ELSE Len(buf)
  BY DEF DecodeVex
<1> HIDE DEF d
<1> QED BY <1>1, <1>2, <1>3 DEF VexComplete

\* However long the buffer, a call looks at no more than twenty bytes of it.
THEOREM ReadsBounded == Spec => []ReadBound
<1>1. Init => ReadBound
  BY DEF Init, ReadBound, MaxRead
<1>2. IndInv /\ LengthInv /\ EntryInv /\ ReadBound /\ [Next]_vars => ReadBound'
  <2> SUFFICES ASSUME IndInv, LengthInv, EntryInv, ReadBound, [Next]_vars PROVE pos' <= 20
    BY DEF ReadBound, MaxRead
  <2>t. pos \in Nat /\ Len(buf) \in Nat /\ Wanted \in Nat /\ pos <= 20
    BY FieldLimits DEF ReadBound, MaxRead, IndInv, TypeOK
  <2>1. CASE RejectArgs \/ Begin \/ EndPrefixes \/ NoRex \/ DispatchEvex \/ DispatchLegacy \/ RejectSynth
             \/ AcceptSynth \/ ResolveOk \/ ResolveFails \/ Promote \/ TooLong \/ Finish
    <3>1. pos' = pos
      BY <2>1 DEF RejectArgs, Begin, EndPrefixes, NoRex, DispatchEvex, DispatchLegacy, RejectSynth,
                  AcceptSynth, ResolveOk, ResolveFails, Promote, TooLong, Finish
    <3> QED BY <2>t, <3>1
  <2>2. CASE TakePrefix \/ TakeRex
    <3>1. pos' = pos + 1 /\ pos = raw.count
      BY <2>2 DEF TakePrefix, TakeRex, LengthInv, Opening, OpeningPcs
    <3> QED BY <3>1, FieldLimits
  <2>3. CASE TakeField \/ TakeOperand
    <3>1. pc # "done" /\ pos' = pos + Wanted
      BY <2>3 DEF TakeField, TakeOpcode, TakeEscape, TakeOpcode3, TakeModrm, TakeSib, TakeDisp, TakeTail,
                  TakeOperand, Take
    <3> QED BY <3>1, NextFits
  <2>4. CASE RunOut
    <3>1. pc # "done"
      BY <2>t, <2>4 DEF RunOut, Wanted, Left, IndInv, CursorInv
    <3>2. pos' = Len(buf) /\ Len(buf) < pos + Wanted
      BY <2>t, <2>4 DEF RunOut, Left
    <3> QED BY <2>t, <3>1, <3>2, NextFits
  <2>5. CASE DispatchVzeroall \/ DispatchVex
    <3>1. pc = "dispatch" /\ pos' \in Nat
      BY <2>5, <2>t, StepIndInv DEF DispatchVzeroall, DispatchVex, IndInv, TypeOK
    <3>2. pos' <= pos + 3
      BY <2>5, <2>t, VexReads DEF DispatchVzeroall
    <3>3. pos = raw.opcodeOffset + OpcodeBytes /\ raw.opcodeOffset \in 0..9 /\ OpcodeBytes \in 0..4
      BY <3>1, FieldLimits DEF LengthInv, OpcodeRead, OpeningPcs
    <3>4. pos <= 13
      BY <3>3
    <3> QED BY <2>t, <3>1, <3>2, <3>4
  <2>6. CASE UNCHANGED vars
    BY <2>6, <2>t DEF vars
  <2> QED BY <2>1, <2>2, <2>3, <2>4, <2>5, <2>6 DEF Next, Dispatch
<1> QED BY <1>1, <1>2, Inductive, LedgerKept, EntryKept, PTL DEF Spec

---------------------------------------------------------------------------
\* The contract

USE DEF Contract!Idle, Contract!Prefixes, Contract!Rex, Contract!Opcode, Contract!Modrm,
        Contract!Lookup, Contract!Operands, Contract!Returned

LEMMA InitKeepsContract == ASSUME Init, IndInv PROVE Contract!Init
BY DEF Init, IndInv, TypeOK, Contract!Init, Contract!Byte, Byte, StageOf, CallerInsn, ZeroInsn

\* A step that does not return moves on through the stages and the buffer.
LEMMA ScanStep ==
  ASSUME IndInv, IndInv', pc \notin {"call", "done"}, pc' \notin {"call", "done"}, UNCHANGED <<buf, status>>,
         StageOf <= StageOf', pos <= pos'
  PROVE  Contract!Scan
BY DEF IndInv, TypeOK, CursorInv, Contract!Scan, StageOf, PcSet

\* A step that refuses has read the opcode, and its length is what it read.
LEMMA RefuseStep ==
  ASSUME IndInv, IndInv', StageOf \in 3..6, pc' = "done", status' \in {"INVALID", "UNSUPPORTED"},
         pos <= pos', pos' >= 1, UNCHANGED buf, NEW r, insn' = ErrorInsn(pos', r)
  PROVE  Contract!Refuse
BY DEF IndInv, TypeOK, CursorInv, Contract!Refuse, Contract!Clipped, Contract!MaxInsnLength, MaxInsnLength,
       StageOf, ErrorInsn

\* The cases of Next that neither start nor end the call.
Moves ==
  \/ TakePrefix \/ EndPrefixes \/ TakeRex \/ NoRex \/ TakeField \/ DispatchVzeroall \/ DispatchLegacy
  \/ AcceptSynth \/ ResolveOk \/ Promote \/ TakeOperand

LEMMA MovesScan == ASSUME IndInv, IndInv', Moves PROVE Contract!Scan
<1>1. Wanted \in Nat /\ pos \in Nat
  BY WantedBytes DEF IndInv, TypeOK
<1>2. CASE TakePrefix \/ EndPrefixes \/ TakeRex \/ NoRex
  BY <1>1, <1>2, ScanStep DEF TakePrefix, EndPrefixes, TakeRex, NoRex, StageOf, input
<1>3. CASE TakeOpcode \/ TakeEscape \/ TakeOpcode3
  BY <1>1, <1>3, ScanStep DEF TakeOpcode, TakeEscape, TakeOpcode3, Take, StageOf, input
<1>4. CASE TakeModrm \/ TakeSib \/ TakeDisp \/ TakeTail
  BY <1>1, <1>4, ScanStep DEF TakeModrm, TakeSib, TakeDisp, TakeTail, Take, StageOf, input
<1>5. CASE DispatchVzeroall \/ DispatchLegacy \/ AcceptSynth
  BY <1>1, <1>5, ScanStep DEF DispatchVzeroall, DispatchLegacy, AcceptSynth, StageOf, input
<1>6. CASE ResolveOk \/ Promote \/ TakeOperand
  BY <1>1, <1>6, ScanStep DEF ResolveOk, Promote, TakeOperand, Take, StageOf, input
<1> QED BY <1>2, <1>3, <1>4, <1>5, <1>6 DEF Moves, TakeField

LEMMA FailRefuses ==
  ASSUME IndInv, IndInv', StageOf \in 3..6, pos >= 1, pos' = pos, NEW v \in {"INVALID", "UNSUPPORTED"}, Fail(v)
  PROVE  Contract!Refuse
BY RefuseStep DEF Fail, Return, input, IndInv, TypeOK

\* Every step of the decoder is a step of the contract or leaves it alone.
LEMMA StepKeepsContract == ASSUME IndInv, IndInv', [Next]_vars PROVE [Contract!Next]_(Contract!vars)
<1>w. Wanted \in Nat /\ pos \in Nat /\ Len(buf) \in Nat /\ pos <= Len(buf)
  BY WantedBytes DEF IndInv, TypeOK, CursorInv
<1>1. CASE RejectArgs
  <2> Contract!Reject
    BY <1>1 DEF RejectArgs, Return, Contract!Reject, StageOf, input
  <2> QED BY DEF Contract!Next
<1>2. CASE Begin
  <2>1. ZeroInsn.length = 0
    BY DEF ZeroInsn
  <2> Contract!Scan
    BY <1>2, <1>w, <2>1 DEF Begin, Contract!Scan, StageOf, input
  <2> QED BY DEF Contract!Next
<1>3. CASE Moves
  BY <1>3, MovesScan DEF Contract!Next
<1>4. CASE RunOut
  <2>1. pc \in {"opcode", "escape", "opcode3", "modrm", "sib", "disp", "tail", "operands"}
    BY <1>4, <1>w DEF RunOut, Wanted, Left
  <2> Contract!Starve
    BY <1>4, <2>1, <1>w DEF RunOut, Return, Contract!Starve, StageOf, input, IndInv, CursorInv
  <2> QED BY DEF Contract!Next
<1>5. CASE DispatchVex
  <2> DEFINE d == DecodeVex(buf, pos - 1)
  <2>1. pos - 1 \in Nat /\ pos - 1 < Len(buf) /\ buf[(pos - 1) + 1] \in {x(C,4), x(C,5)}
    BY <1>w, <1>5 DEF DispatchVex, VexAhead, IndInv, CursorInv
  <2>2. /\ d.status \in {"OK", "NEED_MORE", "INVALID", "UNSUPPORTED"}
        /\ d.pos \in (pos - 1) + 1 .. Len(buf)
        /\ d.status = "NEED_MORE" => d.pos = Len(buf)
    BY <2>1, DecodeVexType DEF IndInv, TypeOK
  <2>3. d.pos \in Nat /\ pos <= d.pos /\ d.pos >= 1
    BY <1>w, <2>1, <2>2
  <2>4. pc = "dispatch" /\ StageOf = 3 /\ UNCHANGED buf
    BY <1>5 DEF DispatchVex, StageOf, input
  <2>5. /\ pos' = d.pos
        /\ \/ d.status = "OK" /\ pc' = "synth" /\ UNCHANGED <<status, insn>>
           \/ d.status # "OK" /\ Return(d.status) /\ insn' = ErrorInsn(d.pos, ZeroRaw)
    BY <1>5 DEF DispatchVex
  <2> HIDE DEF d
  <2>6. CASE d.status = "OK"
    <3> Contract!Scan
      BY <2>3, <2>4, <2>5, <2>6, ScanStep DEF StageOf
    <3> QED BY DEF Contract!Next
  <2>7. CASE d.status = "NEED_MORE"
    <3>1. insn'.length = Contract!Clipped(Len(buf))
      BY <2>2, <2>5, <2>7 DEF ErrorInsn, Contract!Clipped, Contract!MaxInsnLength, MaxInsnLength
    <3> Contract!Starve
      BY <2>2, <2>4, <2>5, <2>7, <3>1 DEF Return, Contract!Starve, StageOf
    <3> QED BY DEF Contract!Next
  <2>8. CASE d.status \in {"INVALID", "UNSUPPORTED"}
    <3> Contract!Refuse
      BY <2>3, <2>4, <2>5, <2>8, RefuseStep DEF Return
    <3> QED BY DEF Contract!Next
  <2> QED BY <2>2, <2>6, <2>7, <2>8
<1>6. CASE DispatchEvex
  <2>1. StageOf = 3 /\ pos >= 1
    BY <1>6 DEF DispatchEvex, StageOf, IndInv, CursorInv
  <2> Contract!Refuse
    BY <1>w, <1>6, <2>1, RefuseStep DEF DispatchEvex, Return, input
  <2> QED BY DEF Contract!Next
<1>7. CASE RejectSynth
  <2>1. StageOf = 3 /\ pos >= 1 /\ pos' = pos /\ Fail("INVALID")
    BY <1>7 DEF RejectSynth, StageOf, IndInv, CursorInv
  <2> QED BY <2>1, FailRefuses DEF Contract!Next
<1>8. CASE ResolveFails
  <2>1. Resolved \in Resolution
    BY ResolveVexType, ResolveCryptoType, ResolveEntryType DEF Resolved, IndInv, TypeOK, Entry, Raw
  <2>2. StageOf = 5 /\ pos >= 1 /\ pos' = pos /\ Fail(Resolved.status) /\ Resolved.status # "OK"
    BY <1>8 DEF ResolveFails, StageOf, IndInv, CursorInv
  <2>3. Resolved.status \in {"INVALID", "UNSUPPORTED"}
    BY <2>1, <2>2 DEF Resolution
  <2> QED BY <2>2, <2>3, FailRefuses DEF Contract!Next
<1>9. CASE TooLong
  <2>1. StageOf = 6 /\ pos >= 1 /\ pos' = pos /\ Fail("INVALID")
    BY <1>9 DEF TooLong, StageOf, IndInv, CursorInv
  <2> QED BY <2>1, FailRefuses DEF Contract!Next
<1>10. CASE Finish
  <2>1. pc = "operands" /\ pos >= 1 /\ pos <= 15
    BY <1>10, <1>w DEF Finish, MaxInsnLength, IndInv, CursorInv
  <2>2. insn'.length = pos /\ pc' = "done" /\ status' = "OK" /\ UNCHANGED <<buf, pos>>
    BY <1>10 DEF Finish, Return, input
  <2> Contract!Accept
    BY <1>w, <2>1, <2>2 DEF Contract!Accept, Contract!MaxInsnLength, StageOf
  <2> QED BY DEF Contract!Next
<1>11. CASE UNCHANGED vars
  BY <1>11 DEF vars, Contract!vars, StageOf
<1> QED BY <1>1, <1>2, <1>3, <1>4, <1>5, <1>6, <1>7, <1>8, <1>9, <1>10, <1>11 DEF Next, Moves, Dispatch

\* The decoder implements the caller's contract (DecodeContract) for every
\* buffer: it never reads past the end, an accepted instruction is 1 to 15
\* bytes long and is what was read, a refused one consumed a byte at least,
\* and NEED_MORE has used up the whole buffer.
THEOREM ContractKept == Spec => KeepsContract
<1>1. Init /\ IndInv => Contract!Init
  BY InitKeepsContract
<1>2. IndInv /\ IndInv' /\ [Next]_vars => [Contract!Next]_(Contract!vars)
  BY StepKeepsContract
<1> QED BY <1>1, <1>2, Inductive, PTL DEF Spec, KeepsContract, Contract!Spec

---------------------------------------------------------------------------
\* Running out of bytes

\* While a call scans, the caller's instruction is cleared; a legacy opcode is
\* not the start of a VEX prefix, and behind a VEX prefix its bytes are there.
BytesSeen ==
  /\ pc \notin {"call", "done"} => insn = ZeroInsn
  /\ form = "LEGACY" /\ pc \notin OpeningPcs \cup {"opcode", "dispatch", "done"} => ~VexBegun(raw.opcodeOffset)
  /\ pc = "dispatch" /\ map # 0 => ~VexBegun(raw.opcodeOffset)
  /\ form # "LEGACY" => VexComplete(buf, raw.opcodeOffset)
Starving == BytesSeen /\ StarvedTellsLength

\* The byte at the offset decides whether a VEX prefix begins there.
LEMMA NoVexBegun ==
  ASSUME NEW offset, ~Is64 \/ offset = Len(buf) \/ buf[offset + 1] \notin {x(C,4), x(C,5)}, Len(buf) \in Nat
  PROVE  ~VexBegun(offset)
BY DEF VexBegun

LEMMA InitStarving == ASSUME Init PROVE Starving
BY DEF Init, Starving, BytesSeen, StarvedTellsLength, OpeningPcs

\* What a step needs not disturb to keep the part about the prefix.
LEMMA SameStarving ==
  ASSUME BytesSeen, UNCHANGED <<decoder, buf, form>>, raw'.opcodeOffset = raw.opcodeOffset,
         pc' \notin {"call", "done"} => insn' = ZeroInsn,
         pc' = "done" => status' # "NEED_MORE",
         pc' \in OpeningPcs \cup {"opcode", "done"} \/ (pc \notin OpeningPcs \cup {"opcode", "dispatch", "done"}
                                                       /\ (pc' # "dispatch" \/ form = "LEGACY"))
  PROVE  Starving'
BY DEF Starving, BytesSeen, StarvedTellsLength, VexBegun, VexComplete, VexBytes, Is64, OpeningPcs

LEMMA StepStarving == ASSUME IndInv, LengthInv, Starving, [Next]_vars PROVE Starving'
<1>t. /\ pos \in Nat /\ Len(buf) \in Nat /\ pos <= Len(buf) /\ raw \in Raw /\ Wanted \in Nat
      /\ BytesSeen /\ pc \in PcSet
  BY WantedBytes DEF IndInv, TypeOK, CursorInv, Starving
<1>z. pc \notin {"call", "done"} => insn = ZeroInsn
  BY <1>t DEF BytesSeen
<1> USE DEF input, work, OpeningPcs
<1>1. CASE RejectArgs
  BY <1>1, <1>t, SameStarving DEF RejectArgs, Return
<1>2. CASE Begin
  BY <1>2, <1>t, SameStarving DEF Begin
<1>3. CASE TakePrefix \/ EndPrefixes
  <2>1. raw'.opcodeOffset = raw.opcodeOffset
    BY <1>3, <1>t DEF TakePrefix, AddPrefix, EndPrefixes, Raw
  <2> QED BY <1>3, <1>t, <1>z, <2>1, SameStarving DEF TakePrefix, EndPrefixes
<1>4. CASE TakeRex \/ NoRex
  <2>1. form = "LEGACY" /\ form' = "LEGACY" /\ pc' = "opcode" /\ insn' = ZeroInsn
    BY <1>4, <1>z DEF TakeRex, NoRex, LengthInv, Unread
  <2> QED BY <2>1 DEF Starving, BytesSeen, StarvedTellsLength
<1>5. CASE TakeOpcode
  <2>1. /\ form = "LEGACY" /\ pos = raw.opcodeOffset /\ map = 0
        /\ UNCHANGED <<decoder, buf, raw, map, form>> /\ insn' = ZeroInsn
        /\ pc' = "dispatch" \/ (pc' = "escape" /\ buf[pos + 1] = x(0,F))
    BY <1>5, <1>z DEF TakeOpcode, Next1, LengthInv, Unread, OpcodeRead, OpcodePcs, IndInv, CursorInv
  <2>2. x(0,F) \notin {x(C,4), x(C,5)}
    BY DEF x, C, F
  <2>3. pc' = "escape" => ~VexBegun(raw.opcodeOffset)
    BY <1>t, <2>1, <2>2, NoVexBegun
  <2>4. pc' = "escape" => ~VexBegun(raw.opcodeOffset)'
    BY <2>1, <2>3 DEF VexBegun, Is64
  <2> QED BY <2>1, <2>4 DEF Starving, BytesSeen, StarvedTellsLength
<1>6. CASE TakeEscape \/ TakeOpcode3
  <2>1. form = "LEGACY"
    BY <1>6 DEF TakeEscape, TakeOpcode3, LengthInv, Unread, OpcodePcs
  <2> QED BY <1>6, <1>t, <1>z, <2>1, SameStarving DEF TakeEscape, TakeOpcode3
<1>7. CASE TakeModrm \/ TakeSib \/ TakeDisp \/ TakeTail
  <2>1. raw'.opcodeOffset = raw.opcodeOffset
    BY <1>7, <1>t DEF TakeModrm, TakeSib, TakeDisp, TakeTail, Raw
  <2> QED BY <1>7, <1>t, <1>z, <2>1, SameStarving DEF TakeModrm, TakeSib, TakeDisp, TakeTail
<1>8. CASE RunOut
  <2>1. pc \in {"opcode", "escape", "opcode3", "modrm", "sib", "disp", "tail", "operands"}
    BY <1>8, <1>t DEF RunOut, Wanted, Left
  <2>2. UNCHANGED <<decoder, buf, raw, form, insn>> /\ pc' = "done" /\ insn = ZeroInsn
    BY <1>8, <1>z, <2>1 DEF RunOut, Return
  <2>3. pc = "opcode" => raw.opcodeOffset = Len(buf)
    BY <1>8, <1>t DEF RunOut, Wanted, Left, LengthInv, OpcodeRead
  <2>4. ~(VexBegun(raw.opcodeOffset) /\ ~VexComplete(buf, raw.opcodeOffset))
    BY <1>t, <2>1, <2>3, NoVexBegun DEF BytesSeen
  <2>5. insn' = ZeroInsn
        /\ ~(VexBegun(raw.opcodeOffset) /\ ~VexComplete(buf, raw.opcodeOffset))'
    BY <2>2, <2>4 DEF VexBegun, VexComplete, VexBytes, Is64
  <2>6. form' # "LEGACY" => VexComplete(buf, raw.opcodeOffset)'
    BY <1>t, <2>2 DEF BytesSeen, VexComplete, VexBytes
  <2> QED BY <2>2, <2>5, <2>6 DEF Starving, BytesSeen, StarvedTellsLength, ZeroInsn
<1>9. CASE DispatchVzeroall \/ DispatchVex
  <2> DEFINE offset == raw.opcodeOffset
             d == DecodeVex(buf, offset)
  <2>1. /\ pc = "dispatch" /\ VexAhead /\ form = "LEGACY" /\ offset \in Nat
        /\ pos = offset + 1 /\ buf[offset + 1] = opcode /\ pos - 1 = offset
    BY <1>9, <1>t DEF DispatchVzeroall, DispatchVex, VexAhead, LengthInv, Unread, OpcodeRead, OpcodePcs,
                      OpcodeBytes, Raw
  <2>2. UNCHANGED <<decoder, buf, raw, map>>
    BY <1>9 DEF DispatchVzeroall, DispatchVex
  <2>3. VexBegun(offset)
    BY <1>t, <2>1 DEF VexBegun, VexAhead
  <2>4. CASE DispatchVzeroall
    <3>1. VexComplete(buf, offset)
      <4>1. Left >= 3
        BY <2>4 DEF DispatchVzeroall, VzeroallAhead
      <4>2. offset + 4 <= Len(buf)
        BY <1>t, <2>1, <4>1 DEF Left
      <4>3. VexBytes(buf, offset) \in {3, 4}
        BY DEF VexBytes
      <4> QED BY <1>t, <2>1, <4>2, <4>3 DEF VexComplete
    <3>2. VexComplete(buf, offset)'
      BY <2>2, <3>1 DEF VexComplete, VexBytes
    <3>3. pc' = "synth" /\ form' = "VZEROALL" /\ insn' = ZeroInsn
      BY <1>z, <2>1, <2>4 DEF DispatchVzeroall
    <3> QED BY <3>2, <3>3 DEF Starving, BytesSeen, StarvedTellsLength
  <2>5. CASE DispatchVex
    <3>1. /\ d.status = "OK" => VexComplete(buf, offset)
          /\ d.status = "NEED_MORE" => ~VexComplete(buf, offset) /\ d.pos = Len(buf)
      <4> DEFINE e == VexEntry(IF buf[offset + 1] = x(C,4)
                               THEN LongForm(buf[offset + 2], buf[offset + 3], buf[offset + 4])
                               ELSE ShortForm(buf[offset + 2], buf[offset + 3]), buf[offset + 1] = x(C,4))
      <4>1. d.status = IF VexComplete(buf, offset) THEN e.status ELSE "NEED_MORE"
        BY DEF DecodeVex
      <4>2. e \in Resolution
        BY VexEntryType
      <4>3. ~VexComplete(buf, offset) => d.pos = Len(buf)
        BY DEF DecodeVex
      <4> HIDE DEF d, e
      <4> QED BY <4>1, <4>2, <4>3 DEF Resolution
    <3>2. \/ d.status = "OK" /\ form' = "VEX" /\ pc' = "synth" /\ insn' = insn
          \/ d.status # "OK" /\ Return(d.status) /\ insn' = ErrorInsn(d.pos, ZeroRaw) /\ form' = form
      BY <2>1, <2>5 DEF DispatchVex
    <3> HIDE DEF d
    <3>3. CASE d.status = "OK"
      <4>1. VexComplete(buf, offset)'
        BY <2>2, <3>1, <3>3 DEF VexComplete, VexBytes
      <4> QED BY <1>z, <2>1, <3>2, <3>3, <4>1 DEF Starving, BytesSeen, StarvedTellsLength
    <3>4. CASE d.status = "NEED_MORE"
      <4>1. VexBegun(offset)' /\ ~VexComplete(buf, offset)'
        BY <2>2, <2>3, <3>1, <3>4 DEF VexBegun, Is64, VexComplete, VexBytes
      <4>2. insn' = ErrorInsn(Len(buf), ZeroRaw) /\ pc' = "done" /\ form' = "LEGACY"
        BY <2>1, <3>1, <3>2, <3>4 DEF Return
      <4>3. /\ insn'.mn = "NONE" /\ insn'.operandCount = 0 /\ insn'.raw = ZeroRaw
            /\ insn'.length = Contract!Clipped(Len(buf))
        BY <4>2 DEF ErrorInsn, Contract!Clipped, Contract!MaxInsnLength, MaxInsnLength
      <4>4. StarvedTellsLength'
        BY <2>2, <4>1, <4>3 DEF StarvedTellsLength, Contract!Clipped
      <4> QED BY <4>2, <4>4 DEF Starving, BytesSeen
    <3>5. CASE d.status \notin {"OK", "NEED_MORE"}
      BY <2>1, <3>2, <3>5 DEF Return, Starving, BytesSeen, StarvedTellsLength
    <3> QED BY <3>3, <3>4, <3>5
  <2> QED BY <1>9, <2>4, <2>5
<1>10. CASE DispatchEvex
  BY <1>10, <1>t, SameStarving DEF DispatchEvex, Return
<1>11. CASE DispatchLegacy
  <2>1. /\ pc = "dispatch" /\ ~VexAhead /\ form = "LEGACY"
        /\ UNCHANGED <<decoder, buf, raw, form>> /\ pc' \in {"modrm", "resolve"} /\ insn' = ZeroInsn
    BY <1>11, <1>z DEF DispatchLegacy, LengthInv, Unread, OpcodePcs
  <2>2. ~VexBegun(raw.opcodeOffset)
    <3>1. CASE map = 0
      <4>1. buf[raw.opcodeOffset + 1] = opcode
        BY <2>1, <3>1 DEF LengthInv, OpcodeRead
      <4> QED BY <1>t, <2>1, <3>1, <4>1, NoVexBegun DEF VexAhead
    <3>2. CASE map # 0
      BY <1>t, <2>1, <3>2 DEF BytesSeen
    <3> QED BY <3>1, <3>2
  <2>3. ~VexBegun(raw.opcodeOffset)'
    BY <2>1, <2>2 DEF VexBegun, Is64
  <2> QED BY <2>1, <2>3 DEF Starving, BytesSeen, StarvedTellsLength
<1>12. CASE AcceptSynth \/ ResolveOk
  BY <1>12, <1>t, <1>z, SameStarving DEF AcceptSynth, ResolveOk
<1>13. CASE Promote \/ TakeOperand
  <2>1. raw'.opcodeOffset = raw.opcodeOffset
    BY <1>13, <1>t DEF Promote, TakeOperand, Raw
  <2> QED BY <1>13, <1>t, <1>z, <2>1, SameStarving DEF Promote, TakeOperand
<1>14. CASE RejectSynth \/ TooLong \/ Finish
  BY <1>14, <1>t, SameStarving DEF RejectSynth, TooLong, Finish, Fail, Return
<1>15. CASE ResolveFails
  <2>1. Resolved \in Resolution
    BY ResolveVexType, ResolveCryptoType, ResolveEntryType DEF Resolved, IndInv, TypeOK, Entry, Raw
  <2> HIDE DEF Resolved
  <2>2. Resolved.status # "NEED_MORE"
    BY <2>1 DEF Resolution
  <2> QED BY <1>15, <1>t, <2>2, SameStarving DEF ResolveFails, Fail, Return
<1>16. CASE UNCHANGED vars
  BY <1>16 DEF vars, Starving, BytesSeen, StarvedTellsLength, VexBegun, VexComplete, VexBytes, Is64
<1> QED BY <1>1, <1>2, <1>3, <1>4, <1>5, <1>6, <1>7, <1>8, <1>9, <1>10, <1>11, <1>12, <1>13, <1>14, <1>15, <1>16
        DEF Next, TakeField, Dispatch

\* For every buffer, the length that comes with NEED_MORE tells whether the
\* bytes ran out within a VEX prefix and its opcode (then it is the bytes
\* given) or anywhere else (then it is 0), and nothing else is told.
THEOREM StarvedLength == Spec => []StarvedTellsLength
<1>1. Init => Starving
  BY InitStarving
<1>2. IndInv /\ LengthInv /\ Starving /\ [Next]_vars => Starving'
  BY StepStarving
<1>3. Starving => StarvedTellsLength
  BY DEF Starving
<1> QED BY <1>1, <1>2, <1>3, Inductive, LedgerKept, PTL DEF Spec
=============================================================================
