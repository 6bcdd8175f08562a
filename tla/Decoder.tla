------------------------------ MODULE Decoder ------------------------------
(***************************************************************************)
(* x86dec_decode_insn (src/decode/decoder.c) as a state machine: one call  *)
(* on one buffer.  The cursor moves left to right over prefixes, REX,      *)
(* opcode, VEX prefix, ModRM, SIB, displacement, tail byte, memory offset  *)
(* and immediates; any step may run out of bytes, and any step may refuse  *)
(* the encoding.  Every field that has no influence on control is left     *)
(* out: the values of displacements and immediates, the mnemonic's         *)
(* identity, the fixed registers of an entry.                              *)
(***************************************************************************)
EXTENDS Resolve, Vex

CONSTANTS Buffers,   \* the buffers a caller may pass
          Decoders   \* the initialised decoders a caller may hold

MaxPrefixes   == 8
\* Mutant: one byte too generous.
MaxInsnLength16 == 16
MaxInsnLength == 15

Mode == {"LONG_64", "COMPAT_32", "COMPAT_16", "LEGACY_32", "LEGACY_16", "REAL_16"}
Decoder == [mode : Mode, width : {16, 32, 64}]

\* x86dec_decoder_init: the stack is 64 bits wide in 64-bit mode and only there.
InitAccepts(d) == d.mode = "LONG_64" <=> d.width = 64

ASSUME BuffersAssumption  == Buffers \subseteq Seq(Byte)
ASSUME DecodersAssumption == Decoders \subseteq {d \in Decoder : InitAccepts(d)}

\* The part of a call's working set that ends up in insn->raw; a segment is
\* the prefix byte that set it, 0 when there was none.
Raw == [count : 0..MaxPrefixes, lock : BOOLEAN, rep : BOOLEAN, repne : BOOLEAN, segment : Byte,
        osz : BOOLEAN, asz : BOOLEAN, hasRex : BOOLEAN, rex : Byte, opcodeOffset : Nat,
        hasModrm : BOOLEAN, modrm : Byte, modrmOffset : Nat, hasSib : BOOLEAN, sib : Byte,
        dispSize : {0, 1, 2, 4}, hasMoffs : BOOLEAN, immSize : Nat]
ZeroRaw == [count |-> 0, lock |-> FALSE, rep |-> FALSE, repne |-> FALSE, segment |-> 0,
            osz |-> FALSE, asz |-> FALSE, hasRex |-> FALSE, rex |-> 0, opcodeOffset |-> 0,
            hasModrm |-> FALSE, modrm |-> 0, modrmOffset |-> 0, hasSib |-> FALSE, sib |-> 0,
            dispSize |-> 0, hasMoffs |-> FALSE, immSize |-> 0]

Width == {16, 32, 64}
Entry == [mn : Mnemonic, shapes : OperandLists]
NoEntry == [mn |-> "NONE", shapes |-> <<>>]

\* What the caller gets back: X86decInsn and X86decContext.
Insn == [length : Nat, map : 0..31, opcode : Byte, mn : Mnemonic, operandWidth : Width \cup {0},
         addressWidth : Width \cup {0}, operandCount : Nat, raw : Raw]
ZeroInsn == [length |-> 0, map |-> 0, opcode |-> 0, mn |-> "NONE", operandWidth |-> 0,
             addressWidth |-> 0, operandCount |-> 0, raw |-> ZeroRaw]
Context == [eosz : Width \cup {0}, easz : Width \cup {0}, entry : Entry, raw : Raw,
            length : Nat, isVex : BOOLEAN, vex : VexFields]
ZeroContext == [eosz |-> 0, easz |-> 0, entry |-> NoEntry, raw |-> ZeroRaw,
                length |-> 0, isVex |-> FALSE, vex |-> NoVexFields]
\* The caller's structures before the call hold anything; 255 is a length no
\* call returns, and the context is one of an earlier call.
CallerInsn    == [ZeroInsn EXCEPT !.length = 255]
StaleEntry    == [mn |-> "INSN", shapes |-> <<"IMM8", "REL8">>]
CallerContext == [ZeroContext EXCEPT !.length = 255, !.entry = StaleEntry]

VARIABLES
  decoder, buf,     \* the arguments
  pc, pos,          \* the next step, and how many bytes the cursor is past
  raw, eosz, easz,  \* fields read so far, operand and address size
  map, opcode,      \* the opcode and its map
  tail,             \* the opcode byte of a 3DNow! instruction
  form, vex,        \* which front-end filled the entry, and its VEX fields
  entry, k,         \* the entry, and the operand whose immediate is next
  status, insn, context  \* the results
input == <<decoder, buf>>
work  == <<raw, eosz, easz, map, opcode, tail, form, vex, entry, k>>
vars  == <<decoder, buf, pc, pos, raw, eosz, easz, map, opcode, tail, form, vex, entry, k,
           status, insn, context>>

Is64 == decoder.mode = "LONG_64"
DefaultEosz == IF decoder.width = 16 THEN 16 ELSE 32
DefaultEasz == IF Is64 THEN 64 ELSE DefaultEosz

\* Mutant: the last byte of the buffer is never used.
LeftShort == Len(buf) - pos - 1
Left == Len(buf) - pos
Next1 == buf[pos + 1]

---------------------------------------------------------------------------
\* Immediates

\* shape_imm_bytes, and the memory offset that is read in the same loop.
ShapeImmBytes(shape, osize) ==
  CASE shape \in {"IMM8", "REL8"} -> 1
    [] shape = "IMM16" -> 2
    [] shape \in {"IMM_V", "IMM_VS", "REL_V"} -> IF osize = 16 THEN 2 ELSE 4
    [] shape = "IMM_V64" -> osize \div 8
    [] OTHER -> 0
\* Mutant: sizes an immediate by the address size.
ImmBytesByAddress(shape, osize, asize) ==
  IF shape = "MOFFS" THEN asize \div 8 ELSE ShapeImmBytes(shape, asize)
OperandBytes(shape, osize, asize) ==
  IF shape = "MOFFS" THEN asize \div 8 ELSE ShapeImmBytes(shape, osize)

\* How many bytes the step at pc takes from the buffer.
Wanted ==
  CASE pc \in {"opcode", "escape", "opcode3", "modrm", "sib", "tail"} -> 1
    [] pc = "disp" -> raw.dispSize
    [] pc = "operands" /\ k <= Len(entry.shapes) -> OperandBytes(entry.shapes[k], eosz, easz)
    [] OTHER -> 0

\* x86dec_take, for all the bytes of a field at once.  Mutant: only the first.
TakeFirst == Wanted <= Left /\ pos' = pos + 1
Take == Wanted <= Left /\ pos' = pos + Wanted

---------------------------------------------------------------------------
\* Leaving the call

Return(verdict) == pc' = "done" /\ status' = verdict

\* fill_error, with or without the raw fields.
ErrorInsn(consumed, fields) ==
  [length |-> IF consumed > MaxInsnLength THEN MaxInsnLength ELSE consumed,
   map |-> map, opcode |-> opcode, mn |-> "NONE", operandWidth |-> 0, addressWidth |-> 0,
   operandCount |-> 0, raw |-> fields]
Fail(verdict) ==
  /\ Return(verdict)
  /\ insn' = ErrorInsn(pos', raw)
  /\ UNCHANGED <<input, work, context>>

\* Any x86dec_take that finds no byte.  Mutant: calls the instruction invalid.
RunOutInvalid ==
  /\ Wanted > Left
  /\ pos' = Len(buf)
  /\ Return("INVALID")
  /\ UNCHANGED <<input, work, insn, context>>
\* Mutant: fills the error as the VEX front-end does.
RunOutFilled ==
  /\ Wanted > Left
  /\ pos' = Len(buf)
  /\ Fail("NEED_MORE")
RunOut ==
  /\ Wanted > Left
  /\ pos' = Len(buf)
  /\ Return("NEED_MORE")
  /\ UNCHANGED <<input, work, insn, context>>

---------------------------------------------------------------------------
\* Prefixes and REX

Init ==
  /\ decoder \in Decoders
  /\ buf \in Buffers
  /\ pc = "call" /\ pos = 0
  /\ raw = ZeroRaw /\ eosz = DefaultEosz /\ easz = DefaultEasz
  /\ map = 0 /\ opcode = 0 /\ tail = 0
  /\ form = "LEGACY" /\ vex = NoVexFields
  /\ entry = NoEntry /\ k = 1
  /\ status = "NONE" /\ insn = CallerInsn /\ context = CallerContext

\* A further call with the same decoder: its working set starts over, the
\* caller's structures hold what the last call left in them.
\* Mutant: a prefix seen once is seen for ever.
NewCallSticky(bytes) ==
  /\ buf' = bytes
  /\ pc' = "call" /\ pos' = 0 /\ status' = "NONE"
  /\ raw' = [ZeroRaw EXCEPT !.osz = raw.osz, !.rep = raw.rep] /\ eosz' = DefaultEosz /\ easz' = DefaultEasz
  /\ map' = 0 /\ opcode' = 0 /\ tail' = 0
  /\ form' = "LEGACY" /\ vex' = NoVexFields
  /\ entry' = NoEntry /\ k' = 1
  /\ UNCHANGED <<decoder, insn, context>>
NewCall(bytes) ==
  /\ buf' = bytes
  /\ pc' = "call" /\ pos' = 0 /\ status' = "NONE"
  /\ raw' = ZeroRaw /\ eosz' = DefaultEosz /\ easz' = DefaultEasz
  /\ map' = 0 /\ opcode' = 0 /\ tail' = 0
  /\ form' = "LEGACY" /\ vex' = NoVexFields
  /\ entry' = NoEntry /\ k' = 1
  /\ UNCHANGED <<decoder, insn, context>>

\* A call without bytes touches nothing.
RejectArgs ==
  /\ pc = "call" /\ buf = <<>>
  /\ Return("BAD_ARG")
  /\ UNCHANGED <<input, pos, work, insn, context>>

\* Mutant: does not clear the context.
BeginStale ==
  /\ pc = "call" /\ buf # <<>>
  /\ pc' = "prefix"
  /\ insn' = ZeroInsn
  /\ UNCHANGED <<input, pos, work, status, context>>
Begin ==
  /\ pc = "call" /\ buf # <<>>
  /\ pc' = "prefix"
  /\ insn' = ZeroInsn /\ context' = ZeroContext
  /\ UNCHANGED <<input, pos, work, status>>

SegmentPrefixes == {x(2,E), x(3,6), x(3,E), x(2,6), x(6,4), x(6,5)}
Prefixes == SegmentPrefixes \cup {x(F,0), x(F,3), x(F,2), x(6,6), x(6,7)}

AddPrefix(r, byte) ==
  [r EXCEPT !.count = @ + 1,
            !.lock = @ \/ byte = x(F,0), !.rep = @ \/ byte = x(F,3), !.repne = @ \/ byte = x(F,2),
            !.osz = @ \/ byte = x(6,6),  !.asz = @ \/ byte = x(6,7),
            !.segment = IF byte \in SegmentPrefixes THEN byte ELSE @]

\* Mutants: no limit, and a limit that lets a ninth prefix in.
PrefixesUnlimited == Left > 0 /\ Next1 \in Prefixes
PrefixesToNine    == Left > 0 /\ raw.count <= MaxPrefixes /\ Next1 \in Prefixes
MorePrefixes == Left > 0 /\ raw.count < MaxPrefixes /\ Next1 \in Prefixes

TakePrefix ==
  /\ pc = "prefix" /\ MorePrefixes
  /\ raw' = AddPrefix(raw, Next1)
  /\ pos' = pos + 1
  /\ UNCHANGED <<input, pc, eosz, easz, map, opcode, tail, form, vex, entry, k, status, insn, context>>

\* 66 and 67 switch the sizes; in 64-bit mode 67 means 32-bit addresses.
Toggle(size) == IF size = 16 THEN 32 ELSE 16
EndPrefixes ==
  /\ pc = "prefix" /\ ~MorePrefixes
  /\ eosz' = IF ~raw.osz THEN eosz ELSE IF Is64 THEN 16 ELSE Toggle(eosz)
  /\ easz' = IF ~raw.asz THEN easz ELSE IF Is64 THEN 32 ELSE Toggle(easz)
  /\ pc' = "rex"
  /\ UNCHANGED <<input, pos, raw, map, opcode, tail, form, vex, entry, k, status, insn, context>>

\* Mutant: REX in every mode.
RexAnyMode == Left > 0 /\ Next1 \in Line(4)
RexFollows == Is64 /\ Left > 0 /\ Next1 \in Line(4)

TakeRex ==
  /\ pc = "rex" /\ RexFollows
  /\ pos' = pos + 1
  /\ raw' = [raw EXCEPT !.hasRex = TRUE, !.rex = Next1, !.opcodeOffset = pos + 1]
  /\ eosz' = IF BitSet(Next1, 8) THEN 64 ELSE eosz
  /\ pc' = "opcode"
  /\ UNCHANGED <<input, easz, map, opcode, tail, form, vex, entry, k, status, insn, context>>

\* Mutant: the opcode offset is set only behind a REX prefix.
NoRexNoOffset ==
  /\ pc = "rex" /\ ~RexFollows
  /\ pc' = "opcode"
  /\ UNCHANGED <<input, pos, raw, eosz, easz, map, opcode, tail, form, vex, entry, k, status, insn, context>>
NoRex ==
  /\ pc = "rex" /\ ~RexFollows
  /\ raw' = [raw EXCEPT !.opcodeOffset = pos]
  /\ pc' = "opcode"
  /\ UNCHANGED <<input, pos, eosz, easz, map, opcode, tail, form, vex, entry, k, status, insn, context>>

---------------------------------------------------------------------------
\* Opcode and map

TakeOpcode ==
  /\ pc = "opcode" /\ Take
  /\ opcode' = Next1
  /\ pc' = IF Next1 = x(0,F) THEN "escape" ELSE "dispatch"
  /\ UNCHANGED <<input, raw, eosz, easz, map, tail, form, vex, entry, k, status, insn, context>>

\* After 0F: 38 and 3A announce a third opcode byte.
TakeEscape ==
  /\ pc = "escape" /\ Take
  /\ \/ Next1 = x(3,8) /\ map' = 2 /\ pc' = "opcode3" /\ UNCHANGED opcode
     \/ Next1 = x(3,A) /\ map' = 3 /\ pc' = "opcode3" /\ UNCHANGED opcode
     \/ Next1 \notin {x(3,8), x(3,A)} /\ map' = 1 /\ pc' = "dispatch" /\ opcode' = Next1
  /\ UNCHANGED <<input, raw, eosz, easz, tail, form, vex, entry, k, status, insn, context>>

TakeOpcode3 ==
  /\ pc = "opcode3" /\ Take
  /\ opcode' = Next1
  /\ pc' = "dispatch"
  /\ UNCHANGED <<input, raw, eosz, easz, map, tail, form, vex, entry, k, status, insn, context>>

\* The one encoding of VZEROALL that is recognised before the VEX front-end.
VzeroallAhead ==
  /\ opcode = x(C,4) /\ Left >= 3
  /\ buf[pos + 1] = x(E,1) /\ buf[pos + 2] = x(7,C) /\ buf[pos + 3] = x(C,0)
VexAhead == Is64 /\ map = 0 /\ opcode \in {x(C,4), x(C,5)}

DispatchVzeroall ==
  /\ pc = "dispatch" /\ VexAhead /\ VzeroallAhead
  /\ pos' = pos + 3
  /\ form' = "VZEROALL" /\ entry' = [mn |-> "INSN", shapes |-> <<>>]
  /\ pc' = "synth"
  /\ UNCHANGED <<input, raw, eosz, easz, map, opcode, tail, vex, k, status, insn, context>>

\* The cursor steps back onto C4 or C5 for x86dec_decode_vex.  When that
\* fails, even for want of bytes, the error is filled without raw fields.
DispatchVex ==
  /\ pc = "dispatch" /\ VexAhead /\ ~VzeroallAhead
  /\ LET d == DecodeVex(buf, pos - 1)
     IN  /\ pos' = d.pos
         /\ \/ /\ d.status = "OK"
               /\ form' = "VEX" /\ vex' = d.vex /\ entry' = [mn |-> d.mn, shapes |-> d.shapes]
               /\ pc' = "synth"
               /\ UNCHANGED <<status, insn>>
            \/ /\ d.status # "OK"
               /\ Return(d.status)
               /\ insn' = ErrorInsn(d.pos, ZeroRaw)
               /\ UNCHANGED <<form, vex, entry>>
  /\ UNCHANGED <<input, raw, eosz, easz, map, opcode, tail, k, context>>

\* EVEX is not supported.
EvexAhead == Is64 /\ map = 0 /\ opcode = x(6,2)
DispatchEvex ==
  /\ pc = "dispatch" /\ EvexAhead
  /\ Return("UNSUPPORTED")
  /\ insn' = ErrorInsn(pos, ZeroRaw)
  /\ UNCHANGED <<input, pos, work, context>>

HasModrm == map >= 2 \/ (IF map = 1 THEN Map1 ELSE Map0)[opcode].modrm
DispatchLegacy ==
  /\ pc = "dispatch" /\ ~VexAhead /\ ~EvexAhead
  /\ pc' = IF HasModrm THEN "modrm" ELSE "resolve"
  /\ UNCHANGED <<input, pos, work, status, insn, context>>

\* LOCK and REX do not go with VEX.
RejectSynth ==
  /\ pc = "synth" /\ (raw.lock \/ raw.hasRex)
  /\ pos' = pos
  /\ Fail("INVALID")
AcceptSynth ==
  /\ pc = "synth" /\ ~raw.lock /\ ~raw.hasRex
  /\ pc' = IF entry.shapes = <<>> THEN "promote" ELSE "modrm"
  /\ UNCHANGED <<input, pos, work, status, insn, context>>

---------------------------------------------------------------------------
\* The ModRM tail (x86dec_scan_tail)

\* With a SIB byte its base field stands in for rm.
DispSize(modrm, base, asize) ==
  CASE ModOf(modrm) = 3 -> 0
    [] ModOf(modrm) = 1 -> 1
    [] ModOf(modrm) = 2 -> IF asize = 16 THEN 2 ELSE 4
    [] OTHER -> IF asize = 16 THEN (IF base = 6 THEN 2 ELSE 0) ELSE (IF base = 5 THEN 4 ELSE 0)
SibFollows(modrm, asize) == ModOf(modrm) # 3 /\ asize # 16 /\ RmOf(modrm) = 4

TakeModrm ==
  /\ pc = "modrm" /\ Take
  /\ raw' = [raw EXCEPT !.hasModrm = TRUE, !.modrm = Next1, !.modrmOffset = pos,
                        !.dispSize = IF SibFollows(Next1, easz) THEN 0
                                     ELSE DispSize(Next1, RmOf(Next1), easz)]
  /\ pc' = IF SibFollows(Next1, easz) THEN "sib" ELSE "disp"
  /\ UNCHANGED <<input, eosz, easz, map, opcode, tail, form, vex, entry, k, status, insn, context>>

TakeSib ==
  /\ pc = "sib" /\ Take
  /\ raw' = [raw EXCEPT !.hasSib = TRUE, !.sib = Next1,
                        !.dispSize = DispSize(raw.modrm, RmOf(Next1), easz)]
  /\ pc' = "disp"
  /\ UNCHANGED <<input, eosz, easz, map, opcode, tail, form, vex, entry, k, status, insn, context>>

\* 3DNow! has its opcode behind the tail.
TailFollows == form = "LEGACY" /\ map = 1 /\ opcode = x(0,F)
TakeDisp ==
  /\ pc = "disp" /\ Take
  /\ pc' = IF TailFollows THEN "tail" ELSE "resolve"
  /\ UNCHANGED <<input, work, status, insn, context>>

TakeTail ==
  /\ pc = "tail" /\ Take
  /\ tail' = Next1
  /\ pc' = "resolve"
  /\ UNCHANGED <<input, raw, eosz, easz, map, opcode, form, vex, entry, k, status, insn, context>>

---------------------------------------------------------------------------
\* Resolving, sizes and immediates

Flags ==
  [is64 |-> Is64, eosz |-> eosz, easz |-> easz, f3 |-> raw.rep, f2 |-> raw.repne, p66 |-> raw.osz,
   rexW |-> raw.hasRex /\ BitSet(raw.rex, 8), rexB |-> raw.hasRex /\ BitSet(raw.rex, 1)]

Resolved ==
  CASE form # "LEGACY" -> ResolveVex(entry, vex, raw.modrm)
    [] form = "LEGACY" /\ map >= 2 -> ResolveCrypto(map, opcode, raw.modrm, Flags)
    [] OTHER -> ResolveEntry(map, opcode, raw.modrm, tail, Flags)

ResolveOk ==
  /\ pc = "resolve" /\ Resolved.status = "OK"
  /\ entry' = [mn |-> Resolved.mn, shapes |-> Resolved.shapes]
  /\ pc' = "promote"
  /\ UNCHANGED <<input, pos, raw, eosz, easz, map, opcode, tail, form, vex, k, status, insn, context>>

ResolveFails ==
  /\ pc = "resolve" /\ Resolved.status # "OK"
  /\ pos' = pos
  /\ Fail(Resolved.status)

\* Stack operations and MOVQ are 64 bits wide; a prefix that was part of the
\* opcode is no longer a repeat prefix.
\* Mutant: overrides a 66 prefix.
PromotedAlways ==
  IF (Is64 /\ entry.mn \in StackMnemonic) \/ entry.mn = "MOVQ" THEN 64 ELSE eosz
PromotedEosz ==
  IF (Is64 /\ eosz = 32 /\ entry.mn \in StackMnemonic) \/ entry.mn = "MOVQ" THEN 64 ELSE eosz
Promote ==
  /\ pc = "promote"
  /\ eosz' = PromotedEosz
  /\ raw' = [raw EXCEPT !.rep = @ /\ map = 0 /\ entry.mn # "PAUSE", !.repne = @ /\ map = 0]
  /\ pc' = "operands"
  /\ UNCHANGED <<input, pos, easz, map, opcode, tail, form, vex, entry, k, status, insn, context>>

\* Mutant: stays on an operand that has no bytes.
TakeOperandStuck ==
  /\ pc = "operands" /\ k <= Len(entry.shapes) /\ Take
  /\ raw' = IF entry.shapes[k] = "MOFFS" THEN [raw EXCEPT !.hasMoffs = TRUE]
            ELSE [raw EXCEPT !.immSize = @ + Wanted]
  /\ k' = IF Wanted = 0 THEN k ELSE k + 1
  /\ UNCHANGED <<input, pc, eosz, easz, map, opcode, tail, form, vex, entry, status, insn, context>>
TakeOperand ==
  /\ pc = "operands" /\ k <= Len(entry.shapes) /\ Take
  /\ raw' = IF entry.shapes[k] = "MOFFS" THEN [raw EXCEPT !.hasMoffs = TRUE]
            ELSE [raw EXCEPT !.immSize = @ + Wanted]
  /\ k' = k + 1
  /\ UNCHANGED <<input, pc, eosz, easz, map, opcode, tail, form, vex, entry, status, insn, context>>

TooLong ==
  /\ pc = "operands" /\ k > Len(entry.shapes) /\ pos > MaxInsnLength
  /\ pos' = pos
  /\ Fail("INVALID")

\* An entry has room for four operands; without VEX only three shapes reach
\* the context.  A VEX instruction reports the VEX map and opcode.
Finish ==
  /\ pc = "operands" /\ k > Len(entry.shapes) /\ pos <= MaxInsnLength
  /\ Return("OK")
  /\ insn' = [length |-> pos, mn |-> entry.mn, operandWidth |-> eosz, addressWidth |-> easz,
              operandCount |-> Len(entry.shapes), raw |-> raw,
              map |-> IF form = "VEX" THEN vex.map ELSE map,
              opcode |-> IF form = "VEX" THEN vex.op ELSE opcode]
  /\ context' = [eosz |-> eosz, easz |-> easz, raw |-> raw, length |-> pos,
                 isVex |-> form = "VEX", vex |-> vex,
                 entry |-> IF form = "VEX" THEN entry
                           ELSE [entry EXCEPT !.shapes = SubSeq(@, 1, IF Len(@) < 3 THEN Len(@) ELSE 3)]]
  /\ UNCHANGED <<input, pos, work>>

---------------------------------------------------------------------------
TakeField == TakeOpcode \/ TakeEscape \/ TakeOpcode3 \/ TakeModrm \/ TakeSib \/ TakeDisp \/ TakeTail
Dispatch  == DispatchVzeroall \/ DispatchVex \/ DispatchEvex \/ DispatchLegacy

Next ==
  \/ RejectArgs \/ Begin
  \/ TakePrefix \/ EndPrefixes \/ TakeRex \/ NoRex
  \/ TakeField \/ RunOut
  \/ Dispatch \/ RejectSynth \/ AcceptSynth
  \/ ResolveOk \/ ResolveFails
  \/ Promote \/ TakeOperand \/ TooLong \/ Finish

\* The call runs in the caller's thread and waits for nothing.
Spec == Init /\ [][Next]_vars /\ WF_vars(Next)
=============================================================================
