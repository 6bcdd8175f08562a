--------------------------- MODULE RepeatProofs ----------------------------
(***************************************************************************)
(* Callers that call x86dec_decode_insn again and again: with a byte more  *)
(* each time, and from where the last instruction ended.  A call is a      *)
(* function of the decoder and the bytes it reads, so the same bytes come  *)
(* to the same end, and bytes behind an instruction have no say in it.     *)
(***************************************************************************)
EXTENDS CallProofs, Streaming, Sweep

\* What the steps of a call work on, as a value; work is its third part.
Now == <<pc, pos, work, status, insn, context>>

\* Behind the step that clears the caller's structures.
Opened(d) ==
  LET esize == IF d.width = 16 THEN 16 ELSE 32
  IN  <<"prefix", 0,
        <<ZeroRaw, esize, IF d.mode = "LONG_64" THEN 64 ELSE esize, 0, 0, 0, "LEGACY", NoVexFields, NoEntry, 1>>,
        "NONE", ZeroInsn, ZeroContext>>

---------------------------------------------------------------------------
\* The steps as a function of the state before, the decoder and the buffer.
\* Each of them but the dispatch looks at one byte of the buffer at most.

Seen(w, b) == IF w[2] < Len(b) THEN b[w[2] + 1] ELSE -1
WantedAt(w) ==
  LET u == w[3]
  IN  CASE w[1] \in {"opcode", "escape", "opcode3", "modrm", "sib", "tail"} -> 1
        [] w[1] = "disp" -> u[1].dispSize
        [] w[1] = "operands" /\ u[10] <= Len(u[9].shapes) -> OperandBytes(u[9].shapes[u[10]], u[2], u[3])
        [] OTHER -> 0

Worked(w, next, at, u) == <<next, at, u, w[4], w[5], w[6]>>
ErrorAt(u, consumed, fields) ==
  [length |-> IF consumed > MaxInsnLength THEN MaxInsnLength ELSE consumed,
   map |-> u[4], opcode |-> u[5], mn |-> "NONE", operandWidth |-> 0, addressWidth |-> 0,
   operandCount |-> 0, raw |-> fields]
Failed(w, result, at, fields) == <<"done", at, w[3], result, ErrorAt(w[3], at, fields), w[6]>>
OutOfBytes(w, b) == <<"done", Len(b), w[3], "NEED_MORE", w[5], w[6]>>

RexRaw(r, byte, at) == [r EXCEPT !.hasRex = TRUE, !.rex = byte, !.opcodeOffset = at + 1]
OffsetRaw(r, at)    == [r EXCEPT !.opcodeOffset = at]
ModrmRaw(r, byte, at, asize) ==
  [r EXCEPT !.hasModrm = TRUE, !.modrm = byte, !.modrmOffset = at,
            !.dispSize = IF SibFollows(byte, asize) THEN 0 ELSE DispSize(byte, RmOf(byte), asize)]
SibRaw(r, byte, asize) ==
  [r EXCEPT !.hasSib = TRUE, !.sib = byte, !.dispSize = DispSize(r.modrm, RmOf(byte), asize)]
PromotedRaw(r, m, mn) == [r EXCEPT !.rep = @ /\ m = 0 /\ mn # "PAUSE", !.repne = @ /\ m = 0]
OperandRaw(r, shape, bytes) ==
  IF shape = "MOFFS" THEN [r EXCEPT !.hasMoffs = TRUE] ELSE [r EXCEPT !.immSize = @ + bytes]
FlagsAt(u, d) ==
  [is64 |-> d.mode = "LONG_64", eosz |-> u[2], easz |-> u[3], f3 |-> u[1].rep, f2 |-> u[1].repne, p66 |-> u[1].osz,
   rexW |-> u[1].hasRex /\ BitSet(u[1].rex, 8), rexB |-> u[1].hasRex /\ BitSet(u[1].rex, 1)]
ResolvedAt(u, d) ==
  CASE u[7] # "LEGACY" -> ResolveVex(u[9], u[8], u[1].modrm)
    [] u[7] = "LEGACY" /\ u[4] >= 2 -> ResolveCrypto(u[4], u[5], u[1].modrm, FlagsAt(u, d))
    [] OTHER -> ResolveEntry(u[4], u[5], u[1].modrm, u[6], FlagsAt(u, d))
PromotedAt(u, d) ==
  IF (d.mode = "LONG_64" /\ u[2] = 32 /\ u[9].mn \in StackMnemonic) \/ u[9].mn = "MOVQ" THEN 64 ELSE u[2]

AtPrefix(w, d, byte) ==
  LET u == w[3]
  IN  IF u[1].count < MaxPrefixes /\ byte \in Prefixes
      THEN Worked(w, "prefix", w[2] + 1, <<AddPrefix(u[1], byte), u[2], u[3], u[4], u[5], u[6], u[7], u[8], u[9], u[10]>>)
      ELSE Worked(w, "rex", w[2],
             <<u[1], IF ~u[1].osz THEN u[2] ELSE IF d.mode = "LONG_64" THEN 16 ELSE Toggle(u[2]),
               IF ~u[1].asz THEN u[3] ELSE IF d.mode = "LONG_64" THEN 32 ELSE Toggle(u[3]),
               u[4], u[5], u[6], u[7], u[8], u[9], u[10]>>)
AtRex(w, d, byte) ==
  LET u == w[3]
  IN  IF d.mode = "LONG_64" /\ byte \in Line(4)
      THEN Worked(w, "opcode", w[2] + 1,
             <<RexRaw(u[1], byte, w[2]), IF BitSet(byte, 8) THEN 64 ELSE u[2],
               u[3], u[4], u[5], u[6], u[7], u[8], u[9], u[10]>>)
      ELSE Worked(w, "opcode", w[2],
             <<OffsetRaw(u[1], w[2]), u[2], u[3], u[4], u[5], u[6], u[7], u[8], u[9], u[10]>>)
AtOpcode(w, byte) ==
  LET u == w[3]
  IN  Worked(w, IF byte = x(0,F) THEN "escape" ELSE "dispatch", w[2] + 1,
             <<u[1], u[2], u[3], u[4], byte, u[6], u[7], u[8], u[9], u[10]>>)
AtEscape(w, byte) ==
  LET u == w[3]
      three == byte \in {x(3,8), x(3,A)}
  IN  Worked(w, IF three THEN "opcode3" ELSE "dispatch", w[2] + 1,
             <<u[1], u[2], u[3], IF byte = x(3,8) THEN 2 ELSE IF byte = x(3,A) THEN 3 ELSE 1,
               IF three THEN u[5] ELSE byte, u[6], u[7], u[8], u[9], u[10]>>)
AtOpcode3(w, byte) ==
  LET u == w[3]
  IN  Worked(w, "dispatch", w[2] + 1, <<u[1], u[2], u[3], u[4], byte, u[6], u[7], u[8], u[9], u[10]>>)
AtModrm(w, byte) ==
  LET u == w[3]
  IN  Worked(w, IF SibFollows(byte, u[3]) THEN "sib" ELSE "disp", w[2] + 1,
             <<ModrmRaw(u[1], byte, w[2], u[3]), u[2], u[3], u[4], u[5], u[6], u[7], u[8], u[9], u[10]>>)
AtSib(w, byte) ==
  LET u == w[3]
  IN  Worked(w, "disp", w[2] + 1,
             <<SibRaw(u[1], byte, u[3]), u[2], u[3], u[4], u[5], u[6], u[7], u[8], u[9], u[10]>>)
AtDisp(w) ==
  LET u == w[3]
  IN  Worked(w, IF u[7] = "LEGACY" /\ u[4] = 1 /\ u[5] = x(0,F) THEN "tail" ELSE "resolve",
             w[2] + WantedAt(w), u)
AtTail(w, byte) ==
  LET u == w[3]
  IN  Worked(w, "resolve", w[2] + 1, <<u[1], u[2], u[3], u[4], u[5], byte, u[7], u[8], u[9], u[10]>>)
AtSynth(w) ==
  LET u == w[3]
  IN  IF u[1].lock \/ u[1].hasRex THEN Failed(w, "INVALID", w[2], u[1])
      ELSE Worked(w, IF u[9].shapes = <<>> THEN "promote" ELSE "modrm", w[2], u)
AtResolve(w, d) ==
  LET u == w[3]
      r == ResolvedAt(u, d)
  IN  IF r.status = "OK"
      THEN Worked(w, "promote", w[2],
             <<u[1], u[2], u[3], u[4], u[5], u[6], u[7], u[8], [mn |-> r.mn, shapes |-> r.shapes], u[10]>>)
      ELSE Failed(w, r.status, w[2], u[1])
AtPromote(w, d) ==
  LET u == w[3]
  IN  Worked(w, "operands", w[2],
             <<PromotedRaw(u[1], u[4], u[9].mn), PromotedAt(u, d), u[3], u[4], u[5], u[6], u[7], u[8], u[9], u[10]>>)
FinishedInsn(u, at) ==
  [length |-> at, mn |-> u[9].mn, operandWidth |-> u[2], addressWidth |-> u[3],
   operandCount |-> Len(u[9].shapes), raw |-> u[1],
   map |-> IF u[7] = "VEX" THEN u[8].map ELSE u[4], opcode |-> IF u[7] = "VEX" THEN u[8].op ELSE u[5]]
FinishedContext(u, at) ==
  [eosz |-> u[2], easz |-> u[3], raw |-> u[1], length |-> at, isVex |-> u[7] = "VEX", vex |-> u[8],
   entry |-> IF u[7] = "VEX" THEN u[9]
             ELSE [u[9] EXCEPT !.shapes = SubSeq(@, 1, IF Len(@) < 3 THEN Len(@) ELSE 3)]]
AtOperands(w) ==
  LET u == w[3]
  IN  IF u[10] <= Len(u[9].shapes)
      THEN Worked(w, "operands", w[2] + WantedAt(w),
             <<OperandRaw(u[1], u[9].shapes[u[10]], WantedAt(w)), u[2], u[3], u[4], u[5], u[6], u[7], u[8],
               u[9], u[10] + 1>>)
      ELSE IF w[2] > MaxInsnLength THEN Failed(w, "INVALID", w[2], u[1])
      ELSE <<"done", w[2], u, "OK", FinishedInsn(u, w[2]), FinishedContext(u, w[2])>>
AtDispatch(w, d, b) ==
  LET u == w[3]
      vexAhead == d.mode = "LONG_64" /\ u[4] = 0 /\ u[5] \in {x(C,4), x(C,5)}
      zeroall == /\ u[5] = x(C,4) /\ Len(b) - w[2] >= 3
                 /\ b[w[2] + 1] = x(E,1) /\ b[w[2] + 2] = x(7,C) /\ b[w[2] + 3] = x(C,0)
      v == DecodeVex(b, w[2] - 1)
      modrm == u[4] >= 2 \/ (IF u[4] = 1 THEN Map1 ELSE Map0)[u[5]].modrm
  IN  IF vexAhead
      THEN IF zeroall
           THEN Worked(w, "synth", w[2] + 3,
                  <<u[1], u[2], u[3], u[4], u[5], u[6], "VZEROALL", u[8], [mn |-> "INSN", shapes |-> <<>>], u[10]>>)
           ELSE IF v.status = "OK"
           THEN Worked(w, "synth", v.pos,
                  <<u[1], u[2], u[3], u[4], u[5], u[6], "VEX", v.vex, [mn |-> v.mn, shapes |-> v.shapes], u[10]>>)
           ELSE Failed(w, v.status, v.pos, ZeroRaw)
      ELSE IF d.mode = "LONG_64" /\ u[4] = 0 /\ u[5] = x(6,2) THEN Failed(w, "UNSUPPORTED", w[2], ZeroRaw)
      ELSE Worked(w, IF modrm THEN "modrm" ELSE "resolve", w[2], u)

StepSeen(w, d, byte) ==
  CASE w[1] = "prefix"   -> AtPrefix(w, d, byte)
    [] w[1] = "rex"      -> AtRex(w, d, byte)
    [] w[1] = "opcode"   -> AtOpcode(w, byte)
    [] w[1] = "escape"   -> AtEscape(w, byte)
    [] w[1] = "opcode3"  -> AtOpcode3(w, byte)
    [] w[1] = "modrm"    -> AtModrm(w, byte)
    [] w[1] = "sib"      -> AtSib(w, byte)
    [] w[1] = "tail"     -> AtTail(w, byte)
    [] w[1] = "disp"     -> AtDisp(w)
    [] w[1] = "synth"    -> AtSynth(w)
    [] w[1] = "resolve"  -> AtResolve(w, d)
    [] w[1] = "promote"  -> AtPromote(w, d)
    [] w[1] = "operands" -> AtOperands(w)
    [] OTHER -> w
StepOf(w, d, b) ==
  IF w[1] = "dispatch" THEN AtDispatch(w, d, b)
  ELSE IF WantedAt(w) > Len(b) - w[2] THEN OutOfBytes(w, b)
  ELSE StepSeen(w, d, Seen(w, b))

\* The parts of a state.
LEMMA NowParts ==
  /\ Now[1] = pc /\ Now[2] = pos /\ Now[3] = work /\ Now[4] = status /\ Now[5] = insn /\ Now[6] = context
  /\ work[1] = raw /\ work[2] = eosz /\ work[3] = easz /\ work[4] = map /\ work[5] = opcode /\ work[6] = tail
  /\ work[7] = form /\ work[8] = vex /\ work[9] = entry /\ work[10] = k
BY DEF Now, work

LEMMA WantedNow == Wanted = WantedAt(Now)
BY NowParts DEF Wanted, WantedAt

LEMMA SeenNow == ASSUME pos \in Nat, Len(buf) \in Nat PROVE
  /\ Left = Len(buf) - Now[2] /\ (Left > 0 => Seen(Now, buf) = Next1) /\ (Left <= 0 => Seen(Now, buf) = -1)
BY NowParts DEF Left, Seen, Next1

\* The end of the buffer is no prefix.
LEMMA PrefixBytes == -1 \notin Prefixes /\ -1 \notin Line(4)
BY DEF Prefixes, SegmentPrefixes, Line, Cells, x, A, B, C, D, E, F

\* A step that takes a field, by where the call is.
LEMMA FollowsPrefix ==
  ASSUME pos \in Nat, Len(buf) \in Nat, TakePrefix \/ EndPrefixes PROVE Now' = AtPrefix(Now, decoder, Seen(Now, buf))
<1>1. MorePrefixes <=> (raw.count < MaxPrefixes /\ Seen(Now, buf) \in Prefixes)
  BY SeenNow, PrefixBytes DEF MorePrefixes, Left
<1>2. CASE TakePrefix
  <2>1. MorePrefixes /\ Next1 = Seen(Now, buf)
    BY <1>2, SeenNow DEF TakePrefix, MorePrefixes
  <2>2. Now' = <<"prefix", pos + 1, <<AddPrefix(raw, Next1), eosz, easz, map, opcode, tail, form, vex, entry, k>>,
                 status, insn, context>>
    BY <1>2 DEF TakePrefix, Now, work
  <2> QED BY <1>1, <2>1, <2>2, NowParts DEF AtPrefix, Worked
<1>3. CASE EndPrefixes
  <2>1. ~MorePrefixes
    BY <1>3 DEF EndPrefixes
  <2>2. Now' = <<"rex", pos, <<raw, IF ~raw.osz THEN eosz ELSE IF Is64 THEN 16 ELSE Toggle(eosz),
                 IF ~raw.asz THEN easz ELSE IF Is64 THEN 32 ELSE Toggle(easz),
                 map, opcode, tail, form, vex, entry, k>>, status, insn, context>>
    BY <1>3 DEF EndPrefixes, Now, work
  <2> QED BY <1>1, <2>1, <2>2, NowParts DEF AtPrefix, Worked, Is64
<1> QED BY <1>2, <1>3

\* A REX prefix, or none.
LEMMA FollowsRex ==
  ASSUME pos \in Nat, Len(buf) \in Nat, TakeRex \/ NoRex PROVE Now' = AtRex(Now, decoder, Seen(Now, buf))
<1>1. RexFollows <=> (Is64 /\ Seen(Now, buf) \in Line(4))
  BY SeenNow, PrefixBytes DEF RexFollows, Left
<1>2. CASE TakeRex
  <2>1. RexFollows /\ Next1 = Seen(Now, buf)
    BY <1>2, SeenNow DEF TakeRex, RexFollows
  <2>2. raw' = RexRaw(raw, Next1, pos)
    BY <1>2 DEF TakeRex, RexRaw
  <2>3. Now' = <<"opcode", pos + 1, <<RexRaw(raw, Next1, pos), IF BitSet(Next1, 8) THEN 64 ELSE eosz, easz, map,
                 opcode, tail, form, vex, entry, k>>, status, insn, context>>
    BY <1>2, <2>2 DEF TakeRex, Now, work
  <2> QED BY <1>1, <2>1, <2>3, NowParts DEF AtRex, Worked, Is64
<1>3. CASE NoRex
  <2>1. ~RexFollows
    BY <1>3 DEF NoRex
  <2>2. raw' = OffsetRaw(raw, pos)
    BY <1>3 DEF NoRex, OffsetRaw
  <2>3. Now' = <<"opcode", pos, <<OffsetRaw(raw, pos), eosz, easz, map, opcode, tail, form, vex, entry, k>>,
                 status, insn, context>>
    BY <1>3, <2>2 DEF NoRex, Now, work
  <2> QED BY <1>1, <2>1, <2>3, NowParts DEF AtRex, Worked, Is64
<1> QED BY <1>2, <1>3

\* The opcode bytes.
LEMMA FollowsOpcodes ==
  ASSUME pos \in Nat, Len(buf) \in Nat, Left > 0
  PROVE  /\ TakeOpcode => Now' = AtOpcode(Now, Seen(Now, buf))
         /\ TakeEscape => Now' = AtEscape(Now, Seen(Now, buf))
         /\ TakeOpcode3 => Now' = AtOpcode3(Now, Seen(Now, buf))
<1>1. Next1 = Seen(Now, buf)
  BY SeenNow
<1>2. pc \in {"opcode", "escape", "opcode3"} => Wanted = 1
  BY DEF Wanted
<1>3. ASSUME TakeOpcode PROVE Now' = AtOpcode(Now, Next1)
  <2>1. Now' = <<IF Next1 = x(0,F) THEN "escape" ELSE "dispatch", pos + 1,
                 <<raw, eosz, easz, map, Next1, tail, form, vex, entry, k>>, status, insn, context>>
    BY <1>2, <1>3 DEF TakeOpcode, Take, Now, work
  <2> QED BY <2>1, NowParts DEF AtOpcode, Worked
<1>4. ASSUME TakeEscape PROVE Now' = AtEscape(Now, Next1)
  <2> DEFINE three == Next1 \in {x(3,8), x(3,A)}
  <2>1. x(3,8) # x(3,A)
    BY DEF x, A
  <2>2. pc' = (IF three THEN "opcode3" ELSE "dispatch") /\ opcode' = (IF three THEN opcode ELSE Next1)
        /\ map' = (IF Next1 = x(3,8) THEN 2 ELSE IF Next1 = x(3,A) THEN 3 ELSE 1)
    BY <1>4, <2>1 DEF TakeEscape
  <2>3. Now' = <<pc', pos + 1, <<raw, eosz, easz, map', opcode', tail, form, vex, entry, k>>, status, insn, context>>
    BY <1>2, <1>4 DEF TakeEscape, Take, Now, work
  <2> QED BY <2>2, <2>3, NowParts DEF AtEscape, Worked
<1>5. ASSUME TakeOpcode3 PROVE Now' = AtOpcode3(Now, Next1)
  <2>1. Now' = <<"dispatch", pos + 1,
                 <<raw, eosz, easz, map, Next1, tail, form, vex, entry, k>>, status, insn, context>>
    BY <1>2, <1>5 DEF TakeOpcode3, Take, Now, work
  <2> QED BY <2>1, NowParts DEF AtOpcode3, Worked
<1> QED BY <1>1, <1>3, <1>4, <1>5

\* ModRM, SIB and tail byte.
LEMMA FollowsTail ==
  ASSUME pos \in Nat, Len(buf) \in Nat, Left > 0
  PROVE  /\ TakeModrm => Now' = AtModrm(Now, Seen(Now, buf))
         /\ TakeSib => Now' = AtSib(Now, Seen(Now, buf))
         /\ TakeTail => Now' = AtTail(Now, Seen(Now, buf))
<1>1. Next1 = Seen(Now, buf)
  BY SeenNow
<1>2. pc \in {"modrm", "sib", "tail"} => Wanted = 1
  BY DEF Wanted
<1>3. ASSUME TakeModrm PROVE Now' = AtModrm(Now, Next1)
  <2>1. raw' = ModrmRaw(raw, Next1, pos, easz)
    BY <1>3 DEF TakeModrm, ModrmRaw
  <2>2. Now' = <<IF SibFollows(Next1, easz) THEN "sib" ELSE "disp", pos + 1,
                 <<ModrmRaw(raw, Next1, pos, easz), eosz, easz, map, opcode, tail, form, vex, entry, k>>,
                 status, insn, context>>
    BY <1>2, <1>3, <2>1 DEF TakeModrm, Take, Now, work
  <2> QED BY <2>2, NowParts DEF AtModrm, Worked
<1>4. ASSUME TakeSib PROVE Now' = AtSib(Now, Next1)
  <2>1. raw' = SibRaw(raw, Next1, easz)
    BY <1>4 DEF TakeSib, SibRaw
  <2>2. Now' = <<"disp", pos + 1,
                 <<SibRaw(raw, Next1, easz), eosz, easz, map, opcode, tail, form, vex, entry, k>>, status, insn, context>>
    BY <1>2, <1>4, <2>1 DEF TakeSib, Take, Now, work
  <2> QED BY <2>2, NowParts DEF AtSib, Worked
<1>5. ASSUME TakeTail PROVE Now' = AtTail(Now, Next1)
  <2>1. Now' = <<"resolve", pos + 1,
                 <<raw, eosz, easz, map, opcode, Next1, form, vex, entry, k>>, status, insn, context>>
    BY <1>2, <1>5 DEF TakeTail, Take, Now, work
  <2> QED BY <2>1, NowParts DEF AtTail, Worked
<1> QED BY <1>1, <1>3, <1>4, <1>5

\* The displacement.
LEMMA FollowsDisp == ASSUME TakeDisp PROVE Now' = AtDisp(Now)
<1>1. Now' = <<IF TailFollows THEN "tail" ELSE "resolve", pos + Wanted, work, status, insn, context>>
  BY DEF TakeDisp, Take, Now, work
<1> QED BY <1>1, NowParts, WantedNow DEF AtDisp, Worked, TailFollows

\* The check behind a VEX prefix.
LEMMA FollowsSynth == ASSUME RejectSynth \/ AcceptSynth PROVE Now' = AtSynth(Now)
<1>1. CASE RejectSynth
  <2>1. Now' = <<"done", pos, work, "INVALID", ErrorInsn(pos, raw), context>>
    BY <1>1 DEF RejectSynth, Fail, Return, Now, work
  <2>2. ErrorInsn(pos, raw) = ErrorAt(work, pos, raw)
    BY NowParts DEF ErrorInsn, ErrorAt
  <2>3. raw.lock \/ raw.hasRex
    BY <1>1 DEF RejectSynth
  <2> QED BY <2>1, <2>2, <2>3, NowParts DEF AtSynth, Failed
<1>2. CASE AcceptSynth
  <2>1. Now' = <<IF entry.shapes = <<>> THEN "promote" ELSE "modrm", pos, work, status, insn, context>>
    BY <1>2 DEF AcceptSynth, Now, work
  <2>3. ~(raw.lock \/ raw.hasRex)
    BY <1>2 DEF AcceptSynth
  <2> QED BY <2>1, <2>3, NowParts DEF AtSynth, Worked
<1> QED BY <1>1, <1>2

\* The choice of an entry.
LEMMA FollowsResolve == ASSUME ResolveOk \/ ResolveFails PROVE Now' = AtResolve(Now, decoder)
<1>1. Resolved = ResolvedAt(work, decoder)
  <2>1. Flags = FlagsAt(work, decoder)
    BY NowParts DEF Flags, FlagsAt, Is64
  <2> QED BY <2>1, NowParts DEF Resolved, ResolvedAt
<1>2. CASE ResolveOk
  <2>1. Now' = <<"promote", pos, <<raw, eosz, easz, map, opcode, tail, form, vex,
                 [mn |-> Resolved.mn, shapes |-> Resolved.shapes], k>>, status, insn, context>>
    BY <1>2 DEF ResolveOk, Now, work
  <2>2. Resolved.status = "OK"
    BY <1>2 DEF ResolveOk
  <2> QED BY <1>1, <2>1, <2>2, NowParts DEF AtResolve, Worked
<1>3. CASE ResolveFails
  <2>1. Now' = <<"done", pos, work, Resolved.status, ErrorInsn(pos, raw), context>>
    BY <1>3 DEF ResolveFails, Fail, Return, Now, work
  <2>2. ErrorInsn(pos, raw) = ErrorAt(work, pos, raw)
    BY NowParts DEF ErrorInsn, ErrorAt
  <2>3. Resolved.status # "OK"
    BY <1>3 DEF ResolveFails
  <2> QED BY <1>1, <2>1, <2>2, <2>3, NowParts DEF AtResolve, Failed
<1> QED BY <1>2, <1>3

\* The sizes of stack operations.
LEMMA FollowsPromote == ASSUME Promote PROVE Now' = AtPromote(Now, decoder)
<1>1. raw' = PromotedRaw(raw, map, entry.mn)
  BY DEF Promote, PromotedRaw
<1>2. eosz' = PromotedAt(work, decoder)
  BY NowParts DEF Promote, PromotedEosz, PromotedAt, Is64
<1>3. Now' = <<"operands", pos, <<PromotedRaw(raw, map, entry.mn), PromotedAt(work, decoder), easz, map, opcode, tail,
               form, vex, entry, k>>, status, insn, context>>
  BY <1>1, <1>2 DEF Promote, Now, work
<1> QED BY <1>3, NowParts DEF AtPromote, Worked

\* Immediates, memory offsets, and the end of the call.
LEMMA FollowsOperands ==
  ASSUME pos \in Nat, k \in Nat, Len(entry.shapes) \in Nat, TakeOperand \/ TooLong \/ Finish PROVE Now' = AtOperands(Now)
<1>1. CASE TakeOperand
  <2>1. raw' = OperandRaw(raw, entry.shapes[k], Wanted)
    BY <1>1 DEF TakeOperand, OperandRaw
  <2>2. Now' = <<"operands", pos + Wanted, <<OperandRaw(raw, entry.shapes[k], Wanted), eosz, easz, map, opcode, tail,
                 form, vex, entry, k + 1>>, status, insn, context>>
    BY <1>1, <2>1 DEF TakeOperand, Take, Now, work
  <2>3. k <= Len(entry.shapes)
    BY <1>1 DEF TakeOperand
  <2> QED BY <2>2, <2>3, NowParts, WantedNow DEF AtOperands, Worked
<1>2. CASE TooLong
  <2>1. Now' = <<"done", pos, work, "INVALID", ErrorInsn(pos, raw), context>>
    BY <1>2 DEF TooLong, Fail, Return, Now, work
  <2>2. ErrorInsn(pos, raw) = ErrorAt(work, pos, raw)
    BY NowParts DEF ErrorInsn, ErrorAt
  <2>3. ~(k <= Len(entry.shapes)) /\ pos > MaxInsnLength
    BY <1>2 DEF TooLong, MaxInsnLength
  <2> QED BY <2>1, <2>2, <2>3, NowParts DEF AtOperands, Failed
<1>3. CASE Finish
  <2>1. insn' = FinishedInsn(work, pos)
    BY <1>3, NowParts DEF Finish, FinishedInsn
  <2>2. context' = FinishedContext(work, pos)
    BY <1>3, NowParts DEF Finish, FinishedContext
  <2>3. Now' = <<"done", pos, work, "OK", FinishedInsn(work, pos), FinishedContext(work, pos)>>
    BY <1>3, <2>1, <2>2 DEF Finish, Return, Now, work
  <2>4. ~(k <= Len(entry.shapes)) /\ ~(pos > MaxInsnLength)
    BY <1>3 DEF Finish, MaxInsnLength
  <2> QED BY <2>3, <2>4, NowParts DEF AtOperands
<1> QED BY <1>1, <1>2, <1>3

\* The choice of a front-end.
LEMMA FollowsDispatch == ASSUME Dispatch PROVE Now' = AtDispatch(Now, decoder, buf)
<1> DEFINE v == DecodeVex(buf, pos - 1)
<1>1. /\ VexAhead <=> decoder.mode = "LONG_64" /\ map = 0 /\ opcode \in {x(C,4), x(C,5)}
      /\ VzeroallAhead <=> /\ opcode = x(C,4) /\ Len(buf) - pos >= 3
                           /\ buf[pos + 1] = x(E,1) /\ buf[pos + 2] = x(7,C) /\ buf[pos + 3] = x(C,0)
      /\ EvexAhead <=> decoder.mode = "LONG_64" /\ map = 0 /\ opcode = x(6,2)
  BY DEF VexAhead, VzeroallAhead, EvexAhead, Is64, Left
<1>2. CASE DispatchVzeroall
  <2>1. Now' = <<"synth", pos + 3, <<raw, eosz, easz, map, opcode, tail, "VZEROALL", vex,
                 [mn |-> "INSN", shapes |-> <<>>], k>>, status, insn, context>>
    BY <1>2 DEF DispatchVzeroall, Now, work
  <2>2. VexAhead /\ VzeroallAhead
    BY <1>2 DEF DispatchVzeroall
  <2> QED BY <1>1, <2>1, <2>2, NowParts DEF AtDispatch, Worked
<1>3. CASE DispatchVex
  <2>1. VexAhead /\ ~VzeroallAhead
    BY <1>3 DEF DispatchVex
  <2>2. CASE v.status = "OK"
    <3>1. Now' = <<"synth", v.pos, <<raw, eosz, easz, map, opcode, tail, "VEX", v.vex,
                   [mn |-> v.mn, shapes |-> v.shapes], k>>, status, insn, context>>
      BY <1>3, <2>2 DEF DispatchVex, Now, work
    <3> QED BY <1>1, <2>1, <2>2, <3>1, NowParts DEF AtDispatch, Worked
  <2>3. CASE v.status # "OK"
    <3>1. Now' = <<"done", v.pos, work, v.status, ErrorInsn(v.pos, ZeroRaw), context>>
      BY <1>3, <2>3 DEF DispatchVex, Return, Now, work
    <3>2. ErrorInsn(v.pos, ZeroRaw) = ErrorAt(work, v.pos, ZeroRaw)
      BY NowParts DEF ErrorInsn, ErrorAt
    <3> QED BY <1>1, <2>1, <2>3, <3>1, <3>2, NowParts DEF AtDispatch, Failed
  <2> QED BY <2>2, <2>3
<1>4. CASE DispatchEvex
  <2>1. Now' = <<"done", pos, work, "UNSUPPORTED", ErrorInsn(pos, ZeroRaw), context>>
    BY <1>4 DEF DispatchEvex, Return, Now, work
  <2>2. ErrorInsn(pos, ZeroRaw) = ErrorAt(work, pos, ZeroRaw)
    BY NowParts DEF ErrorInsn, ErrorAt
  <2>3. EvexAhead /\ ~VexAhead
    <3>1. x(6,2) # x(C,4) /\ x(6,2) # x(C,5)
      BY DEF x, C
    <3> QED BY <1>4, <3>1 DEF DispatchEvex, EvexAhead, VexAhead
  <2> QED BY <1>1, <2>1, <2>2, <2>3, NowParts DEF AtDispatch, Failed
<1>5. CASE DispatchLegacy
  <2>1. Now' = <<IF HasModrm THEN "modrm" ELSE "resolve", pos, work, status, insn, context>>
    BY <1>5 DEF DispatchLegacy, Now, work
  <2>2. ~VexAhead /\ ~EvexAhead
    BY <1>5 DEF DispatchLegacy
  <2> QED BY <1>1, <2>1, <2>2, NowParts DEF AtDispatch, Worked, HasModrm
<1> QED BY <1>2, <1>3, <1>4, <1>5 DEF Dispatch

\* The cases of the step function.
LEMMA StepSeenIs ==
  ASSUME NEW w, NEW d, NEW b
  PROVE  /\ w[1] = "prefix" => StepSeen(w, d, b) = AtPrefix(w, d, b)
         /\ w[1] = "rex" => StepSeen(w, d, b) = AtRex(w, d, b)
         /\ w[1] = "opcode" => StepSeen(w, d, b) = AtOpcode(w, b)
         /\ w[1] = "escape" => StepSeen(w, d, b) = AtEscape(w, b)
         /\ w[1] = "opcode3" => StepSeen(w, d, b) = AtOpcode3(w, b)
         /\ w[1] = "modrm" => StepSeen(w, d, b) = AtModrm(w, b)
         /\ w[1] = "sib" => StepSeen(w, d, b) = AtSib(w, b)
         /\ w[1] = "tail" => StepSeen(w, d, b) = AtTail(w, b)
         /\ w[1] = "disp" => StepSeen(w, d, b) = AtDisp(w)
         /\ w[1] = "synth" => StepSeen(w, d, b) = AtSynth(w)
         /\ w[1] = "resolve" => StepSeen(w, d, b) = AtResolve(w, d)
         /\ w[1] = "promote" => StepSeen(w, d, b) = AtPromote(w, d)
         /\ w[1] = "operands" => StepSeen(w, d, b) = AtOperands(w)
         /\ w[1] = "done" => StepSeen(w, d, b) = w
BY DEF StepSeen

\* Every step of a call is the one the function names.
LEMMA StepIsFunction ==
  ASSUME IndInv, Next, pc # "call" PROVE pc # "done" /\ Now' = StepOf(Now, decoder, buf)
<1>t. pos \in Nat /\ Len(buf) \in Nat /\ pos <= Len(buf) /\ k \in Nat /\ Len(entry.shapes) \in Nat
  <2>1. entry.shapes \in OperandLists
    BY DEF IndInv, TypeOK, Entry
  <2>2. Len(entry.shapes) \in Nat
    BY <2>1 DEF OperandLists, OffsetLists
  <2> QED BY <2>2 DEF IndInv, TypeOK, CursorInv
<1>l. Left = Len(buf) - Now[2] /\ Left = Len(buf) - pos /\ Left >= 0 /\ Left \in Int
  BY <1>t, SeenNow DEF Left
<1>w. Wanted = WantedAt(Now) /\ Now[1] = pc /\ Wanted \in Nat
  BY WantedNow, NowParts, WantedBytes DEF IndInv
<1> DEFINE b == Seen(Now, buf)
           s == StepOf(Now, decoder, buf)
           t == StepSeen(Now, decoder, b)
<1>0. pc # "dispatch" /\ Wanted <= Left => s = t
  <2> SUFFICES ASSUME pc # "dispatch", Wanted <= Left PROVE s = t
    OBVIOUS
  <2>1. ~(WantedAt(Now) > Len(buf) - Now[2])
    BY <1>l, <1>w
  <2> QED BY <1>w, <2>1 DEF StepOf
<1>z. /\ pc \in {"prefix", "rex", "synth", "resolve", "promote", "dispatch", "done"} => Wanted = 0
      /\ pc \in {"opcode", "escape", "opcode3", "modrm", "sib", "tail"} => Wanted = 1
  BY DEF Wanted
<1>y. pc \in {"prefix", "rex", "synth", "resolve", "promote"} => s = t
  BY <1>0, <1>l, <1>z
<1> HIDE DEF b, s, t
<1>i. StepSeen(Now, decoder, b) = t
  BY DEF t
<1>1. CASE TakePrefix \/ EndPrefixes
  <2>1. pc = "prefix"
    BY <1>1 DEF TakePrefix, EndPrefixes
  <2> QED BY <1>1, <1>t, <1>w, <1>y, <1>i, <2>1, FollowsPrefix, StepSeenIs DEF b, s
<1>2. CASE TakeRex \/ NoRex
  <2>1. pc = "rex"
    BY <1>2 DEF TakeRex, NoRex
  <2> QED BY <1>2, <1>t, <1>w, <1>y, <1>i, <2>1, FollowsRex, StepSeenIs DEF b, s
<1>3. CASE TakeOpcode \/ TakeEscape \/ TakeOpcode3
  <2>1. /\ TakeOpcode => pc = "opcode"
        /\ TakeEscape => pc = "escape"
        /\ TakeOpcode3 => pc = "opcode3"
        /\ Wanted <= Left
    BY <1>3 DEF TakeOpcode, TakeEscape, TakeOpcode3, Take
  <2>2. Left > 0 /\ s = t
    BY <1>3, <1>0, <1>z, <1>l, <2>1
  <2> QED BY <1>3, <1>t, <1>w, <1>i, <2>1, <2>2, FollowsOpcodes, StepSeenIs DEF b, s
<1>4. CASE TakeModrm \/ TakeSib \/ TakeTail
  <2>1. /\ TakeModrm => pc = "modrm"
        /\ TakeSib => pc = "sib"
        /\ TakeTail => pc = "tail"
        /\ Wanted <= Left
    BY <1>4 DEF TakeModrm, TakeSib, TakeTail, Take
  <2>2. Left > 0 /\ s = t
    BY <1>4, <1>0, <1>z, <1>l, <2>1
  <2> QED BY <1>4, <1>t, <1>w, <1>i, <2>1, <2>2, FollowsTail, StepSeenIs DEF b, s
<1>5. CASE TakeDisp
  <2>1. pc = "disp" /\ Wanted <= Left
    BY <1>5 DEF TakeDisp, Take
  <2> QED BY <1>5, <1>0, <1>w, <1>i, <2>1, FollowsDisp, StepSeenIs DEF s
<1>6. CASE RejectSynth \/ AcceptSynth
  <2>1. pc = "synth"
    BY <1>6 DEF RejectSynth, AcceptSynth
  <2> QED BY <1>6, <1>w, <1>y, <1>i, <2>1, FollowsSynth, StepSeenIs DEF s
<1>7. CASE ResolveOk \/ ResolveFails
  <2>1. pc = "resolve"
    BY <1>7 DEF ResolveOk, ResolveFails
  <2> QED BY <1>7, <1>w, <1>y, <1>i, <2>1, FollowsResolve, StepSeenIs DEF s
<1>8. CASE Promote
  <2>1. pc = "promote"
    BY <1>8 DEF Promote
  <2> QED BY <1>8, <1>w, <1>y, <1>i, <2>1, FollowsPromote, StepSeenIs DEF s
<1>9. CASE TakeOperand \/ TooLong \/ Finish
  <2>1. pc = "operands"
    BY <1>9 DEF TakeOperand, TooLong, Finish
  <2>2. Wanted <= Left
    <3>1. CASE TakeOperand
      BY <3>1 DEF TakeOperand, Take
    <3>2. CASE TooLong \/ Finish
      <4>1. ~(k <= Len(entry.shapes))
        BY <1>t, <3>2 DEF TooLong, Finish
      <4>2. Wanted = 0
        BY <2>1, <4>1 DEF Wanted
      <4> QED BY <1>l, <4>2
    <3> QED BY <1>9, <3>1, <3>2
  <2> QED BY <1>9, <1>0, <1>t, <1>w, <1>i, <2>1, <2>2, FollowsOperands, StepSeenIs DEF s
<1>10. CASE Dispatch
  <2>1. pc = "dispatch"
    BY <1>10 DEF Dispatch, DispatchVzeroall, DispatchVex, DispatchEvex, DispatchLegacy
  <2>2. s = AtDispatch(Now, decoder, buf)
    BY <1>w, <2>1 DEF StepOf, s
  <2> QED BY <1>10, <2>1, <2>2, FollowsDispatch DEF s
<1>11. CASE RunOut
  <2>1. Wanted > Left
    BY <1>11 DEF RunOut
  <2>2. pc \notin {"dispatch", "done"}
    BY <1>l, <1>z, <2>1
  <2>3. s = OutOfBytes(Now, buf)
    BY <1>w, <1>l, <2>1, <2>2 DEF StepOf, s
  <2>4. Now' = <<"done", Len(buf), work, "NEED_MORE", insn, context>>
    BY <1>11 DEF RunOut, Return, Now, work
  <2> QED BY <2>2, <2>3, <2>4, NowParts DEF OutOfBytes, s
<1> QED
  BY <1>1, <1>2, <1>3, <1>4, <1>5, <1>6, <1>7, <1>8, <1>9, <1>10, <1>11 DEF Next, TakeField, RejectArgs, Begin

---------------------------------------------------------------------------
\* Calls as sequences of states

\* What is known of every state of a call on buffer b.
Shaped(w, b) ==
  /\ w[2] \in 0..Len(b) /\ WantedAt(w) \in Nat
  /\ w[1] = "dispatch" => w[2] >= 1 /\ (w[3][4] = 0 => b[w[2]] = w[3][5])
Trace(d, b, f, n) ==
  /\ f[0] = Opened(d) /\ \A j \in 0..n : Shaped(f[j], b)
  /\ \A j \in 1..n : f[j] = StepOf(f[j - 1], d, b) /\ f[j - 1][2] <= f[j][2]
Reached(d, b, w) == \E n \in Nat : \E f : Trace(d, b, f, n) /\ f[n] = w

\* A call starts with what it opens with.
LEMMA TraceStarts == ASSUME NEW d, NEW b, Shaped(Opened(d), b) PROVE Reached(d, b, Opened(d))
<1> DEFINE f == [j \in 0..0 |-> Opened(d)]
<1>1. f[0] = Opened(d) /\ (\A j \in 0..0 : f[j] = Opened(d)) /\ 1..0 = {} /\ 0 \in Nat
  OBVIOUS
<1> HIDE DEF f
<1>2. Trace(d, b, f, 0)
  BY <1>1 DEF Trace
<1> QED BY <1>1, <1>2 DEF Reached

\* A step of the function is a step of the call.
LEMMA TraceGrows ==
  ASSUME NEW d, NEW b, NEW w, Reached(d, b, w), Shaped(StepOf(w, d, b), b), w[2] <= StepOf(w, d, b)[2]
  PROVE  Reached(d, b, StepOf(w, d, b))
<1> DEFINE v == StepOf(w, d, b)
<1>1. PICK n \in Nat : \E f : Trace(d, b, f, n) /\ f[n] = w
  BY DEF Reached
<1>2. PICK f : Trace(d, b, f, n) /\ f[n] = w
  BY <1>1
<1> DEFINE g == [j \in 0..n + 1 |-> IF j <= n THEN f[j] ELSE v]
<1> HIDE DEF v
<1>3. (\A j \in 0..n : g[j] = f[j]) /\ g[n + 1] = v /\ n + 1 \in Nat
  OBVIOUS
<1> HIDE DEF g
<1>4. g[0] = Opened(d)
  BY <1>2, <1>3 DEF Trace
<1>5. ASSUME NEW j \in 0..n + 1 PROVE Shaped(g[j], b)
  <2>1. j \in 0..n \/ j = n + 1
    OBVIOUS
  <2> QED BY <1>2, <1>3, <2>1 DEF Trace, v
<1>6. ASSUME NEW j \in 1..n + 1 PROVE g[j] = StepOf(g[j - 1], d, b) /\ g[j - 1][2] <= g[j][2]
  <2>1. CASE j \in 1..n
    <3>1. j \in 0..n /\ j - 1 \in 0..n
      BY <2>1
    <3> QED BY <1>2, <1>3, <2>1, <3>1 DEF Trace
  <2>2. CASE j = n + 1
    <3>1. j - 1 = n /\ n \in 0..n
      BY <2>2
    <3>2. g[j - 1] = w /\ g[j] = v
      BY <1>2, <1>3, <2>2, <3>1
    <3> QED BY <3>2 DEF v
  <2> QED BY <2>1, <2>2
<1>7. Trace(d, b, g, n + 1)
  BY <1>4, <1>5, <1>6 DEF Trace
<1> QED BY <1>3, <1>7 DEF Reached, v

\* A call that is over stays over, and what it came to is the only outcome.
LEMMA DoneStays == ASSUME NEW w, NEW d, NEW b, Len(b) \in Nat, Shaped(w, b), w[1] = "done" PROVE StepOf(w, d, b) = w
<1>1. WantedAt(w) = 0
  BY DEF WantedAt
<1>2. ~(WantedAt(w) > Len(b) - w[2])
  BY <1>1 DEF Shaped
<1> QED BY <1>2, StepSeenIs DEF StepOf

\* Two calls on the same buffer go through the same states.
LEMMA TracesAgree ==
  ASSUME NEW d, NEW b, NEW f, NEW g, NEW n \in Nat, NEW m \in Nat, Trace(d, b, f, n), Trace(d, b, g, m), n <= m
  PROVE  \A j \in 0..n : f[j] = g[j]
<1> DEFINE S == {j \in Nat : j <= n => f[j] = g[j]}
<1>1. 0 \in S
  BY DEF Trace
<1>2. ASSUME NEW j \in Nat, j \in S PROVE j + 1 \in S
  <2> SUFFICES ASSUME j + 1 <= n PROVE f[j + 1] = g[j + 1]
    OBVIOUS
  <2>1. j + 1 \in 1..n /\ j + 1 \in 1..m /\ (j + 1) - 1 = j /\ j <= n
    OBVIOUS
  <2>2. f[j] = g[j]
    BY <1>2, <2>1
  <2> QED BY <2>1, <2>2 DEF Trace
<1> HIDE DEF S
<1>3. Nat \subseteq S
  BY <1>1, <1>2, SetInduction
<1> QED BY <1>3 DEF S

LEMMA TraceEnds ==
  ASSUME NEW d, NEW b, NEW f, NEW g, NEW n \in Nat, NEW m \in Nat, Trace(d, b, f, n), Trace(d, b, g, m), n <= m,
         f[n][1] = "done", Len(b) \in Nat
  PROVE  g[m] = f[n]
<1>1. f[n] = g[n]
  <2>1. n \in 0..n
    OBVIOUS
  <2> QED BY <2>1, TracesAgree
<1> DEFINE S == {j \in Nat : n + j <= m => g[n + j] = f[n]}
<1>2. 0 \in S
  <2>1. n + 0 = n
    OBVIOUS
  <2> QED BY <1>1, <2>1
<1>3. ASSUME NEW j \in Nat, j \in S PROVE j + 1 \in S
  <2> SUFFICES ASSUME n + (j + 1) <= m PROVE g[n + (j + 1)] = f[n]
    OBVIOUS
  <2>1. n + (j + 1) \in 1..m /\ (n + (j + 1)) - 1 = n + j /\ n + j <= m /\ n \in 0..n
    OBVIOUS
  <2>2. g[n + j] = f[n]
    BY <1>3, <2>1
  <2>3. Shaped(f[n], b)
    BY <2>1 DEF Trace
  <2>4. g[n + (j + 1)] = StepOf(g[n + j], d, b)
    BY <2>1 DEF Trace
  <2> QED BY <2>2, <2>3, <2>4, DoneStays
<1> HIDE DEF S
<1>4. Nat \subseteq S
  BY <1>2, <1>3, SetInduction
<1>5. m - n \in Nat /\ n + (m - n) = m
  OBVIOUS
<1> QED BY <1>4, <1>5 DEF S

\* Two calls on the same buffer come to the same end.
LEMMA OneOutcome ==
  ASSUME NEW d, NEW b, NEW w, NEW v, Reached(d, b, w), Reached(d, b, v), w[1] = "done", v[1] = "done", Len(b) \in Nat
  PROVE  w = v
<1>1. PICK n \in Nat : \E f : Trace(d, b, f, n) /\ f[n] = w
  BY DEF Reached
<1>2. PICK f : Trace(d, b, f, n) /\ f[n] = w
  BY <1>1
<1>3. PICK m \in Nat : \E g : Trace(d, b, g, m) /\ g[m] = v
  BY DEF Reached
<1>4. PICK g : Trace(d, b, g, m) /\ g[m] = v
  BY <1>3
<1>5. CASE n <= m
  BY <1>2, <1>4, <1>5, TraceEnds
<1>6. CASE m <= n
  BY <1>2, <1>4, <1>6, TraceEnds
<1> QED BY <1>5, <1>6

---------------------------------------------------------------------------
\* Calls on more bytes

Begins(b, c) ==
  /\ b \in Seq(Byte) /\ c \in Seq(Byte) /\ Len(b) <= Len(c) /\ \A j \in 1..Len(b) : b[j] = c[j]

\* A call that will ask for more bytes.
Doomed(w, b) ==
  \/ w[1] \in {"prefix", "rex", "opcode"} /\ w[2] = Len(b)
  \/ w[1] = "done" /\ w[4] = "NEED_MORE"

\* A peek at the end of the buffer finds neither prefix nor REX.
LEMMA PrefixAtEnd ==
  ASSUME NEW w, NEW d, NEW b, Len(b) \in Nat, w[2] = Len(b), w[1] \in {"prefix", "rex"}
  PROVE  /\ Seen(w, b) = -1 /\ StepOf(w, d, b) = StepSeen(w, d, -1)
         /\ Doomed(StepOf(w, d, b), b)
<1>1. Seen(w, b) = -1
  BY DEF Seen
<1>2. WantedAt(w) = 0
  BY DEF WantedAt
<1>3. StepOf(w, d, b) = StepSeen(w, d, -1)
  BY <1>1, <1>2 DEF StepOf
<1>4. CASE w[1] = "prefix"
  <2>1. StepSeen(w, d, -1) = AtPrefix(w, d, -1)
    BY <1>4, StepSeenIs
  <2>2. AtPrefix(w, d, -1)[1] = "rex" /\ AtPrefix(w, d, -1)[2] = w[2]
    BY PrefixBytes DEF AtPrefix, Worked
  <2> QED BY <1>1, <1>3, <2>1, <2>2 DEF Doomed
<1>5. CASE w[1] = "rex"
  <2>1. StepSeen(w, d, -1) = AtRex(w, d, -1)
    BY <1>5, StepSeenIs
  <2>2. AtRex(w, d, -1)[1] = "opcode" /\ AtRex(w, d, -1)[2] = w[2]
    BY PrefixBytes DEF AtRex, Worked
  <2> QED BY <1>1, <1>3, <2>1, <2>2 DEF Doomed
<1> QED BY <1>1, <1>3, <1>4, <1>5

\* Behind the last byte a call that still wants its opcode runs out.
LEMMA DoomedStays ==
  ASSUME NEW w, NEW d, NEW b, Len(b) \in Nat, Shaped(w, b), Doomed(w, b) PROVE Doomed(StepOf(w, d, b), b)
<1>1. CASE w[1] \in {"prefix", "rex"} /\ w[2] = Len(b)
  BY <1>1, PrefixAtEnd
<1>2. CASE w[1] = "opcode" /\ w[2] = Len(b)
  <2>1. WantedAt(w) = 1 /\ Len(b) - w[2] = 0
    BY <1>2 DEF WantedAt
  <2>2. StepOf(w, d, b) = OutOfBytes(w, b)
    BY <1>2, <2>1 DEF StepOf
  <2>3. OutOfBytes(w, b)[1] = "done" /\ OutOfBytes(w, b)[4] = "NEED_MORE"
    BY DEF OutOfBytes
  <2> QED BY <2>2, <2>3 DEF Doomed
<1>3. CASE w[1] = "done" /\ w[4] = "NEED_MORE"
  BY <1>3, DoneStays
<1> QED BY <1>1, <1>2, <1>3 DEF Doomed

\* Where a step that takes a field leaves the cursor.
LEMMA FieldTaken ==
  ASSUME NEW w, NEW d, NEW b, WantedAt(w) # 0, w[1] # "dispatch" PROVE StepSeen(w, d, b)[2] = w[2] + WantedAt(w)
<1>1. w[1] \in {"opcode", "escape", "opcode3", "modrm", "sib", "tail"} => WantedAt(w) = 1
  BY DEF WantedAt
<1>2. CASE w[1] \in {"opcode", "escape", "opcode3"}
  <2>1. AtOpcode(w, b)[2] = w[2] + 1 /\ AtEscape(w, b)[2] = w[2] + 1 /\ AtOpcode3(w, b)[2] = w[2] + 1
    BY DEF AtOpcode, AtEscape, AtOpcode3, Worked
  <2> QED BY <1>1, <1>2, <2>1, StepSeenIs
<1>3. CASE w[1] \in {"modrm", "sib", "tail"}
  <2>1. AtModrm(w, b)[2] = w[2] + 1 /\ AtSib(w, b)[2] = w[2] + 1 /\ AtTail(w, b)[2] = w[2] + 1
    BY DEF AtModrm, AtSib, AtTail, Worked
  <2> QED BY <1>1, <1>3, <2>1, StepSeenIs
<1>4. CASE w[1] = "disp"
  <2>1. AtDisp(w)[2] = w[2] + WantedAt(w)
    BY DEF AtDisp, Worked
  <2> QED BY <1>4, <2>1, StepSeenIs
<1>5. CASE w[1] = "operands" /\ w[3][10] <= Len(w[3][9].shapes)
  <2>1. AtOperands(w)[2] = w[2] + WantedAt(w)
    BY <1>5 DEF AtOperands, Worked
  <2> QED BY <1>5, <2>1, StepSeenIs
<1> QED BY <1>2, <1>3, <1>4, <1>5 DEF WantedAt

\* The VEX front-end reads no byte behind the one it stops at.
LEMMA VexStable ==
  ASSUME NEW b, NEW c, Begins(b, c), NEW p \in Nat, p + 1 <= Len(b)
  PROVE  /\ VexBytes(b, p) = VexBytes(c, p) /\ VexBytes(b, p) \in {3, 4}
         /\ VexComplete(b, p) => DecodeVex(b, p) = DecodeVex(c, p)
         /\ ~VexComplete(b, p) => DecodeVex(b, p).status = "NEED_MORE" /\ DecodeVex(b, p).pos = Len(b)
         /\ VexComplete(c, p) => DecodeVex(c, p).pos = p + VexBytes(b, p)
         /\ ~VexComplete(c, p) => DecodeVex(c, p).status = "NEED_MORE" /\ DecodeVex(c, p).pos = Len(c)
<1>1. b[p + 1] = c[p + 1] /\ Len(b) \in Nat /\ Len(c) \in Nat /\ Len(b) <= Len(c)
  BY DEF Begins
<1>2. VexBytes(b, p) = VexBytes(c, p) /\ VexBytes(b, p) \in {3, 4}
  BY <1>1 DEF VexBytes
<1>3. ASSUME VexComplete(b, p) PROVE DecodeVex(b, p) = DecodeVex(c, p)
  <2>1. VexComplete(c, p)
    BY <1>1, <1>2, <1>3 DEF VexComplete
  <2>2. b[p + 2] = c[p + 2] /\ b[p + 3] = c[p + 3]
    BY <1>1, <1>2, <1>3 DEF VexComplete, Begins
  <2>3. b[p + 1] = x(C,4) => b[p + 4] = c[p + 4]
    BY <1>1, <1>3 DEF VexComplete, Begins, VexBytes
  <2>4. (IF b[p + 1] = x(C,4) THEN LongForm(b[p + 2], b[p + 3], b[p + 4]) ELSE ShortForm(b[p + 2], b[p + 3]))
          = (IF c[p + 1] = x(C,4) THEN LongForm(c[p + 2], c[p + 3], c[p + 4]) ELSE ShortForm(c[p + 2], c[p + 3]))
    BY <1>1, <2>2, <2>3
  <2> QED BY <1>1, <1>2, <1>3, <2>1, <2>4 DEF DecodeVex
<1>4. ~VexComplete(b, p) => DecodeVex(b, p).status = "NEED_MORE" /\ DecodeVex(b, p).pos = Len(b)
  BY DEF DecodeVex
<1>5. VexComplete(c, p) => DecodeVex(c, p).pos = p + VexBytes(b, p)
  BY <1>2 DEF DecodeVex
<1>6. ~VexComplete(c, p) => DecodeVex(c, p).status = "NEED_MORE" /\ DecodeVex(c, p).pos = Len(c)
  BY DEF DecodeVex
<1> QED BY <1>2, <1>3, <1>4, <1>5, <1>6

\* What a step that is not the dispatch makes of two bytes that differ.
LEMMA SeenIgnored ==
  ASSUME NEW w, NEW d, NEW y, NEW z, WantedAt(w) = 0, w[1] \notin {"prefix", "rex"}
  PROVE  StepSeen(w, d, y) = StepSeen(w, d, z)
<1>1. w[1] \notin {"opcode", "escape", "opcode3", "modrm", "sib", "tail"}
  BY DEF WantedAt
<1> QED BY <1>1 DEF StepSeen

\* A peek that differs is one that took a byte.
LEMMA PeekAgrees ==
  ASSUME NEW w, NEW d, NEW z, w[2] \in Nat, w[1] \in {"prefix", "rex"}
  PROVE  StepSeen(w, d, z) = StepSeen(w, d, -1) \/ StepSeen(w, d, z)[2] = w[2] + 1
<1>1. CASE w[1] = "prefix"
  <2>1. StepSeen(w, d, z) = AtPrefix(w, d, z) /\ StepSeen(w, d, -1) = AtPrefix(w, d, -1)
    BY <1>1, StepSeenIs
  <2>2. CASE w[3][1].count < MaxPrefixes /\ z \in Prefixes
    <3>1. AtPrefix(w, d, z)[2] = w[2] + 1
      BY <2>2 DEF AtPrefix, Worked
    <3> QED BY <2>1, <3>1
  <2>3. CASE ~(w[3][1].count < MaxPrefixes /\ z \in Prefixes)
    <3>1. AtPrefix(w, d, z) = AtPrefix(w, d, -1)
      BY <2>3, PrefixBytes DEF AtPrefix
    <3> QED BY <2>1, <3>1
  <2> QED BY <2>2, <2>3
<1>2. CASE w[1] = "rex"
  <2>1. StepSeen(w, d, z) = AtRex(w, d, z) /\ StepSeen(w, d, -1) = AtRex(w, d, -1)
    BY <1>2, StepSeenIs
  <2>2. CASE d.mode = "LONG_64" /\ z \in Line(4)
    <3>1. AtRex(w, d, z)[2] = w[2] + 1
      BY <2>2 DEF AtRex, Worked
    <3> QED BY <2>1, <3>1
  <2>3. CASE ~(d.mode = "LONG_64" /\ z \in Line(4))
    <3>1. AtRex(w, d, z) = AtRex(w, d, -1)
      BY <2>3, PrefixBytes DEF AtRex
    <3> QED BY <2>1, <3>1
  <2> QED BY <2>2, <2>3
<1> QED BY <1>1, <1>2

\* The look-ahead for VZEROALL and the VEX front-end, on a buffer and on a
\* longer one.
LEMMA DispatchAgrees ==
  ASSUME NEW w, NEW d, NEW b, NEW c, Begins(b, c), Shaped(w, b), w[1] = "dispatch"
  PROVE  \/ AtDispatch(w, d, b) = AtDispatch(w, d, c)
         \/ Doomed(AtDispatch(w, d, b), b) /\ AtDispatch(w, d, c)[2] > Len(b)
<1> DEFINE u == w[3]
           vexAhead == d.mode = "LONG_64" /\ u[4] = 0 /\ u[5] \in {x(C,4), x(C,5)}
           zeroall(y) == /\ u[5] = x(C,4) /\ Len(y) - w[2] >= 3
                         /\ y[w[2] + 1] = x(E,1) /\ y[w[2] + 2] = x(7,C) /\ y[w[2] + 3] = x(C,0)
           p == w[2] - 1
           s(y) == AtDispatch(w, d, y)
           found(y) == IF DecodeVex(y, p).status = "OK"
                       THEN Worked(w, "synth", DecodeVex(y, p).pos,
                              <<u[1], u[2], u[3], u[4], u[5], u[6], "VEX", DecodeVex(y, p).vex,
                                [mn |-> DecodeVex(y, p).mn, shapes |-> DecodeVex(y, p).shapes], u[10]>>)
                       ELSE Failed(w, DecodeVex(y, p).status, DecodeVex(y, p).pos, ZeroRaw)
           zeroed == Worked(w, "synth", w[2] + 3,
                       <<u[1], u[2], u[3], u[4], u[5], u[6], "VZEROALL", u[8], [mn |-> "INSN", shapes |-> <<>>], u[10]>>)
<1>1. Len(b) \in Nat /\ Len(c) \in Nat /\ Len(b) <= Len(c) /\ \A j \in 1..Len(b) : b[j] = c[j]
  BY DEF Begins
<1>2. w[2] \in 1..Len(b) /\ p \in Nat /\ p + 1 = w[2] /\ p + 1 <= Len(b)
  BY <1>1 DEF Shaped
<1>3. CASE ~vexAhead
  BY <1>3 DEF AtDispatch
<1>4. CASE vexAhead
  <2>1. b[p + 1] = u[5]
    BY <1>2, <1>4 DEF Shaped
  <2>2. \A y : s(y) = IF zeroall(y) THEN zeroed ELSE found(y)
    BY <1>4 DEF AtDispatch
  <2>3. Len(b) - w[2] >= 3 => (zeroall(b) <=> zeroall(c))
    <3> SUFFICES ASSUME Len(b) - w[2] >= 3 PROVE zeroall(b) <=> zeroall(c)
      OBVIOUS
    <3>1. w[2] + 1 \in 1..Len(b) /\ w[2] + 2 \in 1..Len(b) /\ w[2] + 3 \in 1..Len(b) /\ Len(c) - w[2] >= 3
      BY <1>1, <1>2
    <3>2. b[w[2] + 1] = c[w[2] + 1] /\ b[w[2] + 2] = c[w[2] + 2] /\ b[w[2] + 3] = c[w[2] + 3]
      BY <1>1, <3>1
    <3> QED BY <3>1, <3>2
  <2>4. Len(b) - w[2] < 3 => ~zeroall(b)
    BY <1>1, <1>2
  <2>5. zeroed[2] = w[2] + 3 /\ \A y : found(y)[2] = DecodeVex(y, p).pos
    BY DEF Worked, Failed
  <2>6. \A y : DecodeVex(y, p).status = "NEED_MORE" => Doomed(found(y), b)
    BY DEF Failed, Doomed
  <2>v. /\ VexBytes(b, p) = VexBytes(c, p) /\ VexBytes(b, p) \in {3, 4}
        /\ VexComplete(b, p) => DecodeVex(b, p) = DecodeVex(c, p)
        /\ ~VexComplete(b, p) => DecodeVex(b, p).status = "NEED_MORE" /\ DecodeVex(b, p).pos = Len(b)
        /\ VexComplete(c, p) => DecodeVex(c, p).pos = p + VexBytes(b, p)
        /\ ~VexComplete(c, p) => DecodeVex(c, p).status = "NEED_MORE" /\ DecodeVex(c, p).pos = Len(c)
    BY <1>2, VexStable
  <2>z. zeroall(c) => VexBytes(b, p) = 4
    BY <2>1 DEF VexBytes
  <2>e. ~VexComplete(b, p) /\ Len(b) = Len(c) => DecodeVex(b, p) = DecodeVex(c, p)
    <3>1. VexComplete(b, p) <=> p + VexBytes(b, p) <= Len(b)
      BY DEF VexComplete
    <3>2. VexComplete(c, p) <=> p + VexBytes(c, p) <= Len(c)
      BY DEF VexComplete
    <3> QED BY <3>1, <3>2, <2>v DEF DecodeVex
  <2>c. (VexComplete(b, p) <=> p + VexBytes(b, p) <= Len(b)) /\ (VexComplete(c, p) <=> p + VexBytes(c, p) <= Len(c))
    BY DEF VexComplete
  <2>7. CASE zeroall(b)
    <3>1. zeroall(c)
      BY <2>3, <2>4, <2>7, <1>1, <1>2
    <3> QED BY <2>2, <2>7, <3>1
  <2>8. CASE ~zeroall(b) /\ zeroall(c)
    <3>1. Len(b) - w[2] < 3
      BY <2>3, <2>8, <1>1, <1>2
    <3>2. ~VexComplete(b, p)
      BY <2>z, <2>8, <2>c, <3>1, <1>1, <1>2
    <3>3. s(b) = found(b) /\ s(c) = zeroed
      BY <2>2, <2>8
    <3>4. Doomed(s(b), b)
      BY <3>2, <3>3, <2>v, <2>6
    <3>5. s(c)[2] = w[2] + 3 /\ w[2] + 3 > Len(b)
      BY <3>1, <3>3, <2>5, <1>1, <1>2
    <3> QED BY <3>4, <3>5
  <2>9. CASE ~zeroall(b) /\ ~zeroall(c)
    <3>1. s(b) = found(b) /\ s(c) = found(c)
      BY <2>2, <2>9
    <3>2. CASE DecodeVex(b, p) = DecodeVex(c, p)
      <4>1. found(b) = found(c)
        BY <3>2
      <4> QED BY <3>1, <4>1
    <3>3. CASE DecodeVex(b, p) # DecodeVex(c, p)
      <4>1. ~VexComplete(b, p) /\ Len(b) < Len(c)
        BY <3>3, <2>v, <2>e, <1>1
      <4>2. Doomed(s(b), b)
        BY <4>1, <3>1, <2>v, <2>6
      <4>3. s(c)[2] = DecodeVex(c, p).pos
        BY <3>1, <2>5
      <4>4. DecodeVex(c, p).pos > Len(b)
        BY <4>1, <2>v, <2>c, <1>1, <1>2
      <4> QED BY <4>2, <4>3, <4>4
    <3> QED BY <3>2, <3>3
  <2> QED BY <2>7, <2>8, <2>9
<1> QED BY <1>3, <1>4

\* On a longer buffer a step does the same, or the shorter one is about to
\* ask for more and the longer one moves past its end.
LEMMA StepAgrees ==
  ASSUME NEW w, NEW d, NEW b, NEW c, Begins(b, c), Shaped(w, b)
  PROVE  StepOf(w, d, b) = StepOf(w, d, c) \/ (Doomed(StepOf(w, d, b), b) /\ StepOf(w, d, c)[2] > Len(b))
<1>1. Len(b) \in Nat /\ Len(c) \in Nat /\ Len(b) <= Len(c) /\ (\A j \in 1..Len(b) : b[j] = c[j])
      /\ w[2] \in 0..Len(b) /\ WantedAt(w) \in Nat
  BY DEF Begins, Shaped
<1>2. CASE w[1] = "dispatch"
  BY <1>2, DispatchAgrees DEF StepOf
<1>3. CASE w[1] # "dispatch" /\ WantedAt(w) > Len(b) - w[2]
  <2>1. StepOf(w, d, b) = OutOfBytes(w, b)
    BY <1>3 DEF StepOf
  <2>2. Doomed(OutOfBytes(w, b), b) /\ OutOfBytes(w, c)[2] = Len(c)
    BY DEF Doomed, OutOfBytes
  <2>3. CASE WantedAt(w) > Len(c) - w[2]
    <3>1. StepOf(w, d, c) = OutOfBytes(w, c)
      BY <1>3, <2>3 DEF StepOf
    <3>2. Len(b) = Len(c) => OutOfBytes(w, b) = OutOfBytes(w, c)
      BY DEF OutOfBytes
    <3> QED BY <1>1, <2>1, <2>2, <3>1, <3>2
  <2>4. CASE ~(WantedAt(w) > Len(c) - w[2])
    <3>1. StepOf(w, d, c) = StepSeen(w, d, Seen(w, c))
      BY <1>3, <2>4 DEF StepOf
    <3>2. WantedAt(w) # 0
      BY <1>1, <1>3
    <3>3. StepSeen(w, d, Seen(w, c))[2] = w[2] + WantedAt(w)
      BY <1>3, <3>2, FieldTaken
    <3>4. w[2] + WantedAt(w) > Len(b)
      BY <1>1, <1>3
    <3> QED BY <2>1, <2>2, <3>1, <3>3, <3>4
  <2> QED BY <2>3, <2>4
<1>4. CASE w[1] # "dispatch" /\ ~(WantedAt(w) > Len(b) - w[2])
  <2>1. ~(WantedAt(w) > Len(c) - w[2])
    BY <1>1, <1>4
  <2>2. StepOf(w, d, b) = StepSeen(w, d, Seen(w, b)) /\ StepOf(w, d, c) = StepSeen(w, d, Seen(w, c))
    BY <1>4, <2>1 DEF StepOf
  <2>3. CASE w[2] < Len(b)
    <3>1. w[2] + 1 \in 1..Len(b) /\ w[2] < Len(c)
      BY <1>1, <2>3
    <3>2. Seen(w, b) = Seen(w, c)
      BY <1>1, <2>3, <3>1 DEF Seen
    <3> QED BY <2>2, <3>2
  <2>4. CASE ~(w[2] < Len(b))
    <3>1. w[2] = Len(b) /\ WantedAt(w) = 0 /\ w[2] \in Nat
      BY <1>1, <1>4, <2>4
    <3>2. CASE w[1] \notin {"prefix", "rex"}
      BY <2>2, <3>1, <3>2, SeenIgnored
    <3>3. CASE w[1] \in {"prefix", "rex"}
      <4>1. StepOf(w, d, b) = StepSeen(w, d, -1) /\ Doomed(StepOf(w, d, b), b)
        BY <1>1, <3>1, <3>3, PrefixAtEnd
      <4>2. StepOf(w, d, c) = StepSeen(w, d, -1) \/ StepOf(w, d, c)[2] = w[2] + 1
        BY <2>2, <3>1, <3>3, PeekAgrees
      <4>3. w[2] + 1 > Len(b)
        BY <3>1
      <4> QED BY <4>1, <4>2, <4>3
    <3> QED BY <3>2, <3>3
  <2> QED BY <2>3, <2>4
<1> QED BY <1>2, <1>3, <1>4

\* A state that is bound to ask for more bytes does so at the end.
LEMMA DoomedEnds ==
  ASSUME NEW d, NEW b, NEW f, NEW n \in Nat, Trace(d, b, f, n), Len(b) \in Nat, NEW j \in 0..n, Doomed(f[j], b)
  PROVE  Doomed(f[n], b)
<1> DEFINE S == {m \in Nat : j + m <= n => Doomed(f[j + m], b)}
<1>1. 0 \in S
  <2>1. j + 0 = j
    OBVIOUS
  <2> QED BY <2>1
<1>2. ASSUME NEW m \in Nat, m \in S PROVE m + 1 \in S
  <2> SUFFICES ASSUME j + (m + 1) <= n PROVE Doomed(f[j + (m + 1)], b)
    OBVIOUS
  <2>1. j + m <= n /\ j + m \in 0..n /\ j + (m + 1) \in 1..n /\ (j + (m + 1)) - 1 = j + m
    OBVIOUS
  <2>2. Doomed(f[j + m], b) /\ Shaped(f[j + m], b)
    BY <1>2, <2>1 DEF Trace
  <2>3. f[j + (m + 1)] = StepOf(f[j + m], d, b)
    BY <2>1 DEF Trace
  <2> QED BY <2>2, <2>3, DoomedStays
<1> HIDE DEF S
<1>3. Nat \subseteq S
  BY <1>1, <1>2, SetInduction
<1>4. n - j \in Nat /\ j + (n - j) = n
  OBVIOUS
<1> QED BY <1>3, <1>4 DEF S

LEMMA BeginLengths ==
  ASSUME NEW b, NEW c, Begins(b, c)
  PROVE  Len(b) \in Nat /\ Len(c) \in Nat /\ Len(b) <= Len(c) /\ \A j \in 1..Len(b) : b[j] = c[j]
BY DEF Begins

\* What is known of a state, on a longer and on a shorter buffer.
LEMMA ShapeLonger ==
  ASSUME NEW b, NEW c, Begins(b, c), NEW w, Shaped(w, b) PROVE Shaped(w, c)
BY BeginLengths DEF Shaped

LEMMA ShapeShorter ==
  ASSUME NEW b, NEW c, Begins(b, c), NEW w, Shaped(w, c), w[2] <= Len(b) PROVE Shaped(w, b)
BY BeginLengths DEF Shaped

\* A call that ended with a verdict ends with it on a longer buffer too.
LEMMA VerdictCarries ==
  ASSUME NEW d, NEW b, NEW c, Begins(b, c), NEW w, Reached(d, b, w), w[1] = "done", w[4] # "NEED_MORE"
  PROVE  Reached(d, c, w)
<1>1. PICK n \in Nat : \E f : Trace(d, b, f, n) /\ f[n] = w
  BY DEF Reached
<1>2. PICK f : Trace(d, b, f, n) /\ f[n] = w
  BY <1>1
<1>3. ~Doomed(f[n], b)
  BY <1>2 DEF Doomed
<1>4. \A j \in 0..n : ~Doomed(f[j], b)
  BY <1>2, <1>3, DoomedEnds, BeginLengths
<1>5. \A j \in 0..n : Shaped(f[j], b) /\ Shaped(f[j], c)
  BY <1>2, ShapeLonger DEF Trace
<1>6. ASSUME NEW j \in 1..n PROVE f[j] = StepOf(f[j - 1], d, c) /\ f[j - 1][2] <= f[j][2]
  <2>1. j - 1 \in 0..n /\ j \in 0..n
    OBVIOUS
  <2>2. f[j] = StepOf(f[j - 1], d, b) /\ f[j - 1][2] <= f[j][2]
    BY <1>2 DEF Trace
  <2>3. ~Doomed(StepOf(f[j - 1], d, b), b)
    BY <1>4, <2>1, <2>2
  <2>4. Shaped(f[j - 1], b)
    BY <1>5, <2>1
  <2> QED BY <2>2, <2>3, <2>4, StepAgrees
<1>7. Trace(d, c, f, n)
  BY <1>2, <1>5, <1>6 DEF Trace
<1> QED BY <1>2, <1>7 DEF Reached

\* A call that did not move past the end of a shorter buffer does the same on it.
LEMMA UnreadCarries ==
  ASSUME NEW d, NEW b, NEW c, Begins(b, c), NEW w, Reached(d, c, w), w[2] <= Len(b)
  PROVE  Reached(d, b, w)
<1>1. PICK n \in Nat : \E f : Trace(d, c, f, n) /\ f[n] = w
  BY DEF Reached
<1>2. PICK f : Trace(d, c, f, n) /\ f[n] = w
  BY <1>1
<1>t. Len(b) \in Nat /\ \A j \in 0..n : f[j][2] \in Nat
  BY <1>2, BeginLengths DEF Trace, Shaped
<1> DEFINE S == {m \in Nat : m <= n => f[n - m][2] <= Len(b)}
<1>3. 0 \in S
  <2>1. n - 0 = n
    OBVIOUS
  <2> QED BY <1>2, <2>1
<1>4. ASSUME NEW m \in Nat, m \in S PROVE m + 1 \in S
  <2> SUFFICES ASSUME m + 1 <= n PROVE f[n - (m + 1)][2] <= Len(b)
    OBVIOUS
  <2>1. m <= n /\ n - m \in 1..n /\ (n - m) - 1 = n - (m + 1) /\ n - m \in 0..n /\ n - (m + 1) \in 0..n
    OBVIOUS
  <2>2. f[n - m][2] <= Len(b) /\ f[n - m][2] \in Nat /\ f[n - (m + 1)][2] \in Nat
    BY <1>4, <1>t, <2>1
  <2>3. f[n - (m + 1)][2] <= f[n - m][2]
    BY <1>2, <2>1 DEF Trace
  <2> QED BY <1>t, <2>2, <2>3
<1> HIDE DEF S
<1>5. Nat \subseteq S
  BY <1>3, <1>4, SetInduction
<1>6. ASSUME NEW j \in 0..n PROVE f[j][2] <= Len(b)
  <2>1. n - j \in Nat /\ n - j <= n /\ n - (n - j) = j
    OBVIOUS
  <2> QED BY <1>5, <2>1 DEF S
<1>7. \A j \in 0..n : Shaped(f[j], b)
  BY <1>2, <1>6, ShapeShorter DEF Trace
<1>8. ASSUME NEW j \in 1..n PROVE f[j] = StepOf(f[j - 1], d, b) /\ f[j - 1][2] <= f[j][2]
  <2>1. j - 1 \in 0..n /\ j \in 0..n
    OBVIOUS
  <2>2. f[j] = StepOf(f[j - 1], d, c) /\ f[j - 1][2] <= f[j][2]
    BY <1>2 DEF Trace
  <2>3. ~(StepOf(f[j - 1], d, c)[2] > Len(b))
    BY <1>6, <1>t, <2>1, <2>2
  <2>4. Shaped(f[j - 1], b)
    BY <1>7, <2>1
  <2> QED BY <2>2, <2>3, <2>4, StepAgrees
<1>9. Trace(d, b, f, n)
  BY <1>2, <1>7, <1>8 DEF Trace
<1> QED BY <1>2, <1>9 DEF Reached

\* Without bytes there is no verdict but NEED_MORE.
LEMMA EmptyUndecided ==
  ASSUME NEW d, NEW w, Reached(d, <<>>, w), w[1] = "done" PROVE w[4] = "NEED_MORE"
<1>1. PICK n \in Nat : \E f : Trace(d, <<>>, f, n) /\ f[n] = w
  BY DEF Reached
<1>2. PICK f : Trace(d, <<>>, f, n) /\ f[n] = w
  BY <1>1
<1>3. Len(<<>>) = 0 /\ 0 \in 0..n
  OBVIOUS
<1>4. f[0][1] = "prefix" /\ f[0][2] = 0
  BY <1>2 DEF Trace, Opened
<1>5. Doomed(f[0], <<>>)
  BY <1>3, <1>4 DEF Doomed
<1>6. Doomed(f[n], <<>>)
  BY <1>2, <1>3, <1>5, DoomedEnds
<1> QED BY <1>2, <1>6 DEF Doomed

---------------------------------------------------------------------------
\* The calls the program makes

CallTraced ==
  /\ pc = "call" => pos = 0 /\ work = Opened(decoder)[3] /\ status = "NONE"
  /\ pc # "call" => (buf = <<>> /\ pc = "done" /\ status = "BAD_ARG") \/ Reached(decoder, buf, Now)
  /\ pc = "done" => status # "NONE"
  /\ status = "BAD_ARG" => buf = <<>>

\* The state of the machine is one of a call on its buffer.
LEMMA NowShaped == IndInv => Shaped(Now, buf)
<1> SUFFICES ASSUME IndInv PROVE Shaped(Now, buf)
  OBVIOUS
<1>1. Now[1] = pc /\ Now[2] = pos /\ Now[3][4] = map /\ Now[3][5] = opcode /\ WantedAt(Now) \in Nat
  BY NowParts, WantedNow, WantedBytes DEF IndInv
<1>2. pos \in 0..Len(buf)
  BY DEF IndInv, TypeOK, CursorInv
<1> QED BY <1>1, <1>2 DEF Shaped, IndInv, CursorInv

\* A step leaves the input alone and never starts a call.
LEMMA StepKeepsInput == ASSUME Next PROVE buf' = buf /\ decoder' = decoder /\ pc' # "call"
BY DEF Next, vars, input, RejectArgs, Begin, TakePrefix, EndPrefixes, TakeRex, NoRex, TakeField, TakeOpcode,
       TakeEscape, TakeOpcode3, TakeModrm, TakeSib, TakeDisp, TakeTail, RunOut, Dispatch, DispatchVzeroall,
       DispatchVex, DispatchEvex, DispatchLegacy, RejectSynth, AcceptSynth, ResolveOk, ResolveFails, Promote,
       TakeOperand, TooLong, Finish, Fail, Return

\* What the contract says of a step.
LEMMA StepMoves ==
  ASSUME IndInv, IndInv', Next
  PROVE  /\ pos <= pos'
         /\ pc' = "done" => status' # "NONE" /\ (status' = "BAD_ARG" => buf = <<>>)
         /\ pc' # "done" => status' = status
<1>1. [Contract!Next]_(Contract!vars)
  BY StepKeepsContract
<1>2. pc # "done"
  <2>1. CASE pc = "call"
    BY <2>1
  <2>2. CASE pc # "call"
    BY <2>2, StepIsFunction
  <2> QED BY <2>1, <2>2
<1>t. pc \in PcSet /\ pc' \in PcSet /\ pos \in Nat /\ pos <= Len(buf) /\ Len(buf) \in Nat
  BY DEF IndInv, TypeOK, CursorInv
<1>s. (pc = "done" <=> StageOf = 7) /\ (pc' = "done" <=> StageOf' = 7)
  BY <1>t DEF StageOf, PcSet
<1> USE DEF Contract!Idle, Contract!Prefixes, Contract!Rex, Contract!Opcode, Contract!Modrm,
            Contract!Lookup, Contract!Operands, Contract!Returned
<1>3. CASE Contract!Scan
  BY <1>3, <1>s, <1>t DEF Contract!Scan
<1>4. CASE Contract!Reject
  BY <1>4, <1>s, <1>t DEF Contract!Reject
<1>5. CASE Contract!Accept
  BY <1>5, <1>s, <1>t DEF Contract!Accept
<1>6. CASE Contract!Refuse
  BY <1>6, <1>s, <1>t DEF Contract!Refuse
<1>7. CASE Contract!Starve
  BY <1>7, <1>s, <1>t DEF Contract!Starve
<1>8. CASE UNCHANGED Contract!vars
  BY <1>8, <1>2, <1>s, <1>t DEF Contract!vars
<1> QED BY <1>1, <1>3, <1>4, <1>5, <1>6, <1>7, <1>8 DEF Contract!Next

LEMMA NextShaped == IndInv' => Shaped(Now, buf)'
BY NowShaped, PTL

LEMMA InitTraced == ASSUME Init PROVE CallTraced
<1>1. work = Opened(decoder)[3]
  BY DEF Init, work, Opened, DefaultEosz, DefaultEasz, Is64
<1> QED BY <1>1 DEF Init, CallTraced

LEMMA NewCallTraced == ASSUME NEW bytes, NewCall(bytes) PROVE CallTraced'
<1>1. work' = Opened(decoder')[3]
  BY DEF NewCall, work, Opened, DefaultEosz, DefaultEasz, Is64
<1> QED BY <1>1 DEF NewCall, CallTraced

\* Every step of the machine goes on with the call.
LEMMA StepTraced == ASSUME IndInv, IndInv', CallTraced, [Next]_vars PROVE CallTraced'
<1>1. CASE UNCHANGED vars
  <2>1. UNCHANGED <<pc, pos, work, status, decoder, buf, Now>>
    BY <1>1 DEF vars, input, work, Now
  <2> QED BY <2>1 DEF CallTraced
<1>2. CASE Next
  <2>1. buf' = buf /\ decoder' = decoder /\ pc' # "call"
    BY <1>2, StepKeepsInput
  <2>2. /\ pos <= pos'
        /\ pc' = "done" => status' # "NONE" /\ (status' = "BAD_ARG" => buf = <<>>)
        /\ pc' # "done" => status' = status
    BY <1>2, StepMoves
  <2>3. Shaped(Now, buf) /\ Shaped(Now', buf')
    BY NowShaped, NextShaped
  <2>4. (buf = <<>> /\ pc' = "done" /\ status' = "BAD_ARG") \/ Reached(decoder, buf, Now')
    <3>1. CASE RejectArgs
      BY <3>1 DEF RejectArgs, Return
    <3>2. CASE Begin
      <4>1. pos' = 0 /\ work' = Opened(decoder)[3] /\ status' = "NONE" /\ pc' = "prefix"
            /\ insn' = ZeroInsn /\ context' = ZeroContext
        BY <3>2 DEF Begin, CallTraced
      <4>2. Now' = Opened(decoder)
        BY <4>1 DEF Now, Opened
      <4> QED BY <4>2, <2>1, <2>3, TraceStarts
    <3>3. CASE pc # "call"
      <4>1. pc # "done" /\ Now' = StepOf(Now, decoder, buf)
        BY <1>2, <3>3, StepIsFunction
      <4>2. Reached(decoder, buf, Now)
        BY <3>3, <4>1 DEF CallTraced
      <4>3. Now[2] = pos /\ Now'[2] = pos'
        BY DEF Now
      <4> QED BY <2>1, <2>2, <2>3, <4>1, <4>2, <4>3, TraceGrows
    <3>4. pc = "call" => RejectArgs \/ Begin
      <4> SUFFICES ASSUME pc = "call" PROVE RejectArgs \/ Begin
        OBVIOUS
      <4>1. Wanted = 0 /\ Left >= 0
        BY DEF Wanted, Left, IndInv, TypeOK, CursorInv
      <4>2. ~RunOut
        BY <4>1 DEF RunOut, Left, IndInv, TypeOK, CursorInv
      <4> QED
        BY <1>2, <4>2 DEF Next, TakePrefix, EndPrefixes, TakeRex, NoRex, TakeField, TakeOpcode, TakeEscape, TakeOpcode3,
           TakeModrm, TakeSib, TakeDisp, TakeTail, Dispatch, DispatchVzeroall, DispatchVex, DispatchEvex,
           DispatchLegacy, RejectSynth, AcceptSynth, ResolveOk, ResolveFails, Promote, TakeOperand, TooLong, Finish
    <3> QED BY <3>1, <3>2, <3>3, <3>4
  <2>5. Reached(decoder, buf, Now') => Reached(decoder', buf', Now')
    BY <2>1
  <2> QED BY <2>1, <2>2, <2>4, <2>5 DEF CallTraced
<1> QED BY <1>1, <1>2

\* A call that starts over keeps to its types.
LEMMA NewCallTypes == ASSUME IndInv, NEW bytes \in Seq(Byte), NewCall(bytes) PROVE IndInv'
<1>1. eosz' \in Width /\ easz' \in Width /\ decoder' = decoder
  BY DEF NewCall, DefaultEosz, DefaultEasz, Width
<1> QED BY <1>1, ZeroTypes DEF NewCall, IndInv, TypeOK, CursorInv, PcSet, Byte, InitAccepts

---------------------------------------------------------------------------
\* A stream that arrives byte by byte

Arrived(n) == SubSeq(stream, 1, n)
Ended(b, w) == Reached(decoder, b, w) /\ w[1] = "done"

\* What arrived before the byte that came last was not enough, until a call
\* returned a verdict: that one is remembered, and what it was called with.
Received == stream \in Seq(Byte) /\ Len(buf) \in 0..Len(stream) /\ buf = Arrived(Len(buf))
Judged ==
  first # Undecided =>
    \E n \in 1..Len(buf) : \E w :
      Ended(Arrived(n), w) /\ w[4] # "NEED_MORE" /\ first = [status |-> w[4], insn |-> w[5], context |-> w[6]]
Waiting ==
  first = Undecided /\ Len(buf) >= 2 => \E w : Ended(Arrived(Len(buf) - 1), w) /\ w[4] = "NEED_MORE"
StreamInv == IndInv /\ CallTraced /\ Received /\ Judged /\ Waiting

\* What arrived first is the beginning of what arrived later.
LEMMA ArrivedBegins ==
  ASSUME stream \in Seq(Byte), NEW n \in 0..Len(stream), NEW m \in 0..n
  PROVE  Arrived(n) \in Seq(Byte) /\ Len(Arrived(n)) = n /\ Begins(Arrived(m), Arrived(n))
<1>1. Len(stream) \in Nat /\ m \in 0..Len(stream) /\ m <= n
  OBVIOUS
<1>2. Arrived(n) \in Seq(Byte) /\ Len(Arrived(n)) = n /\ \A j \in 1..n : Arrived(n)[j] = stream[j]
  BY <1>1 DEF Arrived
<1>3. Arrived(m) \in Seq(Byte) /\ Len(Arrived(m)) = m /\ \A j \in 1..m : Arrived(m)[j] = stream[j]
  BY <1>1 DEF Arrived
<1>4. \A j \in 1..m : j \in 1..n
  BY <1>1
<1> QED BY <1>1, <1>2, <1>3, <1>4 DEF Begins

\* A verdict of the call that is being made.
LEMMA VerdictEnded ==
  ASSUME IndInv, CallTraced, pc = "done", status # "BAD_ARG"
  PROVE  Ended(buf, Now) /\ Now[4] = status /\ (status # "NEED_MORE" => buf # <<>>)
<1>1. Reached(decoder, buf, Now) /\ Now[1] = pc /\ Now[4] = status
  BY NowParts DEF CallTraced
<1>2. buf = <<>> => status = "NEED_MORE"
  BY <1>1, EmptyUndecided
<1> QED BY <1>1, <1>2 DEF Ended

LEMMA InitStream == ASSUME StreamInit PROVE StreamInv
<1>1. Init /\ buf = <<>> /\ stream \in Seq(Byte) /\ first = Undecided
  BY StreamsAssumption DEF StreamInit
<1>2. IndInv /\ CallTraced
  BY <1>1, InitIndInv, InitTraced
<1>3. Len(buf) = 0 /\ Len(stream) \in Nat /\ Arrived(0) = <<>>
  BY <1>1 DEF Arrived
<1> QED BY <1>1, <1>2, <1>3 DEF StreamInv, Received, Judged, Waiting

\* Every step of the caller keeps what is known of the stream.
LEMMA StepStream == ASSUME StreamInv, [StreamNext]_streamVars PROVE StreamInv'
<1> USE DEF StreamInv
<1>t. stream \in Seq(Byte) /\ Len(stream) \in Nat /\ Len(buf) \in Nat /\ Len(buf) <= Len(stream) /\ buf = Arrived(Len(buf))
  BY DEF Received
<1>1. CASE [Next]_vars /\ UNCHANGED <<stream, first>>
  <2>1. IndInv' /\ CallTraced'
    BY <1>1, StepIndInv, StepTraced
  <2>2. buf' = buf /\ decoder' = decoder
    BY <1>1, StepKeepsInput DEF vars, input
  <2> QED BY <1>1, <2>1, <2>2 DEF Received, Judged, Waiting, Arrived, Ended
<1>c. ASSUME CallAgain
      PROVE  /\ IndInv' /\ CallTraced' /\ Received' /\ stream' = stream /\ decoder' = decoder
             /\ Len(buf') = Len(buf) + 1
  <2>1. Len(buf) + 1 \in 0..Len(stream) /\ NewCall(Arrived(Len(buf) + 1)) /\ stream' = stream
    BY <1>t, <1>c DEF CallAgain, Arrived
  <2>2. Arrived(Len(buf) + 1) \in Seq(Byte) /\ Len(Arrived(Len(buf) + 1)) = Len(buf) + 1
    BY <1>t, <2>1, ArrivedBegins
  <2>3. buf' = Arrived(Len(buf) + 1) /\ decoder' = decoder
    BY <2>1 DEF NewCall
  <2>4. IndInv' /\ CallTraced'
    BY <2>1, <2>2, NewCallTypes, NewCallTraced
  <2> QED BY <1>t, <2>1, <2>2, <2>3, <2>4 DEF Received, Arrived
<1>j. ASSUME CallAgain, first' = first PROVE Judged'
  <2>1. stream' = stream /\ decoder' = decoder /\ Len(buf') = Len(buf) + 1
    BY <1>c, <1>j
  <2>2. \A n \in 1..Len(buf) : n \in 1..Len(buf')
    BY <1>t, <2>1
  <2> QED BY <1>j, <2>1, <2>2 DEF Judged, Arrived, Ended
<1>2. CASE WaitForMore
  <2>1. CallAgain /\ first' = first /\ pc = "done" /\ status \in {"NEED_MORE", "BAD_ARG"}
    BY <1>2 DEF WaitForMore
  <2>2. ASSUME Len(buf') >= 2
        PROVE  \E w : Reached(decoder', SubSeq(stream', 1, Len(buf') - 1), w) /\ w[1] = "done" /\ w[4] = "NEED_MORE"
    <3>1. Len(buf') - 1 = Len(buf) /\ Len(buf) # 0 /\ stream' = stream /\ decoder' = decoder
      BY <1>t, <1>c, <2>1, <2>2
    <3>2. status = "NEED_MORE"
      BY <2>1, <3>1 DEF CallTraced
    <3>3. Ended(buf, Now) /\ Now[4] = "NEED_MORE"
      BY <2>1, <3>2, VerdictEnded
    <3>4. Ended(Arrived(Len(buf)), Now)
      BY <3>3, <1>t
    <3> QED BY <3>1, <3>3, <3>4 DEF Ended, Arrived
  <2>3. Waiting'
    BY <2>2 DEF Waiting, Ended, Arrived
  <2> QED BY <1>c, <1>j, <2>1, <2>3
<1>3. CASE CheckAgain
  <2>1. CallAgain /\ pc = "done" /\ status \notin {"NEED_MORE", "BAD_ARG"}
        /\ first' = IF first = Undecided THEN Outcome ELSE first
    BY <1>3 DEF CheckAgain, Decided
  <2>2. stream' = stream /\ decoder' = decoder /\ Len(buf') = Len(buf) + 1
    BY <1>c, <2>1
  <2>3. CASE first # Undecided
    <3>1. first' = first
      BY <2>1, <2>3
    <3>2. Undecided' = Undecided
      BY DEF Undecided
    <3>3. Waiting'
      BY <2>3, <3>1, <3>2 DEF Waiting
    <3> QED BY <1>c, <1>j, <2>1, <3>1, <3>3
  <2>4. CASE first = Undecided
    <3>1. first' = Outcome /\ status # "NONE"
      BY <2>1, <2>4 DEF CallTraced
    <3>2. Outcome.status # Undecided.status
      BY <3>1 DEF Outcome, Undecided
    <3>3. first' # Undecided
      BY <3>1, <3>2
    <3>4. Waiting'
      BY <3>3 DEF Waiting, Undecided
    <3>5. Ended(buf, Now) /\ buf # <<>> /\ Now[4] # "NEED_MORE"
      BY <2>1, VerdictEnded
    <3>7. Outcome = [status |-> Now[4], insn |-> Now[5], context |-> Now[6]]
      BY DEF Outcome, Now
    <3>8. Len(buf) \in 1..Len(buf')
      <4>1. Len(buf) # 0
        BY <3>5, <1>t DEF IndInv, TypeOK
      <4> QED BY <1>t, <2>2, <4>1
    <3>9. Judged'
      BY <2>2, <3>1, <3>5, <3>7, <3>8, <1>t DEF Judged, Ended, Arrived
    <3> QED BY <1>c, <2>1, <3>4, <3>9
  <2> QED BY <2>3, <2>4
<1>4. CASE UNCHANGED streamVars
  <2>1. [Next]_vars /\ UNCHANGED <<stream, first>>
    BY <1>4 DEF streamVars
  <2> QED BY <1>1, <2>1
<1> QED BY <1>1, <1>2, <1>3, <1>4 DEF StreamNext

LEMMA StreamKept == StreamSpec => []StreamInv
<1>1. StreamInit => StreamInv
  BY InitStream
<1>2. StreamInv /\ [StreamNext]_streamVars => StreamInv'
  BY StepStream
<1> QED BY <1>1, <1>2, PTL DEF StreamSpec

\* For every stream and initialised decoder, a verdict on the first bytes of
\* the stream is the verdict on any more of it, with the same instruction and
\* the same context: neither the look-ahead for VZEROALL nor the peeks for
\* prefixes and REX let a byte behind an instruction have a say in it.
THEOREM VerdictsStand == StreamSpec => []VerdictStands
<1>1. ASSUME StreamInv PROVE VerdictStands
  <2> SUFFICES ASSUME Decided, first # Undecided PROVE Outcome = first
    BY DEF VerdictStands
  <2>1. Ended(buf, Now) /\ Received
    BY <1>1, VerdictEnded DEF Decided, StreamInv
  <2>2. PICK n \in 1..Len(buf) : \E w : Ended(Arrived(n), w) /\ w[4] # "NEED_MORE"
                                          /\ first = [status |-> w[4], insn |-> w[5], context |-> w[6]]
    BY <1>1 DEF StreamInv, Judged
  <2>3. PICK w : Ended(Arrived(n), w) /\ w[4] # "NEED_MORE"
                   /\ first = [status |-> w[4], insn |-> w[5], context |-> w[6]]
    BY <2>2
  <2>4. Begins(Arrived(n), buf) /\ Len(buf) \in Nat
    <3>1. stream \in Seq(Byte) /\ Len(buf) \in 0..Len(stream) /\ n \in 0..Len(buf) /\ buf = Arrived(Len(buf))
      BY <2>1 DEF Received
    <3>2. Begins(Arrived(n), Arrived(Len(buf)))
      BY <3>1, ArrivedBegins
    <3> QED BY <3>1, <3>2
  <2>5. Reached(decoder, buf, w)
    BY <2>3, <2>4, VerdictCarries DEF Ended
  <2>6. w = Now
    BY <2>1, <2>3, <2>4, <2>5, OneOutcome DEF Ended
  <2> QED BY <2>3, <2>6 DEF Outcome, Now
<1> QED BY <1>1, StreamKept, PTL

\* For every stream and initialised decoder, the first verdict comes with the
\* byte that completes it: all that arrived before was read, and was not
\* enough.
THEOREM DecidesOnLast == StreamSpec => []DecidesOnLastByte
<1>1. ASSUME StreamInv PROVE DecidesOnLastByte
  <2> SUFFICES ASSUME Decided, first = Undecided, pos # Len(buf) PROVE FALSE
    BY DEF DecidesOnLastByte
  <2>1. Ended(buf, Now) /\ Now[4] # "NEED_MORE" /\ buf # <<>>
    BY <1>1, VerdictEnded DEF Decided, StreamInv
  <2>2. Now[2] = pos /\ pos \in Nat /\ pos < Len(buf) /\ Len(buf) \in Nat
    BY <1>1, NowParts DEF StreamInv, IndInv, TypeOK, CursorInv
  <2>3. stream \in Seq(Byte) /\ Len(buf) \in 0..Len(stream) /\ buf = Arrived(Len(buf)) /\ Len(buf) - 1 \in 0..Len(buf)
    BY <1>1, <2>2 DEF StreamInv, Received
  <2>4. Begins(Arrived(Len(buf) - 1), buf)
    <3>1. Begins(Arrived(Len(buf) - 1), Arrived(Len(buf)))
      BY <2>3, ArrivedBegins
    <3> QED BY <2>3, <3>1
  <2>5. Len(Arrived(Len(buf) - 1)) = Len(buf) - 1
    BY <2>3 DEF Arrived
  <2>6. Reached(decoder, Arrived(Len(buf) - 1), Now)
    BY <2>1, <2>2, <2>4, <2>5, UnreadCarries DEF Ended
  <2>7. CASE Len(buf) >= 2
    <3>1. PICK w : Ended(Arrived(Len(buf) - 1), w) /\ w[4] = "NEED_MORE"
      BY <1>1, <2>7 DEF StreamInv, Waiting
    <3>2. w = Now
      BY <2>1, <2>2, <2>5, <2>6, <3>1, OneOutcome DEF Ended
    <3> QED BY <2>1, <3>1, <3>2
  <2>8. CASE Len(buf) = 1
    <3>1. Arrived(0) = <<>>
      BY DEF Arrived
    <3>2. Len(buf) - 1 = 0
      BY <2>8
    <3>3. Arrived(Len(buf) - 1) = <<>>
      BY <3>1, <3>2
    <3> QED BY <3>3, <2>1, <2>6, <3>1, EmptyUndecided DEF Ended
  <2>9. \A a, l \in Nat : a < l => l = 1 \/ l >= 2
    OBVIOUS
  <2>10. pos \in Nat /\ Len(buf) \in Nat /\ pos < Len(buf)
    BY <2>2
  <2>11. Len(buf) = 1 \/ Len(buf) >= 2
    BY <2>9, <2>10
  <2> QED BY <2>7, <2>8, <2>11
<1> QED BY <1>1, StreamKept, PTL

---------------------------------------------------------------------------
\* The sweep

\* Between two calls of the sweep the decoder is where the last call left it,
\* and the next call is given the rest of the corpus and nothing else.
SweepState ==
  /\ corpus \in Seq(Byte) /\ corpus # <<>>
  /\ offset \in Nat /\ offset <= Len(corpus)
  /\ phase = "sweep" => offset < Len(corpus) /\ buf = Rest(offset)

SweepInv == DecoderInv /\ SweepState

\* A call on the structures of the last one keeps all that is known of the decoder.
LEMMA NewCallKeeps ==
  ASSUME DecoderInv, NEW bytes \in Seq(Byte), NewCall(bytes) PROVE DecoderInv' /\ status' = "NONE"
<1>1. IndInv'
  BY NewCallTypes DEF DecoderInv
<1>2. LengthInv'
  BY DEF NewCall, LengthInv, Opening, Unread, OpcodeRead, ModrmRead, Ledger, Reported, ZeroRaw, OneIf, Accepted,
         OpeningPcs, OpcodePcs, UnreadModrm, UnreadSib, UnreadImm
<1>3. EntryInv'
  <2>1. pc' = "call" /\ raw' = ZeroRaw /\ status' = "NONE" /\ entry' = NoEntry /\ form' = "LEGACY" /\ k' = 1 /\ map' = 0
    BY DEF NewCall
  <2>2. Modes'
    BY <1>1, <2>1 DEF NewCall, IndInv, TypeOK, Decoder, InitAccepts, Modes, Is64, DefaultEosz, DefaultEasz,
                      ZeroRaw, Accepted
  <2>4. TailRead' /\ VexRead' /\ LegacyFit'
    BY <2>1 DEF TailRead, VexRead, LegacyFit, Settled, TailPcs, Accepted, ZeroRaw
  <2>3. Collected' /\ Handed'
    BY <2>1 DEF NewCall, Collected, Handed, Settled, Accepted
  <2> QED BY <2>2, <2>3, <2>4 DEF EntryInv
<1>4. TailSized' /\ RegisterFit' /\ Cleared'
  BY DEF NewCall, TailSized, RegisterFit, Cleared, Settled, Accepted
<1> QED BY <1>1, <1>2, <1>3, <1>4 DEF DecoderInv, NewCall

\* Nothing of a call is changed by a step that leaves the call alone.
LEMMA StandsStill == ASSUME DecoderInv, UNCHANGED fullVars PROVE DecoderInv'
BY StepFull, StepIndInv, StepLength, StepEntry, StepSized, StepRegisters, StepCleared DEF DecoderInv

\* What is passed to a call is a buffer again.
LEMMA RestIsBuffer ==
  ASSUME corpus \in Seq(Byte), NEW n \in Nat, n <= Len(corpus)
  PROVE  Rest(n) \in Seq(Byte) /\ Len(Rest(n)) = Len(corpus) - n
<1>1. n + 1 \in Int /\ Len(corpus) \in Int /\ Len(corpus) \in Nat
  OBVIOUS
<1>2. \A j \in n + 1..Len(corpus) : corpus[j] \in Byte
  OBVIOUS
<1>3. Rest(n) \in Seq(Byte)
  BY <1>1, <1>2 DEF Rest
<1>4. Len(Rest(n)) = Len(corpus) - n
  BY <1>1 DEF Rest
<1> QED BY <1>3, <1>4

LEMMA InitSweep == ASSUME SweepInit PROVE SweepInv
<1>1. DecoderInv
  BY InitFull, InitIndInv, InitLength, InitEntry, InitSized, InitRegisters, InitCleared DEF DecoderInv, SweepInit
<1>2. corpus \in Seq(Byte) /\ corpus # <<>> /\ buf = corpus /\ offset = 0
  BY <1>1 DEF SweepInit, DecoderInv, IndInv, TypeOK
<1>3. Len(corpus) \in Nat \ {0} /\ Rest(0) = corpus
  BY <1>2 DEF Rest
<1> QED BY <1>1, <1>2, <1>3 DEF SweepInv, SweepState

LEMMA StepSweep == ASSUME SweepInv, [SweepNext]_sweepVars PROVE SweepInv'
<1>t. /\ DecoderInv /\ corpus \in Seq(Byte) /\ corpus # <<>> /\ Len(corpus) \in Nat \ {0}
      /\ offset \in Nat /\ offset <= Len(corpus)
  BY DEF SweepInv, SweepState
<1>1. CASE CallStep
  <2>1. [Next]_vars
    BY <1>1, StepFull DEF CallStep
  <2>2. DecoderInv'
    BY <1>t, <2>1, StepIndInv, StepLength, StepEntry, StepSized, StepRegisters, StepCleared DEF DecoderInv
  <2>3. buf' = buf
    BY <2>1, StepKeepsInput DEF vars, input
  <2> QED BY <1>1, <2>2, <2>3 DEF CallStep, SweepInv, SweepState, Rest
<1>c. ASSUME NEW from \in Nat, from < Len(corpus), CallAt(from), offset' = from, corpus' = corpus
      PROVE  SweepInv'
  <2>1. Rest(from) \in Seq(Byte) /\ buf' = Rest(from)
    BY <1>t, <1>c, RestIsBuffer DEF CallAt, NewCall
  <2>2. DecoderInv'
    BY <1>t, <1>c, <2>1, NewCallKeeps DEF CallAt
  <2> QED BY <1>t, <1>c, <2>1, <2>2 DEF SweepInv, SweepState, Rest
<1>2. CASE Advance
  <2>1. Accepted /\ phase = "sweep"
    BY <1>2, <1>t DEF Advance, CallOk, DecoderInv, Cleared, Accepted
  <2>2. insn.length = pos /\ pos \in Nat /\ pos <= Len(buf)
    BY <1>t, <2>1 DEF DecoderInv, IndInv, TypeOK, CursorInv, LengthInv, Reported
  <2>3. Len(buf) = Len(corpus) - offset
    BY <1>t, <2>1, RestIsBuffer DEF SweepInv, SweepState
  <2>4. offset' = offset + pos /\ offset' \in Nat /\ offset' <= Len(corpus) /\ corpus' = corpus
    BY <1>2, <1>t, <2>2, <2>3 DEF Advance
  <2>5. CASE offset' < Len(corpus) /\ CallAt(offset')
    BY <1>c, <2>4, <2>5
  <2>6. CASE phase' = "rep" /\ UNCHANGED fullVars
    BY <1>t, <2>4, <2>6, StandsStill DEF SweepInv, SweepState
  <2> QED BY <1>2, <2>5, <2>6 DEF Advance
<1>3. CASE Break
  BY <1>3, <1>t, StandsStill DEF Break, SweepInv, SweepState
<1>4. CASE EndOfRep
  <2>1. CASE offset' = 0 /\ CallAt(0)
    BY <1>4, <1>t, <1>c, <2>1 DEF EndOfRep
  <2>2. CASE phase' = "finished" /\ UNCHANGED <<fullVars, offset, count>>
    BY <1>4, <1>t, <2>2, StandsStill DEF EndOfRep, SweepInv, SweepState
  <2> QED BY <1>4, <2>1, <2>2 DEF EndOfRep
<1>5. CASE UNCHANGED sweepVars
  <2>1. UNCHANGED fullVars /\ UNCHANGED <<corpus, offset, phase>>
    BY <1>5 DEF sweepVars
  <2>2. buf' = buf /\ DecoderInv'
    BY <1>t, <2>1, StandsStill DEF fullVars, vars, input
  <2> QED BY <2>1, <2>2 DEF SweepInv, SweepState, Rest
<1> QED BY <1>1, <1>2, <1>3, <1>4, <1>5 DEF SweepNext

LEMMA SweepKept == SweepSpec => []SweepInv
<1>1. SweepInit => SweepInv
  BY InitSweep
<1>2. SweepInv /\ [SweepNext]_sweepVars => SweepInv'
  BY StepSweep
<1> QED BY <1>1, <1>2, PTL DEF SweepSpec

\* For every corpus and initialised decoder and any number of repetitions, the
\* loops of bench and bench_insn_only never step past the end of the corpus:
\* the length of an accepted instruction is within the rest the call was given.
THEOREM SweepStaysInside == SweepSpec => []SweepInBounds
<1>1. SweepInv => SweepInBounds
  BY DEF SweepInv, SweepState, SweepInBounds
<1> QED BY <1>1, SweepKept, PTL

---------------------------------------------------------------------------
\* A sweep as a function of the corpus

Remains(c, o) == SubSeq(c, o + 1, Len(c))
CallEnds(d, c, o, w) == Reached(d, Remains(c, o), w) /\ w[1] = "done"

\* n instructions, one behind the other, lead from the first byte to offset o.
Hop(d, c, o, p) ==
  o < Len(c) /\ \E w : CallEnds(d, c, o, w) /\ w[4] = "OK" /\ p = o + w[5].length
Path(d, c, g, n) ==
  g[0] = 0 /\ (\A j \in 0..n : g[j] \in 0..Len(c)) /\ \A j \in 1..n : Hop(d, c, g[j - 1], g[j])
Swept(d, c, n, o) == \E g : Path(d, c, g, n) /\ g[n] = o

\* The sweep ends there: the corpus is used up, or the next call fails.
Stops(d, c, o)       == o >= Len(c) \/ \E w : CallEnds(d, c, o, w) /\ w[4] # "OK"
SweptAll(d, c, n, o) == Swept(d, c, n, o) /\ Stops(d, c, o)

\* A sweep starts with nothing counted.
LEMMA SweptNothing == ASSUME NEW d, NEW c, Len(c) \in Nat PROVE Swept(d, c, 0, 0)
<1> DEFINE g == [j \in 0..0 |-> 0]
<1>1. g[0] = 0 /\ 1..0 = {} /\ \A j \in 0..0 : g[j] \in 0..Len(c)
  OBVIOUS
<1> HIDE DEF g
<1>2. Path(d, c, g, 0)
  BY <1>1 DEF Path
<1> QED BY <1>1, <1>2 DEF Swept

\* One instruction further.
LEMMA SweptFurther ==
  ASSUME NEW d, NEW c, NEW n \in Nat, NEW o, Swept(d, c, n, o), NEW p \in 0..Len(c), Hop(d, c, o, p)
  PROVE  Swept(d, c, n + 1, p)
<1>1. PICK f : Path(d, c, f, n) /\ f[n] = o
  BY DEF Swept
<1> DEFINE g == [j \in 0..n + 1 |-> IF j <= n THEN f[j] ELSE p]
<1>2. (\A j \in 0..n : g[j] = f[j]) /\ g[n + 1] = p
  OBVIOUS
<1> HIDE DEF g
<1>3. g[0] = 0
  BY <1>1, <1>2 DEF Path
<1>4. ASSUME NEW j \in 0..n + 1 PROVE g[j] \in 0..Len(c)
  <2>1. j \in 0..n \/ j = n + 1
    OBVIOUS
  <2> QED BY <1>1, <1>2, <2>1 DEF Path
<1>5. ASSUME NEW j \in 1..n + 1 PROVE Hop(d, c, g[j - 1], g[j])
  <2>1. CASE j \in 1..n
    <3>1. j \in 0..n /\ j - 1 \in 0..n
      BY <2>1
    <3> QED BY <1>1, <1>2, <2>1, <3>1 DEF Path
  <2>2. CASE j = n + 1
    <3>1. j - 1 = n /\ n \in 0..n
      BY <2>2
    <3> QED BY <1>1, <1>2, <2>2, <3>1
  <2> QED BY <2>1, <2>2
<1>6. Path(d, c, g, n + 1)
  BY <1>3, <1>4, <1>5 DEF Path
<1> QED BY <1>2, <1>6 DEF Swept

\* There is one way to go on from an offset, or none.
LEMMA OneHop ==
  ASSUME NEW d, NEW c \in Seq(Byte), NEW o \in 0..Len(c), NEW w, NEW v, CallEnds(d, c, o, w), CallEnds(d, c, o, v)
  PROVE  w = v
<1>1. Len(Remains(c, o)) \in Nat
  <2>1. o + 1 \in Int /\ Len(c) \in Int /\ Len(c) \in Nat
    OBVIOUS
  <2>2. \A j \in o + 1..Len(c) : c[j] \in Byte
    OBVIOUS
  <2>3. SubSeq(c, o + 1, Len(c)) \in Seq(Byte)
    BY <2>1, <2>2
  <2> QED BY <2>3 DEF Remains
<1> QED BY <1>1, OneOutcome DEF CallEnds

\* An offset has one successor at most.
LEMMA HopsAgree ==
  ASSUME NEW d, NEW c \in Seq(Byte), NEW o \in 0..Len(c), NEW p, NEW q, Hop(d, c, o, p), Hop(d, c, o, q)
  PROVE  p = q
<1>1. PICK w : CallEnds(d, c, o, w) /\ w[4] = "OK" /\ p = o + w[5].length
  BY DEF Hop
<1>2. PICK v : CallEnds(d, c, o, v) /\ v[4] = "OK" /\ q = o + v[5].length
  BY DEF Hop
<1>3. w = v
  BY <1>1, <1>2, OneHop
<1> QED BY <1>1, <1>2, <1>3

\* And none where the sweep ends.
LEMMA NoHopBehindStop ==
  ASSUME NEW d, NEW c \in Seq(Byte), NEW o \in 0..Len(c), NEW p, Hop(d, c, o, p) PROVE ~Stops(d, c, o)
<1> SUFFICES ASSUME Stops(d, c, o) PROVE FALSE
  OBVIOUS
<1>1. PICK w : CallEnds(d, c, o, w) /\ w[4] = "OK"
  BY DEF Hop
<1>2. ~(o >= Len(c))
  <2>1. o < Len(c)
    BY DEF Hop
  <2> QED BY <2>1
<1>3. PICK v : CallEnds(d, c, o, v) /\ v[4] # "OK"
  BY <1>2 DEF Stops
<1> QED BY <1>1, <1>3, OneHop

\* Two sweeps go through the same offsets.
LEMMA PathsAgree ==
  ASSUME NEW d, NEW c \in Seq(Byte), NEW f, NEW g, NEW n \in Nat, NEW m \in Nat, n <= m,
         Path(d, c, f, n), Path(d, c, g, m)
  PROVE  f[n] = g[n]
<1> DEFINE S == {j \in Nat : j <= n => f[j] = g[j]}
<1>1. 0 \in S
  BY DEF Path
<1>2. ASSUME NEW j \in Nat, j \in S PROVE j + 1 \in S
  <2> SUFFICES ASSUME j + 1 <= n PROVE f[j + 1] = g[j + 1]
    OBVIOUS
  <2>1. j + 1 \in 1..n /\ j + 1 \in 1..m /\ (j + 1) - 1 = j /\ j <= n /\ j \in 0..n
    OBVIOUS
  <2>2. f[j] = g[j] /\ f[j] \in 0..Len(c)
    BY <1>2, <2>1 DEF Path
  <2>3. Hop(d, c, f[j], f[j + 1]) /\ Hop(d, c, g[j], g[j + 1])
    BY <2>1 DEF Path
  <2> QED BY <2>2, <2>3, HopsAgree
<1> HIDE DEF S
<1>3. Nat \subseteq S
  BY <1>1, <1>2, SetInduction
<1> QED BY <1>3 DEF S

\* Neither of two sweeps ends before the other.
LEMMA NotShorter ==
  ASSUME NEW d, NEW c \in Seq(Byte), NEW n \in Nat, NEW m \in Nat, NEW o, NEW p,
         SweptAll(d, c, n, o), SweptAll(d, c, m, p), n <= m
  PROVE  n = m /\ o = p
<1>1. PICK f : Path(d, c, f, n) /\ f[n] = o
  BY DEF SweptAll, Swept
<1>2. PICK g : Path(d, c, g, m) /\ g[m] = p
  BY DEF SweptAll, Swept
<1>3. g[n] = o
  BY <1>1, <1>2, PathsAgree
<1>4. n = m
  <2> SUFFICES ASSUME n < m PROVE FALSE
    OBVIOUS
  <2>1. n + 1 \in 1..m /\ (n + 1) - 1 = n /\ n \in 0..m
    OBVIOUS
  <2>2. Hop(d, c, o, g[n + 1]) /\ o \in 0..Len(c)
    BY <1>2, <1>3, <2>1 DEF Path
  <2> QED BY <2>2, NoHopBehindStop DEF SweptAll
<1> QED BY <1>2, <1>3, <1>4

\* All sweeps of a corpus count the same and stop at the same place.
LEMMA OneSweep ==
  ASSUME NEW d, NEW c \in Seq(Byte), NEW n \in Nat, NEW m \in Nat, NEW o, NEW p,
         SweptAll(d, c, n, o), SweptAll(d, c, m, p)
  PROVE  n = m /\ o = p
<1>1. n <= m \/ m <= n
  OBVIOUS
<1> QED BY <1>1, NotShorter

---------------------------------------------------------------------------
\* The calls of the sweep

\* The verdict of decode_full with room for four operands is the decoder's.
FullState ==
  /\ args \in Call /\ args.hasArray /\ args.capacity = 4
  /\ args.full /\ stage \in {"check", "build"} => Accepted
  /\ args.full /\ stage = "returned" => pc = "done" /\ verdict = status

\* decode_full goes on to build, and has room.
LEMMA StepFullState == ASSUME DecoderInv, FullState, [FullNext]_fullVars PROVE FullState'
<1> USE DEF FullState, Accepted
<1>1. CASE RejectFull
  BY <1>1 DEF RejectFull
<1>2. CASE StartDecode
  BY <1>2 DEF StartDecode
<1>3. CASE DecodeStep
  BY <1>3 DEF DecodeStep
<1>4. CASE DecodeFails
  BY <1>4 DEF DecodeFails, Leave, vars
<1>5. CASE DecodeReturns
  BY <1>5 DEF DecodeReturns, vars
<1>6. CASE RejectArray
  <2>1. args.full => Count \in 0..4
    BY <1>6, AcceptedCount DEF RejectArray
  <2>2. ~args.full
    BY <1>6, <2>1 DEF RejectArray, Room, RoomForAll
  <2> QED BY <1>6, <2>2 DEF RejectArray
<1>7. CASE StartBuild
  BY <1>7 DEF StartBuild, vars
<1>8. CASE BuildOperand
  BY <1>8 DEF BuildOperand, vars
<1>9. CASE FinishBuild
  BY <1>9 DEF FinishBuild, Leave, vars
<1>10. CASE UNCHANGED fullVars
  BY <1>10 DEF fullVars, vars
<1> QED BY <1>1, <1>2, <1>3, <1>4, <1>5, <1>6, <1>7, <1>8, <1>9, <1>10 DEF FullNext

\* What a call that returned has come to.
LEMMA SweepCallEnded ==
  ASSUME DecoderInv, CallTraced, FullState, CallReturned, buf # <<>>
  PROVE  Ended(buf, Now) /\ Now[4] = status /\ Now[5] = insn /\ (CallOk <=> status = "OK")
<1>1. pc = "done" /\ (CallOk <=> status = "OK")
  BY DEF CallReturned, CallOk, Returned, FullState
<1>2. status # "BAD_ARG" /\ IndInv
  BY DEF CallTraced, DecoderInv
<1> QED BY <1>1, <1>2, VerdictEnded, NowParts

\* Where the bench has come to: the repetitions before the current one, what
\* was counted in them, and how many there are of the bench up to the j-th.
Base     == IF args.full THEN 0 ELSE Reps
Counted  == IF Len(ends) > Base THEN ends[Len(ends)].count ELSE 0
Turn(j)  == IF j <= Reps THEN j ELSE j - Reps
EndKind  == [bench : {"full", "insn"}, count : Nat, offset : Nat]
EndsMade ==
  /\ ends \in Seq(EndKind)
  /\ \A j \in 1..Len(ends) :
       /\ ends[j].bench = IF j <= Reps THEN "full" ELSE "insn"
       /\ \E n \in Nat : SweptAll(decoder, corpus, n, ends[j].offset) /\ ends[j].count = Turn(j) * n
Progress ==
  /\ phase \in {"sweep", "rep", "finished"}
  /\ phase # "finished" => Len(ends) \in Base..Base + Reps - 1
  /\ phase = "finished" => Len(ends) = 2 * Reps
  /\ phase = "sweep" => \E n \in Nat : Swept(decoder, corpus, n, offset) /\ count = Counted + n
  /\ phase = "rep" => \E n \in Nat : SweptAll(decoder, corpus, n, offset) /\ count = Counted + n
RepsInv == SweepInv /\ CallTraced /\ FullState /\ EndsMade /\ Progress

LEMMA RepsNumber == Reps \in Nat /\ Reps >= 1
BY RepsAssumption

\* The repetitions of the bench that is running are those that are over.
LEMMA RepsOfBench ==
  ASSUME EndsMade, args \in Call, Len(ends) \in Base..Base + Reps - 1
  PROVE  RepsOf(Bench) = Len(ends) - Base
<1>1. Reps \in Nat /\ Len(ends) \in Nat /\ DOMAIN ends = 1..Len(ends)
  BY RepsNumber DEF EndsMade
<1>2. CASE args.full
  <2>1. Base = 0 /\ Bench = "full" /\ Len(ends) <= Reps
    BY <1>1, <1>2 DEF Base, Bench
  <2>2. {n \in DOMAIN ends : ends[n].bench = Bench} = 1..Len(ends)
    BY <1>1, <2>1 DEF EndsMade
  <2>3. Cardinality(1..Len(ends)) = Len(ends)
    <3>1. 1 \in Int /\ Len(ends) \in Int
      BY <1>1
    <3>2. Cardinality(1..Len(ends)) = IF 1 > Len(ends) THEN 0 ELSE Len(ends) - 1 + 1
      BY <3>1, FS_Interval
    <3> QED BY <1>1, <3>2
  <2>4. Len(ends) - Base = Len(ends)
    BY <1>1, <2>1
  <2> QED BY <2>2, <2>3, <2>4 DEF RepsOf
<1>3. CASE ~args.full
  <2>1. Base = Reps /\ Bench = "insn" /\ Len(ends) >= Reps
    BY <1>1, <1>3 DEF Base, Bench
  <2>2. {n \in DOMAIN ends : ends[n].bench = Bench} = Reps + 1..Len(ends)
    BY <1>1, <2>1 DEF EndsMade
  <2>3. Cardinality(Reps + 1..Len(ends)) = Len(ends) - Reps
    <3>1. Reps + 1 \in Int /\ Len(ends) \in Int
      BY <1>1
    <3>2. Cardinality(Reps + 1..Len(ends)) = IF Reps + 1 > Len(ends) THEN 0 ELSE Len(ends) - (Reps + 1) + 1
      BY <3>1, FS_Interval
    <3> QED BY <1>1, <2>1, <3>2
  <2> QED BY <1>1, <2>1, <2>2, <2>3 DEF RepsOf
<1> QED BY <1>2, <1>3

\* Counts are numbers.
LEMMA CountedSoFar == ASSUME EndsMade PROVE Counted \in Nat /\ Base \in Nat
<1>1. Base \in Nat /\ Len(ends) \in Nat
  BY RepsNumber DEF Base, EndsMade
<1>2. CASE Len(ends) > Base
  <2>1. Len(ends) \in 1..Len(ends)
    BY <1>1, <1>2
  <2>2. ends[Len(ends)] \in EndKind
    BY <2>1 DEF EndsMade
  <2> QED BY <1>1, <1>2, <2>2 DEF Counted, EndKind
<1>3. CASE ~(Len(ends) > Base)
  BY <1>1, <1>3 DEF Counted
<1> QED BY <1>2, <1>3

LEMMA InitReps == ASSUME SweepInit PROVE RepsInv
<1>1. SweepInv
  BY InitSweep
<1>2. CallTraced
  BY InitTraced DEF SweepInit, FullInit
<1>3. FullState
  BY DEF SweepInit, FullInit, FullState, Call
<1>4. EndsMade
  BY DEF SweepInit, EndsMade
<1>5. Progress
  <2>1. Len(ends) = 0 /\ Base = 0 /\ phase = "sweep" /\ count = 0 /\ offset = 0 /\ Reps \in Nat /\ Reps >= 1
    BY RepsNumber DEF SweepInit, Base
  <2>2. Counted = 0
    BY <2>1 DEF Counted
  <2>3. Swept(decoder, corpus, 0, 0)
    BY <1>1, SweptNothing DEF SweepInv, SweepState
  <2> QED BY <2>1, <2>2, <2>3 DEF Progress
<1> QED BY <1>1, <1>2, <1>3, <1>4, <1>5 DEF RepsInv

\* A step that neither begins nor ends a repetition, nor moves on in one.
LEMMA RepsStand ==
  ASSUME EndsMade, Progress, UNCHANGED <<decoder, corpus, args, offset, count, ends, phase>>
  PROVE  EndsMade' /\ Progress'
<1>1. Base' = Base /\ Counted' = Counted
  BY DEF Base, Counted
<1>2. EndsMade'
  BY DEF EndsMade, Turn
<1>3. Progress'
  BY <1>1 DEF Progress
<1> QED BY <1>2, <1>3

\* A call that the loop starts is a call from scratch.
LEMMA CallAtKnown ==
  ASSUME NEW from, CallAt(from), args' \in Call, args'.hasArray, args'.capacity = 4
  PROVE  CallTraced' /\ FullState' /\ decoder' = decoder
<1>1. CallTraced' /\ decoder' = decoder
  BY NewCallTraced DEF CallAt, NewCall
<1>2. stage' = "call"
  BY DEF CallAt
<1> QED BY <1>1, <1>2 DEF FullState

LEMMA StandKnown ==
  ASSUME CallTraced, FullState, UNCHANGED fullVars PROVE CallTraced' /\ FullState' /\ decoder' = decoder /\ args' = args
<1>1. UNCHANGED <<pc, pos, work, status, decoder, buf, Now, args, stage, verdict>>
  BY DEF fullVars, vars, input, work, Now
<1> QED BY <1>1 DEF CallTraced, FullState, Accepted

\* An accepted instruction leads on, a failed call ends the repetition.
LEMMA SweepMoves ==
  ASSUME RepsInv, phase = "sweep", CallReturned
  PROVE  /\ CallEnds(decoder, corpus, offset, Now) /\ Now[4] = status /\ Now[5] = insn
         /\ (CallOk <=> status = "OK") /\ offset < Len(corpus)
<1>1. DecoderInv /\ CallTraced /\ FullState /\ corpus \in Seq(Byte) /\ offset \in Nat /\ offset < Len(corpus)
      /\ buf = Rest(offset)
  BY DEF RepsInv, SweepInv, SweepState
<1>2. buf # <<>>
  <2>1. Len(buf) = Len(corpus) - offset /\ Len(corpus) \in Nat
    BY <1>1, RestIsBuffer
  <2>2. Len(<<>>) = 0
    OBVIOUS
  <2> QED BY <1>1, <2>1, <2>2
<1>3. Ended(buf, Now) /\ Now[4] = status /\ Now[5] = insn /\ (CallOk <=> status = "OK")
  BY <1>1, <1>2, SweepCallEnded
<1> QED BY <1>1, <1>3 DEF Ended, CallEnds, Rest, Remains

\* The next instruction.
LEMMA AdvanceKeeps == ASSUME RepsInv, SweepInv', Advance PROVE RepsInv'
<1> USE DEF RepsInv
<1>t. /\ phase = "sweep" /\ CallReturned /\ CallOk /\ corpus' = corpus /\ ends' = ends
      /\ offset' = offset + insn.length /\ count' = count + 1
  BY DEF Advance
<1>1. CallEnds(decoder, corpus, offset, Now) /\ Now[4] = "OK" /\ Now[5] = insn /\ offset < Len(corpus)
  BY <1>t, SweepMoves
<1>2. offset' \in 0..Len(corpus)
  BY <1>t DEF SweepInv, SweepState
<1>3. Hop(decoder, corpus, offset, offset')
  BY <1>t, <1>1 DEF Hop
<1>4. PICK n \in Nat : Swept(decoder, corpus, n, offset) /\ count = Counted + n
  BY <1>t DEF Progress
<1>5. Swept(decoder, corpus, n + 1, offset')
  BY <1>2, <1>3, <1>4, SweptFurther
<1>6. Counted \in Nat
  BY CountedSoFar
<1>7. count' = Counted + (n + 1) /\ n + 1 \in Nat
  BY <1>t, <1>4, <1>6
<1>8. ASSUME decoder' = decoder, args' = args PROVE EndsMade' /\ Base' = Base /\ Counted' = Counted
  BY <1>t, <1>8 DEF EndsMade, Turn, Base, Counted
<1>9. CASE offset' < Len(corpus) /\ CallAt(offset') /\ UNCHANGED <<args, phase>>
  <2>1. CallTraced' /\ FullState' /\ decoder' = decoder
    BY <1>9, CallAtKnown DEF FullState
  <2>2. Progress'
    BY <1>t, <1>5, <1>7, <1>8, <1>9, <2>1 DEF Progress
  <2> QED BY <1>8, <1>9, <2>1, <2>2
<1>10. CASE offset' >= Len(corpus) /\ phase' = "rep" /\ UNCHANGED fullVars
  <2>1. CallTraced' /\ FullState' /\ decoder' = decoder /\ args' = args
    BY <1>10, StandKnown
  <2>2. SweptAll(decoder, corpus, n + 1, offset')
    BY <1>5, <1>10 DEF SweptAll, Stops
  <2>3. Progress'
    BY <1>t, <1>7, <1>8, <1>10, <2>1, <2>2 DEF Progress
  <2> QED BY <1>8, <2>1, <2>3
<1> QED BY <1>9, <1>10 DEF Advance

\* A failed call.
LEMMA BreakKeeps == ASSUME RepsInv, SweepInv', Break PROVE RepsInv'
<1> USE DEF RepsInv
<1>t. /\ phase = "sweep" /\ CallReturned /\ ~CallOk /\ phase' = "rep"
      /\ UNCHANGED fullVars /\ UNCHANGED <<corpus, offset, count, ends>>
  BY DEF Break
<1>1. CallEnds(decoder, corpus, offset, Now) /\ Now[4] # "OK"
  BY <1>t, SweepMoves
<1>2. CallTraced' /\ FullState' /\ decoder' = decoder /\ args' = args
  BY <1>t, StandKnown
<1>3. PICK n \in Nat : Swept(decoder, corpus, n, offset) /\ count = Counted + n
  BY <1>t DEF Progress
<1>4. SweptAll(decoder, corpus, n, offset)
  BY <1>1, <1>3 DEF SweptAll, Stops
<1>5. EndsMade' /\ Base' = Base /\ Counted' = Counted
  BY <1>t, <1>2 DEF EndsMade, Turn, Base, Counted
<1>6. Progress'
  BY <1>t, <1>2, <1>3, <1>4, <1>5 DEF Progress
<1> QED BY <1>2, <1>5, <1>6

\* What the end of a repetition adds.
LEMMA EndAdded ==
  ASSUME RepsInv, EndOfRep
  PROVE  /\ ends' \in Seq(EndKind) /\ Len(ends') = Len(ends) + 1
         /\ \A j \in 1..Len(ends') :
              /\ ends'[j].bench = IF j <= Reps THEN "full" ELSE "insn"
              /\ \E n \in Nat : SweptAll(decoder, corpus, n, ends'[j].offset) /\ ends'[j].count = Turn(j) * n
         /\ ends'[Len(ends')].count = count
<1> USE DEF RepsInv
<1> DEFINE e == [bench |-> Bench, count |-> count, offset |-> offset]
           q == Len(ends)
<1>t. /\ Reps \in Nat /\ Reps >= 1 /\ q \in Nat /\ q \in Base..Base + Reps - 1 /\ offset \in Nat /\ args \in Call
      /\ ends \in Seq(EndKind) /\ corpus \in Seq(Byte) /\ Base \in Nat
  BY RepsNumber, CountedSoFar DEF EndOfRep, Progress, EndsMade, SweepInv, SweepState, FullState, Call
<1>1. PICK n \in Nat : SweptAll(decoder, corpus, n, offset) /\ count = Counted + n
  BY DEF EndOfRep, Progress
<1>2. Bench = (IF q + 1 <= Reps THEN "full" ELSE "insn") /\ Turn(q + 1) = q - Base + 1
  <2>1. CASE args.full
    BY <1>t, <2>1 DEF Bench, Base, Turn
  <2>2. CASE ~args.full
    BY <1>t, <2>2 DEF Bench, Base, Turn
  <2> QED BY <2>1, <2>2
<1>3. Counted = (q - Base) * n
  <2>1. CASE q > Base
    <3>1. q \in 1..Len(ends) /\ Counted = ends[q].count
      BY <1>t, <2>1 DEF Counted
    <3>2. PICK m \in Nat : SweptAll(decoder, corpus, m, ends[q].offset) /\ ends[q].count = Turn(q) * m
      BY <3>1 DEF EndsMade
    <3>3. m = n
      BY <1>t, <1>1, <3>2, OneSweep
    <3>4. Turn(q) = q - Base
      <4>1. CASE args.full
        BY <1>t, <2>1, <4>1 DEF Turn, Base
      <4>2. CASE ~args.full
        BY <1>t, <2>1, <4>2 DEF Turn, Base
      <4> QED BY <4>1, <4>2
    <3> QED BY <3>1, <3>2, <3>3, <3>4
  <2>2. CASE q = Base
    <3>1. Counted = 0 /\ q - Base = 0
      BY <1>t, <2>2 DEF Counted
    <3>2. 0 * n = 0
      OBVIOUS
    <3> QED BY <3>1, <3>2
  <2> QED BY <1>t, <2>1, <2>2
<1>4. count = Turn(q + 1) * n /\ count \in Nat
  <2>1. \A a, m \in Nat : a * m + m = (a + 1) * m /\ a * m \in Nat
    OBVIOUS
  <2>2. q - Base \in Nat
    BY <1>t
  <2>3. (q - Base) * n + n = ((q - Base) + 1) * n /\ (q - Base) * n \in Nat
    BY <2>1, <2>2
  <2>4. count = (q - Base) * n + n
    BY <1>1, <1>3
  <2>5. count \in Nat
    BY <2>3, <2>4
  <2> QED BY <1>2, <2>3, <2>4, <2>5
<1>5. ends' = Append(ends, e) /\ e \in EndKind
  BY <1>t, <1>4 DEF EndOfRep, EndKind, Bench
<1> HIDE DEF q
<1>6. ends' \in Seq(EndKind) /\ Len(ends') = q + 1 /\ ends'[q + 1] = e /\ \A j \in 1..q : ends'[j] = ends[j]
  BY <1>t, <1>5 DEF q
<1>7. e.bench = Bench /\ e.count = count /\ e.offset = offset
  OBVIOUS
<1>8. ASSUME NEW j \in 1..q + 1
      PROVE  /\ ends'[j].bench = IF j <= Reps THEN "full" ELSE "insn"
             /\ \E m \in Nat : SweptAll(decoder, corpus, m, ends'[j].offset) /\ ends'[j].count = Turn(j) * m
  <2>1. CASE j \in 1..q
    <3>1. ends'[j] = ends[j] /\ j \in 1..Len(ends)
      BY <1>6, <2>1 DEF q
    <3> QED BY <3>1 DEF EndsMade
  <2>2. CASE j = q + 1
    BY <1>1, <1>2, <1>4, <1>6, <1>7, <2>2
  <2>3. j \in 1..q \/ j = q + 1
    BY <1>t
  <2> QED BY <2>1, <2>2, <2>3
<1> HIDE DEF e
<1> QED BY <1>6, <1>7, <1>8 DEF q

\* The end of a repetition.
LEMMA EndKeeps == ASSUME RepsInv, SweepInv', EndOfRep PROVE RepsInv'
<1> USE DEF RepsInv
<1>t. /\ Reps \in Nat /\ Reps >= 1 /\ Len(ends) \in Nat /\ Len(ends) \in Base..Base + Reps - 1 /\ args.full \in BOOLEAN
      /\ corpus' = corpus /\ Len(corpus) \in Nat /\ args \in Call
  BY RepsNumber DEF EndOfRep, Progress, EndsMade, SweepInv, SweepState, FullState, Call
<1>1. /\ ends' \in Seq(EndKind) /\ Len(ends') = Len(ends) + 1 /\ ends'[Len(ends')].count = count
      /\ \A j \in 1..Len(ends') :
           /\ ends'[j].bench = IF j <= Reps THEN "full" ELSE "insn"
           /\ \E n \in Nat : SweptAll(decoder, corpus, n, ends'[j].offset) /\ ends'[j].count = Turn(j) * n
  BY EndAdded
<1>2. RepsOf(Bench) = Len(ends) - Base
  BY <1>t, RepsOfBench
<1>3. decoder' = decoder => EndsMade'
  BY <1>1, <1>t DEF EndsMade, Turn
<1>4. Swept(decoder, corpus, 0, 0)
  BY <1>t, SweptNothing
<1>c. count \in Nat
  <2>1. PICK n \in Nat : count = Counted + n
    BY DEF EndOfRep, Progress
  <2> QED BY <2>1, CountedSoFar
<1>5. CASE RepsOf(Bench) + 1 < Reps /\ phase' = "sweep" /\ offset' = 0 /\ CallAt(0) /\ UNCHANGED <<args, count>>
  <2>1. CallTraced' /\ FullState' /\ decoder' = decoder
    BY <1>5, CallAtKnown DEF FullState
  <2>2. Base' = Base /\ Len(ends') \in Base..Base + Reps - 1 /\ Len(ends') > Base
    BY <1>t, <1>1, <1>2, <1>5 DEF Base
  <2>3. Counted' = count
    BY <1>1, <2>2 DEF Counted
  <2>4. count' = Counted' + 0
    BY <1>5, <1>c, <2>3
  <2>5. Progress'
    BY <1>t, <1>4, <1>5, <2>1, <2>2, <2>4 DEF Progress
  <2> QED BY <1>3, <2>1, <2>5
<1>6. CASE RepsOf(Bench) + 1 = Reps /\ args.full /\ args' = [args EXCEPT !.full = FALSE]
           /\ phase' = "sweep" /\ offset' = 0 /\ count' = 0 /\ CallAt(0)
  <2>0. args' \in Call /\ args'.full = FALSE /\ args'.hasArray /\ args'.capacity = 4
    BY <1>t, <1>6 DEF FullState, Call
  <2>1. CallTraced' /\ FullState' /\ decoder' = decoder
    BY <1>6, <2>0, CallAtKnown
  <2>2. Base' = Reps /\ Len(ends') = Reps
    BY <1>t, <1>1, <1>2, <1>6, <2>0 DEF Base
  <2>3. Counted' = 0
    BY <1>t, <2>2 DEF Counted
  <2>4. Len(ends') \in Base'..Base' + Reps - 1
    BY <1>t, <2>2
  <2>5. Progress'
    <3>1. count' = Counted' + 0
      BY <1>6, <2>3
    <3> QED BY <1>t, <1>4, <1>6, <2>1, <3>1, <2>4 DEF Progress
  <2> QED BY <1>3, <2>1, <2>5
<1>7. CASE RepsOf(Bench) + 1 = Reps /\ ~args.full /\ phase' = "finished" /\ UNCHANGED <<fullVars, offset, count>>
  <2>1. CallTraced' /\ FullState' /\ decoder' = decoder /\ args' = args
    BY <1>7, StandKnown
  <2>2. Len(ends') = 2 * Reps
    BY <1>t, <1>1, <1>2, <1>7 DEF Base
  <2>3. Progress'
    BY <1>7, <2>2 DEF Progress
  <2> QED BY <1>3, <2>1, <2>3
<1> QED BY <1>5, <1>6, <1>7 DEF EndOfRep

\* Every step of the sweep keeps what is known of its repetitions.
LEMMA StepReps == ASSUME RepsInv, [SweepNext]_sweepVars PROVE RepsInv'
<1> USE DEF RepsInv
<1>0. SweepInv'
  BY StepSweep
<1>1. CASE CallStep
  <2>1. [Next]_vars
    BY <1>1, StepFull DEF CallStep
  <2>2. IndInv /\ IndInv'
    BY <1>0 DEF SweepInv, DecoderInv
  <2>3. CallTraced'
    BY <2>1, <2>2, StepTraced
  <2>4. decoder' = decoder
    BY <2>1, StepKeepsInput DEF vars, input
  <2>5. args' = args /\ UNCHANGED <<corpus, offset, count, ends, phase>>
    BY <1>1 DEF CallStep, FullNext, RejectFull, StartDecode, DecodeStep, DecodeFails, DecodeReturns, RejectArray,
                StartBuild, BuildOperand, FinishBuild
  <2>6. FullState'
    <3>1. CASE args.full
      BY <1>1, <3>1, StepFullState DEF CallStep, SweepInv
    <3>2. CASE ~args.full
      BY <3>2, <2>5 DEF FullState
    <3> QED BY <3>1, <3>2
  <2> QED BY <1>0, <2>3, <2>4, <2>5, <2>6, RepsStand
<1>2. CASE Advance
  BY <1>0, <1>2, AdvanceKeeps
<1>3. CASE Break
  BY <1>0, <1>3, BreakKeeps
<1>4. CASE EndOfRep
  BY <1>0, <1>4, EndKeeps
<1>5. CASE UNCHANGED sweepVars
  <2>1. UNCHANGED fullVars /\ UNCHANGED <<corpus, offset, count, ends, phase>>
    BY <1>5 DEF sweepVars
  <2>2. CallTraced' /\ FullState' /\ decoder' = decoder /\ args' = args
    BY <2>1, StandKnown
  <2> QED BY <1>0, <2>1, <2>2, RepsStand
<1> QED BY <1>1, <1>2, <1>3, <1>4, <1>5 DEF SweepNext

LEMMA RepsKept == SweepSpec => []RepsInv
<1>1. SweepInit => RepsInv
  BY InitReps
<1>2. RepsInv /\ [SweepNext]_sweepVars => RepsInv'
  BY StepReps
<1> QED BY <1>1, <1>2, PTL DEF SweepSpec

\* For every corpus, decoder and number of repetitions, each repetition of
\* either bench stops where the first one did, and decode_full counts as many
\* instructions each time, whatever the last call left in the structures.
THEOREM RepetitionsAgree == SweepSpec => []RepsAgree
<1>1. ASSUME RepsInv PROVE RepsAgree
  <2>1. Reps \in Nat /\ Reps >= 1 /\ ends \in Seq(EndKind) /\ Len(ends) \in Nat /\ DOMAIN ends = 1..Len(ends)
        /\ corpus \in Seq(Byte)
    BY <1>1, RepsNumber DEF RepsInv, EndsMade, SweepInv, SweepState
  <2>2. ASSUME NEW j \in DOMAIN ends
        PROVE  /\ ends[j].bench = "full" => ends[j].count = j * ends[1].count
               /\ ends[j].offset = ends[1].offset
    <3>1. j \in 1..Len(ends) /\ 1 \in 1..Len(ends)
      BY <2>1
    <3>2. PICK n \in Nat : SweptAll(decoder, corpus, n, ends[j].offset) /\ ends[j].count = Turn(j) * n
      BY <1>1, <3>1 DEF RepsInv, EndsMade
    <3>3. PICK m \in Nat : SweptAll(decoder, corpus, m, ends[1].offset) /\ ends[1].count = Turn(1) * m
      BY <1>1, <3>1 DEF RepsInv, EndsMade
    <3>4. n = m /\ ends[j].offset = ends[1].offset
      BY <2>1, <3>2, <3>3, OneSweep
    <3>5. Turn(1) = 1 /\ 1 * m = m
      BY <2>1 DEF Turn
    <3>6. ends[j].bench = "full" => Turn(j) = j
      BY <1>1, <3>1 DEF RepsInv, EndsMade, Turn
    <3> QED BY <3>2, <3>3, <3>4, <3>5, <3>6
  <2> QED BY <2>2 DEF RepsAgree
<1> QED BY <1>1, RepsKept, PTL

\* For every corpus, decoder and number of repetitions, decode_full and
\* decode_insn count the same instructions, repetition by repetition: with
\* four operands the builder refuses nothing the decoder accepts.
THEOREM BenchCountsAgree == SweepSpec => []BenchesAgree
<1>1. ASSUME RepsInv PROVE BenchesAgree
  <2> SUFFICES ASSUME phase = "finished", NEW j \in 1..Reps PROVE ends[j].count = ends[Reps + j].count
    BY DEF BenchesAgree
  <2>1. Reps \in Nat /\ Reps >= 1 /\ Len(ends) = 2 * Reps /\ corpus \in Seq(Byte)
    BY <1>1, RepsNumber DEF RepsInv, Progress, SweepInv, SweepState
  <2>2. j \in 1..Len(ends) /\ Reps + j \in 1..Len(ends) /\ Turn(j) = j /\ Turn(Reps + j) = j
    BY <2>1 DEF Turn
  <2>3. PICK n \in Nat : SweptAll(decoder, corpus, n, ends[j].offset) /\ ends[j].count = Turn(j) * n
    BY <1>1, <2>2 DEF RepsInv, EndsMade
  <2>4. PICK m \in Nat : SweptAll(decoder, corpus, m, ends[Reps + j].offset) /\ ends[Reps + j].count = Turn(Reps + j) * m
    BY <1>1, <2>2 DEF RepsInv, EndsMade
  <2>5. n = m
    BY <2>1, <2>3, <2>4, OneSweep
  <2> QED BY <2>2, <2>3, <2>4, <2>5
<1> QED BY <1>1, RepsKept, PTL
=============================================================================
