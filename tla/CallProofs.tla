---------------------------- MODULE CallProofs -----------------------------
(***************************************************************************)
(* x86dec_decode_full and the two calls made one by one: what the          *)
(* caller's array holds when a call returns, for every set of buffers,     *)
(* initialised decoders and ways to call.                                  *)
(***************************************************************************)
EXTENDS OperandProofs, FiniteSetTheorems, NaturalsInduction

\* Induction over the naturals, with a set for what is to be shown of them.
LEMMA SetInduction ==
  ASSUME NEW S, 0 \in S, \A n \in Nat : n \in S => n + 1 \in S PROVE Nat \subseteq S
<1> SUFFICES ASSUME Nat \ S # {} PROVE FALSE
  OBVIOUS
<1>1. IsWellFoundedOn(OpToRel(<, Nat), Nat)
  BY NatLessThanWellFounded
<1>2. PICK low \in Nat \ S : \A y \in Nat \ S : <<y, low>> \notin OpToRel(<, Nat)
  BY <1>1, WFMin
<1>3. \A y \in Nat \ S : ~(y < low)
  BY <1>2, Zenon DEF OpToRel
<1>4. low # 0 /\ low - 1 \in Nat /\ low - 1 < low /\ (low - 1) + 1 = low
  OBVIOUS
<1> QED BY <1>3, <1>4

\* What the steps of a call have established: the builder runs only behind a
\* decoder that is done, and on a context it filled or cleared.
CallState ==
  /\ args \in Call /\ stage \in Stage
  /\ stage = "call" => pc = "call"
  /\ stage \in {"check", "build"} =>
       /\ pc = "done" /\ (status = "OK" \/ context = ZeroContext)
       /\ args.full => status = "OK"
  /\ stage = "build" => Room
  /\ stage # "returned" => verdict = "NONE"
  /\ stage = "returned" =>
       \/ verdict # "OK" /\ i = 1
       \/ verdict = "OK" /\ i = Count + 1 /\ pc = "done" /\ (status = "OK" \/ context = ZeroContext) /\ Room

\* The array is written up to the operand that is next, and no further.
SlotsWritten ==
  /\ slots \in Seq(OperandRecord) /\ Len(slots) = args.capacity
  /\ stage \in {"call", "decode", "check"} => i = 1
  /\ i \in 1..Count + 1
  /\ \A s \in 1..Len(slots) : IsBuilt(s) <=> s < i

LEMMA CallKinds == Calls \subseteq Call
BY CallsAssumption

LEMMA InitCall == ASSUME FullInit, DecoderInv PROVE CallState
BY CallKinds DEF FullInit, CallState, Stage, Init

LEMMA StepCall == ASSUME DecoderInv, CallState, SlotsWritten, [FullNext]_fullVars PROVE CallState'
<1>t. Count \in Nat /\ i \in Nat
  <2>1. context.entry.shapes \in OperandLists
    BY DEF DecoderInv, IndInv, TypeOK, Context, Entry
  <2> QED BY <2>1 DEF SlotsWritten, OperandLists, OffsetLists, Count, ctx
<1> USE DEF CallState, Stage
<1>1. CASE RejectFull \/ DecodeFails
  BY <1>1 DEF RejectFull, DecodeFails, Leave, vars, Count, ctx, SlotsWritten
<1>2. CASE StartDecode
  BY <1>2 DEF StartDecode, vars
<1>3. CASE DecodeStep
  BY <1>3 DEF DecodeStep
<1>4. CASE DecodeReturns
  BY <1>4 DEF DecodeReturns, vars, DecoderInv, Cleared
<1>5. CASE RejectArray
  BY <1>5 DEF RejectArray, Leave, vars, SlotsWritten
<1>6. CASE StartBuild
  BY <1>6 DEF StartBuild, vars, Room, RoomForAll, Count, ctx
<1>7. CASE BuildOperand
  BY <1>7 DEF BuildOperand, vars, Room, RoomForAll, Count, ctx
<1>8. CASE FinishBuild
  <2>1. i = Count + 1
    BY <1>t, <1>8 DEF FinishBuild, SlotsWritten
  <2> QED BY <1>8, <2>1 DEF FinishBuild, Leave, vars, Room, RoomForAll, Count, ctx
<1>9. CASE UNCHANGED fullVars
  BY <1>9 DEF fullVars, vars, Room, RoomForAll, Count, ctx
<1> QED BY <1>1, <1>2, <1>3, <1>4, <1>5, <1>6, <1>7, <1>8, <1>9 DEF FullNext

---------------------------------------------------------------------------
\* The array

\* The immediate bytes used up are those of the operands built so far, and
\* every one of these is sound.
TakenAt(j) == IF j < i /\ j <= Count THEN Taken(ctx.entry.shapes[j]) ELSE 0
ImmTaken   == immOff = TakenAt(1) + TakenAt(2) + TakenAt(3) + TakenAt(4)
SlotsSound == \A s \in 1..Len(slots) : s < i => OperandSound(slots[s], ctx.entry.shapes[s])
SlotsInv   == SlotsWritten /\ ImmTaken /\ SlotsSound

CallInv == DecoderInv /\ CallState /\ SlotsInv

\* Nothing but the call of the decoder changes what an operand is judged by.
LEMMA SoundStays ==
  ASSUME UNCHANGED vars PROVE \A op, shape : OperandSound(op, shape)' <=> OperandSound(op, shape)
BY DEF vars, OperandSound, ImmGood, MemGood, RegGood, AddressFormed, Is64, FamilyNamed, FamilyOf, RexR

LEMMA ContextCount ==
  ASSUME DecoderInv PROVE Count \in Nat
<1>1. context.entry.shapes \in OperandLists
  BY DEF DecoderInv, IndInv, TypeOK, Context, Entry
<1>2. \A s \in OperandLists : Len(s) \in Nat
  BY DEF OperandLists, OffsetLists
<1> QED BY <1>1, <1>2 DEF Count, ctx

\* An operand is built of an accepted instruction only.
LEMMA BuildsAccepted ==
  ASSUME DecoderInv, CallState, stage \in {"check", "build"} \/ verdict = "OK", Count > 0 PROVE Accepted
<1>1. status = "OK" \/ context = ZeroContext
  BY DEF CallState, Stage
<1>2. context = ZeroContext => Count = 0
  BY DEF Count, ctx, ZeroContext, NoEntry
<1>3. pc = "done"
  BY DEF CallState, Stage
<1> QED BY <1>1, <1>2, <1>3 DEF Accepted

LEMMA TakenNumbers == ASSUME DecoderInv, NEW shape PROVE Taken(shape) \in Nat
<1>1. ctx.eosz \in {0, 16, 32, 64}
  BY DEF DecoderInv, IndInv, TypeOK, Context, ctx, Width
<1>2. ctx.eosz \div 8 \in {0, 2, 4, 8} /\ VSize \in {2, 4}
  BY <1>1 DEF VSize
<1> QED BY <1>2 DEF Taken

\* The builder stays within the immediate field.
LEMMA ImmWithin ==
  ASSUME CallInv PROVE immOff \in Nat /\ immOff <= context.raw.immSize
<1>1. DecoderInv /\ Count \in Nat /\ i \in Nat \ {0} /\ i <= Count + 1
  BY ContextCount DEF CallInv, SlotsInv, SlotsWritten
<1>2. \A j \in 1..4 : TakenAt(j) \in Nat
  BY <1>1, TakenNumbers DEF TakenAt
<1>3. immOff \in Nat /\ immOff = TakenAt(1) + TakenAt(2) + TakenAt(3) + TakenAt(4)
  BY <1>2 DEF CallInv, SlotsInv, ImmTaken
<1>4. context.raw.immSize \in Nat
  BY <1>1 DEF IndInv, DecoderInv, TypeOK, Context, Raw
<1>5. CASE i = 1
  <2>1. \A j \in 1..4 : TakenAt(j) = 0
    BY <1>5 DEF TakenAt
  <2> QED BY <1>3, <1>4, <2>1
<1>6. CASE i # 1
  <2>1. stage \in {"build", "returned"} /\ (stage = "returned" => verdict = "OK") /\ Count > 0
    BY <1>1, <1>6 DEF CallInv, CallState, Stage, SlotsInv, SlotsWritten
  <2>2. Accepted
    BY <2>1, BuildsAccepted DEF CallInv
  <2>3. Reads(ctx.entry.shapes, ctx.eosz) = context.raw.immSize
    BY <1>1, <2>2, Reconciled DEF DecoderInv, ImmediatesReconcile, ctx
  <2> DEFINE at(j) == IF j <= Count THEN OperandReads(ctx.entry.shapes[j], ctx.eosz) ELSE 0
  <2>4. context.raw.immSize = at(1) + at(2) + at(3) + at(4)
    BY <2>3 DEF Reads, Count
  <2>5. \A p : Taken(p) = OperandReads(p, ctx.eosz)
    BY DEF Taken, OperandReads, VSize
  <2>6. \A j \in 1..4 : at(j) \in Nat /\ TakenAt(j) <= at(j)
    BY <1>1, <2>5, TakenNumbers DEF TakenAt
  <2> HIDE DEF at
  <2>7. /\ at(1) \in Nat /\ at(2) \in Nat /\ at(3) \in Nat /\ at(4) \in Nat
        /\ TakenAt(1) \in Nat /\ TakenAt(2) \in Nat /\ TakenAt(3) \in Nat /\ TakenAt(4) \in Nat
        /\ TakenAt(1) <= at(1) /\ TakenAt(2) <= at(2) /\ TakenAt(3) <= at(3) /\ TakenAt(4) <= at(4)
    BY <1>2, <2>6
  <2> QED BY <1>3, <2>4, <2>7
<1> QED BY <1>5, <1>6

LEMMA SoundRecord ==
  ASSUME NEW op, NEW shape, OperandSound(op, shape) PROVE op \in OperandRecord /\ op # Untouched
<1>1. op \in OperandRecord /\ op.type # "CALLER"
  BY DEF OperandSound, ImmGood, MemGood, RegGood
<1> QED BY <1>1 DEF Untouched, Make

LEMMA InitSlots == ASSUME FullInit, DecoderInv PROVE SlotsInv
<1>1. args.capacity \in Nat
  BY CallKinds DEF FullInit, Call
<1>2. Untouched \in OperandRecord
  <2>1. REG_NONE \in Register
    BY DEF REG_NONE, Register, REG_COUNT
  <2>2. NoMem \in Mem
    BY <2>1, ExtendedWords DEF NoMem, Mem
  <2> QED BY <2>1, <2>2, ExtendedWords DEF Untouched, Make, OperandRecord, OperandSize, Unsized
<1>3. slots \in Seq(OperandRecord) /\ Len(slots) = args.capacity /\ \A s \in 1..Len(slots) : slots[s] = Untouched
  <2> DEFINE e(s) == Untouched
             q == [s \in 1..args.capacity |-> Untouched]
  <2>1. q \in Seq(OperandRecord) /\ Len(q) = args.capacity /\ \A s \in 1..args.capacity : q[s] = Untouched
    BY <1>1, <1>2
  <2> QED BY <2>1 DEF FullInit
<1>4. i = 1 /\ immOff = 0 /\ Count \in Nat
  BY ContextCount DEF FullInit
<1>5. SlotsWritten
  BY <1>3, <1>4 DEF SlotsWritten, IsBuilt
<1>6. ImmTaken
  <2>1. \A j \in 1..4 : TakenAt(j) = 0
    BY <1>4 DEF TakenAt
  <2> QED BY <1>4, <2>1 DEF ImmTaken
<1>7. SlotsSound
  BY <1>4 DEF SlotsSound
<1> QED BY <1>5, <1>6, <1>7 DEF SlotsInv

\* Building one operand, the next immediates and no other slot.
LEMMA StepBuild ==
  ASSUME CallInv, BuildOperand PROVE SlotsInv'
<1> DEFINE p == ctx.entry.shapes[i]
           op == Built(p)
<1>1. stage = "build" /\ i \in 1..Count /\ Count \in Nat
  BY ContextCount DEF BuildOperand, CallInv, SlotsInv, SlotsWritten
<1>2. Accepted
  BY <1>1, BuildsAccepted DEF CallInv
<1>3. DecoderInv /\ Count <= 4 /\ p \in Shape /\ Encodable(p)
  BY <1>1, <1>2, AcceptedCount, AcceptedShapes DEF CallInv
<1>4. OperandSound(op, p)
  <2>1. Filled64 /\ ModeSound /\ raw.immSize <= pos
    <3>1. OffsetBytes \in Nat /\ raw.immSize \in Nat /\ pos \in Nat /\ OffsetBytes + raw.immSize <= pos
      BY <1>2, <1>3, TailInside
    <3> QED BY <1>2, <1>3, <3>1, ContextFilled, AcceptedModes
  <2>2. immOff \in Nat /\ i \in 1..4
    BY <1>1, <1>3, ImmWithin
  <2> QED BY <1>3, <2>1, <2>2, BuiltSound
<1>5. op \in OperandRecord /\ op # Untouched
  BY <1>4, SoundRecord
<1>6. /\ UNCHANGED <<vars, args, stage, verdict>> /\ i' = i + 1 /\ immOff' = immOff + Taken(p)
      /\ slots' = [slots EXCEPT ![i] = op]
  BY DEF BuildOperand
<1> HIDE DEF op
<1>7. /\ slots \in Seq(OperandRecord) /\ Len(slots) = args.capacity /\ i \in 1..Len(slots) /\ Len(slots) \in Nat
      /\ \A s \in 1..Len(slots) : IsBuilt(s) <=> s < i
  <2>1. args.capacity >= Count /\ args.capacity \in Nat
    BY <1>1 DEF CallInv, CallState, Room, RoomForAll, Call
  <2> QED BY <1>1, <2>1 DEF CallInv, SlotsInv, SlotsWritten
<1>8. /\ slots' \in Seq(OperandRecord) /\ Len(slots') = Len(slots) /\ slots'[i] = op
      /\ \A s \in 1..Len(slots) : s # i => slots'[s] = slots[s]
  BY <1>5, <1>6, <1>7
<1>9. Count' = Count /\ ctx' = ctx
  BY <1>6 DEF vars, Count, ctx
<1>10. SlotsWritten'
  <2>1. \A s \in 1..Len(slots') : IsBuilt(s)' <=> s < i'
    BY <1>5, <1>6, <1>7, <1>8 DEF IsBuilt
  <2>2. i' \in 1..Count + 1
    BY <1>1, <1>6
  <2> QED BY <1>1, <1>6, <1>7, <1>8, <1>9, <2>1, <2>2 DEF SlotsWritten
<1>11. ImmTaken'
  <2> DEFINE f == [j \in 1..4 |-> TakenAt(j)]
             g == [j \in 1..4 |-> (TakenAt(j))']
             w == Taken(p)
  <2>1. i \in 1..4 /\ w \in Nat
    BY <1>1, <1>3, TakenNumbers
  <2>2. \A j \in 1..4 : TakenAt(j) \in Nat
    BY <1>3, TakenNumbers DEF TakenAt
  <2>3. f \in [1..4 -> Nat] /\ f[i] = 0
    BY <2>1, <2>2 DEF TakenAt
  <2>4. \A q : Taken(q)' = Taken(q)
    BY <1>9 DEF Taken, VSize
  <2>5. \A j \in 1..4 : (TakenAt(j))' = (IF j = i THEN w ELSE TakenAt(j))
    BY <1>1, <1>6, <1>9, <2>4 DEF TakenAt
  <2>6. g = [f EXCEPT ![i] = w]
    BY <2>5
  <2>7. immOff = f[1] + f[2] + f[3] + f[4]
    BY DEF CallInv, SlotsInv, ImmTaken
  <2>8. g[1] + g[2] + g[3] + g[4] = immOff + w
    <3> HIDE DEF f, g, w
    <3> QED BY <2>1, <2>3, <2>6, <2>7, OneMore
  <2> QED BY <1>6, <2>8 DEF ImmTaken
<1>12. SlotsSound'
  <2> SUFFICES ASSUME NEW s \in 1..Len(slots), s < i + 1 PROVE OperandSound(slots[s], ctx.entry.shapes[s])'
    BY <1>6, <1>8 DEF SlotsSound
  <2>1. OperandSound(slots'[s], ctx.entry.shapes[s])
    <3>1. CASE s = i
      BY <1>4, <1>8, <3>1
    <3>2. CASE s # i
      BY <1>1, <1>8, <3>2 DEF CallInv, SlotsInv, SlotsSound
    <3> QED BY <3>1, <3>2
  <2>2. \A o, shape : OperandSound(o, shape)' <=> OperandSound(o, shape)
    BY <1>6, SoundStays
  <2> QED BY <1>9, <2>1, <2>2
<1> QED BY <1>10, <1>11, <1>12 DEF SlotsInv

LEMMA StepSlots ==
  ASSUME CallInv, DecoderInv', [FullNext]_fullVars PROVE SlotsInv'
<1>1. CASE BuildOperand
  BY <1>1, StepBuild
<1>2. CASE DecodeStep
  <2>1. UNCHANGED <<args, stage, slots, i, immOff>> /\ stage = "decode"
    BY <1>2 DEF DecodeStep
  <2>2. i = 1 /\ Count' \in Nat /\ Count \in Nat
    <3>1. context'.entry.shapes \in OperandLists
      BY DEF DecoderInv, IndInv, TypeOK, Context, Entry
    <3>2. \A s \in OperandLists : Len(s) \in Nat
      BY DEF OperandLists, OffsetLists
    <3>3. Count' \in Nat
      BY <3>1, <3>2 DEF Count, ctx
    <3> QED BY <2>1, <3>3, ContextCount DEF CallInv, SlotsInv, SlotsWritten
  <2>3. SlotsWritten'
    <3>1. i' \in 1..Count' + 1
      <4> DEFINE n == Count'
      <4>1. n \in Nat /\ i' = 1
        BY <2>1, <2>2
      <4> HIDE DEF n
      <4>2. i' \in 1..n + 1
        BY <4>1
      <4> QED BY <4>2 DEF n
    <3> QED BY <2>1, <2>2, <3>1 DEF CallInv, SlotsInv, SlotsWritten, IsBuilt
  <2>4. ImmTaken'
    <3>1. \A j \in 1..4 : TakenAt(j) = 0 /\ (TakenAt(j))' = 0
      BY <2>1, <2>2 DEF TakenAt
    <3> QED BY <2>1, <3>1 DEF CallInv, SlotsInv, ImmTaken
  <2>5. SlotsSound'
    BY <2>1, <2>2 DEF SlotsSound
  <2> QED BY <2>3, <2>4, <2>5 DEF SlotsInv
<1>3. CASE \/ RejectFull \/ StartDecode \/ DecodeFails \/ DecodeReturns \/ RejectArray \/ StartBuild
           \/ FinishBuild \/ UNCHANGED fullVars
  <2>1. UNCHANGED <<vars, args, slots, i, immOff>>
    BY <1>3 DEF RejectFull, StartDecode, DecodeFails, DecodeReturns, RejectArray, StartBuild, FinishBuild, fullVars
  <2>2. stage' \in {"call", "decode", "check"} => stage \in {"call", "decode", "check"}
    BY <1>3 DEF RejectFull, StartDecode, DecodeFails, DecodeReturns, RejectArray, StartBuild, FinishBuild, Leave, fullVars
  <2>3. Count' = Count /\ ctx' = ctx
    BY <2>1 DEF vars, Count, ctx
  <2>4. SlotsWritten'
    BY <2>1, <2>2, <2>3 DEF CallInv, SlotsInv, SlotsWritten, IsBuilt
  <2>5. ImmTaken'
    <3>1. \A q : Taken(q)' = Taken(q)
      BY <2>3 DEF Taken, VSize
    <3>2. \A j \in 1..4 : (TakenAt(j))' = TakenAt(j)
      BY <2>1, <2>3, <3>1 DEF TakenAt
    <3> QED BY <2>1, <3>2 DEF CallInv, SlotsInv, ImmTaken
  <2>6. SlotsSound'
    <3>1. \A o, shape : OperandSound(o, shape)' <=> OperandSound(o, shape)
      BY <2>1, SoundStays
    <3> QED BY <2>1, <2>3, <3>1 DEF CallInv, SlotsInv, SlotsSound
  <2> QED BY <2>4, <2>5, <2>6 DEF SlotsInv
<1> QED BY <1>1, <1>2, <1>3 DEF FullNext

\* The inductive invariant of a call.
LEMMA CallKept == FullRun => []CallInv
<1>1. FullInit /\ DecoderInv => CallInv
  BY InitCall, InitSlots DEF CallInv
<1>2. CallInv /\ DecoderInv' /\ [FullNext]_fullVars => CallInv'
  <2> SUFFICES ASSUME CallInv, DecoderInv', [FullNext]_fullVars PROVE CallInv'
    OBVIOUS
  <2>1. CallState'
    BY StepCall DEF CallInv, SlotsInv
  <2> QED BY <2>1, StepSlots DEF CallInv
<1> QED BY <1>1, <1>2, DecoderKept, PTL DEF FullRun

---------------------------------------------------------------------------
\* What a caller can rely on

\* How far the array of a call that is over is written.
LEMMA WrittenUpTo ==
  ASSUME CallInv, Returned
  PROVE  /\ slots \in Seq(OperandRecord) /\ Len(slots) = args.capacity /\ Count \in Nat
         /\ verdict # "OK" => \A s \in 1..Len(slots) : ~IsBuilt(s)
         /\ verdict = "OK" => /\ Count <= Len(slots)
                              /\ \A s \in 1..Len(slots) : IsBuilt(s) <=> s <= Count
         /\ verdict = "OK" /\ Count > 0 => Accepted
<1>1. SlotsWritten /\ Count \in Nat /\ args.capacity \in Nat
  BY ContextCount DEF CallInv, SlotsInv, CallState, Call
<1>2. \/ verdict # "OK" /\ i = 1
      \/ verdict = "OK" /\ i = Count + 1 /\ Room
  BY DEF CallInv, CallState, Returned
<1>3. verdict = "OK" /\ Count > 0 => Accepted
  BY BuildsAccepted DEF CallInv
<1> QED BY <1>1, <1>2, <1>3 DEF SlotsWritten, Room, RoomForAll

\* A call delivers all the operands or touches none of the array, for every
\* buffer, decoder, array and way to call.
THEOREM DeliversAllOrNone == FullSpec => []AllOrNothing
<1>1. CallInv => AllOrNothing
  <2> SUFFICES ASSUME CallInv, Returned, NEW s
               PROVE  IF verdict = "OK" /\ s \in Indices THEN s \in DOMAIN slots /\ IsBuilt(s)
                      ELSE s \in DOMAIN slots => ~IsBuilt(s)
    BY DEF AllOrNothing
  <2>1. DOMAIN slots = 1..Len(slots) /\ Len(slots) \in Nat
    BY WrittenUpTo
  <2>2. CASE verdict = "OK"
    <3>1. Count \in Nat /\ Count <= Len(slots) /\ \A t \in 1..Len(slots) : IsBuilt(t) <=> t <= Count
      BY <2>2, WrittenUpTo
    <3>2. CASE s \in Indices
      <4>1. s \in 1..Len(slots) /\ s <= Count
        BY <2>1, <3>1, <3>2 DEF Indices
      <4> QED BY <2>1, <2>2, <3>1, <3>2, <4>1
    <3>3. CASE s \notin Indices
      <4>1. s \in 1..Len(slots) => ~(s <= Count)
        BY <3>1, <3>3 DEF Indices
      <4> QED BY <2>1, <3>1, <3>3, <4>1
    <3> QED BY <3>2, <3>3
  <2>3. CASE verdict # "OK"
    BY <2>1, <2>3, WrittenUpTo
  <2> QED BY <2>2, <2>3
<1> QED BY <1>1, CallKept, PTL DEF FullSpec, FullRun

\* Whoever ignores that the decoder failed gets no operand out of the context
\* it left behind, whatever was in the context before.
THEOREM FailureLeavesArray == FullSpec => []FailedCallBuildsNothing
<1>1. CallInv => FailedCallBuildsNothing
  <2> SUFFICES ASSUME CallInv, Returned, status # "OK", NEW s \in DOMAIN slots PROVE ~IsBuilt(s)
    BY DEF FailedCallBuildsNothing
  <2>1. s \in 1..Len(slots) /\ Len(slots) \in Nat
    BY WrittenUpTo
  <2>2. ~Accepted
    BY DEF Accepted
  <2>3. verdict = "OK" => Count = 0
    BY <2>2, WrittenUpTo
  <2> QED BY <2>1, <2>3, WrittenUpTo
<1> QED BY <1>1, CallKept, PTL DEF FullSpec, FullRun

\* The verdict of decode_full is the decoder's, but for an array that is
\* missing or shorter than four.
Verdicts == Returned /\ args.full => verdict = status \/ ~args.hasArray \/ args.capacity < 4

LEMMA StepVerdicts == ASSUME CallInv, Verdicts, [FullNext]_fullVars PROVE Verdicts'
<1> USE DEF Verdicts, Returned
<1>1. CASE RejectFull \/ DecodeFails \/ FinishBuild
  BY <1>1 DEF RejectFull, DecodeFails, FinishBuild, Leave, vars, CallInv, CallState
<1>2. CASE RejectArray
  <2>1. args.full => Accepted
    BY <1>2 DEF RejectArray, CallInv, CallState, Accepted
  <2>2. args.full => Count \in 0..4
    BY <2>1, AcceptedCount DEF CallInv
  <2>3. args.capacity \in Nat
    BY DEF CallInv, CallState, Call
  <2>4. args.full => ~args.hasArray \/ args.capacity < 4
    BY <1>2, <2>2, <2>3 DEF RejectArray, Room, RoomForAll
  <2> QED BY <1>2, <2>4 DEF RejectArray
<1>3. CASE StartDecode \/ DecodeStep \/ DecodeReturns \/ StartBuild \/ BuildOperand
  BY <1>3 DEF StartDecode, DecodeStep, DecodeReturns, StartBuild, BuildOperand
<1>4. CASE UNCHANGED fullVars
  BY <1>4 DEF fullVars, vars
<1> QED BY <1>1, <1>2, <1>3, <1>4 DEF FullNext

\* Four operands are always room enough.
THEOREM FourSlotsAreEnough == FullSpec => []FourSlotsSuffice
<1>1. FullInit => Verdicts
  BY DEF FullInit, Verdicts, Returned
<1>2. CallInv /\ Verdicts /\ [FullNext]_fullVars => Verdicts'
  BY StepVerdicts
<1>3. CallInv /\ Verdicts => FourSlotsSuffice
  <2>1. CallInv => args.capacity \in Nat
    BY DEF CallInv, CallState, Call
  <2> QED BY <2>1 DEF Verdicts, FourSlotsSuffice
<1> QED BY <1>1, <1>2, <1>3, CallKept, PTL DEF FullSpec, FullRun

\* The variables of a call keep to their types, for every set of buffers,
\* decoders and calls.
THEOREM CallTypes == FullSpec => []FullTypeOK
<1> DEFINE Kept == args \in Calls /\ verdict \in Verdict \cup {"NONE"}
<1>1. FullInit => Kept
  BY DEF FullInit
<1>2. CallInv /\ Kept /\ [FullNext]_fullVars => Kept'
  <2>1. CallInv => status \in Verdict \cup {"NONE"} /\ {"OK", "BAD_ARG"} \subseteq Verdict
    BY DEF CallInv, DecoderInv, IndInv, TypeOK, Verdict
  <2> QED BY <2>1 DEF FullNext, fullVars, RejectFull, StartDecode, DecodeStep, DecodeFails, DecodeReturns, RejectArray,
                      StartBuild, BuildOperand, FinishBuild, Leave
<1>3. CallInv /\ Kept => FullTypeOK
  <2> SUFFICES ASSUME CallInv, Kept PROVE FullTypeOK
    OBVIOUS
  <2>1. immOff \in Nat /\ immOff <= context.raw.immSize /\ context.raw.immSize \in Nat
    BY ImmWithin DEF CallInv, DecoderInv, IndInv, TypeOK, Context, Raw
  <2>2. \A s \in DOMAIN slots : slots[s] \in OperandRecord
    BY DEF CallInv, SlotsInv, SlotsWritten
  <2> QED BY <2>1, <2>2 DEF FullTypeOK, CallInv, CallState, SlotsInv, SlotsWritten
<1> HIDE DEF Kept
<1> QED BY <1>1, <1>2, <1>3, CallKept, PTL DEF FullSpec, FullRun

---------------------------------------------------------------------------
\* What the operands are

LEMMA DeliveredSound ==
  ASSUME CallInv, Delivered, NEW s \in Indices
  PROVE  Accepted /\ OperandSound(slots[s], context.entry.shapes[s])
<1>1. Returned /\ verdict = "OK" /\ s \in 1..Count /\ Count \in Nat
  BY ContextCount DEF Delivered, Indices, CallInv
<1>2. Accepted /\ Count <= Len(slots)
  BY <1>1, WrittenUpTo
<1>3. i = Count + 1 /\ Len(slots) \in Nat
  BY <1>1 DEF CallInv, CallState, Returned, SlotsInv, SlotsWritten
<1>4. s \in 1..Len(slots) /\ s < i
  BY <1>1, <1>2, <1>3
<1> QED BY <1>2, <1>4 DEF CallInv, SlotsInv, SlotsSound, ctx

\* Every register operand is of the family its shape names and as wide as the
\* operand, for every buffer and mode; SEG_REG with REX.R names a control register.
THEOREM RegistersOfFamily == FullSpec => []RegistersInFamily
<1>1. CallInv => RegistersInFamily
  <2> SUFFICES ASSUME CallInv, Delivered, NEW s \in Indices
               PROVE  /\ InFamily(s)
                      /\ IsReg(slots[s]) /\ slots[s].reg \in Gpr => BitsOf(slots[s].reg) = slots[s].size
                      /\ raw.hasRex => slots[s].reg \notin High8
                      /\ ~Is64 => {slots[s].reg, slots[s].mem.base, slots[s].mem.index} \cap LongOnly = {}
    BY DEF RegistersInFamily
  <2> DEFINE op == slots[s]
             shape == context.entry.shapes[s]
  <2>1. OperandSound(op, shape)
    BY DeliveredSound
  <2>2. REG_NONE \notin LongOnly /\ REG_NONE \notin High8 /\ NoMem.base = REG_NONE /\ NoMem.index = REG_NONE
    BY DEF REG_NONE, LongOnly, Second, Gpr64, High8, RAX, EAX, AX, AL, AH, REG_IP, RIP, CR0, XMM0, YMM0, NoMem
  <2> HIDE DEF op, shape
  <2>3. CASE ImmGood(op)
    BY <2>2, <2>3 DEF ImmGood, InFamily, IsReg, op
  <2>4. CASE MemGood(op)
    BY <2>2, <2>4 DEF MemGood, InFamily, IsReg, op
  <2>5. CASE RegGood(op, FamilyNamed(shape))
    BY <2>2, <2>5 DEF RegGood, InFamily, IsReg, op, shape
  <2> QED BY <2>1, <2>3, <2>4, <2>5 DEF OperandSound
<1> QED BY <1>1, CallKept, PTL DEF FullSpec, FullRun

\* Every memory operand is an address the mode has, whatever ModRM, SIB and
\* the prefixes are.
THEOREM AddressesFormed == FullSpec => []MemoryAddressed
<1>1. CallInv => MemoryAddressed
  <2> SUFFICES ASSUME CallInv, Delivered, NEW s \in Indices, slots[s].type = "MEM"
               PROVE  /\ AddressFormed(slots[s].mem)
                      /\ Is64 => /\ slots[s].mem.segment \in {SS, DS, FS, GS}
                                 /\ slots[s].mem.segment \in {FS, GS} <=> insn.raw.segment \in {x(6,4), x(6,5)}
    BY DEF MemoryAddressed
  <2>1. OperandSound(slots[s], context.entry.shapes[s])
    BY DeliveredSound
  <2>2. MemGood(slots[s])
    BY <2>1 DEF OperandSound, ImmGood, RegGood
  <2> QED BY <2>2 DEF MemGood
<1> QED BY <1>1, CallKept, PTL DEF FullSpec, FullRun

---------------------------------------------------------------------------
\* The immediates

\* A function that puts one piece behind the other is determined by it.
LEMMA JoinedAlike ==
  ASSUME NEW n \in 1..4, NEW s, NEW f, NEW p,
         \A j \in 1..n : f[j] = (IF j = 1 THEN s[j] ELSE f[j - 1] \o s[j]),
         \A j \in 1..n : p[j] = (IF j = 1 THEN s[j] ELSE p[j - 1] \o s[j])
  PROVE  f[n] = p[n]
<1>1. f[1] = p[1]
  <2>1. f[1] = s[1]
    OBVIOUS
  <2>2. p[1] = s[1]
    OBVIOUS
  <2> QED BY <2>1, <2>2
<1>a. ASSUME NEW j \in 2..n, f[j - 1] = p[j - 1] PROVE f[j] = p[j]
  <2>1. j \in 1..n /\ j # 1
    OBVIOUS
  <2>2. f[j] = f[j - 1] \o s[j] /\ p[j] = p[j - 1] \o s[j]
    BY <2>1, Zenon
  <2> QED BY <1>a, <2>2, Zenon
<1>2. n >= 2 => f[2] = p[2]
  BY <1>1, <1>a
<1>3. n >= 3 => f[3] = p[3]
  BY <1>2, <1>a
<1>4. n >= 4 => f[4] = p[4]
  BY <1>3, <1>a
<1>5. n = 1 \/ n = 2 \/ n = 3 \/ n = 4
  OBVIOUS
<1> QED BY <1>1, <1>2, <1>3, <1>4, <1>5

\* Pieces that stand one behind the other in a field, at most four, put
\* together are the field.
LEMMA PiecesJoined ==
  ASSUME NEW field \in Seq(Byte), NEW n \in 0..4, NEW seqs, NEW at \in [1..5 -> Nat],
         seqs = [j \in 1..n |-> SubSeq(field, at[j] + 1, at[j + 1])],
         at[1] = 0, at[n + 1] = Len(field), \A j \in 1..n : at[j] <= at[j + 1] /\ at[j + 1] <= Len(field)
  PROVE  Seqs!FlattenSeq(seqs) = field
<1>1. Len(seqs) = n
  OBVIOUS
<1>2. CASE n = 0
  <2>1. field = <<>> /\ seqs = <<>>
    BY <1>2
  <2> QED BY <1>1, <1>2, <2>1 DEF Seqs!FlattenSeq
<1>3. CASE n # 0
  <2> DEFINE upto(b) == SubSeq(field, 1, b)
             p == [j \in 1..n |-> upto(at[j + 1])]
             joins(f) == f = [j \in 1..n |-> IF j = 1 THEN seqs[j] ELSE f[j - 1] \o seqs[j]]
             flatten == CHOOSE f : joins(f)
  <2>1. \A j \in 1..n : p[j] = (IF j = 1 THEN seqs[j] ELSE p[j - 1] \o seqs[j])
    <3> SUFFICES ASSUME NEW j \in 1..n PROVE p[j] = (IF j = 1 THEN seqs[j] ELSE p[j - 1] \o seqs[j])
      BY Zenon
    <3>1. at[j] \in Nat /\ at[j + 1] \in Nat /\ at[j] <= at[j + 1] /\ at[j + 1] <= Len(field) /\ Len(field) \in Nat
      <4>1. j \in 1..5 /\ j + 1 \in 1..5
        <5>1. j \in Int /\ n \in Int /\ 1 <= j /\ j <= n /\ n <= 4
          OBVIOUS
        <5> QED BY <5>1
      <4>2. at[j] \in Nat /\ at[j + 1] \in Nat
        BY <4>1
      <4>3. Len(field) \in Nat
        OBVIOUS
      <4> QED BY <4>2, <4>3
    <3>2. seqs[j] = SubSeq(field, at[j] + 1, at[j + 1]) /\ p[j] = upto(at[j + 1])
      OBVIOUS
    <3>3. CASE j = 1
      <4>1. at[j] + 1 = 1
        BY <3>3
      <4> QED BY <3>2, <3>3, <4>1
    <3>4. CASE j # 1
      <4>1. upto(at[j]) \o SubSeq(field, at[j] + 1, at[j + 1]) = upto(at[j + 1])
        <5>1. at[j] \in 1 - 1..Len(field) /\ at[j + 1] \in at[j]..Len(field) /\ 1 \in 1..Len(field) + 1
          <6> DEFINE a == at[j]
                     b == at[j + 1]
                     l == Len(field)
          <6>1. a \in Nat /\ b \in Nat /\ l \in Nat /\ a <= b /\ b <= l
            BY <3>1
          <6> HIDE DEF a, b, l
          <6>2. a \in 1 - 1..l /\ b \in a..l /\ 1 \in 1..l + 1
            BY <6>1
          <6> QED BY <6>2 DEF a, b, l
        <5> QED BY <5>1, ConcatAdjacentSubSeq
      <4>2. p[j - 1] = upto(at[j])
        <5>1. j - 1 \in 1..n /\ (j - 1) + 1 = j
          BY <3>4
        <5> HIDE DEF upto
        <5> QED BY <5>1
      <4> HIDE DEF p, upto
      <4> QED BY <3>2, <3>4, <4>1, <4>2, Zenon
    <3> HIDE DEF p
    <3> QED BY <3>3, <3>4, Zenon
  <2>2. joins(p)
    <3> DEFINE e(j) == IF j = 1 THEN seqs[j] ELSE p[j - 1] \o seqs[j]
    <3>1. p = [j \in 1..n |-> p[j]]
      OBVIOUS
    <3>2. \A j \in 1..n : p[j] = e(j)
      BY <2>1
    <3> HIDE DEF p, e
    <3>3. [j \in 1..n |-> p[j]] = [j \in 1..n |-> e(j)]
      BY <3>2
    <3> QED BY <3>1, <3>3 DEF e
  <2>3. joins(flatten)
    <3> HIDE DEF joins
    <3> QED BY <2>2, Zenon
  <2>4. Seqs!FlattenSeq(seqs) = flatten[n]
    BY <1>1, <1>3 DEF Seqs!FlattenSeq
  <2>5. \A j \in 1..n : flatten[j] = (IF j = 1 THEN seqs[j] ELSE flatten[j - 1] \o seqs[j])
    <3> DEFINE f == flatten
               e(j) == IF j = 1 THEN seqs[j] ELSE f[j - 1] \o seqs[j]
    <3>1. f = [j \in 1..n |-> e(j)]
      BY <2>3
    <3> HIDE DEF f, e
    <3>2. \A j \in 1..n : f[j] = e(j)
      BY <3>1
    <3> QED BY <3>2 DEF e, f
  <2> HIDE DEF flatten
  <2>6. p[n] = field
    <3>1. upto(Len(field)) = field
      BY SubSeqFull
    <3> HIDE DEF upto
    <3>2. p[n] = upto(at[n + 1])
      BY <1>3
    <3> QED BY <3>1, <3>2
  <2> HIDE DEF p
  <2>7. n \in 1..4
    BY <1>3
  <2>8. flatten[n] = p[n]
    BY <2>1, <2>5, <2>7, JoinedAlike
  <2> QED BY <2>4, <2>6, <2>8
<1> QED BY <1>2, <1>3

\* Where in the immediate field the operand of a slot begins.
TakenOf(j) == IF j <= Count THEN Taken(ctx.entry.shapes[j]) ELSE 0
Before(s)  == (IF 1 < s THEN TakenOf(1) ELSE 0) + (IF 2 < s THEN TakenOf(2) ELSE 0)
                + (IF 3 < s THEN TakenOf(3) ELSE 0) + (IF 4 < s THEN TakenOf(4) ELSE 0)

\* An immediate operand starts with its bytes of the field; no other operand
\* takes any.
Tiles(op, shape, start) ==
  /\ op.type = "IMM" /\ shape # "IMM_ONE" =>
       /\ op.size \div 8 = Taken(shape)
       /\ Taken(shape) \in 0..8 /\ \A b \in 1..Taken(shape) : op.imm[b] = ImmByte(start + b)
  /\ ~(op.type = "IMM" /\ shape # "IMM_ONE") => Taken(shape) = 0

\* A memory operand has the address of the ModRM byte, unless it is an offset.
Addressed(op, shape) == op.type = "MEM" => shape = "MOFFS" \/ (shape \in AddressShapes /\ op.mem = build_mem)

SlotsPlaced ==
  \A s \in 1..Len(slots) : s < i =>
    Tiles(slots[s], ctx.entry.shapes[s], Before(s)) /\ Addressed(slots[s], ctx.entry.shapes[s])

LEMMA TypesMade ==
  /\ \A r, size : RegOperand(r, size).type = "REG"
  /\ \A m, size : MemOperand(m, size).type = "MEM" /\ MemOperand(m, size).mem = m
  /\ \A w, size : /\ ImmOperand(w, size).type = "IMM" /\ ImmOperand(w, size).size = size /\ ImmOperand(w, size).imm = w
                  /\ RelOperand(w, size).type = "IMM" /\ RelOperand(w, size).size = size /\ RelOperand(w, size).imm = w
BY DEF RegOperand, MemOperand, ImmOperand, RelOperand, Make

LEMMA OnlyImmediates ==
  ASSUME NEW shape, shape \notin (ImmShapes \ {"MOFFS"}) \cup {"IMM_ONE"} PROVE Built(shape).type # "IMM"
<1>1. \A p : GprOperand(p).type # "IMM"
  BY TypesMade DEF GprOperand, OrMem
<1>2. \A p : VectorOperand(p).type # "IMM"
  BY TypesMade DEF VectorOperand, Vector, OrMem
<1>3. \A p : SystemOperand(p).type # "IMM" /\ FixedOperand(p).type # "IMM"
  BY TypesMade DEF SystemOperand, FixedOperand
<1>4. \A m, size : MemOperand(m, size).type # "IMM"
  BY TypesMade
<1>5. MoffsOperand.type # "IMM"
  BY TypesMade DEF MoffsOperand
<1> QED BY <1>1, <1>2, <1>3, <1>4, <1>5 DEF Built

\* The first bytes of a widened field are the field.
LEMMA WidenedBytes ==
  ASSUME NEW n \in 0..8, NEW b \in 1..n
  PROVE  ZeroExtended(take_imm(n))[b] = ImmByte(immOff + b) /\ SignExtended(take_imm(n))[b] = ImmByte(immOff + b)
<1>1. Len(take_imm(n)) = n /\ take_imm(n)[b] = ImmByte(immOff + b)
  <2> DEFINE e(j) == ImmByte(immOff + j)
             q == [j \in 1..n |-> e(j)]
  <2> HIDE DEF e
  <2>1. Len(q) = n /\ q[b] = e(b)
    OBVIOUS
  <2> QED BY <2>1 DEF e, take_imm
<1>2. \A f : Filled(take_imm(n), f)[b] = take_imm(n)[b]
  BY <1>1 DEF Filled
<1> QED BY <1>1, <1>2 DEF ZeroExtended, SignExtended

LEMMA BuiltTiles ==
  ASSUME Filled64, NEW shape PROVE Tiles(Built(shape), shape, immOff)
<1>1. VSize \in {2, 4} /\ ctx.eosz \div 8 \in 0..8 /\ ctx.eosz \in {0, 8, 16, 32, 64}
  BY DEF VSize, Filled64, Width
<1>2. CASE shape = "IMM_ONE"
  BY <1>2 DEF Tiles, Taken
<1>3. CASE shape \in ImmShapes \ {"MOFFS"}
  <2>1. Built(shape) = ImmShapeOperand(shape)
    BY <1>3 DEF Built, GprShape, VectorShape, MemShapes, ImmShapes
  <2>2. Taken(shape) \in 0..8
    BY <1>1 DEF Taken
  <2>3. 8 \div 8 = 1 /\ 16 \div 8 = 2 /\ (8 * VSize) \div 8 = VSize
    BY <1>1
  <2>4. /\ Built(shape).type = "IMM" /\ Built(shape).size \div 8 = Taken(shape)
        /\ \/ Built(shape).imm = ZeroExtended(take_imm(Taken(shape)))
           \/ Built(shape).imm = SignExtended(take_imm(Taken(shape)))
    BY <1>3, <2>1, <2>3, TypesMade DEF ImmShapeOperand, Taken, ImmShapes
  <2> DEFINE n == Taken(shape)
             op == Built(shape)
  <2>5. \A b \in 1..n : op.imm[b] = ImmByte(immOff + b)
    <3>1. n \in 0..8 /\ (op.imm = ZeroExtended(take_imm(n)) \/ op.imm = SignExtended(take_imm(n)))
      BY <2>2, <2>4
    <3> HIDE DEF n, op
    <3> QED BY <3>1, WidenedBytes
  <2> QED BY <1>3, <2>2, <2>4, <2>5 DEF Tiles, ImmShapes
<1>4. CASE shape \notin (ImmShapes \ {"MOFFS"}) \cup {"IMM_ONE"}
  <2>1. Built(shape).type # "IMM"
    BY <1>4, OnlyImmediates
  <2>2. Taken(shape) = 0
    BY <1>4 DEF Taken, ImmShapes
  <2> QED BY <2>1, <2>2 DEF Tiles
<1> QED BY <1>2, <1>3, <1>4

LEMMA BuiltAddressed ==
  ASSUME NEW shape PROVE Addressed(Built(shape), shape)
<1> USE TypesMade DEF Addressed
<1>1. ASSUME shape \in GprShape PROVE Addressed(GprOperand(shape), shape)
  <2>1. {"GPR_OR_MEM", "GPR_OR_MEM16", "GPR8_OR_MEM", "GPR16_OR_MEM", "R32_OR_MEM", "R32_OR_MEM16"} \subseteq AddressShapes
    BY DEF AddressShapes, RmShapes
  <2> QED BY <1>1, <2>1 DEF GprOperand, OrMem
<1>2. ASSUME shape \in VectorShape PROVE Addressed(VectorOperand(shape), shape)
  <2>1. {"MM_OR_MEM", "XMM_OR_MEM", "YMM_OR_MEM"} \subseteq AddressShapes
    BY DEF AddressShapes, RmShapes
  <2> QED BY <1>2, <2>1 DEF VectorOperand, Vector, OrMem
<1>3. Addressed(SystemOperand(shape), shape) /\ Addressed(FixedOperand(shape), shape)
  BY DEF SystemOperand, FixedOperand
<1>4. shape \in MemShapes => \A size : Addressed(MemOperand(build_mem, size), shape)
  BY DEF AddressShapes
<1>5. Addressed(ImmShapeOperand(shape), shape)
  BY DEF ImmShapeOperand
<1> QED BY <1>1, <1>2, <1>3, <1>4, <1>5 DEF Built

LEMMA BeforeNext ==
  ASSUME CallInv, i \in 1..Count PROVE Before(i) = immOff
<1>1. Count \in Nat
  BY ContextCount DEF CallInv
<1>2. \A j \in 1..4 : TakenAt(j) = (IF j < i THEN TakenOf(j) ELSE 0)
  BY <1>1 DEF TakenAt, TakenOf
<1> QED BY <1>2 DEF Before, CallInv, SlotsInv, ImmTaken

LEMMA TilesStay ==
  ASSUME UNCHANGED vars
  PROVE  /\ \A op, shape, start : Tiles(op, shape, start)' <=> Tiles(op, shape, start)
         /\ \A s : Before(s)' = Before(s)
         /\ \A op, shape : Addressed(op, shape)' <=> Addressed(op, shape)
<1>1. ctx' = ctx /\ buf' = buf /\ Count' = Count
  BY DEF vars, input, ctx, Count
<1>2. \A q : Taken(q)' = Taken(q)
  BY <1>1 DEF Taken, VSize
<1>3. \A q : ImmByte(q)' = ImmByte(q)
  BY <1>1 DEF ImmByte
<1>4. \A q : TakenOf(q)' = TakenOf(q)
  BY <1>1, <1>2 DEF TakenOf
<1>5. build_mem' = build_mem
  <2>1. insn' = insn /\ decoder' = decoder /\ ctx' = ctx /\ buf' = buf
    BY <1>1 DEF vars, input
  <2>2. /\ AddressSlot' = AddressSlot /\ mod' = mod /\ Is64' = Is64 /\ RmBit' = RmBit /\ IdxBit' = IdxBit
        /\ HasIndex' = HasIndex /\ Overrides' = Overrides /\ DispBytes' = DispBytes
    BY <2>1 DEF AddressSlot, mod, Is64, RmBit, IdxBit, RexBit, HasIndex, Overrides, DispBytes
  <2>3. MemBase' = MemBase /\ MemIndex' = MemIndex
    BY <2>1, <2>2 DEF MemBase, MemIndex
  <2>4. (SegmentFor(MemBase))' = SegmentFor(MemBase)
    BY <2>1, <2>2, <2>3 DEF SegmentFor, DefaultSegment
  <2> QED BY <2>1, <2>2, <2>3, <2>4 DEF build_mem
<1> QED BY <1>2, <1>3, <1>4, <1>5 DEF Tiles, Before, Addressed

LEMMA StepPlaced == ASSUME CallInv, CallInv', SlotsPlaced, [FullNext]_fullVars PROVE SlotsPlaced'
<1>1. CASE BuildOperand
  <2> DEFINE p == ctx.entry.shapes[i]
             op == Built(p)
  <2>1. i \in 1..Count /\ Accepted /\ Filled64
    <3>1. stage = "build" /\ i \in 1..Count
      BY <1>1, ContextCount DEF BuildOperand, CallInv, SlotsInv, SlotsWritten
    <3>2. Count > 0 /\ DecoderInv /\ CallState
      BY <3>1, ContextCount DEF CallInv
    <3>3. Accepted
      BY <3>1, <3>2, BuildsAccepted
    <3> QED BY <3>1, <3>2, <3>3, ContextFilled
  <2>2. Tiles(op, p, Before(i)) /\ Addressed(op, p)
    BY <2>1, BuiltTiles, BeforeNext, BuiltAddressed
  <2> HIDE DEF op
  <2>3. UNCHANGED vars /\ i' = i + 1 /\ slots' = [slots EXCEPT ![i] = op]
    BY <1>1 DEF BuildOperand, op
  <2>4. slots \in Seq(OperandRecord) /\ i \in Nat
    BY <2>1 DEF CallInv, SlotsInv, SlotsWritten
  <2>5. Len(slots') = Len(slots) /\ \A s \in 1..Len(slots) : slots'[s] = (IF s = i THEN op ELSE slots[s])
    BY <2>3, <2>4
  <2>6. ASSUME NEW s \in 1..Len(slots), s < i + 1
        PROVE  Tiles(slots'[s], ctx.entry.shapes[s], Before(s)) /\ Addressed(slots'[s], ctx.entry.shapes[s])
    <3>1. s = i \/ s < i
      BY <2>4, <2>6
    <3> QED BY <2>2, <2>5, <2>6, <3>1 DEF SlotsPlaced
  <2>7. ctx' = ctx
    BY <2>3 DEF vars, ctx
  <2>8. /\ \A o, shape, start : Tiles(o, shape, start)' <=> Tiles(o, shape, start)
        /\ \A s : Before(s)' = Before(s)
        /\ \A o, shape : Addressed(o, shape)' <=> Addressed(o, shape)
    BY <2>3, TilesStay
  <2> QED BY <2>3, <2>5, <2>6, <2>7, <2>8 DEF SlotsPlaced
<1>2. CASE DecodeStep
  <2>1. i' = 1 /\ slots' = slots
    BY <1>2 DEF DecodeStep, CallInv, SlotsInv, SlotsWritten
  <2> QED BY <2>1 DEF SlotsPlaced
<1>3. CASE \/ RejectFull \/ StartDecode \/ DecodeFails \/ DecodeReturns \/ RejectArray \/ StartBuild
           \/ FinishBuild \/ UNCHANGED fullVars
  <2>1. UNCHANGED <<vars, slots, i>>
    BY <1>3 DEF RejectFull, StartDecode, DecodeFails, DecodeReturns, RejectArray, StartBuild, FinishBuild, fullVars
  <2>2. ctx' = ctx
    BY <2>1 DEF vars, ctx
  <2> QED BY <2>1, <2>2, TilesStay DEF SlotsPlaced
<1> QED BY <1>1, <1>2, <1>3 DEF FullNext

\* What is cut out of a sequence of bytes.
LEMMA PieceOf ==
  ASSUME NEW s \in Seq(Byte), NEW a \in Nat, NEW n \in Nat, a + n <= Len(s)
  PROVE  /\ SubSeq(s, a + 1, a + n) \in Seq(Byte) /\ Len(SubSeq(s, a + 1, a + n)) = n
         /\ \A b \in 1..n : SubSeq(s, a + 1, a + n)[b] = s[a + b]
<1> DEFINE l == a + 1
           h == a + n
<1>1. l \in Int /\ h \in Int /\ l >= 1 /\ h <= Len(s)
  OBVIOUS
<1>2. \A j \in l..h : s[j] \in Byte
  BY <1>1, ElementOfSeq
<1>3. h - l + 1 = n /\ (l <= h \/ n = 0) /\ \A b \in 1..n : l + b - 1 = a + b
  OBVIOUS
<1> HIDE DEF l, h
<1>4. /\ SubSeq(s, l, h) \in Seq(Byte) /\ Len(SubSeq(s, l, h)) = (IF l <= h THEN h - l + 1 ELSE 0)
      /\ \A b \in 1..h - l + 1 : SubSeq(s, l, h)[b] = s[l + b - 1]
  BY <1>1, <1>2, SubSeqProperties
<1>5. /\ SubSeq(s, l, h) \in Seq(Byte) /\ Len(SubSeq(s, l, h)) = n
      /\ \A b \in 1..n : SubSeq(s, l, h)[b] = s[a + b]
  <2>1. Len(SubSeq(s, l, h)) = n
    BY <1>1, <1>3, <1>4
  <2> QED BY <1>3, <1>4, <2>1
<1> QED BY <1>5 DEF l, h

LEMMA FirstOf ==
  ASSUME NEW s, NEW n \in Nat, \A b \in 1..n : s[b] \in Byte
  PROVE  SubSeq(s, 1, n) \in Seq(Byte) /\ Len(SubSeq(s, 1, n)) = n /\ \A b \in 1..n : SubSeq(s, 1, n)[b] = s[b]
<1>1. /\ SubSeq(s, 1, n) \in Seq(Byte) /\ Len(SubSeq(s, 1, n)) = (IF 1 <= n THEN n - 1 + 1 ELSE 0)
      /\ \A b \in 1..n - 1 + 1 : SubSeq(s, 1, n)[b] = s[1 + b - 1]
  BY SubSeqProperties
<1>2. n - 1 + 1 = n /\ \A b \in 1..n : 1 + b - 1 = b
  OBVIOUS
<1> QED BY <1>1, <1>2

\* For every buffer, decoder and way to call, the immediate operands of a
\* delivered instruction, put one behind the other, are its immediate field:
\* no byte is read twice, skipped or taken from elsewhere.
THEOREM ImmediateFieldTiled == FullSpec => []ImmediatesTiled
<1>1. FullInit => SlotsPlaced
  BY DEF FullInit, SlotsPlaced
<1>2. CallInv /\ CallInv' /\ SlotsPlaced /\ [FullNext]_fullVars => SlotsPlaced'
  BY StepPlaced
<1>3. CallInv /\ SlotsPlaced => ImmediatesTiled
  <2> SUFFICES ASSUME CallInv, SlotsPlaced, Delivered, status = "OK"
               PROVE  Seqs!FlattenSeq([s \in Indices |-> ImmBytesOf(s)])
                        = SubSeq(buf, insn.length - raw.immSize + 1, insn.length)
    BY DEF ImmediatesTiled
  <2> DEFINE size == raw.immSize
             field == SubSeq(buf, pos - size + 1, pos)
             at == [j \in 1..5 |-> Before(j)]
             n == Count
             pieces == [s \in Indices |-> ImmBytesOf(s)]
             joined == [j \in 1..n |-> SubSeq(field, at[j] + 1, at[j + 1])]
  <2>1. Accepted /\ DecoderInv /\ n \in 0..4 /\ i = n + 1
    <3>1. pc = "done" /\ i = n + 1 /\ DecoderInv
      BY DEF CallInv, CallState, Delivered, Returned
    <3> QED BY <3>1, AcceptedCount DEF Accepted
  <2>2. /\ insn.length = pos /\ ctx.raw.immSize = size /\ ctx.length = pos /\ size \in Nat /\ pos \in Nat
        /\ size <= pos /\ pos <= Len(buf) /\ buf \in Seq(Byte)
    <3>1. insn.length = pos
      BY <2>1 DEF DecoderInv, LengthInv, Reported
    <3>2. OffsetBytes \in Nat /\ raw.immSize \in Nat /\ pos \in Nat /\ OffsetBytes + raw.immSize <= pos
      BY <2>1, TailInside
    <3>3. Filled64
      BY <2>1, ContextFilled
    <3> QED BY <3>1, <3>2, <3>3 DEF Filled64
  <2>3. field \in Seq(Byte) /\ Len(field) = size /\ \A b \in 1..size : field[b] = buf[pos - size + b]
    <3> DEFINE a == pos - size
    <3>1. a \in Nat /\ a + size = pos
      BY <2>2
    <3>2. field = SubSeq(buf, a + 1, a + size)
      BY <3>1
    <3> HIDE DEF field
    <3>3. field \in Seq(Byte) /\ Len(field) = size /\ \A b \in 1..size : field[b] = buf[a + b]
      <4> HIDE DEF a, size
      <4> QED BY <2>2, <3>1, <3>2, PieceOf
    <3> QED BY <3>3
  <2>4. /\ at \in [1..5 -> Nat] /\ at[1] = 0 /\ at[n + 1] = size
        /\ \A j \in 1..n : TakenOf(j) \in Nat /\ at[j + 1] = at[j] + TakenOf(j) /\ at[j + 1] <= size
    <3>1. \A j \in 1..4 : TakenOf(j) \in Nat
      BY <2>1, TakenNumbers DEF TakenOf
    <3>2. \A j \in 1..4 : j > n => TakenOf(j) = 0
      BY <2>1 DEF TakenOf
    <3>3. size = TakenOf(1) + TakenOf(2) + TakenOf(3) + TakenOf(4)
      <4>1. Reads(ctx.entry.shapes, ctx.eosz) = size
        <5>1. Reads(ctx.entry.shapes, ctx.eosz) = context.raw.immSize
          BY <2>1, Reconciled DEF DecoderInv, ImmediatesReconcile, ctx
        <5> QED BY <2>2, <5>1 DEF ctx
      <4>2. \A p : Taken(p) = OperandReads(p, ctx.eosz)
        BY DEF Taken, OperandReads, VSize
      <4> QED BY <2>1, <4>1, <4>2 DEF Reads, Count, TakenOf
    <3> DEFINE a == TakenOf(1)
               b == TakenOf(2)
               c == TakenOf(3)
               d == TakenOf(4)
    <3>4. at[1] = 0 /\ at[2] = a /\ at[3] = a + b /\ at[4] = a + b + c /\ at[5] = a + b + c + d
      BY <3>1 DEF Before
    <3>5. a \in Nat /\ b \in Nat /\ c \in Nat /\ d \in Nat /\ size = a + b + c + d
      BY <3>1, <3>3
    <3>6. /\ n < 1 => a = 0
          /\ n < 2 => b = 0
          /\ n < 3 => c = 0
          /\ n < 4 => d = 0
      BY <2>1, <3>2
    <3>7. \A j \in 1..5 : at[j] \in Nat
      <4> HIDE DEF a, b, c, d, at
      <4> QED BY <3>4, <3>5
    <3>8. \A j \in 1..4 : at[j + 1] = at[j] + TakenOf(j) /\ at[j + 1] <= size
      <4>1. \A j \in 1..4 : j = 1 \/ j = 2 \/ j = 3 \/ j = 4
        OBVIOUS
      <4>2. TakenOf(1) = a /\ TakenOf(2) = b /\ TakenOf(3) = c /\ TakenOf(4) = d
        OBVIOUS
      <4> HIDE DEF a, b, c, d, at
      <4> QED BY <3>4, <3>5, <4>1, <4>2
    <3>9. at[n + 1] = size
      <4>1. n = 0 \/ n = 1 \/ n = 2 \/ n = 3 \/ n = 4
        BY <2>1
      <4> HIDE DEF a, b, c, d, at, n
      <4> QED BY <3>4, <3>5, <3>6, <4>1
    <3>10. at \in [1..5 -> Nat]
      BY <3>7
    <3> HIDE DEF at
    <3> QED BY <2>1, <3>1, <3>4, <3>8, <3>9, <3>10
  <2>5. \A j \in 1..n : ImmBytesOf(j) = SubSeq(field, at[j] + 1, at[j + 1])
    <3> SUFFICES ASSUME NEW j \in 1..n PROVE ImmBytesOf(j) = SubSeq(field, at[j] + 1, at[j + 1])
      OBVIOUS
    <3> DEFINE a == at[j]
               t == TakenOf(j)
               shape == context.entry.shapes[j]
    <3>1. a \in Nat /\ t \in Nat /\ at[j] = a /\ at[j + 1] = a + t /\ a + t <= size
      <4>1. j \in 1..5
        BY <2>1
      <4> QED BY <2>4, <4>1
    <3>2. Tiles(slots[j], shape, a) /\ t = Taken(shape)
      <4>1. j \in 1..Len(slots) /\ j < i /\ j \in 1..5 /\ j <= Count
        <5>1. Count <= Len(slots) /\ Len(slots) \in Nat
          BY WrittenUpTo DEF Delivered
        <5> QED BY <2>1, <5>1
      <4> QED BY <4>1 DEF SlotsPlaced, TakenOf, ctx
    <3>3. \A b \in 1..t : field[a + b] = ImmByte(a + b)
      <4> SUFFICES ASSUME NEW b \in 1..t PROVE field[a + b] = ImmByte(a + b)
        OBVIOUS
      <4> HIDE DEF a, t, field
      <4>1. a + b \in 1..size
        BY <2>2, <3>1
      <4>2. field[a + b] = buf[pos - size + (a + b)]
        BY <2>3, <4>1
      <4> QED BY <2>2, <4>1, <4>2 DEF ImmByte
    <3> HIDE DEF a, t, field, at
    <3>4. /\ SubSeq(field, a + 1, a + t) \in Seq(Byte) /\ Len(SubSeq(field, a + 1, a + t)) = t
          /\ \A b \in 1..t : SubSeq(field, a + 1, a + t)[b] = field[a + b]
      BY <2>2, <2>3, <3>1, PieceOf
    <3>5. CASE slots[j].type = "IMM" /\ shape # "IMM_ONE"
      <4> DEFINE w == slots[j].imm
      <4>1. ImmBytesOf(j) = SubSeq(w, 1, t)
        BY <3>2, <3>5 DEF ImmBytesOf, Tiles
      <4>2. t \in 0..8 /\ \A b \in 1..t : w[b] = ImmByte(a + b)
        BY <3>2, <3>5 DEF Tiles
      <4> HIDE DEF w
      <4>3. SubSeq(w, 1, t) \in Seq(Byte) /\ Len(SubSeq(w, 1, t)) = t /\ \A b \in 1..t : SubSeq(w, 1, t)[b] = w[b]
        <5>1. \A b \in 1..t : field[a + b] \in Byte
          BY <2>2, <2>3, <3>1, ElementOfSeq
        <5>2. \A b \in 1..t : w[b] \in Byte
          BY <3>3, <4>2, <5>1
        <5> QED BY <3>1, <5>2, FirstOf
      <4>4. \A b \in 1..t : SubSeq(w, 1, t)[b] = SubSeq(field, a + 1, a + t)[b]
        BY <3>3, <3>4, <4>2, <4>3
      <4> QED BY <3>1, <3>4, <4>1, <4>3, <4>4, SeqEqual
    <3>6. CASE ~(slots[j].type = "IMM" /\ shape # "IMM_ONE")
      <4>1. ImmBytesOf(j) = <<>> /\ t = 0
        BY <3>2, <3>6 DEF ImmBytesOf, Tiles
      <4> QED BY <3>1, <3>4, <4>1
    <3> QED BY <3>5, <3>6
  <2>6. Seqs!FlattenSeq(joined) = field
    <3>1. \A j \in 1..n : at[j] <= at[j + 1] /\ at[j + 1] <= Len(field)
      <4> SUFFICES ASSUME NEW j \in 1..n PROVE at[j] <= at[j + 1] /\ at[j + 1] <= Len(field)
        OBVIOUS
      <4>1. j \in 1..5 /\ at[j] \in Nat /\ TakenOf(j) \in Nat /\ at[j + 1] = at[j] + TakenOf(j) /\ at[j + 1] <= size
        BY <2>1, <2>4
      <4> HIDE DEF at, field
      <4> QED BY <2>3, <4>1
    <3> HIDE DEF at, field, n
    <3> QED BY <2>1, <2>3, <2>4, <3>1, PiecesJoined
  <2>7. pieces = joined
    <3> HIDE DEF at, field
    <3> QED BY <2>5 DEF Indices
  <2> HIDE DEF joined, pieces
  <2>8. field = SubSeq(buf, insn.length - raw.immSize + 1, insn.length)
    BY <2>2
  <2> QED BY <2>6, <2>7, <2>8 DEF pieces
<1> QED BY <1>1, <1>2, <1>3, CallKept, PTL DEF FullSpec, FullRun

---------------------------------------------------------------------------
\* The displacement

\* Whatever the tables return, the entry in force has one address at most.
OneLocation == OneAddress(entry.shapes)

LEMMA StepLocation == ASSUME IndInv, OneLocation, [Next]_vars PROVE OneLocation'
<1> USE DEF OneLocation
<1>1. CASE DispatchVzeroall
  BY <1>1, SingleLists DEF DispatchVzeroall
<1>2. CASE DispatchVex
  <2> DEFINE d == DecodeVex(buf, pos - 1)
  <2>1. entry' = entry \/ entry'.shapes = d.shapes
    BY <1>2 DEF DispatchVex
  <2>2. OneAddress(d.shapes)
    BY SingleVex DEF Single
  <2> QED BY <2>1, <2>2
<1>3. CASE ResolveOk
  <2>1. opcode \in Byte /\ map \in 0..3
    BY DEF IndInv, TypeOK
  <2>2. entry'.shapes = Resolved.shapes
    BY <1>3 DEF ResolveOk
  <2>3. Single(Resolved)
    <3>1. Single(ResolveVex(entry, vex, raw.modrm))
      BY SingleVex DEF Single
    <3>2. Single(ResolveCrypto(map, opcode, raw.modrm, Flags)) /\ Single(ResolveEntry(map, opcode, raw.modrm, tail, Flags))
      BY <2>1, SingleCrypto, SingleEntry
    <3> QED BY <3>1, <3>2 DEF Resolved
  <2> QED BY <2>2, <2>3 DEF Single
<1>4. CASE UNCHANGED entry
  BY <1>4
<1>5. UNCHANGED entry \/ DispatchVzeroall \/ DispatchVex \/ ResolveOk
  BY DEF Next, vars, work, RejectArgs, Begin, TakePrefix, EndPrefixes, TakeRex, NoRex, TakeField, TakeOpcode,
         TakeEscape, TakeOpcode3, TakeModrm, TakeSib, TakeDisp, TakeTail, RunOut, Dispatch, DispatchEvex,
         DispatchLegacy, RejectSynth, AcceptSynth, ResolveFails, Promote, TakeOperand, TooLong, Finish, Fail
<1> QED BY <1>1, <1>2, <1>3, <1>4, <1>5

\* Behind a ModRM byte the operands take four bytes at most, and so no memory
\* offset.
LEMMA NoOffsetBehindModrm ==
  ASSUME DecoderInv, Accepted, raw.hasModrm
  PROVE  ~raw.hasMoffs /\ \A j \in 1..Len(entry.shapes) : entry.shapes[j] # "MOFFS"
<1> DEFINE s == entry.shapes
<1>1. Budget(s) <= 4 \/ s = <<>>
  <2>1. form = "LEGACY" => Budget(s) <= 4
    BY DEF DecoderInv, EntryInv, LegacyFit, Settled, Fits, Within, Budget, LimitAt, ImmLimit
  <2>2. form = "VEX" => Budget(s) <= 4
    BY DEF DecoderInv, EntryInv, VexRead, Settled, VexRowFits, VexList, Within, Budget, LimitAt, ImmLimit
  <2>3. form = "VZEROALL" => s = <<>>
    BY DEF DecoderInv, EntryInv, VexRead, Settled
  <2> QED BY <2>1, <2>2, <2>3 DEF DecoderInv, IndInv, TypeOK
<1>2. Len(s) \in 0..4
  <2>1. ctx.entry = entry
    BY DEF DecoderInv, EntryInv, Handed, ctx
  <2> QED BY <2>1, AcceptedCount DEF Count
<1>3. \A j \in 1..Len(s) : s[j] # "MOFFS"
  <2> SUFFICES ASSUME NEW j \in 1..Len(s), s[j] = "MOFFS" PROVE FALSE
    OBVIOUS
  <2>1. j \in 1..4 /\ Budget(s) <= 4
    BY <1>1, <1>2
  <2>2. \A p : ImmLimit(p) \in Nat
    BY DEF ImmLimit
  <2>3. /\ LimitAt(s, 1) \in Nat /\ LimitAt(s, 2) \in Nat /\ LimitAt(s, 3) \in Nat /\ LimitAt(s, 4) \in Nat
        /\ LimitAt(s, j) = 8
    BY <2>2 DEF LimitAt, ImmLimit
  <2> QED BY <2>1, <2>3 DEF Budget
<1> QED BY <1>3 DEF DecoderInv, EntryInv, Collected

\* Where the builder looks for the displacement is where it stands.
LEMMA DisplacementPosition ==
  ASSUME DecoderInv, Accepted, raw.hasModrm, NEW at, at = raw.modrmOffset + 1 + OneIf(raw.hasSib)
  PROVE  /\ at \in Nat /\ raw.dispSize \in {0, 1, 2, 4} /\ at + raw.dispSize \in 0..Len(buf)
         /\ at + raw.dispSize = insn.length - raw.immSize - OneIf(TailFollows)
<1> DEFINE o == OneIf(raw.hasRex)
           c == OpcodeBytes
           b == OneIf(raw.hasSib)
           t == OneIf(TailFollows)
           n == raw.immSize
           d == raw.dispSize
<1>1. /\ pos \in Nat /\ n \in Nat /\ o \in Nat /\ c \in Nat /\ b \in Nat /\ t \in Nat
      /\ raw.count \in Nat /\ d \in {0, 1, 2, 4} /\ pos <= Len(buf) /\ Len(buf) \in Nat
  <2>1. /\ pos \in Nat /\ n \in Nat /\ raw.count \in 0..8 /\ o \in 0..1 /\ b \in 0..1 /\ c \in 0..4 /\ t \in 0..1
    BY FieldLimits DEF DecoderInv
  <2>2. raw \in Raw /\ pos <= Len(buf) /\ buf \in Seq(Byte)
    BY DEF DecoderInv, IndInv, TypeOK, CursorInv
  <2> QED BY <2>1, <2>2 DEF Raw
<1>2. /\ insn.length = pos /\ raw.opcodeOffset = raw.count + o /\ raw.modrmOffset = raw.opcodeOffset + c
      /\ pos = FieldBytes + t
  BY DEF DecoderInv, LengthInv, Reported, Opening, ModrmRead, Ledger, Accepted, OpeningPcs
<1>3. FieldBytes = raw.count + o + c + 1 + b + d + 0 + n
  BY NoOffsetBehindModrm DEF FieldBytes, OneIf
<1>4. at = raw.modrmOffset + 1 + b
  OBVIOUS
<1> HIDE DEF o, c, b, t, n, d
<1>5. at = raw.count + o + c + 1 + b /\ d \in Nat
  BY <1>1, <1>2, <1>4
<1>6. pos = at + d + n + t
  BY <1>1, <1>2, <1>3, <1>5
<1>7. at \in Nat /\ at + d = insn.length - n - t /\ at + d <= Len(buf)
  <2>1. at \in Nat
    BY <1>1, <1>5
  <2>2. at + d = pos - n - t /\ at + d <= pos
    <3>1. \A p, a, u, v, z \in Nat : p = a + u + v + z => a + u = p - v - z /\ a + u <= p
      OBVIOUS
    <3>2. pos \in Nat /\ d \in Nat /\ n \in Nat /\ t \in Nat
      BY <1>1, <1>5
    <3> QED BY <1>6, <2>1, <3>1, <3>2
  <2> QED BY <1>1, <1>2, <1>5, <2>1, <2>2
<1>8. at + d \in 0..Len(buf)
  BY <1>1, <1>5, <1>7
<1> QED BY <1>1, <1>7, <1>8 DEF d, n, t

\* A field of fewer than eight bytes, widened with its sign.
LEMMA SignWidened ==
  ASSUME NEW w \in Seq(Byte), NEW n \in 1..7, Len(w) = n
  PROVE  SubSeq(SignExtended(w), 1, n) = w /\ SignExtended(w)[8] = (IF w[n] >= 128 THEN 255 ELSE 0)
<1> DEFINE v == SignExtended(w)
<1>1. /\ \A b \in 1..n : v[b] = w[b] /\ w[b] \in Byte
      /\ v[8] = (IF Negative(w) THEN 255 ELSE 0)
  <2>1. \A f : Filled(w, f)[8] = f /\ \A b \in 1..n : Filled(w, f)[b] = w[b]
    BY DEF Filled
  <2> QED BY <2>1 DEF SignExtended
<1>2. Negative(w) <=> w[n] >= 128
  BY DEF Negative
<1> HIDE DEF v
<1>3. SubSeq(v, 1, n) \in Seq(Byte) /\ Len(SubSeq(v, 1, n)) = n /\ \A b \in 1..n : SubSeq(v, 1, n)[b] = v[b]
  BY <1>1, FirstOf
<1>4. SubSeq(v, 1, n) = w
  BY <1>1, <1>3, SeqEqual
<1> QED BY <1>1, <1>2, <1>4 DEF v

LEMMA DisplacementRead ==
  ASSUME CallInv, SlotsPlaced, Delivered, NEW s \in Indices, slots[s].type = "MEM"
  PROVE  /\ Accepted /\ DecoderInv /\ s \in 1..Len(entry.shapes) /\ entry.shapes[s] \in AddressShapes
         /\ context.raw = raw
         /\ raw.dispSize # 0 => raw.hasModrm /\ slots[s].mem = build_mem
<1>1. /\ DecoderInv /\ Count \in Nat /\ Count > 0 /\ s \in 1..Len(slots) /\ s < i
      /\ i = Count + 1 /\ Accepted
  <2>1. Count \in Nat /\ i = Count + 1 /\ DecoderInv
    BY ContextCount DEF CallInv, CallState, Delivered, Returned
  <2>2. Count <= Len(slots) /\ Len(slots) \in Nat
    BY WrittenUpTo DEF Delivered
  <2>3. s \in 1..Count
    BY DEF Indices
  <2>4. Accepted
    BY <2>1, <2>3, WrittenUpTo DEF Delivered
  <2> QED BY <2>1, <2>2, <2>3, <2>4
<1>2. context.entry = entry /\ context.raw = raw /\ s \in 1..Len(entry.shapes)
  BY <1>1 DEF DecoderInv, EntryInv, Handed, Indices, Count, ctx
<1>3. entry.shapes[s] = "MOFFS" \/ (entry.shapes[s] \in AddressShapes /\ slots[s].mem = build_mem)
  BY <1>1, <1>2 DEF SlotsPlaced, Addressed, ctx
<1>4. raw.dispSize # 0 => raw.hasModrm /\ entry.shapes[s] # "MOFFS"
  BY <1>1, <1>2, NoOffsetBehindModrm DEF DecoderInv, EntryInv, TailRead
<1> QED BY <1>1, <1>2, <1>3, <1>4 DEF AddressShapes

LEMMA DisplacementKept == FullRun => []DisplacementBeforeImmediates
<1>1. FullInit => OneLocation
  BY SingleLists DEF FullInit, Init, OneLocation, NoEntry
<1>2. CallInv /\ OneLocation /\ [FullNext]_fullVars => OneLocation'
  BY StepFull, StepLocation DEF CallInv, DecoderInv
<1>3. CallInv /\ SlotsPlaced /\ OneLocation => DisplacementBeforeImmediates
  <2> SUFFICES ASSUME CallInv, SlotsPlaced, OneLocation, Delivered PROVE DisplacementBeforeImmediates
    BY DEF DisplacementBeforeImmediates
  <2>1. Cardinality({s \in Indices : slots[s].type = "MEM"}) <= 1
    <3> DEFINE located == {s \in Indices : slots[s].type = "MEM"}
    <3>1. \A s, t \in located : s = t
      BY DisplacementRead DEF OneLocation, OneAddress
    <3> HIDE DEF located
    <3>2. located = {} \/ \E s : located = {s}
      BY <3>1
    <3>3. Cardinality(located) \in {0, 1}
      BY <3>2, FS_EmptySet, FS_Singleton
    <3> QED BY <3>3 DEF located
  <2>2. ASSUME NEW s \in Indices, slots[s].type = "MEM", context.raw.dispSize # 0,
               NEW d, d = context.raw.dispSize, NEW e, e = insn.length - raw.immSize - OneIf(TailFollows)
        PROVE  /\ SubSeq(slots[s].mem.disp, 1, d) = SubSeq(buf, e - d + 1, e)
               /\ slots[s].mem.disp[8] = (IF buf[e] >= 128 THEN 255 ELSE 0)
    <3> DEFINE at == raw.modrmOffset + 1 + OneIf(raw.hasSib)
               w == DispBytes
    <3>1. Accepted /\ DecoderInv /\ context.raw = raw /\ raw.hasModrm /\ slots[s].mem = build_mem
      BY <2>2, DisplacementRead
    <3>2. /\ at \in Nat /\ d \in {1, 2, 4} /\ at + d \in 0..Len(buf) /\ at + d = e
          /\ buf \in Seq(Byte)
      <4>1. /\ at \in Nat /\ raw.dispSize \in {0, 1, 2, 4} /\ at + raw.dispSize \in 0..Len(buf)
            /\ at + raw.dispSize = insn.length - raw.immSize - OneIf(TailFollows)
        <5> HIDE DEF at
        <5> QED BY <3>1, DisplacementPosition DEF at
      <4> HIDE DEF at
      <4> QED BY <2>2, <3>1, <4>1 DEF DecoderInv, IndInv, TypeOK
    <3>3. w = SubSeq(buf, at + 1, at + d)
      BY <2>2, <3>1 DEF DispBytes, ctx
    <3>4. slots[s].mem.disp = SignExtended(w)
      BY <3>1 DEF build_mem
    <3> HIDE DEF at, w
    <3>5. w \in Seq(Byte) /\ Len(w) = d /\ w[d] = buf[e]
      <4>1. at + d <= Len(buf) /\ d \in Nat /\ d \in 1..d
        BY <3>2
      <4> QED BY <3>2, <3>3, <4>1, PieceOf
    <3>6. e - d + 1 = at + 1
      BY <3>2
    <3>7. SubSeq(SignExtended(w), 1, d) = w /\ SignExtended(w)[8] = (IF w[d] >= 128 THEN 255 ELSE 0)
      <4>1. d \in 1..7
        BY <3>2
      <4> QED BY <3>5, <4>1, SignWidened
    <3> QED BY <3>2, <3>3, <3>4, <3>5, <3>6, <3>7
  <2> QED BY <2>1, <2>2 DEF DisplacementBeforeImmediates
<1>4. FullInit => SlotsPlaced
  BY DEF FullInit, SlotsPlaced
<1>5. CallInv /\ CallInv' /\ SlotsPlaced /\ [FullNext]_fullVars => SlotsPlaced'
  BY StepPlaced
<1> QED BY <1>1, <1>2, <1>3, <1>4, <1>5, CallKept, PTL DEF FullRun

\* For every buffer, decoder and way to call, a delivered instruction has one
\* memory operand at most, and the displacement the builder picks behind ModRM
\* and SIB is the one the decoder read before the immediates, sign and all.
THEOREM DisplacementInPlace == FullSpec => []DisplacementBeforeImmediates
BY DisplacementKept, PTL DEF FullSpec, FullRun
=============================================================================
