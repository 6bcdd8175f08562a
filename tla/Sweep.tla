-------------------------------- MODULE Sweep --------------------------------
(***************************************************************************)
(* The linear sweep of bench and bench_insn_only (src/main.c), which       *)
(* bench_zydis repeats: over one corpus, again and again, every call       *)
(* starting where the last instruction ended, on the same X86decInsn and   *)
(* the same four operands.  First with x86dec_decode_full, then with       *)
(* x86dec_decode_insn alone.                                               *)
(***************************************************************************)
EXTENDS OperandProperties

CONSTANT Reps   \* BENCH_REPS
ASSUME RepsAssumption == Reps \in Nat \ {0}

VARIABLES
  corpus,  \* what is swept; buf is the rest of it that a call is given
  offset,  \* where the call starts
  count,   \* instructions counted in all repetitions of the bench
  ends,    \* of each finished repetition: the bench, the count, the offset
  phase    \* "sweep", "rep", "finished"
sweepVars == <<fullVars, corpus, offset, count, ends, phase>>

Bench == IF args.full THEN "full" ELSE "insn"

SweepInit ==
  /\ FullInit
  /\ args = [full |-> TRUE, hasArray |-> TRUE, capacity |-> 4]
  /\ corpus = buf /\ corpus # <<>>
  /\ offset = 0 /\ count = 0 /\ ends = <<>> /\ phase = "sweep"

CallReturned == IF args.full THEN Returned ELSE pc = "done"
CallOk       == status = "OK" /\ (args.full => verdict = "OK")

CallStep ==
  /\ phase = "sweep" /\ ~CallReturned
  /\ IF args.full THEN FullNext ELSE Next /\ UNCHANGED <<args, stage, slots, i, immOff, verdict>>
  /\ UNCHANGED <<corpus, offset, count, ends, phase>>

\* The bytes the call at an offset is given.  Mutant: passes the size of the
\* corpus for the size of the rest, so that a call sees what lies behind it.
RestUnshortened(from) == SubSeq(corpus \o corpus, from + 1, from + Len(corpus))
Rest(from) == SubSeq(corpus, from + 1, Len(corpus))
CallAt(from) ==
  /\ NewCall(Rest(from))
  /\ stage' = "call" /\ i' = 1 /\ immOff' = 0 /\ verdict' = "NONE"
  /\ UNCHANGED slots

\* offset += insn.length
Advance ==
  /\ phase = "sweep" /\ CallReturned /\ CallOk
  /\ offset' = offset + insn.length
  /\ count' = count + 1
  /\ \/ offset' < Len(corpus) /\ CallAt(offset') /\ UNCHANGED <<args, phase>>
     \/ offset' >= Len(corpus) /\ phase' = "rep" /\ UNCHANGED fullVars
  /\ UNCHANGED <<corpus, ends>>

\* A failed call ends the repetition.  Mutant: goes on as if it had succeeded.
BreakIgnored ==
  /\ phase = "sweep" /\ CallReturned /\ ~CallOk
  /\ offset' = offset + insn.length
  /\ \/ offset' < Len(corpus) /\ CallAt(offset') /\ UNCHANGED <<args, phase>>
     \/ offset' >= Len(corpus) /\ phase' = "rep" /\ UNCHANGED fullVars
  /\ UNCHANGED <<corpus, count, ends>>
Break ==
  /\ phase = "sweep" /\ CallReturned /\ ~CallOk
  /\ phase' = "rep"
  /\ UNCHANGED <<fullVars, corpus, offset, count, ends>>

\* The repetition is over: the next one, or the next bench, starts at 0.
RepsOf(bench) == Cardinality({n \in DOMAIN ends : ends[n].bench = bench})
EndOfRep ==
  /\ phase = "rep"
  /\ ends' = Append(ends, [bench |-> Bench, count |-> count, offset |-> offset])
  /\ \/ /\ RepsOf(Bench) + 1 < Reps
        /\ phase' = "sweep" /\ offset' = 0 /\ CallAt(0) /\ UNCHANGED <<args, count>>
     \/ /\ RepsOf(Bench) + 1 = Reps /\ args.full
        /\ args' = [args EXCEPT !.full = FALSE]
        /\ phase' = "sweep" /\ offset' = 0 /\ count' = 0 /\ CallAt(0)
     \/ /\ RepsOf(Bench) + 1 = Reps /\ ~args.full
        /\ phase' = "finished" /\ UNCHANGED <<fullVars, offset, count>>
  /\ UNCHANGED corpus

SweepNext == CallStep \/ Advance \/ Break \/ EndOfRep
SweepSpec == SweepInit /\ [][SweepNext]_sweepVars /\ WF_sweepVars(SweepNext)

---------------------------------------------------------------------------
\* The sweep never leaves the corpus: the lengths of the instructions it
\* accepts add up to no more than it holds, although the loop tests the offset
\* only before each call and the decoder never hears of the whole.
SweepInBounds == offset <= Len(corpus)

\* Every repetition does the same as the first: it stops at the same offset
\* and counts as many, with the structures in whatever state the last call,
\* perhaps a failed one, has left them.
RepsAgree ==
  \A n \in DOMAIN ends : /\ ends[n].bench = "full" => ends[n].count = n * ends[1].count
                         /\ ends[n].offset = ends[1].offset

\* Both benches count the same instructions: building operands into four
\* slots refuses nothing the decoder accepts.
BenchesAgree ==
  phase = "finished" => \A n \in 1..Reps : ends[n].count = ends[Reps + n].count

\* The benches end: every accepted instruction has a length, and a failed
\* call ends the repetition.
SweepEnds == <>(phase = "finished")
=============================================================================
