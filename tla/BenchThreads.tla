---------------------------- MODULE BenchThreads ----------------------------
(***************************************************************************)
(* bench_mt and bench_thread_proc (src/main.c).  The main thread deals the *)
(* repetitions out to one thread per processor, waits for all of them and  *)
(* adds up their counts.  The threads work on an array thread_data in the  *)
(* frame of bench_mt; each keeps its count to itself until it is through.  *)
(* One repetition is one step here: what it does is module Sweep's, and it *)
(* touches nothing that another thread could see.                          *)
(***************************************************************************)
EXTENDS Integers

CONSTANTS
  MaxThreads,    \* how many threads the arrays have room for (64 in the code)
  Processors,    \* what GetSystemInfo may report
  RepCounts,     \* the values of BENCH_REPS
  PerRep,        \* how many instructions a repetition counts
  CreateMayFail  \* whether CreateThread can fail
ASSUME MaxThreadsAssumption == MaxThreads \in Nat \ {0}
ASSUME ProcessorsAssumption == Processors \subseteq Nat
ASSUME RepCountsAssumption  == RepCounts \subseteq Nat
ASSUME PerRepAssumption     == PerRep \in Nat
ASSUME CreateAssumption     == CreateMayFail \in BOOLEAN

Slot == 0..MaxThreads - 1

VARIABLES
  threads,  \* thread_count
  reps,     \* BENCH_REPS
  mpc,      \* the main thread: "create", "wait", "total", "finished", "failed", "exited"
  i,        \* the loop variable of the main thread
  data,     \* thread_data: [reps, count]
  thread,   \* per slot: "none", "running", "exited", "killed"
  done,     \* repetitions a thread is through with
  local,    \* the count a thread keeps to itself
  handle,   \* per slot: "none", "open", "closed"
  total,    \* the main thread's sum
  frame     \* the frame of bench_mt exists
benchVars == <<threads, reps, mpc, i, data, thread, done, local, handle, total, frame>>

\* At least one thread, and no more than there is room for.
\* Mutant: no upper limit.
ThreadCountUnclamped(processors) == IF processors < 1 THEN 1 ELSE processors
ThreadCount(processors) ==
  IF processors < 1 THEN 1 ELSE IF processors > MaxThreads THEN MaxThreads ELSE processors

\* The first `remainder` threads do one repetition more.
\* Mutant: the remainder is dropped.
ShareBase(t) == reps \div threads
Share(t) == reps \div threads + (IF t < reps % threads THEN 1 ELSE 0)

BenchInit ==
  /\ threads \in {ThreadCount(p) : p \in Processors} /\ reps \in RepCounts
  /\ mpc = "create" /\ i = 0 /\ total = 0 /\ frame = TRUE
  /\ data = [t \in Slot |-> [reps |-> 0, count |-> 0]]
  /\ thread = [t \in Slot |-> "none"] /\ handle = [t \in Slot |-> "none"]
  /\ done = [t \in Slot |-> 0] /\ local = [t \in Slot |-> 0]

---------------------------------------------------------------------------
\* The main thread

CreateThread ==
  /\ mpc = "create" /\ i < threads
  /\ data' = [data EXCEPT ![i] = [reps |-> Share(i), count |-> 0]]
  /\ thread' = [thread EXCEPT ![i] = "running"]
  /\ handle' = [handle EXCEPT ![i] = "open"]
  /\ i' = i + 1
  /\ UNCHANGED <<threads, reps, mpc, done, local, total, frame>>

\* "thread create failed": bench_mt returns at once, and its frame is gone.
CreateFails ==
  /\ mpc = "create" /\ i < threads /\ CreateMayFail
  /\ mpc' = "failed" /\ frame' = FALSE
  /\ data' = [data EXCEPT ![i] = [reps |-> Share(i), count |-> 0]]
  /\ UNCHANGED <<threads, reps, i, thread, done, local, handle, total>>

AllCreated ==
  /\ mpc = "create" /\ i = threads
  /\ mpc' = "wait"
  /\ UNCHANGED <<threads, reps, i, data, thread, done, local, handle, total, frame>>

\* WaitForMultipleObjects on all the handles.  Mutant: returns when one of
\* the threads is through (bWaitAll FALSE).
WaitAny ==
  /\ mpc = "wait" /\ \E t \in 0..threads - 1 : thread[t] = "exited"
  /\ mpc' = "total" /\ i' = 0
  /\ UNCHANGED <<threads, reps, data, thread, done, local, handle, total, frame>>
WaitForAll ==
  /\ mpc = "wait" /\ \A t \in 0..threads - 1 : thread[t] = "exited"
  /\ mpc' = "total" /\ i' = 0
  /\ UNCHANGED <<threads, reps, data, thread, done, local, handle, total, frame>>

AddCount ==
  /\ mpc = "total" /\ i < threads
  /\ total' = total + data[i].count
  /\ handle' = [handle EXCEPT ![i] = "closed"]
  /\ i' = i + 1
  /\ UNCHANGED <<threads, reps, mpc, data, thread, done, local, frame>>

Report ==
  /\ mpc = "total" /\ i = threads
  /\ mpc' = "finished" /\ frame' = FALSE
  /\ UNCHANGED <<threads, reps, i, data, thread, done, local, handle, total>>

\* main returns, and with the process end the threads that still run.
Exit ==
  /\ mpc \in {"finished", "failed"}
  /\ mpc' = "exited"
  /\ thread' = [t \in Slot |-> IF thread[t] = "running" THEN "killed" ELSE thread[t]]
  /\ UNCHANGED <<threads, reps, i, data, done, local, handle, total, frame>>

Main == CreateThread \/ CreateFails \/ AllCreated \/ WaitForAll \/ AddCount \/ Report \/ Exit

---------------------------------------------------------------------------
\* A thread

\* The thread reads its share anew before each repetition.  Once bench_mt has
\* returned that read is undefined: it may find nothing left to do.
ReadShare(t) == IF frame THEN {data[t].reps} ELSE {0, data[t].reps}
Repeat(t) ==
  /\ thread[t] = "running" /\ \E share \in ReadShare(t) : done[t] < share
  /\ done' = [done EXCEPT ![t] = @ + 1]
  /\ local' = [local EXCEPT ![t] = @ + PerRep]
  /\ UNCHANGED <<threads, reps, mpc, i, data, thread, handle, total, frame>>

\* Mutant: never ends, for it stops only past its share.
ExitThreadPast(t) ==
  /\ thread[t] = "running" /\ \E share \in ReadShare(t) : done[t] > share
  /\ data' = [data EXCEPT ![t].count = local[t]]
  /\ thread' = [thread EXCEPT ![t] = "exited"]
  /\ UNCHANGED <<threads, reps, mpc, i, done, local, handle, total, frame>>
ExitThread(t) ==
  /\ thread[t] = "running" /\ \E share \in ReadShare(t) : done[t] >= share
  /\ data' = [data EXCEPT ![t].count = local[t]]
  /\ thread' = [thread EXCEPT ![t] = "exited"]
  /\ UNCHANGED <<threads, reps, mpc, i, done, local, handle, total, frame>>

Worker(t) == Repeat(t) \/ ExitThread(t)
BenchNext == Main \/ \E t \in Slot : Worker(t)

\* The system schedules the main thread and every thread it has started.
BenchSpec == BenchInit /\ [][BenchNext]_benchVars
               /\ WF_benchVars(Main) /\ \A t \in Slot : WF_benchVars(Worker(t))

---------------------------------------------------------------------------
BenchTypeOK ==
  /\ threads \in 1..MaxThreads /\ reps \in Nat
  /\ mpc \in {"create", "wait", "total", "finished", "failed", "exited"}
  /\ i \in 0..threads /\ total \in Nat /\ frame \in BOOLEAN
  /\ data \in [Slot -> [reps : Nat, count : Nat]]
  /\ thread \in [Slot -> {"none", "running", "exited", "killed"}]
  /\ done \in [Slot -> Nat] /\ local \in [Slot -> Nat]
  /\ handle \in [Slot -> {"none", "open", "closed"}]

\* The sum is the whole work, however the threads interleave and however many
\* there are: every repetition is dealt out once, done once, counted once.
TotalIsAllWork == mpc = "finished" => total = PerRep * reps

\* A thread's count is not read while it may still be written.
ReadAfterExit ==
  mpc = "total" => \A t \in 0..threads - 1 : thread[t] = "exited" /\ data[t].count = local[t]

\* The process ends: nobody waits for a thread that never ends.
BenchEnds == <>(mpc = "exited")

\* README.md:15: "thread-safe by construction - ... all per-decode state lives
\* on the caller's stack".  The stack frame that holds thread_data exists as
\* long as a thread runs that uses it.
FrameOutlivesThreads == \A t \in Slot : thread[t] = "running" => frame
=============================================================================
