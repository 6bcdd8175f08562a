------------------------- MODULE BenchThreadsProofs -------------------------
(***************************************************************************)
(* Theorems about bench_mt, for any number of processors, repetitions and  *)
(* places in the arrays.                                                   *)
(***************************************************************************)
EXTENDS BenchThreads, TLAPS

\* How many repetitions the first k threads do together.
Dealt(k) == k * (reps \div threads) + (IF k < reps % threads THEN k ELSE reps % threads)

\* Where the threads are, by what the main thread is doing.
ThreadStates ==
  /\ frame <=> mpc \in {"create", "wait", "total"}
  /\ mpc = "create" =>
       \A t \in Slot : IF t < i THEN thread[t] \in {"running", "exited"} ELSE thread[t] = "none"
  /\ mpc = "wait" =>
       \A t \in Slot : IF t < threads THEN thread[t] \in {"running", "exited"} ELSE thread[t] = "none"
  /\ mpc \in {"total", "finished"} =>
       \A t \in Slot : thread[t] = IF t < threads THEN "exited" ELSE "none"
  /\ mpc = "failed" => CreateMayFail
  /\ mpc = "exited" => \A t \in Slot : thread[t] # "running"

\* What a thread has done, as long as its share can be relied on.
WorkOf(t) ==
  /\ data[t].reps = Share(t) /\ done[t] <= Share(t) /\ local[t] = PerRep * done[t]
  /\ thread[t] = "exited" => done[t] = Share(t) /\ data[t].count = local[t]
Work ==
  /\ frame => \A t \in Slot : thread[t] # "none" => WorkOf(t)
  /\ \A t \in Slot : thread[t] = "none" => done[t] = 0 /\ local[t] = 0

Sum ==
  /\ mpc \in {"create", "wait"} => total = 0
  /\ mpc = "total" => total = PerRep * Dealt(i)
  /\ mpc = "finished" => total = PerRep * reps

BenchInv == BenchTypeOK /\ ThreadStates /\ Work /\ Sum

---------------------------------------------------------------------------
\* Arithmetic

LEMMA Division ==
  ASSUME NEW r \in Nat, NEW n \in Nat, n > 0
  PROVE  r \div n \in Nat /\ r % n \in Nat /\ r % n < n /\ r = n * (r \div n) + (r % n)
OBVIOUS

LEMMA Times ==
  ASSUME NEW p \in Nat, NEW a \in Nat, NEW b \in Nat
  PROVE  p * (a + b) = p * a + p * b /\ p * a \in Nat /\ p * 0 = 0
OBVIOUS

\* One thread more does its share more, and all of them do all.
LEMMA DealtAll ==
  ASSUME threads \in Nat, threads > 0, reps \in Nat, NEW k \in Nat, k < threads
  PROVE  /\ Dealt(k) \in Nat /\ Share(k) \in Nat /\ Dealt(k + 1) = Dealt(k) + Share(k)
         /\ Dealt(0) = 0 /\ Dealt(threads) = reps
<1> DEFINE q == reps \div threads
           m == reps % threads
<1>1. q \in Nat
  BY Division
<1>2. m \in Nat
  BY Division
<1>3. m < threads /\ reps = threads * q + m
  BY Division
<1> HIDE DEF q, m
<1>4. k * q \in Nat /\ (k + 1) * q = k * q + q /\ 0 * q = 0
  BY <1>1
<1>5. /\ Dealt(k) = k * q + (IF k < m THEN k ELSE m)
      /\ Dealt(k + 1) = (k + 1) * q + (IF k + 1 < m THEN k + 1 ELSE m)
      /\ Dealt(0) = 0 * q + (IF 0 < m THEN 0 ELSE m)
      /\ Dealt(threads) = threads * q + (IF threads < m THEN threads ELSE m)
  BY DEF Dealt, q, m
<1>6. Share(k) = q + (IF k < m THEN 1 ELSE 0)
  BY DEF Share, q, m
<1>7. Dealt(k) \in Nat /\ Share(k) \in Nat
  BY <1>1, <1>2, <1>4, <1>5, <1>6
<1>8. Dealt(k + 1) = Dealt(k) + Share(k)
  <2>1. CASE k < m
    <3>1. (IF k + 1 < m THEN k + 1 ELSE m) = k + 1
      BY <2>1, <1>2
    <3>2. Dealt(k) = k * q + k /\ Share(k) = q + 1
      BY <2>1, <1>5, <1>6
    <3>3. Dealt(k + 1) = (k * q + q) + (k + 1)
      BY <3>1, <1>4, <1>5
    <3>4. k * q \in Nat
      BY <1>4
    <3> QED BY <3>2, <3>3, <3>4, <1>1
  <2>2. CASE ~(k < m)
    <3>1. (IF k + 1 < m THEN k + 1 ELSE m) = m
      BY <2>2, <1>2
    <3> QED BY <2>2, <3>1, <1>1, <1>2, <1>4, <1>5, <1>6
  <2> QED BY <2>1, <2>2
<1>9. Dealt(0) = 0
  BY <1>2, <1>4, <1>5
<1>10. Dealt(threads) = reps
  BY <1>2, <1>3, <1>5
<1> QED BY <1>7, <1>8, <1>9, <1>10

---------------------------------------------------------------------------
\* The initial states

LEMMA ThreadCountType ==
  ASSUME NEW p \in Nat PROVE ThreadCount(p) \in 1..MaxThreads
BY MaxThreadsAssumption DEF ThreadCount

LEMMA InitBenchInv == BenchInit => BenchInv
<1> SUFFICES ASSUME BenchInit PROVE BenchInv
  OBVIOUS
<1>1. threads \in 1..MaxThreads /\ reps \in Nat
  BY ThreadCountType, ProcessorsAssumption, RepCountsAssumption DEF BenchInit
<1>2. BenchTypeOK
  BY <1>1, MaxThreadsAssumption DEF BenchInit, BenchTypeOK
<1>3. ThreadStates
  BY MaxThreadsAssumption DEF BenchInit, ThreadStates, Slot
<1>4. Work /\ Sum
  BY DEF BenchInit, Work, Sum
<1> QED BY <1>2, <1>3, <1>4 DEF BenchInv

---------------------------------------------------------------------------
\* The steps

LEMMA ShareType ==
  ASSUME BenchTypeOK, NEW k \in Nat, k < threads PROVE Share(k) \in Nat /\ k \in Slot
<1>1. threads \in Nat /\ threads > 0 /\ reps \in Nat /\ threads <= MaxThreads
  BY MaxThreadsAssumption DEF BenchTypeOK
<1>2. Share(k) \in Nat
  BY <1>1, DealtAll
<1>3. k \in Slot
  BY <1>1, MaxThreadsAssumption DEF Slot
<1> QED BY <1>2, <1>3

LEMMA TypeStep == BenchInv /\ [BenchNext]_benchVars => BenchTypeOK'
<1> SUFFICES ASSUME BenchInv, [BenchNext]_benchVars PROVE BenchTypeOK'
  OBVIOUS
<1>t. BenchTypeOK
  BY DEF BenchInv
<1> USE MaxThreadsAssumption, PerRepAssumption
<1>1. CASE CreateThread
  <2>1. i \in Nat /\ i < threads
    BY <1>1, <1>t DEF CreateThread, BenchTypeOK
  <2>2. Share(i) \in Nat /\ i \in Slot
    BY <2>1, <1>t, ShareType
  <2>3. data' \in [Slot -> [reps : Nat, count : Nat]]
    BY <1>1, <1>t, <2>2 DEF CreateThread, BenchTypeOK
  <2>4. thread' \in [Slot -> {"none", "running", "exited", "killed"}] /\ handle' \in [Slot -> {"none", "open", "closed"}]
    BY <1>1, <1>t, <2>2 DEF CreateThread, BenchTypeOK
  <2>5. i' \in 0..threads'
    BY <1>1, <1>t, <2>1 DEF CreateThread, BenchTypeOK
  <2> QED BY <1>1, <1>t, <2>3, <2>4, <2>5 DEF CreateThread, BenchTypeOK
<1>2. CASE CreateFails
  <2>1. i \in Nat /\ i < threads
    BY <1>2, <1>t DEF CreateFails, BenchTypeOK
  <2>2. Share(i) \in Nat /\ i \in Slot
    BY <2>1, <1>t, ShareType
  <2>3. data' \in [Slot -> [reps : Nat, count : Nat]]
    BY <1>2, <1>t, <2>2 DEF CreateFails, BenchTypeOK
  <2> QED BY <1>2, <1>t, <2>3 DEF CreateFails, BenchTypeOK
<1>3. CASE AllCreated
  BY <1>3, <1>t DEF AllCreated, BenchTypeOK
<1>4. CASE WaitForAll
  <2>1. 0 \in 0..threads
    BY <1>t DEF BenchTypeOK
  <2> QED BY <1>4, <1>t, <2>1 DEF WaitForAll, BenchTypeOK
<1>5. CASE AddCount
  <2>1. i \in Nat /\ i < threads
    BY <1>5, <1>t DEF AddCount, BenchTypeOK
  <2>2. i \in Slot
    BY <2>1, <1>t, ShareType
  <2>3. data[i].count \in Nat
    BY <2>2, <1>t DEF BenchTypeOK
  <2>4. total' \in Nat
    BY <1>5, <1>t, <2>3 DEF AddCount, BenchTypeOK
  <2>5. handle' \in [Slot -> {"none", "open", "closed"}]
    BY <1>5, <1>t, <2>2 DEF AddCount, BenchTypeOK
  <2>6. i' \in 0..threads'
    BY <1>5, <1>t, <2>1 DEF AddCount, BenchTypeOK
  <2> QED BY <1>5, <1>t, <2>4, <2>5, <2>6 DEF AddCount, BenchTypeOK
<1>6. CASE Report
  BY <1>6, <1>t DEF Report, BenchTypeOK
<1>7. CASE Exit
  BY <1>7, <1>t DEF Exit, BenchTypeOK
<1>8. ASSUME NEW t \in Slot, Repeat(t) PROVE BenchTypeOK'
  <2>1. done[t] + 1 \in Nat /\ local[t] + PerRep \in Nat
    BY <1>t DEF BenchTypeOK
  <2> QED BY <1>8, <1>t, <2>1 DEF Repeat, BenchTypeOK
<1>9. ASSUME NEW t \in Slot, ExitThread(t) PROVE BenchTypeOK'
  <2>1. data' \in [Slot -> [reps : Nat, count : Nat]]
    BY <1>9, <1>t DEF ExitThread, BenchTypeOK
  <2> QED BY <1>9, <1>t, <2>1 DEF ExitThread, BenchTypeOK
<1>10. CASE UNCHANGED benchVars
  BY <1>10, <1>t DEF benchVars, BenchTypeOK
<1> QED
  BY <1>1, <1>2, <1>3, <1>4, <1>5, <1>6, <1>7, <1>8, <1>9, <1>10 DEF BenchNext, Main, Worker

LEMMA StatesStep == BenchInv /\ [BenchNext]_benchVars => ThreadStates'
<1> SUFFICES ASSUME BenchInv, [BenchNext]_benchVars PROVE ThreadStates'
  OBVIOUS
<1>t. BenchTypeOK /\ ThreadStates
  BY DEF BenchInv
<1>1. CASE CreateThread
  <2>1. i \in Nat /\ threads \in Nat /\ mpc = "create" /\ mpc' = "create" /\ frame' = frame /\ i' = i + 1
    BY <1>1, <1>t DEF CreateThread, BenchTypeOK
  <2>2. ASSUME NEW t \in Slot
        PROVE  IF t < i' THEN thread'[t] \in {"running", "exited"} ELSE thread'[t] = "none"
    <3>1. t \in Int
      BY MaxThreadsAssumption DEF Slot
    <3>2. thread' = [thread EXCEPT ![i] = "running"]
      BY <1>1 DEF CreateThread
    <3>3. IF t < i THEN thread[t] \in {"running", "exited"} ELSE thread[t] = "none"
      BY <2>1, <1>t DEF ThreadStates
    <3>4. CASE t = i
      BY <2>1, <3>1, <3>2, <3>4, <1>t DEF BenchTypeOK
    <3>5. CASE t < i
      BY <2>1, <3>1, <3>2, <3>3, <3>5, <1>t DEF BenchTypeOK
    <3>6. CASE t > i
      BY <2>1, <3>1, <3>2, <3>3, <3>6, <1>t DEF BenchTypeOK
    <3> QED BY <2>1, <3>1, <3>4, <3>5, <3>6
  <2> QED BY <2>1, <2>2, <1>t DEF ThreadStates
<1>2. CASE CreateFails
  BY <1>2, <1>t DEF CreateFails, ThreadStates
<1>3. CASE AllCreated
  BY <1>3, <1>t DEF AllCreated, ThreadStates
<1>4. CASE WaitForAll
  <2>1. ASSUME NEW t \in Slot PROVE thread'[t] = IF t < threads' THEN "exited" ELSE "none"
    <3>1. t \in Nat
      BY MaxThreadsAssumption DEF Slot
    <3>2. t < threads => t \in 0..threads - 1
      BY <3>1, <1>t DEF BenchTypeOK
    <3> QED BY <1>4, <1>t, <3>2 DEF WaitForAll, ThreadStates
  <2> QED BY <1>4, <1>t, <2>1 DEF WaitForAll, ThreadStates
<1>5. CASE AddCount
  BY <1>5, <1>t DEF AddCount, ThreadStates
<1>6. CASE Report
  BY <1>6, <1>t DEF Report, ThreadStates
<1>7. CASE Exit
  BY <1>7, <1>t DEF Exit, ThreadStates
<1>8. ASSUME NEW t \in Slot, Repeat(t) PROVE ThreadStates'
  BY <1>8, <1>t DEF Repeat, ThreadStates
<1>9. ASSUME NEW t \in Slot, ExitThread(t) PROVE ThreadStates'
  <2>1. thread' = [thread EXCEPT ![t] = "exited"] /\ thread[t] = "running"
    BY <1>9 DEF ExitThread
  <2>2. \A s \in Slot : /\ thread[s] \in {"running", "exited"} => thread'[s] \in {"running", "exited"}
                        /\ thread[s] # "running" => thread'[s] = thread[s]
    BY <2>1, <1>t DEF BenchTypeOK
  <2>3. mpc' = mpc /\ i' = i /\ threads' = threads /\ frame' = frame
    BY <1>9 DEF ExitThread
  <2>4. mpc \notin {"total", "finished", "exited"}
    BY <2>1, <1>t DEF ThreadStates
  <2> QED BY <2>2, <2>3, <2>4, <1>t DEF ThreadStates
<1>10. CASE UNCHANGED benchVars
  BY <1>10, <1>t DEF benchVars, ThreadStates
<1> QED
  BY <1>1, <1>2, <1>3, <1>4, <1>5, <1>6, <1>7, <1>8, <1>9, <1>10 DEF BenchNext, Main, Worker

\* Steps that leave a thread's own variables and its share alone.
LEMMA WorkKept ==
  ASSUME NEW t \in Slot, WorkOf(t), threads' = threads, reps' = reps,
         data'[t] = data[t], done'[t] = done[t], local'[t] = local[t], thread'[t] = thread[t]
  PROVE  WorkOf(t)'
BY DEF WorkOf, Share

LEMMA WorkStep == BenchInv /\ [BenchNext]_benchVars => Work'
<1> SUFFICES ASSUME BenchInv, [BenchNext]_benchVars PROVE Work'
  OBVIOUS
<1>t. BenchTypeOK /\ ThreadStates /\ Work
  BY DEF BenchInv
<1>1. CASE CreateThread
  <2>1. i \in Nat /\ i < threads /\ mpc = "create" /\ frame /\ UNCHANGED <<threads, reps, done, local, frame>>
    BY <1>1, <1>t DEF CreateThread, BenchTypeOK, ThreadStates
  <2>2. Share(i) \in Nat /\ i \in Slot
    BY <2>1, <1>t, ShareType
  <2>3. /\ data' = [data EXCEPT ![i] = [reps |-> Share(i), count |-> 0]]
        /\ thread' = [thread EXCEPT ![i] = "running"]
    BY <1>1 DEF CreateThread
  <2>4. done[i] = 0 /\ local[i] = 0
    <3>1. thread[i] = "none"
      BY <2>1, <2>2, <1>t DEF ThreadStates
    <3> QED BY <3>1, <2>2, <1>t DEF Work
  <2>5. ASSUME NEW t \in Slot, t = i PROVE WorkOf(t)'
    <3>1. data'[t].reps = Share(t) /\ thread'[t] = "running"
      BY <2>2, <2>3, <2>5, <1>t DEF BenchTypeOK
    <3>2. PerRep * 0 = 0
      BY PerRepAssumption
    <3>3. Share(t)' = Share(t)
      BY <2>1 DEF Share
    <3>4. done'[t] = 0 /\ local'[t] = 0
      BY <2>1, <2>4, <2>5
    <3>5. 0 <= Share(t)
      BY <2>2, <2>5
    <3> QED BY <3>1, <3>2, <3>3, <3>4, <3>5 DEF WorkOf
  <2>6. ASSUME NEW t \in Slot, t # i, thread'[t] # "none" PROVE WorkOf(t)'
    <3>1. data'[t] = data[t] /\ thread'[t] = thread[t]
      BY <2>3, <2>6, <1>t DEF BenchTypeOK
    <3>2. WorkOf(t)
      BY <2>1, <2>6, <3>1, <1>t DEF Work
    <3> QED BY <2>1, <3>1, <3>2, WorkKept
  <2>7. \A t \in Slot : thread'[t] = "none" => thread[t] = "none"
    BY <2>2, <2>3, <1>t DEF BenchTypeOK
  <2> QED BY <2>1, <2>5, <2>6, <2>7, <1>t DEF Work
<1>2. CASE CreateFails
  BY <1>2, <1>t DEF CreateFails, Work
<1>3. CASE AllCreated \/ WaitForAll \/ AddCount \/ Report \/ UNCHANGED benchVars
  <2>1. UNCHANGED <<threads, reps, data, thread, done, local>> /\ (frame' => frame)
    BY <1>3 DEF AllCreated, WaitForAll, AddCount, Report, benchVars
  <2>2. ASSUME NEW t \in Slot, frame', thread'[t] # "none" PROVE WorkOf(t)'
    <3>1. WorkOf(t)
      BY <2>1, <2>2, <1>t DEF Work
    <3> QED BY <2>1, <3>1, WorkKept
  <2> QED BY <2>1, <2>2, <1>t DEF Work
<1>4. CASE Exit
  <2>1. ~frame /\ frame' = frame /\ UNCHANGED <<done, local>>
    BY <1>4, <1>t DEF Exit, ThreadStates
  <2>2. \A t \in Slot : thread'[t] = "none" => thread[t] = "none"
    BY <1>4, <1>t DEF Exit, BenchTypeOK
  <2> QED BY <2>1, <2>2, <1>t DEF Work
<1>5. ASSUME NEW u \in Slot, Repeat(u) PROVE Work'
  <2>1. /\ thread[u] = "running" /\ done' = [done EXCEPT ![u] = @ + 1] /\ local' = [local EXCEPT ![u] = @ + PerRep]
        /\ UNCHANGED <<threads, reps, data, thread, frame>>
    BY <1>5 DEF Repeat
  <2>2. ASSUME frame PROVE WorkOf(u)'
    <3>1. WorkOf(u) /\ done[u] < data[u].reps
      BY <1>5, <2>1, <2>2, <1>t DEF Repeat, ReadShare, Work
    <3>2. done[u] \in Nat /\ data[u].reps \in Nat
      BY <1>t DEF BenchTypeOK
    <3>3. local[u] \in Nat
      BY <1>t DEF BenchTypeOK
    <3>4. done'[u] = done[u] + 1 /\ local'[u] = local[u] + PerRep
      BY <2>1, <1>t DEF BenchTypeOK
    <3>5. PerRep * (done[u] + 1) = PerRep * done[u] + PerRep
      <4>1. done[u] \in Nat /\ PerRep \in Nat
        BY <3>2, PerRepAssumption
      <4>2. PerRep * (done[u] + 1) = PerRep * done[u] + PerRep * 1
        BY <4>1, Times
      <4> QED BY <4>1, <4>2
    <3>6. data'[u].reps = Share(u)' /\ thread'[u] = "running"
      BY <2>1, <3>1 DEF WorkOf, Share
    <3>7. done'[u] <= Share(u)'
      BY <3>1, <3>2, <3>4, <3>6, <2>1
    <3>8. local'[u] = PerRep * done'[u]
      BY <3>1, <3>4, <3>5 DEF WorkOf
    <3> QED BY <3>6, <3>7, <3>8 DEF WorkOf
  <2>3. ASSUME NEW t \in Slot, t # u, frame, thread[t] # "none" PROVE WorkOf(t)'
    <3>1. WorkOf(t)
      BY <2>3, <1>t DEF Work
    <3>2. done'[t] = done[t] /\ local'[t] = local[t]
      BY <2>1, <2>3, <1>t DEF BenchTypeOK
    <3> QED BY <2>1, <3>1, <3>2, WorkKept
  <2>4. \A t \in Slot : thread'[t] = "none" => done'[t] = 0 /\ local'[t] = 0
    BY <2>1, <1>t DEF Work, BenchTypeOK
  <2> QED BY <2>1, <2>2, <2>3, <2>4 DEF Work
<1>6. ASSUME NEW u \in Slot, ExitThread(u) PROVE Work'
  <2>1. /\ thread[u] = "running" /\ data' = [data EXCEPT ![u].count = local[u]] /\ thread' = [thread EXCEPT ![u] = "exited"]
        /\ UNCHANGED <<threads, reps, done, local, frame>>
    BY <1>6 DEF ExitThread
  <2>2. ASSUME frame PROVE WorkOf(u)'
    <3>1. WorkOf(u) /\ done[u] >= data[u].reps
      BY <1>6, <2>1, <2>2, <1>t DEF ExitThread, ReadShare, Work
    <3>2. done[u] \in Nat /\ data[u].reps \in Nat
      BY <1>t DEF BenchTypeOK
    <3>3. data'[u].reps = data[u].reps /\ data'[u].count = local[u] /\ thread'[u] = "exited"
      BY <2>1, <1>t DEF BenchTypeOK
    <3>4. Share(u)' = Share(u) /\ data[u].reps = Share(u)
      BY <2>1, <3>1 DEF Share, WorkOf
    <3>5. done[u] = Share(u)
      BY <3>1, <3>2, <3>4 DEF WorkOf
    <3> QED BY <2>1, <3>1, <3>3, <3>4, <3>5 DEF WorkOf
  <2>3. ASSUME NEW t \in Slot, t # u, frame, thread[t] # "none" PROVE WorkOf(t)'
    <3>1. WorkOf(t)
      BY <2>3, <1>t DEF Work
    <3>2. data'[t] = data[t] /\ thread'[t] = thread[t]
      BY <2>1, <2>3, <1>t DEF BenchTypeOK
    <3> QED BY <2>1, <3>1, <3>2, WorkKept
  <2>4. \A t \in Slot : thread'[t] = "none" => thread[t] = "none"
    BY <2>1, <1>t DEF BenchTypeOK
  <2>5. \A t \in Slot : thread'[t] # "none" => thread[t] # "none"
    BY <2>1, <1>t DEF BenchTypeOK
  <2> QED BY <2>1, <2>2, <2>3, <2>4, <2>5, <1>t DEF Work
<1> QED
  BY <1>1, <1>2, <1>3, <1>4, <1>5, <1>6 DEF BenchNext, Main, Worker

LEMMA SumStep == BenchInv /\ [BenchNext]_benchVars => Sum'
<1> SUFFICES ASSUME BenchInv, [BenchNext]_benchVars PROVE Sum'
  OBVIOUS
<1>t. BenchTypeOK /\ ThreadStates /\ Work /\ Sum
  BY DEF BenchInv
<1>n. threads \in Nat /\ threads > 0 /\ reps \in Nat
  BY <1>t, MaxThreadsAssumption DEF BenchTypeOK
<1>p. PerRep \in Nat
  BY PerRepAssumption
<1>1. CASE WaitForAll
  <2>1. mpc' = "total" /\ i' = 0 /\ total' = total /\ threads' = threads /\ reps' = reps
    BY <1>1 DEF WaitForAll
  <2>2. total = 0
    BY <1>1, <1>t DEF WaitForAll, Sum
  <2>3. Dealt(0) = 0
    <3>1. 0 < threads /\ 0 \in Nat
      BY <1>n
    <3> QED BY <1>n, <3>1, DealtAll
  <2>4. Dealt(i)' = Dealt(0)
    BY <2>1 DEF Dealt
  <2>5. PerRep * 0 = 0
    BY <1>p
  <2> QED BY <2>1, <2>2, <2>3, <2>4, <2>5 DEF Sum
<1>2. CASE AddCount
  <2>1. /\ mpc = "total" /\ mpc' = "total" /\ i' = i + 1 /\ total' = total + data[i].count
        /\ threads' = threads /\ reps' = reps
    BY <1>2 DEF AddCount
  <2>2. i \in Nat /\ i < threads
    BY <1>2, <1>t DEF AddCount, BenchTypeOK
  <2>3. Share(i) \in Nat /\ i \in Slot
    BY <2>2, <1>t, ShareType
  <2>4. frame /\ thread[i] = "exited"
    BY <2>1, <2>2, <2>3, <1>t DEF ThreadStates
  <2>5. data[i].count = PerRep * Share(i)
    BY <2>3, <2>4, <1>t DEF Work, WorkOf
  <2>6. Dealt(i) \in Nat /\ Dealt(i + 1) = Dealt(i) + Share(i)
    BY <1>n, <2>2, DealtAll
  <2>7. PerRep * Dealt(i + 1) = PerRep * Dealt(i) + PerRep * Share(i)
    BY <1>p, <2>3, <2>6, Times
  <2>8. total' = PerRep * Dealt(i + 1)
    BY <2>1, <2>5, <2>7, <1>t DEF Sum
  <2>9. Dealt(i)' = Dealt(i + 1)
    BY <2>1 DEF Dealt
  <2> QED BY <2>1, <2>8, <2>9 DEF Sum
<1>3. CASE Report
  <2>1. mpc = "total" /\ i = threads /\ mpc' = "finished" /\ total' = total /\ reps' = reps
    BY <1>3 DEF Report
  <2>2. Dealt(threads) = reps
    <3>1. 0 < threads /\ 0 \in Nat
      BY <1>n
    <3> QED BY <1>n, <3>1, DealtAll
  <2> QED BY <2>1, <2>2, <1>t DEF Sum
<1>4. CASE CreateThread \/ CreateFails \/ AllCreated \/ Exit
  BY <1>4, <1>t DEF CreateThread, CreateFails, AllCreated, Exit, Sum
<1>5. ASSUME NEW t \in Slot, Worker(t) PROVE Sum'
  BY <1>5, <1>t DEF Worker, Repeat, ExitThread, Sum, Dealt
<1>6. CASE UNCHANGED benchVars
  BY <1>6, <1>t DEF benchVars, Sum, Dealt
<1> QED
  BY <1>1, <1>2, <1>3, <1>4, <1>5, <1>6 DEF BenchNext, Main

LEMMA BenchStep == BenchInv /\ [BenchNext]_benchVars => BenchInv'
BY TypeStep, StatesStep, WorkStep, SumStep DEF BenchInv

LEMMA BenchInvariant == BenchSpec => []BenchInv
BY InitBenchInv, BenchStep, PTL DEF BenchSpec

---------------------------------------------------------------------------
\* The theorems

\* However many processors the system reports, bench_mt keeps to the room of
\* its arrays.
THEOREM BenchTypes == BenchSpec => []BenchTypeOK
<1>1. BenchInv => BenchTypeOK
  BY DEF BenchInv
<1> QED BY <1>1, BenchInvariant, PTL

\* However many processors there are and however the threads interleave, what
\* bench_mt reports is the count of all BENCH_REPS repetitions.
THEOREM AllWorkCounted == BenchSpec => []TotalIsAllWork
<1>1. BenchInv => TotalIsAllWork
  BY DEF BenchInv, Sum, TotalIsAllWork
<1> QED BY <1>1, BenchInvariant, PTL

\* The main thread reads no count that a thread may still write.
THEOREM CountsAreFinal == BenchSpec => []ReadAfterExit
<1>1. ASSUME BenchInv PROVE ReadAfterExit
  <2>1. ASSUME mpc = "total", NEW t \in 0..threads - 1 PROVE thread[t] = "exited" /\ data[t].count = local[t]
    <3>1. t \in Nat /\ t < threads
      BY <1>1 DEF BenchInv, BenchTypeOK
    <3>2. t \in Slot
      BY <1>1, <3>1, ShareType DEF BenchInv
    <3>3. thread[t] = "exited" /\ frame
      BY <1>1, <2>1, <3>1, <3>2 DEF BenchInv, ThreadStates
    <3> QED BY <1>1, <3>2, <3>3 DEF BenchInv, Work, WorkOf
  <2> QED BY <2>1 DEF ReadAfterExit
<1> QED BY <1>1, BenchInvariant, PTL

\* When every thread can be created, no thread outlives the frame of bench_mt
\* that it works on: the wait for all of them is what guarantees it.
THEOREM FrameSafe ==
  ASSUME ~CreateMayFail PROVE BenchSpec => []FrameOutlivesThreads
<1>1. ASSUME BenchInv PROVE FrameOutlivesThreads
  <2>1. ASSUME NEW t \in Slot, thread[t] = "running" PROVE frame
    <3>1. mpc \notin {"finished", "failed", "exited"}
      BY <1>1, <2>1 DEF BenchInv, ThreadStates
    <3> QED BY <1>1, <3>1 DEF BenchInv, ThreadStates, BenchTypeOK
  <2> QED BY <2>1 DEF FrameOutlivesThreads
<1> QED BY <1>1, BenchInvariant, PTL
=============================================================================
