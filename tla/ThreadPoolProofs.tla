-------------------------- MODULE ThreadPoolProofs --------------------------
(* Proofs about ThreadPool for any finite sets of workers and clients, any   *)
(* number of tasks and any capacity of the run buffers.  The inductive       *)
(* invariant is built in layers, each with one lemma that says a step keeps  *)
(* it given the layers below:                                                *)
(*   Shape      what each thread's own variables look like                   *)
(*   Counted    the fields of the Sync word against the threads              *)
(*   Kept       the conservation of tasks                                    *)
(*   Searching  the counter of the steal loop                                *)
(*   Closing    the order of a shutdown                                      *)
(*   Linked     the stack of threads;  Chained  the joins along it           *)
(*   Woken      a task that is queued has a thread that will come for it     *)
EXTENDS ThreadPool, FiniteSetTheorems, TLAPS

\* The word before its bounds are known.
SyncWord == [idle : Int, spawned : Int, notified : BOOLEAN, state : SyncStates]

\* The types of the variables, and what a thread holds at each place in its code.
Shape ==
    /\ pc \in [Procs -> WorkerPCs \union ClientPCs]
    /\ \A w \in Workers : pc[w] \in WorkerPCs
    /\ \A c \in Clients : pc[c] \in ClientPCs
    /\ sync \in SyncWord
    /\ idle_event \in {"empty", "posted", "shutdown"}
    /\ join_event \in BOOLEAN
    /\ threads \in Queues
    /\ next \in [Workers -> Queues]
    /\ target \in [Procs -> Queues]
    /\ thread_join \in [Workers -> BOOLEAN]
    /\ run_queue \in Nat
    /\ local_queue \in [Workers -> Nat]
    /\ consuming \in [Queues -> Queues]
    /\ run_buffer \in [Workers -> 0..Capacity]
    /\ idle_queue \in [Workers -> BOOLEAN]
    /\ is_waking \in [Procs -> BOOLEAN]
    /\ is_idle \in [Workers -> BOOLEAN]
    /\ hold \in [Procs -> Nat]
    /\ num_threads \in [Workers -> Int]
    /\ freed \in BOOLEAN
    /\ scheduled \in 0..MaxTasks
    /\ executed \in Nat
    /\ idle_pushes \in 0..MaxIdlePushes
    /\ \A p \in Procs : pc[p] \notin {"push", "fill", "overflow", "publish"} => hold[p] = 0
    /\ \A w \in Workers :
          /\ pc[w] \in {"own", "global", "load", "target", "steal", "publish"} => run_buffer[w] = 0
          /\ pc[w] = "publish" => hold[w] \in 1..(Capacity + 1)
          /\ pc[w] = "steal" => target[w] \in Workers

-----------------------------------------------------------------------------
\* The smaller of two numbers.
LEMMA MinOfTwo ==
    ASSUME NEW a \in Int, NEW b \in Int
    PROVE  Min({a, b}) = IF a <= b THEN a ELSE b
  BY DEF Min

-----------------------------------------------------------------------------
(* The Sync word *)

\* Assigning fields of the Sync word leaves a Sync word.
LEMMA SyncTyped ==
    ASSUME NEW s \in SyncWord, NEW i \in Int, NEW n \in Int, NEW b \in BOOLEAN,
           NEW t \in SyncStates
    PROVE  /\ [s EXCEPT !.notified = b, !.state = t, !.idle = i] \in SyncWord
           /\ [s EXCEPT !.notified = b, !.idle = i, !.state = t] \in SyncWord
           /\ [s EXCEPT !.idle = i, !.state = t] \in SyncWord
           /\ [s EXCEPT !.notified = b, !.spawned = n, !.state = t] \in SyncWord
           /\ [s EXCEPT !.spawned = n] \in SyncWord
           /\ s.idle \in Int /\ s.spawned \in Int
           /\ s.notified \in BOOLEAN /\ s.state \in SyncStates
  BY DEF SyncWord

\* shutdown()'s exchange of the word.
LEMMA WordAtShutdown ==
    ASSUME sync \in SyncWord, Shutdown
    PROVE  /\ sync' \in SyncWord
           /\ sync'.state = "Shutdown" /\ sync'.notified = TRUE
           /\ sync'.idle = 0 /\ sync'.spawned = sync.spawned
<1>1. sync' = [sync EXCEPT !.notified = TRUE, !.state = "Shutdown", !.idle = 0]
  BY DEF Shutdown
<1>2. "Shutdown" \in SyncStates /\ TRUE \in BOOLEAN /\ 0 \in Int
  BY DEF SyncStates
<1>3. sync' \in SyncWord
  BY <1>1, <1>2, SyncTyped, Zenon
<1> QED
  BY <1>1, <1>3 DEF SyncWord

\* wait() takes the notification.
LEMMA WordAtConsume ==
    ASSUME sync \in SyncWord, NEW w \in Workers, WaitConsume(w)
    PROVE  /\ sync' \in SyncWord
           /\ sync'.state = IF sync.state = "Signaled" THEN "Waking" ELSE sync.state
           /\ sync'.notified = FALSE
           /\ sync'.idle = IF is_idle[w] THEN sync.idle - 1 ELSE sync.idle
           /\ sync'.spawned = sync.spawned
<1> DEFINE i == IF is_idle[w] THEN sync.idle - 1 ELSE sync.idle
           t == IF sync.state = "Signaled" THEN "Waking" ELSE sync.state
<1>1. sync' = [sync EXCEPT !.notified = FALSE, !.idle = i, !.state = t]
  BY DEF WaitConsume
<1>2. t \in SyncStates /\ FALSE \in BOOLEAN /\ i \in Int
  BY DEF SyncWord, SyncStates
<1> HIDE DEF i, t
<1>3. sync' \in SyncWord
  BY <1>1, <1>2, SyncTyped, Zenon
<1> QED
  BY <1>1, <1>3 DEF SyncWord, i, t

\* wait() joins the idle threads.
LEMMA WordAtGoIdle ==
    ASSUME sync \in SyncWord, NEW w \in Workers, WaitGoIdle(w)
    PROVE  /\ sync' \in SyncWord
           /\ sync'.state = IF is_waking[w] THEN "Pending" ELSE sync.state
           /\ sync'.notified = sync.notified
           /\ sync'.idle = sync.idle + 1
           /\ sync'.spawned = sync.spawned
<1> DEFINE i == sync.idle + 1
           t == IF is_waking[w] THEN "Pending" ELSE sync.state
<1>1. sync' = [sync EXCEPT !.idle = i, !.state = t]
  BY DEF WaitGoIdle
<1>2. t \in SyncStates /\ i \in Int
  BY DEF SyncWord, SyncStates
<1> HIDE DEF i, t
<1>3. sync' \in SyncWord
  BY <1>1, <1>2, SyncTyped, Zenon
<1> QED
  BY <1>1, <1>3 DEF SyncWord, i, t

\* What notify_slow() finds and does to the word when there is no shutdown.
LEMMA WordAtNotify ==
    ASSUME sync \in SyncWord, NEW p \in Procs, NotifySlow(p), sync.state # "Shutdown"
    PROVE  LET can_wake == is_waking[p] \/ sync.state = "Pending"
               wake == can_wake /\ sync.idle > 0
               spawn == can_wake /\ ~wake /\ sync.spawned < max_threads
           IN  /\ sync' \in SyncWord
               /\ sync'.notified = TRUE
               /\ sync'.idle = sync.idle
               /\ sync'.spawned = IF spawn THEN sync.spawned + 1 ELSE sync.spawned
               /\ sync'.state = IF wake \/ spawn THEN "Signaled"
                                ELSE IF is_waking[p] THEN "Pending" ELSE sync.state
               /\ pc' = [pc EXCEPT ![p] = IF wake THEN "post"
                                          ELSE IF spawn THEN "spawn" ELSE Return(p)]
<1> DEFINE can_wake == is_waking[p] \/ sync.state = "Pending"
           wake == can_wake /\ sync.idle > 0
           spawn == can_wake /\ ~wake /\ sync.spawned < max_threads
           n == IF spawn THEN sync.spawned + 1 ELSE sync.spawned
           t == IF wake \/ spawn THEN "Signaled" ELSE IF is_waking[p] THEN "Pending" ELSE sync.state
<1>1. sync' = [sync EXCEPT !.notified = TRUE, !.spawned = n, !.state = t]
  BY DEF NotifySlow
<1>2. t \in SyncStates /\ TRUE \in BOOLEAN /\ n \in Int
  BY DEF SyncWord, SyncStates
<1>3. pc' = [pc EXCEPT ![p] = IF wake THEN "post" ELSE IF spawn THEN "spawn" ELSE Return(p)]
  BY DEF NotifySlow, Goto
<1> HIDE DEF n, t, wake, spawn
<1>4. sync' \in SyncWord
  BY <1>1, <1>2, SyncTyped, Zenon
<1>5. sync'.notified = TRUE /\ sync'.idle = sync.idle /\ sync'.spawned = n /\ sync'.state = t
  BY <1>1, <1>2 DEF SyncWord
<1> QED
  BY <1>3, <1>4, <1>5 DEF n, t, wake, spawn

\* The steps that only count threads.
LEMMA WordAtCount ==
    ASSUME sync \in SyncWord, NEW n \in Int, sync' = [sync EXCEPT !.spawned = n]
    PROVE  /\ sync' \in SyncWord /\ sync'.spawned = n
           /\ sync'.state = sync.state /\ sync'.notified = sync.notified /\ sync'.idle = sync.idle
  BY DEF SyncWord
-----------------------------------------------------------------------------
(* The types, and what a thread's location says of what it holds *)

\* consume() gives up.
TakesNone(w, l) ==
    /\ pc' = [pc EXCEPT ![w] = l]
    /\ UNCHANGED <<run_queue, local_queue, consuming, hold>>

\* consume() takes n tasks of q.
Takes(w, q, n) ==
    /\ pc' = [pc EXCEPT ![w] = "publish"]
    /\ hold' = [hold EXCEPT ![w] = n]
    /\ consuming' = [consuming EXCEPT ![q] = w]
    /\ \/ /\ q = NoWorker /\ n <= run_queue
          /\ run_queue' = run_queue - n /\ UNCHANGED local_queue
       \/ /\ q \in Workers /\ n <= local_queue[q]
          /\ local_queue' = [local_queue EXCEPT ![q] = local_queue[q] - n]
          /\ UNCHANGED run_queue

\* Buffer::consume takes nothing, or 1 to Capacity + 1 tasks of the queue.
LEMMA Consumes ==
    ASSUME Shape, NEW w \in Workers, NEW q \in Queues, NEW l, Consume(w, q, l)
    PROVE  TakesNone(w, l) \/ \E n \in 1..(Capacity + 1) : Takes(w, q, n)
<1>1. Size(q) \in Nat
  BY DEF Shape, Queues, Size
<1>2. CASE Size(q) = 0 \/ consuming[q] # NoWorker
  BY <1>2 DEF Consume, Goto, TakesNone
<1>3. CASE ~(Size(q) = 0 \/ consuming[q] # NoWorker)
  <2> DEFINE n == Min({Size(q), Capacity + 1})
  <2>1. n \in 1..(Capacity + 1) /\ n <= Size(q)
    BY <1>1, <1>3, MinOfTwo, PoolAssumption
  <2>2. /\ pc' = [pc EXCEPT ![w] = "publish"]
        /\ hold' = [hold EXCEPT ![w] = n]
        /\ consuming' = [consuming EXCEPT ![q] = w]
        /\ IF q = NoWorker
           THEN run_queue' = run_queue - n /\ UNCHANGED local_queue
           ELSE local_queue' = [local_queue EXCEPT ![q] = @ - n] /\ UNCHANGED run_queue
    BY <1>3 DEF Consume, Goto
  <2> HIDE DEF n
  <2>3. CASE q = NoWorker
    BY <2>1, <2>2, <2>3 DEF Size, Takes
  <2>4. CASE q # NoWorker
    <3>1. q \in Workers
      BY <2>4 DEF Queues
    <3> QED
      BY <2>1, <2>2, <2>4, <3>1 DEF Size, Takes
  <2> QED
    BY <2>3, <2>4
<1> QED
  BY <1>2, <1>3

\* What consuming changes keeps its shape.
LEMMA ConsumeShape ==
    ASSUME Shape, NEW w \in Workers, NEW q \in Queues,
           NEW l \in {"global", "load", "target", "steal"},
           Consume(w, q, l), pc[w] \in {"own", "global", "target"},
           UNCHANGED <<syncVars, threads, next, thread_join, run_buffer, idle_queue,
                       is_waking, is_idle, ghostVars>>,
           target' \in [Procs -> Queues], num_threads' \in [Workers -> Int],
           pc'[w] = "steal" => target'[w] \in Workers,
           \A u \in Workers \ {w} : target'[u] = target[u]
    PROVE  Shape'
<1> USE PoolAssumption DEF Shape, Procs, Queues, syncVars, ghostVars, WorkerPCs, ClientPCs
<1>1. CASE TakesNone(w, l)
  BY <1>1 DEF TakesNone
<1>2. ASSUME NEW n \in 1..(Capacity + 1), Takes(w, q, n) PROVE Shape'
  <2> USE DEF Takes
  <2>1. run_queue' \in Nat /\ local_queue' \in [Workers -> Nat]
    BY <1>2
  <2>2. consuming' \in [Queues -> Queues]
    BY <1>2
  <2>3. hold' \in [Procs -> Nat] /\ hold'[w] = n /\ \A p \in Procs \ {w} : hold'[p] = hold[p]
    BY <1>2
  <2> QED
    BY <1>2, <2>1, <2>2, <2>3
<1> QED
  BY <1>1, <1>2, Consumes

\* Every step keeps them.
LEMMA ShapeStep == Shape /\ [Next]_vars => Shape'
<1> SUFFICES ASSUME Shape, [Next]_vars PROVE Shape'
  OBVIOUS
<1> USE PoolAssumption DEF Shape, Goto, Procs, Queues, syncVars, listVars, queueVars, threadVars,
                           ghostVars, Return, WorkerPCs, ClientPCs, SyncStates
<1>1. ASSUME NEW p \in Procs, PushGlobal(p) PROVE Shape'
  BY <1>1 DEF PushGlobal
<1>2. ASSUME NEW p \in Procs, NotifyFast(p) PROVE Shape'
  BY <1>2 DEF NotifyFast
<1>3. ASSUME NEW p \in Procs, NotifySlow(p) PROVE Shape'
  <2>1. CASE sync.state = "Shutdown"
    BY <1>3, <2>1 DEF NotifySlow
  <2>2. CASE sync.state # "Shutdown"
    <3>1. sync' \in SyncWord
      BY <1>3, <2>2, WordAtNotify
    <3>2. \E l \in {"post", "spawn", Return(p)} : pc' = [pc EXCEPT ![p] = l]
      BY <1>3, <2>2, WordAtNotify
    <3>3. /\ is_waking' = [is_waking EXCEPT ![p] = FALSE]
          /\ UNCHANGED <<idle_event, join_event, listVars, queueVars, idle_queue, is_idle,
                         hold, num_threads, ghostVars>>
      BY <1>3 DEF NotifySlow
    <3>4. pc[p] = "slow"
      BY <1>3 DEF NotifySlow
    <3> QED
      BY <3>1, <3>2, <3>3, <3>4
  <2> QED
    BY <2>1, <2>2
<1>4. ASSUME NEW p \in Procs, PostIdle(p) PROVE Shape'
  BY <1>4 DEF PostIdle
<1>5. ASSUME NEW p \in Procs, SpawnFails(p) PROVE Shape'
  BY <1>5 DEF SpawnFails
<1>6. ASSUME NEW p \in Procs, Unspawn(p) PROVE Shape'
  <2>1. sync' \in SyncWord
    BY <1>6 DEF Unspawn, SyncWord
  <2> QED
    BY <1>6, <2>1 DEF Unspawn
<1>7. ASSUME NEW p \in Procs, NEW w \in Workers, Spawn(p, w) PROVE Shape'
  BY <1>7 DEF Spawn
<1>8. ASSUME NEW w \in Workers, Register(w) PROVE Shape'
  BY <1>8 DEF Register
<1>9. ASSUME NEW w \in Workers, WaitShutdown(w) PROVE Shape'
  BY <1>9 DEF WaitShutdown
<1>10. ASSUME NEW w \in Workers, WaitConsume(w) PROVE Shape'
  <2>1. sync' \in SyncWord
    BY <1>10, WordAtConsume
  <2> QED
    BY <1>10, <2>1 DEF WaitConsume
<1>11. ASSUME NEW w \in Workers, WaitGoIdle(w) PROVE Shape'
  <2>1. sync' \in SyncWord
    BY <1>11, WordAtGoIdle
  <2> QED
    BY <1>11, <2>1 DEF WaitGoIdle
<1>12. ASSUME NEW w \in Workers, WaitSleep(w) PROVE Shape'
  BY <1>12 DEF WaitSleep
<1>13. ASSUME NEW w \in Workers, SleepReturns(w) PROVE Shape'
  BY <1>13 DEF SleepReturns
<1>14. ASSUME NEW w \in Workers, SleepDrains(w) PROVE Shape'
  BY <1>14 DEF SleepDrains
<1>15. ASSUME NEW w \in Workers, PopBuffer(w) PROVE Shape'
  BY <1>15 DEF PopBuffer, AfterPop
<1>16. ASSUME NEW w \in Workers, ConsumeOwn(w) PROVE Shape'
  <2>1. Consume(w, w, "global") /\ w \in Queues
    BY <1>16 DEF ConsumeOwn
  <2>2. pc'[w] # "steal"
    BY <2>1, Consumes DEF TakesNone, Takes
  <2> QED
    BY <1>16, <2>1, <2>2, ConsumeShape DEF ConsumeOwn
<1>17. ASSUME NEW w \in Workers, ConsumeGlobal(w) PROVE Shape'
  <2>1. Consume(w, NoWorker, "load") /\ NoWorker \in Queues
    BY <1>17 DEF ConsumeGlobal
  <2>2. pc'[w] # "steal"
    BY <2>1, Consumes DEF TakesNone, Takes
  <2> QED
    BY <1>17, <2>1, <2>2, ConsumeShape DEF ConsumeGlobal
<1>18. ASSUME NEW w \in Workers, Publish(w) PROVE Shape'
  BY <1>18 DEF Publish, AfterPop
<1>19. ASSUME NEW w \in Workers, LoadSpawned(w) PROVE Shape'
  <2>1. sync.spawned \in Int
    BY DEF SyncWord
  <2> QED
    BY <1>19, <2>1 DEF LoadSpawned
<1>20. ASSUME NEW w \in Workers, StealQueue(w) PROVE Shape'
  <2> DEFINE v == Victim(w)
             l == IF v = w THEN "target" ELSE "steal"
  <2>1. v \in Workers /\ v \in Queues
    BY <1>20 DEF StealQueue, Victim
  <2>2. Consume(w, v, l) /\ pc[w] = "target"
    BY <1>20 DEF StealQueue
  <2>3. next[v] \in Queues
    BY <2>1
  <2>4. /\ target' = [target EXCEPT ![w] = IF pc'[w] = "steal" THEN v ELSE next[v]]
        /\ num_threads' = [num_threads EXCEPT ![w] = IF pc'[w] = "target" THEN @ - 1 ELSE @]
        /\ UNCHANGED <<syncVars, threads, next, thread_join, run_buffer, idle_queue,
                       is_waking, is_idle, ghostVars>>
    BY <1>20 DEF StealQueue
  <2> HIDE DEF v
  <2>5. target' \in [Procs -> Queues] /\ num_threads' \in [Workers -> Int]
    BY <2>1, <2>3, <2>4
  <2>6. pc'[w] = "steal" => target'[w] \in Workers
    BY <2>1, <2>4
  <2>7. \A u \in Workers \ {w} : target'[u] = target[u]
    BY <2>4
  <2> QED
    BY <2>1, <2>2, <2>4, <2>5, <2>6, <2>7, ConsumeShape
<1>21. ASSUME NEW w \in Workers, StealBuffer(w) PROVE Shape'
  <2> DEFINE v == target[w]
             n == run_buffer[v] - run_buffer[v] \div 2
  <2>1. pc[w] = "steal" /\ v \in Workers /\ run_buffer[v] \in 0..Capacity
    BY <1>21 DEF StealBuffer
  <2>2. n \in 0..run_buffer[v] /\ n <= Capacity
    BY <2>1
  <2>3. target' = [target EXCEPT ![w] = next[v]] /\ next[v] \in Queues
    BY <1>21, <2>1 DEF StealBuffer
  <2>4. CASE n = 0
    <3>1. /\ num_threads' = [num_threads EXCEPT ![w] = @ - 1]
          /\ pc' = [pc EXCEPT ![w] = "target"]
          /\ UNCHANGED <<run_buffer, hold>>
      BY <1>21, <2>4 DEF StealBuffer
    <3> HIDE DEF n, v
    <3> QED
      BY <1>21, <2>1, <2>3, <3>1 DEF StealBuffer
  <2>5. CASE n # 0
    <3>1. /\ run_buffer' = [run_buffer EXCEPT ![v] = run_buffer[v] - n]
          /\ hold' = [hold EXCEPT ![w] = n]
          /\ pc' = [pc EXCEPT ![w] = "publish"]
          /\ UNCHANGED num_threads
      BY <1>21, <2>5 DEF StealBuffer
    <3> HIDE DEF n, v
    <3> QED
      BY <1>21, <2>1, <2>2, <2>3, <2>5, <3>1 DEF StealBuffer
  <2> QED
    BY <2>4, <2>5
<1>22. ASSUME NEW w \in Workers, PopNothing(w) PROVE Shape'
  BY <1>22 DEF PopNothing
<1>23. ASSUME NEW w \in Workers, FillBuffer(w) PROVE Shape'
  <2> DEFINE n == Min({hold[w], Capacity - run_buffer[w]})
  <2>1. n \in 0..hold[w] /\ n <= Capacity - run_buffer[w]
    BY SMTT(30), <1>23, MinOfTwo DEF FillBuffer
  <2>2. /\ run_buffer' = [run_buffer EXCEPT ![w] = run_buffer[w] + n]
        /\ hold' = [hold EXCEPT ![w] = hold[w] - n]
        /\ pc' = [pc EXCEPT ![w] = IF hold[w] = n THEN "notify" ELSE "fill"]
    BY <1>23 DEF FillBuffer
  <2> HIDE DEF n
  <2> QED
    BY <1>23, <2>1, <2>2 DEF FillBuffer
<1>24. ASSUME NEW w \in Workers, Migrate(w) PROVE Shape'
  BY <1>24 DEF Migrate
<1>25. ASSUME NEW w \in Workers, PushLocal(w) PROVE Shape'
  BY <1>25 DEF PushLocal
<1>26. ASSUME NEW w \in Workers, Run(w) PROVE Shape'
  BY <1>26 DEF Run
<1>27. ASSUME NEW w \in Workers, Drain(w) PROVE Shape'
  BY <1>27 DEF Drain
<1>28. ASSUME NEW w \in Workers, Unregister(w) PROVE Shape'
  <2>1. sync' \in SyncWord
    BY <1>28 DEF Unregister, SyncWord
  <2> QED
    BY <1>28, <2>1 DEF Unregister
<1>29. ASSUME NEW w \in Workers, JoinNotify(w) PROVE Shape'
  BY <1>29 DEF JoinNotify
<1>30. ASSUME NEW w \in Workers, JoinWait(w) PROVE Shape'
  BY <1>30 DEF JoinWait
<1>31. ASSUME NEW w \in Workers, Chain(w) PROVE Shape'
  BY <1>31 DEF Chain
<1>32. ASSUME NEW c \in Clients, WalkIdlePush(c) PROVE Shape'
  <2>1. CASE target[c] = NoWorker
    BY <1>32, <2>1 DEF WalkIdlePush
  <2>2. CASE target[c] # NoWorker
    <3>1. next[target[c]] \in Queues
      BY <2>2
    <3>2. /\ idle_queue' = [idle_queue EXCEPT ![target[c]] = TRUE]
          /\ target' = [target EXCEPT ![c] = next[target[c]]]
      BY <1>32, <2>2 DEF WalkIdlePush
    <3>3. idle_queue' \in [Workers -> BOOLEAN]
      BY <3>2
    <3> QED
      BY <1>32, <2>2, <3>1, <3>2, <3>3 DEF WalkIdlePush
  <2> QED
    BY <2>1, <2>2
<1>33. ASSUME NEW c \in Clients, Warm(c) PROVE Shape'
  <2>1. sync' \in SyncWord
    BY <1>33 DEF Warm, SyncWord
  <2> QED
    BY <1>33, <2>1 DEF Warm
<1>34. ASSUME NEW c \in Clients, BeginIdlePush(c) PROVE Shape'
  BY <1>34 DEF BeginIdlePush
<1>35. ASSUME NEW p \in Procs, NEW n \in 1..MaxBatch, Schedule(p, n) PROVE Shape'
  BY <1>35 DEF Schedule
<1>36. ASSUME NEW w \in Workers, NEW n \in 1..MaxBatch, ScheduleInside(w, n) PROVE Shape'
  BY <1>36 DEF ScheduleInside
<1>37. ASSUME DropPool PROVE Shape'
  BY <1>37 DEF DropPool
<1>38. ASSUME Shutdown PROVE Shape'
  <2>1. sync' \in SyncWord
    BY <1>38, WordAtShutdown
  <2> QED
    BY <1>38, <2>1 DEF Shutdown
<1>39. ASSUME CloseIdle PROVE Shape'
  BY <1>39 DEF CloseIdle
<1>40. ASSUME Join PROVE Shape'
  BY <1>40 DEF Join
<1>41. ASSUME JoinReturns PROVE Shape'
  BY <1>41 DEF JoinReturns
<1>42. ASSUME SwapThreads PROVE Shape'
  BY <1>42 DEF SwapThreads
<1>43. ASSUME SignalFirst PROVE Shape'
  BY <1>43 DEF SignalFirst
<1>44. CASE UNCHANGED vars
  BY <1>44 DEF vars
<1> QED
  BY <1>1, <1>2, <1>3, <1>4, <1>5, <1>6, <1>7, <1>8, <1>9, <1>10, <1>11, <1>12, <1>13,
     <1>14, <1>15, <1>16, <1>17, <1>18, <1>19, <1>20, <1>21, <1>22, <1>23, <1>24, <1>25,
     <1>26, <1>27, <1>28, <1>29, <1>30, <1>31, <1>32, <1>33, <1>34, <1>35, <1>36, <1>37,
     <1>38, <1>39, <1>40, <1>41, <1>42, <1>43, <1>44
  DEF Next, WorkerStep, ClientStep, OwnerStep, CallStep, Terminated

\* At the start too.
LEMMA ShapeInit == Init => Shape
<1> SUFFICES ASSUME Init PROVE Shape
  OBVIOUS
<1> USE PoolAssumption DEF Init, Procs, Queues
<1>1. /\ pc \in [Procs -> WorkerPCs \union ClientPCs]
      /\ \A w \in Workers : pc[w] = "none"
      /\ \A c \in Clients : pc[c] = "idle"
  BY DEF WorkerPCs, ClientPCs
<1>2. sync \in SyncWord
  BY DEF SyncWord, SyncStates
<1>3. /\ next \in [Workers -> Queues] /\ target \in [Procs -> Queues]
      /\ thread_join \in [Workers -> BOOLEAN] /\ local_queue \in [Workers -> Nat]
      /\ consuming \in [Queues -> Queues] /\ run_buffer \in [Workers -> 0..Capacity]
      /\ idle_queue \in [Workers -> BOOLEAN] /\ is_waking \in [Procs -> BOOLEAN]
      /\ is_idle \in [Workers -> BOOLEAN] /\ num_threads \in [Workers -> Int]
      /\ hold \in [Procs -> Nat] /\ \A p \in Procs : hold[p] = 0
  OBVIOUS
<1>4. /\ idle_event = "empty" /\ join_event = FALSE /\ threads \in Queues /\ run_queue = 0
      /\ freed = FALSE /\ scheduled \in 0..MaxTasks /\ executed = 0
      /\ idle_pushes \in 0..MaxIdlePushes
  OBVIOUS
<1> QED
  BY ONLY <1>1, <1>2, <1>3, <1>4 DEF Shape, WorkerPCs, ClientPCs

\* Every step of the pool changes the Sync word, or a thread's view of it, in
\* one of these actions or not at all.
LEMMA WordSteps ==
    ASSUME [Next]_vars
    PROVE  \/ UNCHANGED <<sync, is_waking, is_idle>>
           \/ \E p \in Procs : NotifySlow(p) \/ Unspawn(p)
           \/ \E w \in Workers : WaitConsume(w) \/ WaitGoIdle(w) \/ Unregister(w)
           \/ \E c \in Clients : Warm(c)
           \/ Shutdown
<1> USE DEF syncVars, threadVars
<1>1. ASSUME NEW p \in Procs, CallStep(p)
      PROVE  UNCHANGED <<sync, is_waking, is_idle>> \/ NotifySlow(p) \/ Unspawn(p)
  BY <1>1 DEF CallStep, PushGlobal, NotifyFast, PostIdle, SpawnFails, Spawn
<1>2. ASSUME NEW w \in Workers, WorkerStep(w)
      PROVE  \/ UNCHANGED <<sync, is_waking, is_idle>> \/ CallStep(w)
             \/ WaitConsume(w) \/ WaitGoIdle(w) \/ Unregister(w)
  BY <1>2 DEF WorkerStep, Register, WaitShutdown, WaitSleep, SleepReturns, SleepDrains,
       PopBuffer, ConsumeOwn, ConsumeGlobal, Publish, LoadSpawned, StealQueue, StealBuffer,
       PopNothing, FillBuffer, Migrate, PushLocal, Run, Drain, JoinNotify, JoinWait, Chain
<1>3. ASSUME OwnerStep PROVE UNCHANGED <<sync, is_waking, is_idle>> \/ Shutdown
  BY <1>3 DEF OwnerStep, CloseIdle, Join, JoinReturns, SwapThreads,
              SignalFirst
<1> QED
  BY <1>1, <1>2, <1>3 DEF Next, ClientStep, ScheduleInside, Schedule, WalkIdlePush,
       BeginIdlePush, DropPool, Terminated, vars, Procs

-----------------------------------------------------------------------------
(* The waking role *)

\* Nobody takes the role twice, and nobody drops it without a trace.
LEMMA RoleStep == Shape /\ OneWakingThread /\ [Next]_vars => OneWakingThread'
<1> SUFFICES ASSUME Shape, OneWakingThread, [Next]_vars PROVE OneWakingThread'
  OBVIOUS
<1> USE DEF OneWakingThread
<1>1. sync \in SyncWord /\ is_waking \in [Procs -> BOOLEAN] /\ Workers \subseteq Procs
  BY DEF Shape, Procs
<1>2. CASE UNCHANGED <<sync, is_waking, is_idle>>
  BY <1>2
<1>3. ASSUME NEW p \in Procs, NotifySlow(p) PROVE OneWakingThread'
  <2>1. is_waking' = [is_waking EXCEPT ![p] = FALSE]
    BY <1>3 DEF NotifySlow
  <2>2. CASE sync.state = "Shutdown"
    BY <1>1, <1>3, <2>1, <2>2 DEF NotifySlow
  <2>3. CASE sync.state # "Shutdown"
    <3>1. /\ sync'.notified = TRUE
          /\ sync'.state \in {"Signaled", "Pending", sync.state}
          /\ is_waking[p] => sync'.state \in {"Signaled", "Pending"}
          /\ sync'.state # sync.state => is_waking[p] \/ sync.state = "Pending"
      BY <1>1, <1>3, <2>3, WordAtNotify
    <3>2. \A q \in Procs : is_waking'[q] <=> is_waking[q] /\ q # p
      BY <1>1, <2>1
    <3> QED
      BY <1>1, <2>3, <3>1, <3>2
  <2> QED
    BY <2>2, <2>3
<1>4. ASSUME NEW w \in Workers, WaitConsume(w) PROVE OneWakingThread'
  <2>1. /\ sync'.state = IF sync.state = "Signaled" THEN "Waking" ELSE sync.state
        /\ sync.state # "Shutdown"
    BY <1>1, <1>4, WordAtConsume DEF WaitConsume
  <2>2. \A q \in Procs : is_waking'[q] <=> is_waking[q] \/ (q = w /\ sync.state = "Signaled")
    BY <1>1, <1>4 DEF WaitConsume
  <2> QED
    BY <1>1, <2>1, <2>2
<1>5. ASSUME NEW w \in Workers, WaitGoIdle(w) PROVE OneWakingThread'
  <2>1. /\ sync'.state = IF is_waking[w] THEN "Pending" ELSE sync.state
        /\ sync'.notified = sync.notified /\ sync.state # "Shutdown"
    BY <1>1, <1>5, WordAtGoIdle DEF WaitGoIdle
  <2>2. \A q \in Procs : is_waking'[q] <=> is_waking[q] /\ q # w
    BY <1>1, <1>5 DEF WaitGoIdle
  <2> QED
    BY <1>1, <2>1, <2>2
<1>6. ASSUME Shutdown PROVE OneWakingThread'
  <2>1. sync'.state = "Shutdown" /\ is_waking' = is_waking
    BY <1>1, <1>6, WordAtShutdown DEF Shutdown, threadVars
  <2> QED
    BY <2>1
<1>7. ASSUME \/ \E p \in Procs : Unspawn(p)
             \/ \E w \in Workers : Unregister(w)
             \/ \E c \in Clients : Warm(c)
      PROVE  OneWakingThread'
  <2>1. \/ sync' = [sync EXCEPT !.spawned = sync.spawned - 1]
        \/ sync' = [sync EXCEPT !.spawned = sync.spawned + 1]
    BY <1>7 DEF Unspawn, Unregister, Warm
  <2>2. sync'.state = sync.state /\ sync'.notified = sync.notified
    BY <1>1, <2>1, WordAtCount DEF SyncWord
  <2>3. is_waking' = is_waking
    BY <1>7 DEF Unspawn, Unregister, Warm, threadVars
  <2> QED
    BY <2>2, <2>3
<1> QED
  BY <1>2, <1>3, <1>4, <1>5, <1>6, <1>7, WordSteps

\* For any number of workers and clients: while the word says Waking exactly one
\* thread holds the role, and a Signaled word carries the notification that
\* the next waking thread will take (notify_slow(), wait()).
THEOREM WakingRoleIsUnique == SafeSpec => []OneWakingThread
<1>1. Init => OneWakingThread
  BY DEF Init, OneWakingThread
<1> QED
  BY <1>1, ShapeInit, ShapeStep, RoleStep, PTL DEF SafeSpec
-----------------------------------------------------------------------------
(* The counts *)

\* The threads that `spawned' and `idle' stand for.
Running == {w \in Workers : pc[w] \notin {"none"} \union Unregistered}
Spawning == {p \in Procs : pc[p] \in {"spawn", "unspawn"}}
Idle == {w \in Workers : is_idle[w]}

\* `spawned' and `idle' are what they count, and within their fields.
Counted ==
    /\ sync.spawned = Cardinality(Running) + Cardinality(Spawning)
    /\ sync.spawned <= max_threads
    /\ sync.state # "Shutdown" => sync.idle = Cardinality(Idle)
    /\ sync.state = "Shutdown" => sync.idle = 0

\* Sets of threads can be counted.
LEMMA ThreadSets ==
    /\ IsFiniteSet(Workers) /\ IsFiniteSet(Procs) /\ max_threads \in Nat
    /\ IsFiniteSet(Running) /\ Cardinality(Running) \in Nat
    /\ IsFiniteSet(Spawning) /\ Cardinality(Spawning) \in Nat
    /\ IsFiniteSet(Idle) /\ Cardinality(Idle) \in 0..max_threads
<1>1. IsFiniteSet(Workers) /\ IsFiniteSet(Procs)
  BY PoolAssumption, FS_Union DEF Procs
<1>2. Running \subseteq Workers /\ Spawning \subseteq Procs /\ Idle \subseteq Workers
  BY DEF Running, Spawning, Idle
<1> QED
  BY <1>1, <1>2, FS_Subset, FS_CardinalityType DEF max_threads

\* One thread more, or one less.
LEMMA OneMore ==
    ASSUME NEW S, IsFiniteSet(S), NEW x, x \notin S, NEW T, T = S \union {x}
    PROVE  IsFiniteSet(T) /\ Cardinality(T) = Cardinality(S) + 1 /\ Cardinality(S) \in Nat
  BY FS_AddElement, FS_CardinalityType

\* Who runs and who is being spawned changes in these steps only.
LEMMA CountSteps ==
    ASSUME Shape, [Next]_vars
    PROVE  \/ Running' = Running /\ Spawning' = Spawning
           \/ \E p \in Procs : NotifySlow(p) \/ Unspawn(p) \/ \E w \in Workers : Spawn(p, w)
           \/ \E w \in Workers : Unregister(w)
           \/ \E c \in Clients : Warm(c)
<1> DEFINE Same == Running' = Running /\ Spawning' = Spawning
           Off == {"none"} \union Unregistered
<1>1. ASSUME NEW p \in Procs, NEW l, pc' = [pc EXCEPT ![p] = l],
             pc[p] \in {"spawn", "unspawn"} <=> l \in {"spawn", "unspawn"},
             p \in Workers => (pc[p] \in Off <=> l \in Off)
      PROVE  Same
  BY <1>1 DEF Shape, Running, Spawning
<1>2. ASSUME UNCHANGED pc PROVE Same
  BY <1>2 DEF Running, Spawning
<1> HIDE DEF Same
<1> USE PoolAssumption DEF Goto, Return, Unregistered, Procs
<1>3. ASSUME NEW p \in Procs, \/ PushGlobal(p) \/ NotifyFast(p) \/ PostIdle(p) \/ SpawnFails(p)
      PROVE  Same
  BY <1>1, <1>3 DEF PushGlobal, NotifyFast, PostIdle, SpawnFails
<1>4. ASSUME NEW w \in Workers,
             \/ Register(w) \/ WaitShutdown(w) \/ WaitConsume(w) \/ WaitSleep(w) \/ SleepReturns(w)
             \/ LoadSpawned(w) \/ PopNothing(w) \/ Migrate(w) \/ PushLocal(w)
             \/ Run(w) \/ Drain(w) \/ JoinNotify(w) \/ JoinWait(w) \/ Chain(w)
      PROVE  Same
  BY <1>1, <1>4 DEF Register, WaitShutdown, WaitConsume, WaitSleep, SleepReturns, LoadSpawned,
       PopNothing, Migrate, PushLocal, Run, Drain, JoinNotify, JoinWait, Chain
<1>5. ASSUME NEW w \in Workers, WaitGoIdle(w) \/ SleepDrains(w) PROVE Same
  BY <1>2, <1>5 DEF WaitGoIdle, SleepDrains
<1>6. ASSUME NEW w \in Workers, PopBuffer(w) \/ Publish(w) \/ FillBuffer(w) PROVE Same
  BY <1>1, <1>6 DEF PopBuffer, Publish, FillBuffer, AfterPop
<1>7. ASSUME NEW w \in Workers, ConsumeOwn(w) \/ ConsumeGlobal(w) \/ StealQueue(w) PROVE Same
  <2>1. /\ pc[w] \in {"own", "global", "target"}
        /\ \E l \in {"global", "load", "target", "steal", "publish"} : pc' = [pc EXCEPT ![w] = l]
    BY <1>7 DEF ConsumeOwn, ConsumeGlobal, StealQueue, Consume
  <2> QED
    BY <1>1, <2>1
<1>8. ASSUME NEW w \in Workers, StealBuffer(w) PROVE Same
  <2>1. pc[w] = "steal" /\ \E l \in {"target", "publish"} : pc' = [pc EXCEPT ![w] = l]
    BY <1>8 DEF StealBuffer
  <2> QED
    BY <1>1, <2>1
<1>9. ASSUME NEW c \in Clients, WalkIdlePush(c) \/ BeginIdlePush(c) PROVE Same
  BY <1>1, <1>2, <1>9 DEF WalkIdlePush, BeginIdlePush
<1>10. ASSUME NEW p \in Procs, NEW n \in 1..MaxBatch, Schedule(p, n) PROVE Same
  BY <1>1, <1>10 DEF Schedule
<1>11. ASSUME NEW w \in Workers, NEW n \in 1..MaxBatch, ScheduleInside(w, n) PROVE Same
  BY <1>1, <1>11 DEF ScheduleInside
<1>12. ASSUME DropPool \/ OwnerStep PROVE Same
  <2>1. Owner \in Procs /\ Owner \notin Workers
    OBVIOUS
  <2>2. /\ pc[Owner] \notin {"spawn", "unspawn"}
        /\ \E l \in {"shutdown", "close", "join", "joining", "swap", "signal", "done"} :
              pc' = [pc EXCEPT ![Owner] = l]
    BY <1>12 DEF DropPool, OwnerStep, Shutdown, CloseIdle, Join, JoinReturns, SwapThreads,
         SignalFirst
  <2> QED
    BY <1>1, <2>1, <2>2
<1>13. ASSUME UNCHANGED vars PROVE Same
  BY <1>2, <1>13 DEF vars
<1> QED
  BY <1>3, <1>4, <1>5, <1>6, <1>7, <1>8, <1>9, <1>10, <1>11, <1>12, <1>13
     DEF Same, Next, WorkerStep, ClientStep, CallStep, Terminated

\* The counts stay right: a failed spawn and the last worker included.
LEMMA CountStep == Shape /\ Counted /\ [Next]_vars => Counted'
<1> SUFFICES ASSUME Shape, Counted, [Next]_vars PROVE Counted'
  OBVIOUS
<1> DEFINE Spawned == /\ sync.spawned = Cardinality(Running) + Cardinality(Spawning)
                      /\ sync.spawned <= max_threads
           Idled == /\ sync.state # "Shutdown" => sync.idle = Cardinality(Idle)
                    /\ sync.state = "Shutdown" => sync.idle = 0
<1>1. /\ sync \in SyncWord /\ Workers \subseteq Procs /\ Clients \subseteq Procs
      /\ pc \in [Procs -> WorkerPCs \union ClientPCs]
      /\ sync.spawned \in Int /\ sync.idle \in Int
  BY DEF Shape, Procs, SyncWord
<1>2. ASSUME UNCHANGED <<sync, Running, Spawning>> PROVE Spawned'
  BY <1>2 DEF Counted
<1>3. ASSUME UNCHANGED <<sync, is_idle>> PROVE Idled'
  BY <1>3 DEF Counted, Idle
<1>4. ASSUME NEW n \in Int, sync' = [sync EXCEPT !.spawned = n], UNCHANGED is_idle PROVE Idled'
  BY <1>1, <1>4, WordAtCount DEF Counted, Idle
<1> HIDE DEF Spawned, Idled
<1>5. ASSUME NEW p \in Procs, NotifySlow(p) PROVE Counted'
  <2>1. is_idle' = is_idle /\ pc[p] = "slow"
    BY <1>5 DEF NotifySlow
  <2>2. CASE sync.state = "Shutdown"
    <3>1. sync' = sync /\ pc' = [pc EXCEPT ![p] = Return(p)]
      BY <1>5, <2>2 DEF NotifySlow, Goto
    <3>2. Running' = Running /\ Spawning' = Spawning
      BY <1>1, <2>1, <3>1 DEF Running, Spawning, Return, Unregistered
    <3> QED
      BY <1>2, <1>3, <2>1, <3>1, <3>2 DEF Counted, Spawned, Idled
  <2>3. CASE sync.state # "Shutdown"
    <3>1. sync'.idle = sync.idle /\ sync'.state # "Shutdown"
      BY <1>1, <1>5, <2>3, WordAtNotify
    <3>2. Idled'
      BY <2>1, <2>3, <3>1 DEF Idled, Idle, Counted
    <3>3. CASE sync'.spawned = sync.spawned /\ pc'[p] # "spawn"
      <4>1. Running' = Running /\ Spawning' = Spawning
        BY <1>1, <1>5, <2>1, <2>3, <3>3, WordAtNotify DEF Running, Spawning, Return, Unregistered
      <4> QED
        BY <3>2, <3>3, <4>1 DEF Counted, Spawned, Idled
    <3>4. CASE /\ sync'.spawned = sync.spawned + 1 /\ sync.spawned < max_threads
               /\ pc' = [pc EXCEPT ![p] = "spawn"]
      <4>1. Running' = Running /\ Spawning' = Spawning \union {p} /\ p \notin Spawning
        BY <1>1, <2>1, <3>4 DEF Running, Spawning, Unregistered
      <4>2. Cardinality(Spawning') = Cardinality(Spawning) + 1
        BY <4>1, ThreadSets, OneMore
      <4>3. Spawned'
        BY <1>1, <3>4, <4>1, <4>2, ThreadSets DEF Spawned, Counted
      <4> QED
        BY <3>2, <4>3 DEF Counted, Spawned, Idled
    <3> QED
      BY <1>1, <1>5, <2>3, <3>3, <3>4, WordAtNotify DEF Return
  <2> QED
    BY <2>2, <2>3
<1>6. ASSUME NEW p \in Procs, Unspawn(p) PROVE Counted'
  <2>1. /\ sync' = [sync EXCEPT !.spawned = sync.spawned - 1] /\ is_idle' = is_idle
        /\ pc[p] = "unspawn" /\ pc' = [pc EXCEPT ![p] = Return(p)]
    BY <1>6 DEF Unspawn, threadVars, Goto
  <2>2. Spawning = Spawning' \union {p} /\ p \notin Spawning'
    BY <1>1, <2>1 DEF Running, Spawning, Return, Unregistered
  <2>3. Cardinality(Spawning) = Cardinality(Spawning') + 1 /\ Cardinality(Spawning') \in Nat
    <3>1. Spawning' \subseteq Spawning
      BY <2>2
    <3>2. IsFiniteSet(Spawning')
      BY <3>1, ThreadSets, FS_Subset
    <3> QED
      BY <2>2, <3>2, OneMore
  <2>4. sync'.spawned = sync.spawned - 1 /\ Running' = Running
    BY <1>1, <2>1, WordAtCount DEF Running, Spawning, Return, Unregistered
  <2>5. Spawned'
    BY <1>1, <2>3, <2>4, ThreadSets DEF Spawned, Counted
  <2>6. Idled'
    BY <1>1, <1>4, <2>1
  <2> QED
    BY <2>5, <2>6 DEF Counted, Spawned, Idled
<1>7. ASSUME NEW p \in Procs, NEW w \in Workers, Spawn(p, w) PROVE Counted'
  <2>1. /\ UNCHANGED <<sync, is_idle>> /\ pc[p] = "spawn" /\ pc[w] = "none"
        /\ pc' = [pc EXCEPT ![p] = Return(p), ![w] = "start"]
    BY <1>7 DEF Spawn, syncVars, threadVars
  <2>2. /\ Running' = Running \union {w} /\ w \notin Running
        /\ Spawning = Spawning' \union {p} /\ p \notin Spawning'
    BY <1>1, <2>1 DEF Running, Spawning, Return, Unregistered
  <2>3. Cardinality(Running') = Cardinality(Running) + 1
    BY <2>2, ThreadSets, OneMore
  <2>4. Cardinality(Spawning) = Cardinality(Spawning') + 1 /\ Cardinality(Spawning') \in Nat
    <3>1. Spawning' \subseteq Spawning
      BY <2>2
    <3>2. IsFiniteSet(Spawning')
      BY <3>1, ThreadSets, FS_Subset
    <3> QED
      BY <2>2, <3>2, OneMore
  <2>5. Spawned'
    BY <1>1, <2>1, <2>3, <2>4, ThreadSets DEF Spawned, Counted
  <2> QED
    BY <1>3, <2>1, <2>5 DEF Counted, Spawned, Idled
<1>8. ASSUME NEW w \in Workers, Unregister(w) PROVE Counted'
  <2>1. /\ sync' = [sync EXCEPT !.spawned = sync.spawned - 1] /\ is_idle' = is_idle
        /\ pc[w] = "unregister"
        /\ \E l \in {"join_notify", "join_wait"} : pc' = [pc EXCEPT ![w] = l]
    BY <1>8 DEF Unregister, threadVars, Goto
  <2>2. Running = Running' \union {w} /\ w \notin Running'
    BY <1>1, <2>1 DEF Running, Spawning, Unregistered
  <2>3. Cardinality(Running) = Cardinality(Running') + 1 /\ Cardinality(Running') \in Nat
    <3>1. Running' \subseteq Running
      BY <2>2
    <3>2. IsFiniteSet(Running')
      BY <3>1, ThreadSets, FS_Subset
    <3> QED
      BY <2>2, <3>2, OneMore
  <2>4. sync'.spawned = sync.spawned - 1 /\ Spawning' = Spawning
    BY <1>1, <2>1, WordAtCount DEF Running, Spawning, Return, Unregistered
  <2>5. Spawned'
    BY <1>1, <2>3, <2>4, ThreadSets DEF Spawned, Counted
  <2>6. Idled'
    BY <1>1, <1>4, <2>1
  <2> QED
    BY <2>5, <2>6 DEF Counted, Spawned, Idled
<1>9. ASSUME NEW c \in Clients, Warm(c) PROVE Counted'
  <2>1. /\ sync' = [sync EXCEPT !.spawned = sync.spawned + 1] /\ is_idle' = is_idle
        /\ sync.spawned < max_threads
        /\ pc[c] = "idle" /\ pc' = [pc EXCEPT ![c] = "spawn"] /\ c \in Procs /\ c \notin Workers
    BY <1>9, <1>1, PoolAssumption DEF Warm, threadVars, Goto
  <2>2. Running' = Running /\ Spawning' = Spawning \union {c} /\ c \notin Spawning
    BY <1>1, <2>1 DEF Running, Spawning, Unregistered
  <2>3. Cardinality(Spawning') = Cardinality(Spawning) + 1
    BY <2>2, ThreadSets, OneMore
  <2>4. sync'.spawned = sync.spawned + 1
    BY <1>1, <2>1, WordAtCount
  <2>5. Spawned'
    BY <1>1, <2>1, <2>2, <2>3, <2>4, ThreadSets DEF Spawned, Counted
  <2>6. Idled'
    BY <1>1, <1>4, <2>1
  <2> QED
    BY <2>5, <2>6 DEF Counted, Spawned, Idled
<1>10. ASSUME NEW w \in Workers, WaitConsume(w), Running' = Running, Spawning' = Spawning
       PROVE  Counted'
  <2>0. sync.state # "Shutdown"
    BY <1>10 DEF WaitConsume
  <2>1. /\ sync'.spawned = sync.spawned /\ sync'.state # "Shutdown"
        /\ sync'.idle = IF is_idle[w] THEN sync.idle - 1 ELSE sync.idle
        /\ is_idle' = [is_idle EXCEPT ![w] = FALSE]
    <3>1. is_idle' = [is_idle EXCEPT ![w] = FALSE]
      BY <1>10 DEF WaitConsume
    <3> QED
      BY <1>1, <1>10, <2>0, <3>1, WordAtConsume
  <2>2. Idle' = Idle \ {w} /\ (is_idle[w] <=> w \in Idle)
    BY <2>1 DEF Idle, Shape
  <2>3. Cardinality(Idle') = IF w \in Idle THEN Cardinality(Idle) - 1 ELSE Cardinality(Idle)
    BY <2>2, ThreadSets, FS_RemoveElement
  <2>4. sync'.idle = Cardinality(Idle')
    BY <2>0, <2>1, <2>2, <2>3 DEF Counted
  <2> QED
    BY <1>10, <2>1, <2>4 DEF Counted
<1>11. ASSUME NEW w \in Workers, WaitGoIdle(w), Running' = Running, Spawning' = Spawning
       PROVE  Counted'
  <2>0. sync.state # "Shutdown" /\ ~is_idle[w] /\ is_idle' = [is_idle EXCEPT ![w] = TRUE]
    BY <1>11 DEF WaitGoIdle
  <2>1. /\ sync'.spawned = sync.spawned /\ sync'.state # "Shutdown"
        /\ sync'.idle = sync.idle + 1
    BY <1>1, <1>11, <2>0, WordAtGoIdle
  <2>2. Idle' = Idle \union {w} /\ w \notin Idle
    BY <2>0 DEF Idle, Shape
  <2>3. Cardinality(Idle') = Cardinality(Idle) + 1
    BY <2>2, ThreadSets, OneMore
  <2>4. sync'.idle = Cardinality(Idle')
    BY <2>0, <2>1, <2>2, <2>3 DEF Counted
  <2> QED
    BY <1>11, <2>1, <2>4 DEF Counted
<1>12. ASSUME Shutdown, Running' = Running, Spawning' = Spawning PROVE Counted'
  BY <1>1, <1>12, WordAtShutdown DEF Counted
<1>13. CASE UNCHANGED <<sync, is_idle>> /\ Running' = Running /\ Spawning' = Spawning
  BY <1>2, <1>3, <1>13 DEF Counted, Spawned, Idled
<1> QED
  BY <1>5, <1>6, <1>7, <1>8, <1>9, <1>10, <1>11, <1>12, <1>13, WordSteps, CountSteps
-----------------------------------------------------------------------------
(* Sums *)

\* The pairs that Total counts.
Units(f, S) == UNION {{x} \X (1..f[x]) : x \in S}

\* Sets that share nothing add up.
LEMMA Disjoint ==
    ASSUME NEW S, IsFiniteSet(S), NEW T, IsFiniteSet(T), S \intersect T = {}
    PROVE  Cardinality(S \union T) = Cardinality(S) + Cardinality(T)
<1> DEFINE i == Cardinality(S \intersect T)
           u == Cardinality(S \union T)
<1>1. u = Cardinality(S) + Cardinality(T) - i
  BY FS_Union
<1>2. Cardinality(S) \in Nat /\ Cardinality(T) \in Nat /\ i = 0
  BY FS_CardinalityType, FS_EmptySet
<1> HIDE DEF i, u
<1>3. u = Cardinality(S) + Cardinality(T)
  BY <1>1, <1>2
<1> QED
  BY <1>3 DEF u

\* n units of one element.
LEMMA UnitsOfOne ==
    ASSUME NEW x, NEW n \in Nat
    PROVE  IsFiniteSet({x} \X (1..n)) /\ Cardinality({x} \X (1..n)) = n
<1>1. IsFiniteSet(1..n) /\ Cardinality(1..n) = n
  BY FS_Interval
<1>2. IsFiniteSet({x}) /\ Cardinality({x}) = 1
  BY FS_Singleton
<1> QED
  BY <1>1, <1>2, FS_Product

\* A sum over a finite set is a number.
LEMMA TotalType ==
    ASSUME NEW S, IsFiniteSet(S), NEW f \in [S -> Nat]
    PROVE  IsFiniteSet(Units(f, S)) /\ Total(f, S) \in Nat
<1> DEFINE T == {{x} \X (1..f[x]) : x \in S}
           g == [x \in S |-> {x} \X (1..f[x])]
<1>1. g \in Surjection(S, T)
  BY DEF Surjection
<1>2. IsFiniteSet(T)
  BY <1>1, FS_Surjection
<1>3. ASSUME NEW U \in T PROVE IsFiniteSet(U)
  <2>1. PICK x \in S : U = {x} \X (1..f[x])
    OBVIOUS
  <2>2. f[x] \in Nat
    OBVIOUS
  <2> QED
    BY <2>1, <2>2, UnitsOfOne
<1>4. IsFiniteSet(UNION T)
  BY <1>2, <1>3, FS_UNION
<1> QED
  BY <1>4, FS_CardinalityType DEF Units, Total

\* A sum has each of its terms apart from the rest.
LEMMA TotalSplit ==
    ASSUME NEW S, IsFiniteSet(S), NEW f \in [S -> Nat], NEW x \in S
    PROVE  /\ Total(f, S) = Total(f, S \ {x}) + f[x]
           /\ Total(f, S \ {x}) \in Nat
<1> DEFINE R == Units(f, S \ {x})
           X == {x} \X (1..f[x])
<1>1. Units(f, S) = R \union X /\ R \intersect X = {}
  BY DEF Units
<1>2. IsFiniteSet(X) /\ Cardinality(X) = f[x]
  BY UnitsOfOne
<1>3. R \subseteq Units(f, S)
  BY <1>1
<1>4. IsFiniteSet(R) /\ Cardinality(R) \in Nat
  BY <1>3, TotalType, FS_Subset, FS_CardinalityType
<1>5. Cardinality(R \union X) = Cardinality(R) + Cardinality(X)
  BY <1>1, <1>2, <1>4, Disjoint
<1>6. Total(f, S) = Cardinality(Units(f, S)) /\ Total(f, S \ {x}) = Cardinality(R)
  BY DEF Total, Units
<1> QED
  BY <1>1, <1>2, <1>4, <1>5, <1>6

\* Changing one term changes the sum by as much.
LEMMA TotalUpdate ==
    ASSUME NEW S, IsFiniteSet(S), NEW f \in [S -> Nat], NEW g \in [S -> Nat],
           NEW x \in S, \A y \in S \ {x} : g[y] = f[y]
    PROVE  Total(g, S) = Total(f, S) - f[x] + g[x]
<1>1. Units(g, S \ {x}) = Units(f, S \ {x})
  BY DEF Units
<1>2. Total(g, S \ {x}) = Total(f, S \ {x})
  BY <1>1 DEF Total, Units
<1>3. Total(f, S) = Total(f, S \ {x}) + f[x] /\ Total(f, S \ {x}) \in Nat
  BY TotalSplit
<1>4. Total(g, S) = Total(g, S \ {x}) + g[x]
  BY TotalSplit
<1> QED
  BY <1>2, <1>3, <1>4

\* A sum of nothing.
LEMMA TotalZero ==
    ASSUME NEW S, NEW f, \A x \in S : f[x] = 0
    PROVE  Total(f, S) = 0
<1>1. Units(f, S) = {}
  BY DEF Units
<1> QED
  BY <1>1, FS_EmptySet DEF Total, Units

-----------------------------------------------------------------------------
(* Conservation of tasks *)

\* Tasks in the workers' queues, in their buffers, and on the way.
Local == Total(local_queue, Workers)
Buffered == Total(run_buffer, Workers)
Held == Total(hold, Procs)

\* Every task is in one of these places or has been run.
Kept == scheduled = executed + run_queue + Local + Buffered + Cardinality(InHand) + Held

\* Workers with a task in hand can be counted.
LEMMA InHandSets == IsFiniteSet(InHand) /\ Cardinality(InHand) \in Nat
<1>1. InHand \subseteq Workers
  BY DEF InHand
<1> QED
  BY <1>1, ThreadSets, FS_Subset, FS_CardinalityType

\* The sums of the equation are numbers.
LEMMA TaskTypes ==
    ASSUME Shape
    PROVE  /\ Local \in Nat /\ Buffered \in Nat /\ Held \in Nat /\ Cardinality(InHand) \in Nat
           /\ run_queue \in Nat /\ executed \in Nat /\ scheduled \in Nat
<1>1. /\ local_queue \in [Workers -> Nat] /\ run_buffer \in [Workers -> Nat]
      /\ hold \in [Procs -> Nat] /\ run_queue \in Nat /\ executed \in Nat /\ scheduled \in Nat
  BY PoolAssumption DEF Shape
<1> QED
  BY <1>1, ThreadSets, TotalType, InHandSets DEF Local, Buffered, Held

\* A step that moves no task.
LEMMA NoTaskMoves ==
    ASSUME Kept, InHand' = InHand,
           UNCHANGED <<run_queue, local_queue, run_buffer, hold, executed, scheduled>>
    PROVE  Kept'
  BY DEF Kept, Local, Buffered, Held

\* The locations of a worker with a task in hand.
HasTask == {"notify", "slow", "post", "spawn", "unspawn", "run", "push", "fill", "overflow"}

\* A step of a thread that keeps its task, or has none before and after.
LEMMA SameHands ==
    ASSUME Shape, NEW p \in Procs, NEW l, pc' = [pc EXCEPT ![p] = l],
           p \in Workers => (pc[p] \in HasTask <=> l \in HasTask)
    PROVE  InHand' = InHand
<1>1. pc \in [Procs -> WorkerPCs \union ClientPCs] /\ Workers \subseteq Procs
  BY DEF Shape, Procs
<1>2. \A w \in Workers : pc'[w] \in HasTask <=> pc[w] \in HasTask
  BY <1>1
<1> QED
  BY <1>2 DEF InHand, HasTask

\* A step of a worker that gets a task in hand.
LEMMA TakesInHand ==
    ASSUME Shape, NEW w \in Workers, NEW l, pc' = [pc EXCEPT ![w] = l],
           pc[w] \notin HasTask, l \in HasTask
    PROVE  Cardinality(InHand') = Cardinality(InHand) + 1
<1>1. pc \in [Procs -> WorkerPCs \union ClientPCs] /\ Workers \subseteq Procs
  BY DEF Shape, Procs
<1>2. InHand' = InHand \union {w} /\ w \notin InHand
  BY <1>1 DEF InHand, HasTask
<1> QED
  BY <1>2, InHandSets, OneMore

\* A step of a worker that is done with its task.
LEMMA EndsTask ==
    ASSUME Shape, NEW w \in Workers, NEW l, pc' = [pc EXCEPT ![w] = l],
           pc[w] \in HasTask, l \notin HasTask
    PROVE  Cardinality(InHand') = Cardinality(InHand) - 1
<1>1. pc \in [Procs -> WorkerPCs \union ClientPCs] /\ Workers \subseteq Procs
  BY DEF Shape, Procs
<1>2. InHand' = InHand \ {w} /\ w \in InHand
  BY <1>1 DEF InHand, HasTask
<1> QED
  BY <1>2, InHandSets, FS_RemoveElement

\* Tasks move between the places of the equation and none is dropped on the way.
LEMMA TaskStep == Shape /\ Kept /\ [Next]_vars => Kept'
<1> SUFFICES ASSUME Shape, Kept, [Next]_vars PROVE Kept'
  OBVIOUS
<1>0. /\ local_queue' \in [Workers -> Nat] /\ run_buffer' \in [Workers -> Nat]
      /\ hold' \in [Procs -> Nat]
  <2>1. Shape'
    BY ShapeStep
  <2> QED
    BY <2>1, PoolAssumption DEF Shape
<1>1. /\ Workers \subseteq Procs /\ Clients \subseteq Procs
      /\ IsFiniteSet(Workers) /\ IsFiniteSet(Procs)
      /\ local_queue \in [Workers -> Nat] /\ run_buffer \in [Workers -> Nat]
      /\ hold \in [Procs -> Nat] /\ pc \in [Procs -> WorkerPCs \union ClientPCs]
  BY ThreadSets, PoolAssumption DEF Shape, Procs
<1>2. /\ Local \in Nat /\ Buffered \in Nat
      /\ Held \in Nat /\ Cardinality(InHand) \in Nat
      /\ run_queue \in Nat /\ executed \in Nat /\ scheduled \in Nat
  BY TaskTypes
<1>3. ASSUME NEW p \in Procs, \A q \in Procs \ {p} : hold'[q] = hold[q]
      PROVE  Held' = Held - hold[p] + hold'[p]
  BY <1>0, <1>1, <1>3, TotalUpdate DEF Held
<1>4. ASSUME NEW w \in Workers, \A u \in Workers \ {w} : run_buffer'[u] = run_buffer[u]
      PROVE  Buffered' = Buffered - run_buffer[w] + run_buffer'[w]
  BY <1>0, <1>1, <1>4, TotalUpdate DEF Buffered
<1>5. ASSUME NEW w \in Workers, \A u \in Workers \ {w} : local_queue'[u] = local_queue[u]
      PROVE  Local' = Local - local_queue[w] + local_queue'[w]
  BY <1>0, <1>1, <1>5, TotalUpdate DEF Local
<1>6. /\ UNCHANGED hold => Held' = Held
      /\ UNCHANGED run_buffer => Buffered' = Buffered
      /\ UNCHANGED local_queue => Local' = Local
  BY DEF Held, Buffered, Local
<1>7. /\ \A p \in Procs : hold[p] \in Nat
      /\ \A w \in Workers : run_buffer[w] \in Nat /\ local_queue[w] \in Nat
  BY <1>1
<1>8. \A p \in Procs : pc[p] \notin {"push", "fill", "overflow", "publish"} => hold[p] = 0
  BY DEF Shape
<1>9. ASSUME NEW p \in Procs, PushGlobal(p) PROVE Kept'
  <2>1. InHand' = InHand
    BY <1>9, SameHands DEF PushGlobal, Goto, HasTask
  <2>2. /\ run_queue' = run_queue + hold[p]
        /\ hold' = [hold EXCEPT ![p] = 0]
        /\ UNCHANGED <<local_queue, run_buffer, executed, scheduled>>
    BY <1>9 DEF PushGlobal, ghostVars
  <2>3. Held' = Held - hold[p]
    BY <1>1, <1>2, <1>3, <1>7, <2>2
  <2> QED
    BY <1>2, <1>6, <1>7, <2>1, <2>2, <2>3 DEF Kept
<1>10. ASSUME NEW p \in Procs, NEW n \in 1..MaxBatch,
              Schedule(p, n) \/ (p \in Workers /\ ScheduleInside(p, n))
       PROVE  Kept'
  <2>1. InHand' = InHand /\ hold[p] = 0
    BY <1>8, <1>10, SameHands DEF Schedule, ScheduleInside, Goto, Return, HasTask
  <2>2. /\ scheduled' = scheduled + n /\ hold' = [hold EXCEPT ![p] = n] /\ n \in Nat
        /\ UNCHANGED <<run_queue, local_queue, run_buffer, executed>>
    BY <1>10, PoolAssumption DEF Schedule, ScheduleInside, queueVars
  <2>3. Held' = Held + n
    BY <1>1, <1>2, <1>3, <2>1, <2>2
  <2> QED
    BY <1>2, <1>6, <2>1, <2>2, <2>3 DEF Kept
<1>11. ASSUME NEW w \in Workers, FillBuffer(w) PROVE Kept'
  <2> DEFINE n == Min({hold[w], Capacity - run_buffer[w]})
             l == IF hold[w] = n THEN "notify" ELSE "fill"
  <2>1. n \in Nat /\ hold[w] - n \in Nat /\ run_buffer[w] + n \in Nat
    <3>1. hold[w] \in Nat /\ run_buffer[w] \in Nat /\ run_buffer[w] < Capacity /\ Capacity \in Nat
      BY <1>1, <1>7, <1>11, PoolAssumption DEF FillBuffer
    <3> QED
      BY <3>1, MinOfTwo
  <2>2. /\ run_buffer' = [run_buffer EXCEPT ![w] = run_buffer[w] + n]
        /\ hold' = [hold EXCEPT ![w] = hold[w] - n]
        /\ pc[w] = "fill" /\ pc' = [pc EXCEPT ![w] = l]
        /\ UNCHANGED <<run_queue, local_queue, executed, scheduled>>
    BY <1>11 DEF FillBuffer, Goto, ghostVars
  <2> HIDE DEF n
  <2>3. InHand' = InHand
    BY <1>1, <2>2, SameHands DEF HasTask
  <2>4. /\ Held' = Held - n
        /\ Buffered' = Buffered + n
    BY <1>1, <1>2, <1>3, <1>4, <1>7, <2>1, <2>2
  <2> QED
    BY <1>2, <1>6, <2>1, <2>2, <2>3, <2>4 DEF Kept
<1>12. ASSUME NEW w \in Workers, Migrate(w) PROVE Kept'
  <2> DEFINE n == Capacity \div 2
  <2>1. n \in Nat /\ run_buffer[w] = Capacity /\ run_buffer[w] - n \in Nat /\ hold[w] + n \in Nat
    BY <1>1, <1>7, <1>12, PoolAssumption DEF Migrate
  <2>2. /\ run_buffer' = [run_buffer EXCEPT ![w] = run_buffer[w] - n]
        /\ hold' = [hold EXCEPT ![w] = hold[w] + n]
        /\ pc[w] = "fill" /\ pc' = [pc EXCEPT ![w] = "overflow"]
        /\ UNCHANGED <<run_queue, local_queue, executed, scheduled>>
    BY <1>12 DEF Migrate, Goto, ghostVars
  <2> HIDE DEF n
  <2>3. InHand' = InHand
    BY <1>1, <2>2, SameHands DEF HasTask
  <2>4. /\ Held' = Held + n
        /\ Buffered' = Buffered - n
    BY <1>1, <1>2, <1>3, <1>4, <1>7, <2>1, <2>2
  <2> QED
    BY <1>2, <1>6, <2>1, <2>2, <2>3, <2>4 DEF Kept
<1>13. ASSUME NEW w \in Workers, PushLocal(w) PROVE Kept'
  <2>1. /\ local_queue' = [local_queue EXCEPT ![w] = local_queue[w] + hold[w]]
        /\ hold' = [hold EXCEPT ![w] = 0]
        /\ pc[w] = "overflow" /\ pc' = [pc EXCEPT ![w] = "notify"]
        /\ UNCHANGED <<run_queue, run_buffer, executed, scheduled>>
    BY <1>13 DEF PushLocal, Goto, ghostVars
  <2>2. InHand' = InHand
    BY <1>1, <2>1, SameHands DEF HasTask
  <2>3. /\ Held' = Held - hold[w]
        /\ Local' = Local + hold[w]
    BY <1>1, <1>2, <1>3, <1>5, <1>7, <2>1
  <2> QED
    BY <1>1, <1>2, <1>6, <1>7, <2>1, <2>2, <2>3 DEF Kept
<1>14. ASSUME NEW w \in Workers, PopBuffer(w) PROVE Kept'
  <2>1. CASE run_buffer[w] = 0
    <3>1. pc[w] = "pop" /\ pc' = [pc EXCEPT ![w] = "own"]
      BY <1>14, <2>1 DEF PopBuffer, Goto
    <3>2. InHand' = InHand
      BY <1>1, <3>1, SameHands DEF HasTask
    <3> QED
      BY <1>14, <2>1, <3>2, NoTaskMoves DEF PopBuffer, threadVars, ghostVars
  <2>2. CASE run_buffer[w] # 0
    <3>1. /\ pc[w] = "pop" /\ \E l \in {"slow", "run"} : pc' = [pc EXCEPT ![w] = l]
          /\ run_buffer' = [run_buffer EXCEPT ![w] = run_buffer[w] - 1]
          /\ UNCHANGED <<run_queue, local_queue, hold, executed, scheduled>>
      BY <1>14, <2>2 DEF PopBuffer, Goto, AfterPop, threadVars, ghostVars
    <3>2. Cardinality(InHand') = Cardinality(InHand) + 1
      BY <1>1, <3>1, TakesInHand DEF HasTask
    <3>3. run_buffer[w] - 1 \in Nat
      BY <1>7, <2>2
    <3>4. Buffered' = Buffered - 1
      BY <1>1, <1>2, <1>4, <1>7, <3>1, <3>3
    <3> QED
      BY <1>2, <1>6, <3>1, <3>2, <3>4 DEF Kept
  <2> QED
    BY <2>1, <2>2
<1>15. ASSUME NEW w \in Workers, ConsumeOwn(w) \/ ConsumeGlobal(w) \/ StealQueue(w)
       PROVE  Kept'
  <2>1. PICK q \in Queues, l \in {"global", "load", "target", "steal"} : Consume(w, q, l)
    <3>1. ASSUME StealQueue(w) PROVE Victim(w) \in Queues
      BY <3>1 DEF Victim, Shape, Procs
    <3> QED
      BY <1>15, <3>1 DEF ConsumeOwn, ConsumeGlobal, StealQueue, Queues
  <2>2. /\ pc[w] \in {"own", "global", "target"}
        /\ UNCHANGED <<run_buffer, executed, scheduled>>
    BY <1>15 DEF ConsumeOwn, ConsumeGlobal, StealQueue, ghostVars
  <2>3. CASE TakesNone(w, l)
    <3>1. InHand' = InHand
      BY <1>1, <2>2, <2>3, SameHands DEF TakesNone, HasTask
    <3> QED
      BY <2>2, <2>3, <3>1, NoTaskMoves DEF TakesNone
  <2>4. ASSUME NEW n \in 1..(Capacity + 1), Takes(w, q, n) PROVE Kept'
    <3>1. /\ pc' = [pc EXCEPT ![w] = "publish"] /\ hold' = [hold EXCEPT ![w] = n]
          /\ n \in Nat /\ w \in Procs
      BY <1>1, <2>4, PoolAssumption DEF Takes
    <3>2. InHand' = InHand /\ hold[w] = 0
      BY <1>8, <2>2, <3>1, SameHands DEF HasTask
    <3>3. Held' = Held + n
      BY <1>1, <1>2, <1>3, <3>1, <3>2
    <3>4. CASE q = NoWorker /\ n <= run_queue /\ run_queue' = run_queue - n /\ UNCHANGED local_queue
      BY <1>2, <1>6, <2>2, <3>1, <3>2, <3>3, <3>4 DEF Kept
    <3>5. CASE /\ q \in Workers /\ n <= local_queue[q] /\ UNCHANGED run_queue
               /\ local_queue' = [local_queue EXCEPT ![q] = local_queue[q] - n]
      <4>1. local_queue[q] \in Nat /\ local_queue[q] - n \in Nat
        BY <1>7, <3>1, <3>5
      <4>2. Local' = Local - n
        BY <1>1, <1>2, <1>5, <3>1, <3>5, <4>1
      <4> QED
        BY <1>2, <1>6, <2>2, <3>1, <3>2, <3>3, <3>5, <4>2 DEF Kept
    <3> QED
      BY <2>4, <3>4, <3>5 DEF Takes
  <2> QED
    BY <2>1, <2>3, <2>4, Consumes
<1>16. ASSUME NEW w \in Workers, Publish(w) PROVE Kept'
  <2>1. /\ run_buffer' = [run_buffer EXCEPT ![w] = run_buffer[w] + hold[w] - 1]
        /\ hold' = [hold EXCEPT ![w] = 0]
        /\ pc[w] = "publish" /\ \E l \in {"slow", "notify", "run"} : pc' = [pc EXCEPT ![w] = l]
        /\ UNCHANGED <<run_queue, local_queue, executed, scheduled>>
    BY <1>16 DEF Publish, Goto, AfterPop, ghostVars
  <2>2. Cardinality(InHand') = Cardinality(InHand) + 1
    BY <1>1, <2>1, TakesInHand DEF HasTask
  <2>3. hold[w] \in Nat \ {0} /\ run_buffer[w] + hold[w] - 1 \in Nat
    BY <1>7, <2>1, PoolAssumption DEF Shape
  <2>4. /\ Held' = Held - hold[w]
        /\ Buffered' = Buffered + hold[w] - 1
    BY <1>1, <1>2, <1>3, <1>4, <1>7, <2>1, <2>3
  <2> QED
    BY <1>2, <1>6, <2>1, <2>2, <2>3, <2>4 DEF Kept
<1>17. ASSUME NEW w \in Workers, StealBuffer(w) PROVE Kept'
  <2> DEFINE v == target[w]
             n == run_buffer[v] - run_buffer[v] \div 2
  <2>1. pc[w] = "steal" /\ v \in Workers /\ run_buffer[v] \in Nat
    BY <1>7, <1>17 DEF StealBuffer, Shape
  <2>2. n \in Nat /\ run_buffer[v] - n \in Nat
    BY <2>1
  <2>3. UNCHANGED <<run_queue, local_queue, executed, scheduled>>
    BY <1>17 DEF StealBuffer, ghostVars
  <2>4. CASE n = 0
    <3>1. pc' = [pc EXCEPT ![w] = "target"] /\ UNCHANGED <<run_buffer, hold>>
      BY <1>17, <2>4 DEF StealBuffer, Goto
    <3>2. InHand' = InHand
      BY <1>1, <2>1, <3>1, SameHands DEF HasTask
    <3> QED
      BY <2>3, <3>1, <3>2, NoTaskMoves
  <2>5. CASE n # 0
    <3>1. /\ pc' = [pc EXCEPT ![w] = "publish"]
          /\ run_buffer' = [run_buffer EXCEPT ![v] = run_buffer[v] - n]
          /\ hold' = [hold EXCEPT ![w] = n]
      BY <1>17, <2>5 DEF StealBuffer, Goto
    <3> HIDE DEF n, v
    <3>2. InHand' = InHand /\ hold[w] = 0
      BY <1>1, <1>8, <2>1, <3>1, SameHands DEF HasTask
    <3>3. /\ Held' = Held + n
          /\ Buffered' = Buffered - n
      BY <1>1, <1>2, <1>3, <1>4, <2>1, <2>2, <3>1, <3>2
    <3> QED
      BY <1>2, <1>6, <2>2, <2>3, <3>2, <3>3 DEF Kept
  <2> QED
    BY <2>4, <2>5
<1>18. ASSUME NEW w \in Workers, Run(w) PROVE Kept'
  <2>1. /\ executed' = executed + 1 /\ pc[w] = "run" /\ pc' = [pc EXCEPT ![w] = "pop"]
        /\ UNCHANGED <<run_queue, local_queue, run_buffer, hold, scheduled>>
    BY <1>18 DEF Run, Goto, queueVars, threadVars
  <2>2. Cardinality(InHand') = Cardinality(InHand) - 1
    BY <1>1, <2>1, EndsTask DEF HasTask
  <2> QED
    BY <1>2, <1>6, <2>1, <2>2 DEF Kept
<1>19. ASSUME NEW p \in Procs, NEW w \in Workers, Spawn(p, w) PROVE Kept'
  <2>1. InHand' = InHand
    BY <1>1, <1>19 DEF Spawn, Return, InHand
  <2> QED
    BY <1>19, <2>1, NoTaskMoves DEF Spawn, queueVars, threadVars, ghostVars
<1> USE DEF queueVars, threadVars, ghostVars
<1>20. ASSUME NEW p \in Procs,
              NotifyFast(p) \/ NotifySlow(p) \/ PostIdle(p) \/ SpawnFails(p) \/ Unspawn(p)
       PROVE  Kept'
  <2>1. /\ pc[p] \in {"notify", "slow", "post", "spawn", "unspawn"}
        /\ \E l \in {Return(p), "slow", "post", "spawn", "unspawn"} : pc' = [pc EXCEPT ![p] = l]
    BY <1>20 DEF NotifyFast, NotifySlow, PostIdle, SpawnFails, Unspawn, Goto
  <2>2. InHand' = InHand
    BY <2>1, SameHands DEF Return, HasTask
  <2> QED
    BY <1>20, <2>2, NoTaskMoves DEF NotifyFast, NotifySlow, PostIdle, SpawnFails, Unspawn
<1>21. ASSUME NEW w \in Workers,
              \/ Register(w) \/ WaitShutdown(w) \/ WaitConsume(w) \/ WaitSleep(w)
              \/ SleepReturns(w) \/ LoadSpawned(w) \/ PopNothing(w) \/ Drain(w)
              \/ Unregister(w) \/ JoinNotify(w) \/ JoinWait(w) \/ Chain(w)
       PROVE  Kept'
  <2> USE <1>21 DEF Register, WaitShutdown, WaitConsume, WaitSleep, SleepReturns, LoadSpawned,
            PopNothing, Drain, Unregister, JoinNotify, JoinWait, Chain
  <2>1. /\ pc[w] \in {"start", "wait", "sleep", "load", "target", "after", "exit", "unregister",
                       "join_notify", "join_wait", "chain"}
        /\ \E l \in {"wait", "exit", "pop", "sleep", "target", "after", "unregister",
                       "join_notify", "join_wait", "chain", "gone"} :
              pc' = [pc EXCEPT ![w] = l]
    BY DEF Goto
  <2>2. InHand' = InHand
    BY <1>1, <2>1, SameHands DEF HasTask
  <2> QED
    BY <2>2, NoTaskMoves
<1>22. ASSUME NEW w \in Workers, WaitGoIdle(w) \/ SleepDrains(w) PROVE Kept'
  BY <1>22, NoTaskMoves DEF WaitGoIdle, SleepDrains, InHand
<1>23. ASSUME NEW c \in Clients, WalkIdlePush(c) \/ BeginIdlePush(c) \/ Warm(c)
       PROVE  Kept'
  <2>1. UNCHANGED pc \/ \E l \in {"idle", "walk", "spawn"} : pc' = [pc EXCEPT ![c] = l]
    BY <1>23 DEF WalkIdlePush, BeginIdlePush, Warm, Goto
  <2>2. InHand' = InHand
    BY <1>1, <2>1, SameHands, PoolAssumption DEF InHand, HasTask
  <2> QED
    BY <1>23, <2>2, NoTaskMoves DEF WalkIdlePush, BeginIdlePush, Warm
<1>24. ASSUME DropPool \/ OwnerStep PROVE Kept'
  <2> USE <1>24 DEF DropPool, OwnerStep, Shutdown, CloseIdle, Join, JoinReturns, SwapThreads,
            SignalFirst
  <2>1. \E l \in {"shutdown", "close", "join", "joining", "swap", "signal", "done"} :
           pc' = [pc EXCEPT ![Owner] = l]
    BY DEF Goto
  <2>2. InHand' = InHand
    BY <1>1, <2>1, SameHands, PoolAssumption DEF HasTask
  <2> QED
    BY <2>2, NoTaskMoves
<1>25. ASSUME UNCHANGED vars PROVE Kept'
  BY <1>25, NoTaskMoves DEF vars, InHand
<1> QED
  BY <1>1, <1>9, <1>10, <1>11, <1>12, <1>13, <1>14, <1>15, <1>16, <1>17, <1>18, <1>19, <1>20,
     <1>21, <1>22, <1>23, <1>24, <1>25
     DEF Next, WorkerStep, ClientStep, CallStep, Terminated
-----------------------------------------------------------------------------
(* The steal loop's counter, and the types *)

\* A thief has as many victims left to visit as pop() counted, at most.
Searching ==
    \A w \in Workers : /\ num_threads[w] \in 0..max_threads
                       /\ pc[w] = "steal" => num_threads[w] > 0

\* A steal visits as many workers as were spawned and counts each of them once.
LEMMA SearchStep == Shape /\ Counted /\ Searching /\ [Next]_vars => Searching'
<1> SUFFICES ASSUME Shape, Counted, Searching, [Next]_vars PROVE Searching'
  OBVIOUS
<1>1. /\ Workers \subseteq Procs /\ pc \in [Procs -> WorkerPCs \union ClientPCs]
      /\ num_threads \in [Workers -> Int] /\ max_threads \in Nat
  BY ThreadSets DEF Shape, Procs
<1>2. sync.spawned \in 0..max_threads
  <2>1. sync.spawned \in Int
    BY DEF Shape, SyncWord
  <2> QED
    BY <1>1, <2>1, ThreadSets DEF Counted
<1>3. ASSUME UNCHANGED num_threads, \A w \in Workers : pc'[w] = "steal" => pc[w] = "steal"
      PROVE  Searching'
  BY <1>3 DEF Searching
<1>4. ASSUME NEW p \in Procs, NEW l, pc' = [pc EXCEPT ![p] = l], l # "steal" \/ p \notin Workers,
             UNCHANGED num_threads
      PROVE  Searching'
  BY <1>1, <1>3, <1>4
<1>5. ASSUME UNCHANGED <<pc, num_threads>> PROVE Searching'
  BY <1>3, <1>5
<1>6. ASSUME NEW w \in Workers, LoadSpawned(w) PROVE Searching'
  BY <1>1, <1>2, <1>6 DEF Searching, LoadSpawned, Goto
<1>7. ASSUME NEW w \in Workers, StealQueue(w) PROVE Searching'
  <2>1. /\ num_threads[w] > 0
        /\ num_threads' = [num_threads EXCEPT ![w] = IF pc'[w] = "target" THEN @ - 1 ELSE @]
        /\ \E l : pc' = [pc EXCEPT ![w] = l]
    BY <1>7 DEF StealQueue, Consume, Goto
  <2> QED
    BY <1>1, <2>1 DEF Searching
<1>8. ASSUME NEW w \in Workers, StealBuffer(w) PROVE Searching'
  <2>1. /\ pc[w] = "steal"
        /\ \/ /\ num_threads' = [num_threads EXCEPT ![w] = @ - 1]
              /\ pc' = [pc EXCEPT ![w] = "target"]
           \/ UNCHANGED num_threads /\ pc' = [pc EXCEPT ![w] = "publish"]
    BY <1>8 DEF StealBuffer, Goto
  <2> QED
    BY <1>1, <2>1 DEF Searching
<1> USE DEF Goto, threadVars
<1>9. ASSUME NEW p \in Procs,
             \/ PushGlobal(p) \/ NotifyFast(p) \/ NotifySlow(p) \/ PostIdle(p) \/ SpawnFails(p)
             \/ Unspawn(p) \/ \E n \in 1..MaxBatch : Schedule(p, n)
      PROVE  Searching'
  <2>1. \E l \in {"notify", "slow", "post", "spawn", "unspawn", "push", Return(p)} :
           pc' = [pc EXCEPT ![p] = l]
    BY <1>9 DEF PushGlobal, NotifyFast, NotifySlow, PostIdle, SpawnFails, Unspawn, Schedule
  <2>2. UNCHANGED num_threads
    BY <1>9 DEF PushGlobal, NotifyFast, NotifySlow, PostIdle, SpawnFails, Unspawn, Schedule
  <2> QED
    BY <1>4, <2>1, <2>2 DEF Return
<1>10. ASSUME NEW p \in Procs, NEW w \in Workers, Spawn(p, w) PROVE Searching'
  <2>1. UNCHANGED num_threads /\ pc' = [pc EXCEPT ![p] = Return(p), ![w] = "start"]
    BY <1>10 DEF Spawn
  <2> QED
    BY <1>1, <1>3, <2>1 DEF Return
<1>11. ASSUME NEW w \in Workers,
              \/ Register(w) \/ WaitShutdown(w) \/ WaitConsume(w) \/ WaitSleep(w)
              \/ SleepReturns(w) \/ PopNothing(w) \/ Drain(w) \/ PopBuffer(w) \/ Publish(w)
              \/ FillBuffer(w) \/ Migrate(w) \/ PushLocal(w) \/ Run(w)
              \/ Unregister(w) \/ JoinNotify(w) \/ JoinWait(w) \/ Chain(w)
              \/ \E n \in 1..MaxBatch : ScheduleInside(w, n)
       PROVE  Searching'
  <2> USE <1>11 DEF Register, WaitShutdown, WaitConsume, WaitSleep, SleepReturns, PopNothing, Drain,
             PopBuffer, Publish, FillBuffer, Migrate, PushLocal, Run, Unregister, JoinNotify,
             JoinWait, Chain, ScheduleInside, AfterPop
  <2>1. \E l \in {"wait", "exit", "pop", "sleep", "after", "unregister", "own", "slow", "notify",
                   "run", "fill", "overflow", "join_notify", "join_wait", "chain", "gone"} :
           pc' = [pc EXCEPT ![w] = l]
    OBVIOUS
  <2>2. UNCHANGED num_threads
    OBVIOUS
  <2> QED
    BY <1>1, <1>4, <2>1, <2>2
<1>12. ASSUME NEW w \in Workers, ConsumeOwn(w) \/ ConsumeGlobal(w) PROVE Searching'
  <2>1. /\ UNCHANGED num_threads
        /\ \E l \in {"global", "load", "publish"} : pc' = [pc EXCEPT ![w] = l]
    BY <1>12 DEF ConsumeOwn, ConsumeGlobal, Consume
  <2> QED
    BY <1>1, <1>4, <2>1
<1>13. ASSUME NEW w \in Workers, WaitGoIdle(w) \/ SleepDrains(w) PROVE Searching'
  BY <1>5, <1>13 DEF WaitGoIdle, SleepDrains
<1>14. ASSUME NEW c \in Clients, WalkIdlePush(c) \/ BeginIdlePush(c) \/ Warm(c) PROVE Searching'
  <2>1. /\ UNCHANGED num_threads
        /\ UNCHANGED pc \/ \E l \in {"idle", "walk", "spawn"} : pc' = [pc EXCEPT ![c] = l]
    BY <1>14 DEF WalkIdlePush, BeginIdlePush, Warm
  <2> QED
    BY <1>4, <1>5, <2>1 DEF Procs
<1>15. ASSUME DropPool \/ OwnerStep PROVE Searching'
  <2>1. /\ UNCHANGED num_threads
        /\ \E l : pc' = [pc EXCEPT ![Owner] = l]
    BY <1>15 DEF DropPool, OwnerStep, Shutdown, CloseIdle, Join, JoinReturns, SwapThreads,
                 SignalFirst
  <2> QED
    BY <1>4, <2>1, PoolAssumption DEF Procs
<1>16. ASSUME UNCHANGED vars PROVE Searching'
  BY <1>5, <1>16 DEF vars
<1> QED
  BY <1>6, <1>7, <1>8, <1>9, <1>10, <1>11, <1>12, <1>13, <1>14, <1>15, <1>16
     DEF Next, WorkerStep, ClientStep, CallStep, Terminated, Procs

\* The invariants so far.
Accounts == Shape /\ Counted /\ Searching /\ Kept /\ OneWakingThread

\* They hold at the start.
LEMMA AccountsInit == Init => Accounts
<1> SUFFICES ASSUME Init PROVE Accounts
  OBVIOUS
<1>1. Shape /\ OneWakingThread
  BY ShapeInit DEF Init, OneWakingThread
<1>2. Running = {} /\ Spawning = {} /\ Idle = {} /\ InHand = {}
  BY PoolAssumption DEF Init, Running, Spawning, Idle, InHand, Procs
<1>3. Cardinality({}) = 0 /\ max_threads \in Nat
  BY FS_EmptySet, ThreadSets
<1>4. Counted
  BY <1>2, <1>3 DEF Init, Counted
<1>5. Searching
  BY <1>3, PoolAssumption DEF Init, Searching, Procs
<1>6. Local = 0 /\ Buffered = 0 /\ Held = 0
  <2>1. /\ \A w \in Workers : local_queue[w] = 0 /\ run_buffer[w] = 0
        /\ \A p \in Procs : hold[p] = 0
    BY DEF Init
  <2> QED
    BY <2>1, TotalZero DEF Local, Buffered, Held
<1>7. Kept
  BY <1>2, <1>3, <1>6 DEF Init, Kept
<1> QED
  BY <1>1, <1>4, <1>5, <1>7 DEF Accounts

\* And stay.
LEMMA AccountsStep == Accounts /\ [Next]_vars => Accounts'
  BY ShapeStep, CountStep, SearchStep, TaskStep, RoleStep DEF Accounts

\* A term of a sum is at most the sum.
LEMMA TermBound ==
    ASSUME NEW S, IsFiniteSet(S), NEW f \in [S -> Nat], NEW x \in S
    PROVE  f[x] <= Total(f, S) /\ Total(f, S) \in Nat
<1>1. f[x] \in Nat /\ Total(f, S \ {x}) \in Nat /\ Total(f, S) = Total(f, S \ {x}) + f[x]
  BY TotalSplit
<1> QED
  BY <1>1

\* What the accounts say: every field is within its bound.
LEMMA AccountsTyped == Accounts => TypeOK /\ SyncCounts /\ TaskConservation
<1> SUFFICES ASSUME Accounts PROVE TypeOK /\ SyncCounts /\ TaskConservation
  OBVIOUS
<1> USE DEF Accounts
<1>1. /\ Local \in Nat /\ Buffered \in Nat /\ Held \in Nat /\ Cardinality(InHand) \in Nat
      /\ run_queue \in Nat /\ executed \in Nat /\ scheduled \in Nat
  BY TaskTypes
<1>2. TaskConservation
  BY <1>1 DEF Kept, TaskConservation, Queued, Local, Buffered, Held
<1>3. /\ run_queue <= scheduled /\ executed <= scheduled /\ Local <= scheduled
      /\ Held <= scheduled /\ scheduled <= MaxTasks /\ MaxTasks \in Nat
  BY <1>1, PoolAssumption DEF Kept, Shape
<1>4. ASSUME NEW w \in Workers PROVE local_queue[w] \in 0..MaxTasks
  <2>1. local_queue \in [Workers -> Nat] /\ IsFiniteSet(Workers)
    BY ThreadSets DEF Shape
  <2>2. local_queue[w] <= Local /\ local_queue[w] \in Nat
    BY <2>1, TermBound DEF Local
  <2> QED
    BY <1>1, <1>3, <2>2
<1>5. ASSUME NEW p \in Procs PROVE hold[p] \in 0..MaxTasks
  <2>1. hold \in [Procs -> Nat] /\ IsFiniteSet(Procs)
    BY ThreadSets DEF Shape
  <2>2. hold[p] <= Held /\ hold[p] \in Nat
    BY <2>1, TermBound DEF Held
  <2> QED
    BY <1>1, <1>3, <2>2
<1>6. sync \in [idle : 0..max_threads, spawned : 0..max_threads,
                notified : BOOLEAN, state : SyncStates]
  <2>1. sync.idle \in 0..max_threads /\ sync.spawned \in 0..max_threads
    <3>1. sync.spawned \in Int
      BY DEF Shape, SyncWord
    <3> QED
      BY <3>1, ThreadSets DEF Counted
  <2> QED
    BY <2>1 DEF Shape, SyncWord
<1>7. /\ run_queue \in 0..MaxTasks /\ executed \in 0..MaxTasks
      /\ local_queue \in [Workers -> 0..MaxTasks] /\ hold \in [Procs -> 0..MaxTasks]
      /\ num_threads \in [Workers -> 0..max_threads]
  BY <1>1, <1>3, <1>4, <1>5 DEF Shape, Searching
<1>8. TypeOK
  BY <1>6, <1>7 DEF TypeOK, Shape
<1> QED
  BY <1>2, <1>8 DEF SyncCounts, Counted, Running, Spawning, Idle

\* For any number of workers, clients and tasks: the fields of the Sync word
\* count the threads they stand for and never leave their range, failed spawns
\* and shutdown included.
THEOREM SyncWordCounts == SafeSpec => []SyncCounts
<1>1. Accounts => SyncCounts
  BY AccountsTyped
<1> QED
  BY <1>1, AccountsInit, AccountsStep, PTL DEF SafeSpec

\* For any number of workers, clients and tasks and any buffer capacity: through
\* overflow, migration, consuming and stealing no task is lost or run twice.
THEOREM TasksAreConserved == SafeSpec => []TaskConservation
<1>1. Accounts => TaskConservation
  BY AccountsTyped
<1> QED
  BY <1>1, AccountsInit, AccountsStep, PTL DEF SafeSpec
-----------------------------------------------------------------------------
(* Shutdown *)

\* Where a registered worker is while it works, and a client in and out of calls.
Busy == WorkerPCs \ ({"none", "start", "exit", "unregister"} \union Unregistered)
InCall == {"idle", "push", "walk", "notify", "slow", "post", "spawn", "unspawn"}

\* The owner once it has announced the shutdown.
Announced == pc[Owner] \in {"close", "join", "joining", "swap", "signal", "done"}

\* The order of a shutdown.
Closing ==
    /\ Dropping => \A c \in Clients \ {Owner} : pc[c] = "idle"
    /\ sync.state = "Shutdown" <=> Announced
    /\ \A w \in Workers : pc[w] \in {"exit", "unregister"} \union Unregistered => Announced
    /\ \A w \in Workers : pc[w] = "join_notify" => sync.spawned = 0
    /\ join_event => Announced /\ sync.spawned = 0
    /\ pc[Owner] \in {"swap", "signal", "done"} => sync.spawned = 0
    /\ freed <=> pc[Owner] = "done"
    /\ \A w \in Workers : pc[w] \in {"chain", "gone"} \/ thread_join[w] => pc[Owner] = "done"
    /\ IdleTasksRunBeforeExit

\* What a shutdown and the joins write.
lifeVars == <<join_event, freed, thread_join, threads, next>>

\* A worker's step inside run(), and a client's inside a call.
Works(w) ==
    /\ pc[w] \in Busy
    /\ UNCHANGED pc \/ \E l \in Busy : pc' = [pc EXCEPT ![w] = l]
    /\ UNCHANGED lifeVars
    /\ sync'.state = "Shutdown" <=> sync.state = "Shutdown"
    /\ \A v \in Workers : idle_queue'[v] => idle_queue[v]
    /\ \A p \in Procs \ {w} : target'[p] = target[p]

Calls(c) ==
    /\ pc[c] \in InCall
    /\ ~Dropping
    /\ UNCHANGED pc \/ \E l \in InCall : pc' = [pc EXCEPT ![c] = l]
    /\ UNCHANGED lifeVars
    /\ sync'.state # "Shutdown"
    /\ \A p \in Procs \ {c} : target'[p] = target[p]

\* Whoever runs is counted.
LEMMA RunningCounts ==
    ASSUME Shape, Counted, NEW w \in Workers, pc[w] \notin {"none"} \union Unregistered
    PROVE  sync.spawned >= 1 /\ (pc[w] \in {"spawn", "unspawn"} => sync.spawned >= 2)
<1>1. w \in Running /\ (pc[w] \in {"spawn", "unspawn"} => w \in Spawning)
  BY DEF Running, Spawning, Procs
<1>2. Cardinality(Running) # 0 /\ (w \in Spawning => Cardinality(Spawning) # 0)
  BY <1>1, ThreadSets, FS_EmptySet
<1> QED
  BY <1>1, <1>2, ThreadSets DEF Counted

\* A client inside a call keeps the pool from being dropped.
LEMMA CallersHoldThePool ==
    ASSUME Shape, Closing, NEW c \in Clients, pc[c] \in InCall \ {"idle"}
    PROVE  ~Dropping /\ sync.state # "Shutdown"
  BY DEF Closing, Dropping, InCall, Announced

\* What a thread inside the pool's code does to the word's state and to the
\* join event.
LEMMA CallEffect ==
    ASSUME Shape, Counted, Closing, NEW p \in Procs, CallStep(p), \A w \in Workers : ~Spawn(p, w)
    PROVE  /\ sync'.state = "Shutdown" <=> sync.state = "Shutdown"
           /\ UNCHANGED <<lifeVars, target, idle_queue>>
           /\ pc[p] \in {"push", "notify", "slow", "post", "spawn", "unspawn"}
           /\ \E l \in {"notify", "slow", "post", "spawn", "unspawn", Return(p)} :
                 pc' = [pc EXCEPT ![p] = l]
<1> USE DEF lifeVars, listVars, ghostVars, syncVars, Goto
<1>1. sync \in SyncWord
  BY DEF Shape
<1>2. CASE PushGlobal(p) \/ NotifyFast(p) \/ PostIdle(p) \/ SpawnFails(p)
  BY <1>2 DEF PushGlobal, NotifyFast, PostIdle, SpawnFails
<1>3. CASE NotifySlow(p)
  <2>1. sync'.state = "Shutdown" <=> sync.state = "Shutdown"
    <3>1. CASE sync.state = "Shutdown"
      BY <1>3, <3>1 DEF NotifySlow
    <3>2. CASE sync.state # "Shutdown"
      BY <1>1, <1>3, <3>2, WordAtNotify
    <3> QED
      BY <3>1, <3>2
  <2> QED
    BY <1>3, <2>1 DEF NotifySlow
<1>4. CASE Unspawn(p)
  <2>1. sync' = [sync EXCEPT !.spawned = sync.spawned - 1] /\ sync.spawned - 1 \in Int
    BY <1>1, <1>4 DEF Unspawn, SyncWord
  <2>2. sync'.state = sync.state
    BY <1>1, <2>1, WordAtCount
  <2>3. ~(sync.state = "Shutdown" /\ sync.spawned = 1)
    <3>1. CASE p \in Workers
      BY <1>4, <3>1, RunningCounts DEF Unspawn, Unregistered
    <3>2. CASE p \in Clients
      BY <1>4, <3>2, CallersHoldThePool DEF Unspawn, InCall
    <3> QED
      BY <3>1, <3>2 DEF Procs
  <2>4. UNCHANGED join_event
    BY <1>4, <2>3 DEF Unspawn, Shape
  <2> QED
    BY <1>4, <2>2, <2>4 DEF Unspawn
<1> QED
  BY <1>2, <1>3, <1>4 DEF CallStep

\* The steps that matter to shutdown and to the list of threads are few.
LEMMA LifeSteps ==
    ASSUME Shape, Counted, Closing, [Next]_vars
    PROVE  \/ UNCHANGED <<pc, sync, lifeVars, target, idle_queue>>
           \/ \E w \in Workers : Works(w)
           \/ \E c \in Clients : Calls(c)
           \/ \E p \in Procs, w \in Workers : Spawn(p, w)
           \/ \E w \in Workers :
                 \/ Register(w) \/ WaitShutdown(w) \/ (pc[w] = "exit" /\ Drain(w))
                 \/ Unregister(w) \/ JoinNotify(w) \/ JoinWait(w) \/ Chain(w)
           \/ DropPool \/ OwnerStep
<1>1. /\ sync \in SyncWord /\ Workers \subseteq Procs /\ Clients \subseteq Procs
      /\ target \in [Procs -> Queues] /\ idle_queue \in [Workers -> BOOLEAN]
  BY DEF Shape, Procs
<1>2. ASSUME NEW w \in Workers, CallStep(w), \A v \in Workers : ~Spawn(w, v) PROVE Works(w)
  BY <1>1, <1>2, CallEffect DEF Works, Busy, WorkerPCs, Unregistered, Return
<1>3. ASSUME NEW c \in Clients, CallStep(c), \A v \in Workers : ~Spawn(c, v) PROVE Calls(c)
  <2>1. pc[c] \in InCall \ {"idle"}
    BY <1>1, <1>3, CallEffect DEF InCall
  <2>2. ~Dropping /\ sync.state # "Shutdown"
    BY <2>1, CallersHoldThePool
  <2> QED
    BY <1>1, <1>3, <2>1, <2>2, CallEffect, PoolAssumption DEF Calls, InCall, Return
<1> USE DEF lifeVars, listVars, ghostVars, syncVars, Goto
<1>4. ASSUME NEW w \in Workers,
             \/ WaitSleep(w) \/ SleepReturns(w) \/ SleepDrains(w) \/ (pc[w] = "after" /\ Drain(w))
             \/ PopBuffer(w) \/ Publish(w) \/ LoadSpawned(w) \/ PopNothing(w)
             \/ FillBuffer(w) \/ Migrate(w) \/ PushLocal(w) \/ Run(w)
             \/ \E n \in 1..MaxBatch : ScheduleInside(w, n) \/ Schedule(w, n)
      PROVE  Works(w)
  <2> USE <1>4 DEF WaitSleep, SleepReturns, SleepDrains, Drain, PopBuffer, Publish, LoadSpawned,
            PopNothing, FillBuffer, Migrate, PushLocal, Run, ScheduleInside, Schedule, AfterPop,
            Return
  <2>1. /\ pc[w] \in Busy
        /\ UNCHANGED pc \/ \E l \in Busy : pc' = [pc EXCEPT ![w] = l]
    BY DEF Busy, WorkerPCs, Unregistered
  <2>2. UNCHANGED lifeVars /\ sync' = sync /\ target' = target
    OBVIOUS
  <2>3. \A v \in Workers : idle_queue'[v] => idle_queue[v]
    BY <1>1
  <2> QED
    BY <2>1, <2>2, <2>3 DEF Works
<1>5. ASSUME NEW w \in Workers, WaitConsume(w) \/ WaitGoIdle(w) PROVE Works(w)
  <2>1. sync'.state = "Shutdown" <=> sync.state = "Shutdown"
    BY <1>1, <1>5, WordAtConsume, WordAtGoIdle DEF WaitConsume, WaitGoIdle
  <2> QED
    BY <1>5, <2>1 DEF Works, WaitConsume, WaitGoIdle, Busy, WorkerPCs, Unregistered
<1>6. ASSUME NEW w \in Workers,
             ConsumeOwn(w) \/ ConsumeGlobal(w) \/ StealQueue(w) \/ StealBuffer(w)
      PROVE  Works(w)
  <2>1. /\ pc[w] \in {"own", "global", "target", "steal"}
        /\ \E l \in {"global", "load", "target", "steal", "publish"} : pc' = [pc EXCEPT ![w] = l]
    BY <1>6 DEF ConsumeOwn, ConsumeGlobal, StealQueue, StealBuffer, Consume
  <2>2. UNCHANGED <<lifeVars, sync, idle_queue>>
    BY <1>6 DEF ConsumeOwn, ConsumeGlobal, StealQueue, StealBuffer
  <2>3. \A p \in Procs \ {w} : target'[p] = target[p]
    BY <1>1, <1>6 DEF ConsumeOwn, ConsumeGlobal, StealQueue, StealBuffer
  <2> QED
    BY <2>1, <2>2, <2>3 DEF Works, Busy, WorkerPCs, Unregistered
<1>7. ASSUME NEW c \in Clients,
             \/ WalkIdlePush(c) \/ BeginIdlePush(c) \/ Warm(c)
             \/ \E n \in 1..MaxBatch : Schedule(c, n)
      PROVE  Calls(c)
  <2>1. /\ pc[c] \in {"idle", "walk"}
        /\ UNCHANGED pc \/ \E l \in {"idle", "walk", "spawn", "push"} : pc' = [pc EXCEPT ![c] = l]
    BY <1>7, PoolAssumption DEF WalkIdlePush, BeginIdlePush, Warm, Schedule, Return
  <2>2. ~Dropping /\ sync.state # "Shutdown"
    <3>1. ~Dropping
      BY <1>7, CallersHoldThePool DEF WalkIdlePush, BeginIdlePush, Warm, Schedule, InCall
    <3> QED
      BY <3>1 DEF Closing, Announced, Dropping
  <2>3. sync'.state = sync.state
    <3>1. CASE Warm(c)
      <4>1. sync' = [sync EXCEPT !.spawned = sync.spawned + 1] /\ sync.spawned + 1 \in Int
        BY <1>1, <3>1 DEF Warm, SyncWord
      <4> QED
        BY <1>1, <4>1, WordAtCount
    <3>2. CASE ~Warm(c)
      BY <1>7, <3>2 DEF WalkIdlePush, BeginIdlePush, Schedule
    <3> QED
      BY <3>1, <3>2
  <2>4. UNCHANGED lifeVars /\ \A p \in Procs \ {c} : target'[p] = target[p]
    BY <1>1, <1>7 DEF WalkIdlePush, BeginIdlePush, Warm, Schedule
  <2> QED
    BY <2>1, <2>2, <2>3, <2>4 DEF Calls, InCall
<1>8. CASE UNCHANGED vars
  BY <1>8 DEF vars
<1>9. ASSUME NEW w \in Workers, WorkerStep(w) \/ \E n \in 1..MaxBatch : ScheduleInside(w, n)
      PROVE  \/ Works(w) \/ \E v \in Workers : Spawn(w, v)
             \/ Register(w) \/ WaitShutdown(w) \/ (pc[w] = "exit" /\ Drain(w))
             \/ Unregister(w) \/ JoinNotify(w) \/ JoinWait(w) \/ Chain(w)
  <2>1. Drain(w) => pc[w] \in {"after", "exit"}
    BY DEF Drain
  <2> QED
    BY <1>2, <1>4, <1>5, <1>6, <1>9, <2>1 DEF WorkerStep
<1>10. ASSUME NEW c \in Clients, ClientStep(c) \/ Warm(c) \/ BeginIdlePush(c)
       PROVE  Calls(c) \/ \E v \in Workers : Spawn(c, v)
  BY <1>3, <1>7, <1>10 DEF ClientStep
<1>11. ASSUME NEW p \in Procs, NEW n \in 1..MaxBatch, Schedule(p, n)
       PROVE  \/ \E w \in Workers : Works(w)
              \/ \E c \in Clients : Calls(c)
  BY <1>4, <1>7, <1>11 DEF Procs
<1> QED
  BY <1>1, <1>8, <1>9, <1>10, <1>11 DEF Next, Terminated

\* The order of a shutdown: announced, every worker out, joined, the chain.
LEMMA ClosingStep == Shape /\ Counted /\ Closing /\ [Next]_vars => Closing'
<1> SUFFICES ASSUME Shape, Counted, Closing, [Next]_vars PROVE Closing'
  OBVIOUS
<1> USE PoolAssumption
<1>1. /\ sync \in SyncWord /\ Workers \subseteq Procs /\ Clients \subseteq Procs
      /\ pc \in [Procs -> WorkerPCs \union ClientPCs] /\ thread_join \in [Workers -> BOOLEAN]
      /\ idle_queue \in [Workers -> BOOLEAN] /\ join_event \in BOOLEAN /\ freed \in BOOLEAN
      /\ Owner \in Procs /\ Owner \notin Workers /\ sync.spawned \in Int
  BY DEF Shape, Procs, SyncWord
<1>2. CASE UNCHANGED <<pc, sync, lifeVars, target, idle_queue>>
  BY <1>2 DEF Closing, lifeVars, Dropping, Announced, IdleTasksRunBeforeExit
<1>3. ASSUME NEW w \in Workers, Works(w) PROVE Closing'
  <2>1. sync.spawned # 0
    BY <1>1, <1>3, RunningCounts DEF Works, Busy
  <2> USE <1>3 DEF Works, lifeVars
  <2>2. \A p \in Procs \ {w} : pc'[p] = pc[p]
    BY <1>1
  <2>3. pc'[w] \in Busy /\ pc[w] \in Busy
    BY <1>1
  <2>4. /\ Dropping' <=> Dropping /\ (Announced' <=> Announced) /\ pc'[Owner] = pc[Owner]
        /\ \A c \in Clients : pc'[c] = pc[c]
    BY <1>1, <2>2 DEF Dropping, Announced
  <2>5. \A v \in Workers : pc'[v] \in {"exit", "unregister"} \union Unregistered => pc'[v] = pc[v]
    BY <2>2, <2>3, <1>1 DEF Busy
  <2> QED
    BY <1>1, <2>1, <2>4, <2>5
       DEF Closing, IdleTasksRunBeforeExit, Unregistered, Dropping, Announced
<1>4. ASSUME NEW c \in Clients, Calls(c) PROVE Closing'
  <2> USE <1>4 DEF Calls, lifeVars
  <2>1. pc'[c] \in InCall /\ \A p \in Procs \ {c} : pc'[p] = pc[p]
    BY <1>1
  <2>2. ~Dropping' /\ ~Announced /\ ~Announced' /\ pc'[Owner] \notin {"swap", "signal", "done"}
    BY <1>1, <2>1 DEF Dropping, Announced, InCall
  <2>3. \A w \in Workers : pc'[w] = pc[w]
    BY <1>1, <2>1
  <2>4. /\ ~join_event /\ ~freed
        /\ \A w \in Workers : /\ pc[w] \notin {"exit", "unregister"} \union Unregistered
                              /\ ~thread_join[w]
    BY <2>2 DEF Closing, Announced
  <2>5. ~freed' /\ ~join_event' /\ thread_join' = thread_join /\ pc'[Owner] # "done"
    BY <2>2, <2>4
  <2>6. IdleTasksRunBeforeExit'
    BY <2>3, <2>4 DEF IdleTasksRunBeforeExit
  <2> QED
    BY <2>2, <2>3, <2>4, <2>5, <2>6 DEF Closing, Unregistered
<1>5. ASSUME NEW p \in Procs, NEW w \in Workers, Spawn(p, w) PROVE Closing'
  <2>1. /\ pc[p] = "spawn" /\ pc[w] = "none" /\ UNCHANGED <<sync, lifeVars, idle_queue>>
        /\ pc' = [pc EXCEPT ![p] = Return(p), ![w] = "start"]
    BY <1>5 DEF Spawn, lifeVars, listVars, ghostVars, syncVars
  <2>2. CASE p \in Workers
    <3>1. /\ \A c \in Clients : pc'[c] = pc[c]
          /\ \A v \in Workers : pc'[v] # pc[v] => pc'[v] \in {"run", "start"}
      BY <1>1, <2>1, <2>2 DEF Return
    <3> QED
      BY <1>1, <2>1, <3>1
         DEF Closing, IdleTasksRunBeforeExit, Dropping, Announced, lifeVars, Unregistered
  <2>3. CASE p \in Clients
    <3>1. ~Dropping
      BY <2>1, <2>3, CallersHoldThePool DEF InCall
    <3>2. /\ pc'[p] = "idle" /\ pc'[w] = "start"
          /\ \A q \in Procs \ {p, w} : pc'[q] = pc[q]
      BY <1>1, <2>1, <2>3 DEF Return
    <3>3. ~Announced /\ ~Announced' /\ ~Dropping' /\ pc'[Owner] \notin {"swap", "signal", "done"}
      BY <1>1, <3>1, <3>2 DEF Dropping, Announced
    <3>4. \A v \in Workers : pc'[v] # pc[v] => pc'[v] = "start"
      BY <1>1, <2>3, <3>2
    <3> QED
      BY <1>1, <2>1, <3>3, <3>4
         DEF Closing, IdleTasksRunBeforeExit, Announced, lifeVars, Unregistered
  <2> QED
    BY <2>2, <2>3 DEF Procs
<1>6. ASSUME NEW w \in Workers, NEW l, pc' = [pc EXCEPT ![w] = l],
             UNCHANGED <<sync, lifeVars>>, \A v \in Workers : idle_queue'[v] => idle_queue[v],
             l \in {"exit", "unregister", "join_wait", "chain", "gone"} => Announced,
             l \in {"chain", "gone"} => pc[Owner] = "done", l # "join_notify",
             l \in {"unregister"} \union Unregistered => ~idle_queue'[w]
      PROVE  Closing'
  <2>1. pc'[w] = l /\ \A p \in Procs \ {w} : pc'[p] = pc[p]
    BY <1>1, <1>6
  <2>2. pc'[Owner] = pc[Owner] /\ \A c \in Clients : pc'[c] = pc[c]
    BY <1>1, <2>1
  <2>3. \A v \in Workers : pc'[v] # pc[v] => v = w
    BY <1>1, <2>1
  <2>4. IdleTasksRunBeforeExit'
    BY <1>1, <1>6, <2>1, <2>3 DEF Closing, IdleTasksRunBeforeExit
  <2> QED
    BY <1>1, <1>6, <2>1, <2>2, <2>3, <2>4 DEF Closing, Dropping, Announced, lifeVars, Unregistered
<1> USE DEF lifeVars, listVars, ghostVars, syncVars, Goto
<1>7. ASSUME NEW w \in Workers, Register(w) PROVE Closing'
  <2>1. /\ pc[w] = "start" /\ pc' = [pc EXCEPT ![w] = "wait"]
        /\ UNCHANGED <<sync, join_event, freed, thread_join, idle_queue>>
    BY <1>7 DEF Register
  <2>2. pc'[Owner] = pc[Owner] /\ \A c \in Clients : pc'[c] = pc[c]
    BY <1>1, <2>1
  <2>3. \A v \in Workers : pc'[v] # pc[v] => pc'[v] = "wait"
    BY <1>1, <2>1
  <2> QED
    BY <1>1, <2>1, <2>2, <2>3
       DEF Closing, IdleTasksRunBeforeExit, Dropping, Announced, Unregistered
<1>8. ASSUME NEW w \in Workers, WaitShutdown(w) PROVE Closing'
  <2>1. /\ pc' = [pc EXCEPT ![w] = "exit"] /\ UNCHANGED <<sync, lifeVars, idle_queue>>
        /\ Announced
    BY <1>8 DEF WaitShutdown, Closing
  <2> QED
    BY <1>1, <1>6, <2>1 DEF Unregistered
<1>9. ASSUME NEW w \in Workers, pc[w] = "exit", Drain(w) PROVE Closing'
  <2>1. /\ pc' = [pc EXCEPT ![w] = "unregister"] /\ UNCHANGED <<sync, lifeVars>>
        /\ idle_queue' = [idle_queue EXCEPT ![w] = FALSE] /\ Announced
    BY <1>9 DEF Drain, Closing
  <2>2. ~idle_queue'[w] /\ \A v \in Workers : idle_queue'[v] => idle_queue[v]
    BY <1>1, <2>1
  <2> QED
    BY <1>1, <1>6, <2>1, <2>2 DEF Unregistered
<1>10. ASSUME NEW w \in Workers, Unregister(w) PROVE Closing'
  <2>1. /\ sync' = [sync EXCEPT !.spawned = sync.spawned - 1] /\ pc[w] = "unregister"
        /\ UNCHANGED <<lifeVars, idle_queue>>
        /\ pc' = [pc EXCEPT ![w] = IF sync.state = "Shutdown" /\ sync.spawned = 1
                                   THEN "join_notify" ELSE "join_wait"]
    BY <1>10 DEF Unregister
  <2>2. sync.spawned # 0 /\ sync.spawned \in Int
    BY <1>1, <2>1, RunningCounts DEF Unregistered
  <2>3. sync'.spawned = sync.spawned - 1 /\ sync'.state = sync.state
    BY <1>1, <2>1, WordAtCount
  <2>4. Announced /\ ~idle_queue[w]
    BY <2>1 DEF Closing, IdleTasksRunBeforeExit
  <2>5. pc'[Owner] = pc[Owner] /\ \A c \in Clients : pc'[c] = pc[c]
    BY <1>1, <2>1
  <2>6. /\ \A v \in Workers : pc'[v] # pc[v] => v = w
        /\ pc'[w] \in {"join_notify", "join_wait"}
        /\ pc'[w] = "join_notify" => sync.spawned = 1
    BY <1>1, <2>1
  <2> QED
    BY <1>1, <2>1, <2>2, <2>3, <2>4, <2>5, <2>6
       DEF Closing, IdleTasksRunBeforeExit, Dropping, Announced, Unregistered
<1>11. ASSUME NEW w \in Workers, JoinNotify(w) PROVE Closing'
  <2>1. /\ pc[w] = "join_notify" /\ pc' = [pc EXCEPT ![w] = "join_wait"] /\ join_event' = TRUE
        /\ UNCHANGED <<sync, freed, thread_join, idle_queue>>
    BY <1>11 DEF JoinNotify
  <2>2. Announced /\ sync.spawned = 0 /\ ~idle_queue[w]
    BY <2>1 DEF Closing, IdleTasksRunBeforeExit, Unregistered
  <2>3. pc'[Owner] = pc[Owner] /\ \A c \in Clients : pc'[c] = pc[c]
    BY <1>1, <2>1
  <2>4. \A v \in Workers : pc'[v] # pc[v] => v = w /\ pc'[v] = "join_wait"
    BY <1>1, <2>1
  <2> QED
    BY <1>1, <2>1, <2>2, <2>3, <2>4
       DEF Closing, IdleTasksRunBeforeExit, Dropping, Announced, Unregistered
<1>12. ASSUME NEW w \in Workers, JoinWait(w) PROVE Closing'
  <2>1. /\ pc[w] = "join_wait" /\ thread_join[w] /\ UNCHANGED <<sync, lifeVars, idle_queue>>
        /\ \E l \in {"gone", "chain"} : pc' = [pc EXCEPT ![w] = l]
    BY <1>12 DEF JoinWait
  <2>2. Announced /\ pc[Owner] = "done" /\ ~idle_queue[w]
    BY <2>1 DEF Closing, IdleTasksRunBeforeExit, Unregistered
  <2> QED
    BY <1>1, <1>6, <2>1, <2>2
<1>13. ASSUME NEW w \in Workers, Chain(w) PROVE Closing'
  <2>1. /\ pc[w] = "chain" /\ pc' = [pc EXCEPT ![w] = "gone"]
        /\ UNCHANGED <<sync, join_event, freed, idle_queue>>
    BY <1>13 DEF Chain
  <2>2. Announced /\ pc[Owner] = "done" /\ ~idle_queue[w]
    BY <2>1 DEF Closing, IdleTasksRunBeforeExit, Unregistered
  <2>3. pc'[Owner] = pc[Owner] /\ \A c \in Clients : pc'[c] = pc[c]
    BY <1>1, <2>1
  <2>4. \A v \in Workers : pc'[v] # pc[v] => v = w /\ pc'[v] = "gone"
    BY <1>1, <2>1
  <2> QED
    BY <1>1, <2>1, <2>2, <2>3, <2>4
       DEF Closing, IdleTasksRunBeforeExit, Dropping, Announced, Unregistered
<1>14. ASSUME DropPool PROVE Closing'
  <2>1. /\ \A c \in Clients : pc[c] = "idle" /\ pc' = [pc EXCEPT ![Owner] = "shutdown"]
        /\ UNCHANGED <<sync, lifeVars, idle_queue>>
    BY <1>14 DEF DropPool
  <2>2. /\ pc[Owner] = "idle" /\ pc'[Owner] = "shutdown"
        /\ \A p \in Procs \ {Owner} : pc'[p] = pc[p]
    BY <1>1, <2>1
  <2>3. \A w \in Workers : pc'[w] = pc[w]
    BY <1>1, <2>2
  <2> QED
    BY <1>1, <2>1, <2>2, <2>3 DEF Closing, IdleTasksRunBeforeExit, Announced
<1>15. ASSUME OwnerStep, NEW l, pc' = [pc EXCEPT ![Owner] = l],
              l \in {"close", "join", "joining", "swap", "signal", "done"}, Dropping,
              UNCHANGED idle_queue, sync'.state = "Shutdown", sync'.spawned = sync.spawned,
              join_event' => join_event,
              l \in {"swap", "signal", "done"} => sync.spawned = 0,
              freed' <=> l = "done",
              pc[Owner] = "done" => l = "done",
              l # "done" => thread_join' = thread_join
       PROVE  Closing'
  <2>1. pc'[Owner] = l /\ \A p \in Procs \ {Owner} : pc'[p] = pc[p]
    BY <1>1, <1>15
  <2>2. /\ \A w \in Workers : pc'[w] = pc[w]
        /\ \A c \in Clients \ {Owner} : pc'[c] = "idle"
    BY <1>1, <1>15, <2>1 DEF Closing
  <2>3. Announced'
    BY <1>15, <2>1 DEF Announced
  <2> QED
    BY <1>1, <1>15, <2>1, <2>2, <2>3 DEF Closing, IdleTasksRunBeforeExit
<1>16. ASSUME OwnerStep PROVE Closing'
  <2>1. CASE Shutdown
    <3>1. sync'.state = "Shutdown" /\ sync'.spawned = sync.spawned
      BY <1>1, <2>1, WordAtShutdown
    <3>2. /\ pc[Owner] = "shutdown" /\ UNCHANGED <<lifeVars, idle_queue>>
          /\ \E l \in {"close", "join"} : pc' = [pc EXCEPT ![Owner] = l]
      BY <2>1 DEF Shutdown
    <3> QED
      BY <1>15, <1>16, <3>1, <3>2 DEF Dropping, Closing
  <2>2. CASE CloseIdle \/ Join \/ JoinReturns
    <3>1. /\ pc[Owner] \in {"close", "join", "joining"}
          /\ UNCHANGED <<sync, freed, thread_join, idle_queue>>
          /\ join_event' => join_event
          /\ \E l \in {"join", "swap", "joining"} :
                /\ pc' = [pc EXCEPT ![Owner] = l]
                /\ l = "swap" => sync.spawned = 0
      BY <2>2 DEF CloseIdle, Join, JoinReturns, Closing
    <3>2. Dropping /\ sync.state = "Shutdown"
      BY <3>1 DEF Dropping, Closing, Announced
    <3>3. ~freed
      BY <3>1 DEF Closing
    <3> QED
      <4>1. PICK l \in {"join", "swap", "joining"} :
              /\ pc' = [pc EXCEPT ![Owner] = l]
              /\ l = "swap" => sync.spawned = 0
        BY <3>1
      <4>2. freed' <=> l = "done"
        BY <3>1, <3>3
      <4>3. sync'.state = "Shutdown" /\ sync'.spawned = sync.spawned
        BY <3>1, <3>2
      <4> QED
        BY <1>15, <1>16, <3>1, <3>2, <4>1, <4>2, <4>3
  <2>3. CASE SwapThreads \/ SignalFirst
    <3>1. /\ pc[Owner] \in {"swap", "signal"} /\ UNCHANGED <<sync, join_event, idle_queue>>
          /\ \E l \in {"signal", "done"} : /\ pc' = [pc EXCEPT ![Owner] = l]
                                           /\ freed' <=> l = "done"
                                           /\ l # "done" => thread_join' = thread_join
      BY <2>3 DEF SwapThreads, SignalFirst
    <3>2. Dropping /\ sync.state = "Shutdown" /\ sync.spawned = 0
      BY <3>1 DEF Dropping, Closing, Announced
    <3> QED
      BY <1>15, <1>16, <3>1, <3>2
  <2> QED
    BY <1>16, <2>1, <2>2, <2>3 DEF OwnerStep
<1> QED
  BY <1>2, <1>3, <1>4, <1>5, <1>7, <1>8, <1>9, <1>10, <1>11, <1>12, <1>13, <1>14, <1>16, LifeSteps
-----------------------------------------------------------------------------
(* The stack of threads and the join chain *)

\* The workers that have pushed themselves on the stack (register()).
Registered == {w \in Workers : pc[w] \notin {"none", "start"}}

\* The top of the stack; once drop has taken it off, the owner has it.
Head == IF pc[Owner] \in {"signal", "done"} THEN target[Owner] ELSE threads

\* The stack is a list: it has a top, and no worker is below two others.
Linked ==
    /\ Head \in Registered \union {NoWorker}
    /\ Registered # {} => Head # NoWorker
    /\ \A w \in Registered :
          /\ next[w] \in Registered \union {NoWorker}
          /\ next[w] # NoWorker => next[w] # Head
          /\ \A v \in Registered : next[w] = next[v] => next[w] = NoWorker \/ w = v

\* A worker has been signalled only by the owner or by the worker above it.
Chained ==
    /\ \A w \in Workers : pc[w] = "chain" => next[w] # NoWorker
    /\ \A w \in Workers : pc[w] \in {"chain", "gone"} => thread_join[w]
    /\ \A v \in Workers : thread_join[v] =>
          v = Head \/ \E w \in Workers : pc[w] = "gone" /\ next[w] = v

\* A step that leaves the list alone.
LEMMA LinksStay ==
    ASSUME Linked, Registered' = Registered, Head' = Head, UNCHANGED next
    PROVE  Linked'
  BY DEF Linked

\* Each worker pushes itself on the stack once and is never taken off it.
LEMMA LinkStep == Shape /\ Counted /\ Closing /\ Linked /\ [Next]_vars => Linked'
<1> SUFFICES ASSUME Shape, Counted, Closing, Linked, [Next]_vars PROVE Linked'
  OBVIOUS
<1> USE PoolAssumption
<1>1. /\ Workers \subseteq Procs /\ Owner \in Procs /\ Owner \notin Workers
      /\ pc \in [Procs -> WorkerPCs \union ClientPCs] /\ target \in [Procs -> Queues]
      /\ next \in [Workers -> Queues] /\ Clients \subseteq Procs
  BY DEF Shape, Procs
<1>2. CASE UNCHANGED <<pc, sync, lifeVars, target, idle_queue>>
  BY <1>2, LinksStay DEF lifeVars, Registered, Head
<1>3. ASSUME NEW w \in Workers, Works(w) PROVE Linked'
  <2>1. pc[w] \in Busy /\ pc'[w] \in Busy /\ \A p \in Procs \ {w} : pc'[p] = pc[p]
    BY <1>1, <1>3 DEF Works
  <2>2. Registered' = Registered
    BY <1>1, <2>1 DEF Registered, Busy
  <2>3. Head' = Head /\ UNCHANGED next
    BY <1>1, <1>3, <2>1 DEF Works, Head, lifeVars
  <2> QED
    BY <2>2, <2>3, LinksStay
<1>4. ASSUME NEW c \in Clients, Calls(c) PROVE Linked'
  <2>1. pc'[c] \in InCall /\ \A p \in Procs \ {c} : pc'[p] = pc[p]
    BY <1>1, <1>4 DEF Calls
  <2>2. Registered' = Registered
    BY <1>1, <2>1 DEF Registered
  <2>3. Head' = Head /\ UNCHANGED next
    BY <1>1, <1>4, <2>1 DEF Calls, Head, lifeVars, InCall, Dropping
  <2> QED
    BY <2>2, <2>3, LinksStay
<1>5. ASSUME NEW p \in Procs, NEW w \in Workers, Spawn(p, w) PROVE Linked'
  <2>1. /\ pc[p] = "spawn" /\ pc[w] = "none" /\ UNCHANGED <<next, threads, target>>
        /\ pc' = [pc EXCEPT ![p] = Return(p), ![w] = "start"]
    BY <1>5 DEF Spawn, listVars
  <2>2. Registered' = Registered
    BY <1>1, <2>1 DEF Registered, Return
  <2>3. Head' = Head
    BY <1>1, <2>1 DEF Head, Return
  <2> QED
    BY <2>1, <2>2, <2>3, LinksStay
<1> USE DEF lifeVars, listVars, Goto
<1>6. ASSUME NEW w \in Workers, Register(w) PROVE Linked'
  <2>1. /\ pc[w] = "start" /\ pc' = [pc EXCEPT ![w] = "wait"]
        /\ next' = [next EXCEPT ![w] = threads] /\ threads' = w
    BY <1>6 DEF Register
  <2>2. sync.spawned # 0
    BY <1>1, <2>1, RunningCounts DEF Unregistered
  <2>3. pc[Owner] \notin {"signal", "done"} /\ pc'[Owner] = pc[Owner]
    BY <1>1, <2>1, <2>2 DEF Closing
  <2>4. Head = threads /\ Head' = w
    BY <2>1, <2>3 DEF Head
  <2>5. Registered' = Registered \union {w} /\ w \notin Registered
    BY <1>1, <2>1 DEF Registered
  <2>6. next'[w] = Head /\ \A v \in Registered : next'[v] = next[v]
    BY <1>1, <2>1, <2>4, <2>5 DEF Registered
  <2>7. w # NoWorker /\ Head # w
    BY <2>5 DEF Linked
  <2> QED
    BY <2>4, <2>5, <2>6, <2>7 DEF Linked
<1>7. ASSUME NEW w \in Workers,
             \/ WaitShutdown(w) \/ (pc[w] = "exit" /\ Drain(w)) \/ Unregister(w)
             \/ JoinNotify(w) \/ JoinWait(w) \/ Chain(w)
      PROVE  Linked'
  <2>1. /\ UNCHANGED <<threads, next, target>>
        /\ pc[w] \notin {"none", "start"}
        /\ \E l \in {"exit", "unregister", "join_notify", "join_wait", "chain", "gone"} :
              pc' = [pc EXCEPT ![w] = l]
    BY <1>7 DEF WaitShutdown, Drain, Unregister, JoinNotify, JoinWait, Chain
  <2>2. Registered' = Registered /\ Head' = Head
    BY <1>1, <2>1 DEF Registered, Head
  <2> QED
    BY <2>1, <2>2, LinksStay
<1>8. ASSUME DropPool \/ OwnerStep PROVE Linked'
  <2>1. UNCHANGED next /\ \E l \in {"shutdown", "close", "join", "joining", "swap", "signal",
                                     "done"} :
                            pc' = [pc EXCEPT ![Owner] = l]
    BY <1>8 DEF DropPool, OwnerStep, Shutdown, CloseIdle, Join, JoinReturns, SwapThreads,
                SignalFirst
  <2>2. Registered' = Registered
    BY <1>1, <2>1 DEF Registered
  <2>3. Head' = Head
    <3>1. CASE DropPool \/ Shutdown \/ CloseIdle \/ Join \/ JoinReturns
      <4>1. /\ UNCHANGED <<threads, target>>
            /\ pc[Owner] \in {"idle", "shutdown", "close", "join", "joining"}
            /\ pc'[Owner] \in {"shutdown", "close", "join", "joining", "swap"}
        BY <1>1, <3>1 DEF DropPool, Shutdown, CloseIdle, Join, JoinReturns
      <4> QED
        BY <4>1 DEF Head
    <3>2. CASE SwapThreads
      BY <1>1, <3>2 DEF SwapThreads, Head
    <3>3. CASE SignalFirst
      BY <1>1, <3>3 DEF SignalFirst, Head
    <3> QED
      BY <1>8, <3>1, <3>2, <3>3 DEF OwnerStep
  <2> QED
    BY <2>1, <2>2, <2>3, LinksStay
<1> QED
  BY <1>2, <1>3, <1>4, <1>5, <1>6, <1>7, <1>8, LifeSteps

\* The chain starts at the head and each worker passes it on before it ends.
LEMMA ChainStep == Shape /\ Counted /\ Closing /\ Linked /\ Chained /\ [Next]_vars => Chained'
<1> SUFFICES ASSUME Shape, Counted, Closing, Linked, Chained, [Next]_vars PROVE Chained'
  OBVIOUS
<1> USE PoolAssumption DEF lifeVars, listVars, Goto
<1>1. /\ Workers \subseteq Procs /\ Owner \in Procs /\ Owner \notin Workers
      /\ pc \in [Procs -> WorkerPCs \union ClientPCs] /\ Clients \subseteq Procs
      /\ next \in [Workers -> Queues] /\ thread_join \in [Workers -> BOOLEAN]
      /\ target \in [Procs -> Queues]
  BY DEF Shape, Procs
<1>2. Closing'
  BY ClosingStep
<1>3. CASE pc'[Owner] # "done"
  BY <1>2, <1>3 DEF Closing, Chained
<1>4. ASSUME UNCHANGED <<thread_join, next>>, Head' = Head,
             \A w \in Workers : pc'[w] \in {"chain", "gone"} \/ pc[w] \in {"chain", "gone"}
                                => pc'[w] = pc[w]
      PROVE  Chained'
  BY <1>4 DEF Chained
<1>5. CASE pc[Owner] # "done" /\ pc'[Owner] = "done"
  <2>1. \A w \in Workers : ~thread_join[w] /\ pc[w] \notin {"chain", "gone"}
    BY <1>5 DEF Closing
  <2>2. CASE SwapThreads
    <3>1. thread_join' = thread_join /\ \A w \in Workers : pc'[w] = pc[w]
      BY <1>1, <2>2 DEF SwapThreads
    <3> QED
      BY <2>1, <3>1 DEF Chained
  <2>3. CASE SignalFirst
    <3>1. /\ pc[Owner] = "signal" /\ \A w \in Workers : pc'[w] = pc[w]
          /\ thread_join' = [thread_join EXCEPT ![target[Owner]] = TRUE] /\ UNCHANGED target
      BY <1>1, <2>3 DEF SignalFirst
    <3>2. \A w \in Workers : thread_join'[w] => w = target[Owner]
      BY <1>1, <2>1, <3>1
    <3>3. Head' = target[Owner]
      BY <1>5, <3>1 DEF Head
    <3> QED
      BY <2>1, <3>1, <3>2, <3>3 DEF Chained
  <2>4. ASSUME NEW w \in Workers, Works(w) PROVE FALSE
    BY <1>1, <1>5, <2>4 DEF Works
  <2>5. ASSUME NEW c \in Clients, Calls(c) PROVE FALSE
    BY <1>1, <1>5, <2>5 DEF Calls, InCall
  <2>6. ASSUME NEW p \in Procs, NEW w \in Workers, Spawn(p, w) PROVE FALSE
    BY <1>1, <1>5, <2>6 DEF Spawn, Return
  <2>7. ASSUME NEW w \in Workers,
               \/ Register(w) \/ WaitShutdown(w) \/ (pc[w] = "exit" /\ Drain(w))
               \/ Unregister(w) \/ JoinNotify(w) \/ JoinWait(w) \/ Chain(w)
        PROVE  FALSE
    <3>1. \E l : pc' = [pc EXCEPT ![w] = l]
      BY <2>7 DEF Register, WaitShutdown, Drain, Unregister, JoinNotify, JoinWait, Chain
    <3> QED
      BY <1>1, <1>5, <3>1
  <2>8. ASSUME DropPool \/ Shutdown \/ CloseIdle \/ Join \/ JoinReturns PROVE FALSE
    BY <1>1, <1>5, <2>8 DEF DropPool, Shutdown, CloseIdle, Join, JoinReturns
  <2>9. ~UNCHANGED <<pc, sync, lifeVars, target, idle_queue>>
    BY <1>5
  <2> QED
    BY <2>2, <2>3, <2>4, <2>5, <2>6, <2>7, <2>8, <2>9, LifeSteps DEF OwnerStep
<1>6. CASE pc[Owner] = "done" /\ pc'[Owner] = "done"
  <2>1. sync.spawned = 0 /\ Dropping
    BY <1>6 DEF Closing, Dropping
  <2>2. \A w \in Workers : pc[w] \in {"none"} \union Unregistered
    BY <2>1, RunningCounts
  <2>3. \A p \in Procs : pc[p] # "spawn"
    <3>1. ASSUME NEW p \in Clients PROVE pc[p] # "spawn"
      BY <1>6, <2>1 DEF Closing
    <3> QED
      BY <2>2, <3>1 DEF Procs, Unregistered
  <2>4. CASE UNCHANGED <<pc, sync, lifeVars, target, idle_queue>>
    BY <1>4, <2>4 DEF Head
  <2>5. ASSUME NEW w \in Workers, JoinNotify(w) PROVE Chained'
    <3>1. /\ UNCHANGED <<thread_join, next, threads, target>>
          /\ pc[w] = "join_notify" /\ pc' = [pc EXCEPT ![w] = "join_wait"]
      BY <2>5 DEF JoinNotify
    <3>2. Head' = Head
      BY <1>6, <3>1 DEF Head
    <3> QED
      BY <1>1, <1>4, <3>1, <3>2
  <2>6. ASSUME NEW w \in Workers, JoinWait(w) PROVE Chained'
    <3>1. /\ UNCHANGED <<thread_join, next, target>> /\ pc[w] = "join_wait" /\ thread_join[w]
          /\ pc' = [pc EXCEPT ![w] = IF next[w] = NoWorker THEN "gone" ELSE "chain"]
      BY <2>6 DEF JoinWait
    <3>2. Head' = Head
      BY <1>6, <3>1 DEF Head
    <3>3. /\ \A v \in Workers \ {w} : pc'[v] = pc[v]
          /\ pc'[w] = IF next[w] = NoWorker THEN "gone" ELSE "chain"
      BY <1>1, <3>1
    <3> QED
      BY <3>1, <3>2, <3>3 DEF Chained
  <2>7. ASSUME NEW w \in Workers, Chain(w) PROVE Chained'
    <3>1. /\ UNCHANGED <<next, target>> /\ pc[w] = "chain"
          /\ pc' = [pc EXCEPT ![w] = "gone"]
          /\ thread_join' = [thread_join EXCEPT ![next[w]] = TRUE]
      BY <2>7 DEF Chain
    <3>2. Head' = Head
      BY <1>6, <3>1 DEF Head
    <3>3. /\ \A v \in Workers \ {w} : pc'[v] = pc[v]
          /\ pc'[w] = "gone" /\ thread_join[w]
          /\ \A v \in Workers : thread_join'[v] <=> thread_join[v] \/ v = next[w]
      BY <1>1, <3>1 DEF Chained
    <3> QED
      BY <3>1, <3>2, <3>3 DEF Chained
  <2>8. ASSUME NEW w \in Workers PROVE ~Works(w)
    BY <2>2 DEF Works, Busy, WorkerPCs
  <2>9. ASSUME NEW c \in Clients PROVE ~Calls(c)
    BY <2>1 DEF Calls
  <2>10. ASSUME NEW p \in Procs, NEW w \in Workers PROVE ~Spawn(p, w)
    BY <2>3 DEF Spawn
  <2>11. ASSUME NEW w \in Workers
         PROVE  ~(Register(w) \/ WaitShutdown(w) \/ (pc[w] = "exit" /\ Drain(w)) \/ Unregister(w))
    BY <2>2 DEF Register, WaitShutdown, Unregister, Unregistered
  <2>12. ~(DropPool \/ OwnerStep)
    BY <1>6 DEF DropPool, OwnerStep, Shutdown, CloseIdle, Join, JoinReturns, SwapThreads,
                SignalFirst
  <2> QED
    BY <2>4, <2>5, <2>6, <2>7, <2>8, <2>9, <2>10, <2>11, <2>12, LifeSteps
<1> QED
  BY <1>3, <1>5, <1>6

\* The whole invariant.
IInv == Accounts /\ Closing /\ Linked /\ Chained

\* It holds at the start.
LEMMA IInvInit == Init => IInv
<1> SUFFICES ASSUME Init PROVE IInv
  OBVIOUS
<1>1. Accounts
  BY AccountsInit
<1>2. /\ pc[Owner] = "idle" /\ \A w \in Workers : pc[w] = "none" /\ ~thread_join[w]
      /\ threads = NoWorker /\ sync.state = "Pending" /\ ~join_event /\ ~freed
  BY PoolAssumption DEF Init, Procs
<1>3. Closing
  BY <1>2 DEF Closing, Dropping, Announced, IdleTasksRunBeforeExit, Unregistered
<1>4. Registered = {} /\ Head = NoWorker
  BY <1>2 DEF Registered, Head
<1> QED
  BY <1>1, <1>2, <1>3, <1>4 DEF IInv, Linked, Chained

\* And every step keeps it.
LEMMA IInvStep == IInv /\ [Next]_vars => IInv'
  BY AccountsStep, ClosingStep, LinkStep, ChainStep DEF IInv, Accounts

\* What the invariant says of pointers.
LEMMA InvariantSafe == IInv => NothingDangles
<1> SUFFICES ASSUME IInv PROVE NothingDangles
  OBVIOUS
<1> USE DEF IInv, Accounts
<1>1. ASSUME NEW w \in Workers, pc[w] \in {"target", "steal"}
      PROVE  /\ Victim(w) # NoWorker
             /\ \A v \in Workers : pc[v] # "gone"
  <2>1. sync.spawned # 0
    <3>1. pc[w] \notin {"none"} \union Unregistered
      BY <1>1 DEF Unregistered
    <3> QED
      BY <3>1, RunningCounts DEF Shape, SyncWord
  <2>2. pc[Owner] \notin {"swap", "signal", "done"}
    BY <2>1 DEF Closing
  <2>3. threads # NoWorker
    BY <1>1, <2>2 DEF Linked, Registered, Head
  <2> QED
    BY <2>2, <2>3 DEF Victim, Closing
<1>2. ASSUME freed, NEW w \in Workers PROVE pc[w] \in {"none"} \union Unregistered
  <2>1. sync.spawned = 0
    BY <1>2 DEF Closing
  <2> QED
    BY <2>1, RunningCounts DEF Shape, SyncWord
<1>3. ASSUME NEW w \in Workers, pc[w] = "chain"
      PROVE  pc[next[w]] \in {"join_notify", "join_wait"} /\ ~thread_join[next[w]]
  <2> DEFINE v == next[w]
  <2>1. w \in Registered /\ v \in Registered /\ v # Head /\ v \in Workers
    BY <1>3 DEF Linked, Chained, Registered
  <2>2. ~thread_join[v]
    <3>1. ASSUME thread_join[v] PROVE FALSE
      <4>1. PICK u \in Workers : pc[u] = "gone" /\ next[u] = v
        BY <2>1, <3>1 DEF Chained
      <4>2. u \in Registered /\ v # NoWorker
        BY <2>1, <4>1, PoolAssumption DEF Registered
      <4> QED
        BY <1>3, <2>1, <4>1, <4>2 DEF Linked
    <3> QED
      BY <3>1
  <2>3. freed
    BY <1>3 DEF Closing
  <2>4. pc[v] \in {"none"} \union Unregistered
    BY <1>2, <2>1, <2>3
  <2> QED
    BY <2>1, <2>2, <2>4 DEF Chained, Registered, Unregistered
<1>4. pc[Owner] \in {"swap", "signal", "done"} => sync.state = "Shutdown" /\ sync.spawned = 0
  BY DEF Closing, Announced
<1>5. VictimsAlive
  BY <1>1 DEF VictimsAlive
<1>6. JoinIsSafe
  BY <1>2, <1>3, <1>4 DEF JoinIsSafe
<1> QED
  BY <1>5, <1>6 DEF NothingDangles

\* For any number of workers and clients: a thief always finds a victim and
\* never one whose stack is gone, drop returns only when every worker has taken
\* itself out, and the join chain signals each worker once while it waits.
THEOREM NothingEverDangles == SafeSpec => []NothingDangles
  BY IInvInit, IInvStep, InvariantSafe, PTL DEF SafeSpec

\* For any number of workers and clients: an idle task pushed to a worker before
\* drop is run before that worker leaves the pool.
THEOREM IdleTasksAreRun == SafeSpec => []IdleTasksRunBeforeExit
<1>1. IInv => IdleTasksRunBeforeExit
  BY DEF IInv, Closing
<1> QED
  BY <1>1, IInvInit, IInvStep, PTL DEF SafeSpec
-----------------------------------------------------------------------------
(* Sleep *)

\* Where a worker is awake, and where it will look at the global queue before it
\* waits.
Up == (Busy \ {"sleep"}) \union {"start"}
Looking == HasTask \union {"pop", "own", "global", "publish"}

\* The consumer of the global queue will publish what it took, and a worker
\* leaves its run buffer empty behind.
Emptied ==
    /\ consuming[NoWorker] # NoWorker => pc[consuming[NoWorker]] = "publish"
    /\ \A w \in Workers : run_buffer[w] > 0 => pc[w] \in HasTask \union {"pop"}

\* Only a worker that is up has the waking role, only one that counts itself idle
\* sleeps.
Roles ==
    sync.state # "Shutdown" =>
        /\ \A p \in Procs : is_waking[p] => p \in Workers /\ pc[p] \in Up /\ ~is_idle[p]
        /\ \A w \in Workers : pc[w] = "sleep" => is_idle[w]

\* A queued task has its notification in the word, or a thread about to put it
\* there or to look; a notification has somebody to take it, unless nobody sleeps.
Woken ==
    sync.state # "Shutdown" =>
        /\ run_queue > 0 => \/ sync.notified
                            \/ \E p \in Procs : pc[p] \in {"notify", "slow"}
                            \/ \E w \in Workers : pc[w] \in Looking
        /\ sync.notified /\ (\E w \in Workers : pc[w] = "sleep") =>
               \/ idle_event # "empty"
               \/ \E p \in Procs : pc[p] = "post"
               \/ \E w \in Workers : pc[w] \in Up

\* Tasks leave the run buffer and the global queue in the hands of a worker.
LEMMA EmptiedStep == Shape /\ Emptied /\ [Next]_vars => Emptied'
<1> SUFFICES ASSUME Shape, Emptied, [Next]_vars PROVE Emptied'
  OBVIOUS
<1> DEFINE Owning == HasTask \union {"pop"}
<1>1. /\ Workers \subseteq Procs /\ Clients \subseteq Procs /\ NoWorker \notin Procs
      /\ pc \in [Procs -> WorkerPCs \union ClientPCs] /\ consuming \in [Queues -> Queues]
      /\ run_buffer \in [Workers -> Nat] /\ Workers \intersect Clients = {}
      /\ Owner \in Clients /\ NoWorker \in Queues
  BY PoolAssumption DEF Shape, Procs, Queues
<1>2. ASSUME UNCHANGED <<pc, consuming, run_buffer>> PROVE Emptied'
  BY <1>2 DEF Emptied
<1>3. ASSUME NEW p \in Procs, NEW l, pc' = [pc EXCEPT ![p] = l],
             UNCHANGED <<consuming, run_buffer>>,
             p \in Workers => pc[p] # "publish" /\ (pc[p] \in Owning => l \in Owning)
      PROVE  Emptied'
  <2>1. /\ \A w \in Workers : run_buffer'[w] > 0 => pc'[w] \in HasTask \union {"pop"}
    BY <1>1, <1>3 DEF Emptied
  <2>2. consuming'[NoWorker] # NoWorker => pc'[consuming'[NoWorker]] = "publish"
    BY <1>1, <1>3 DEF Emptied, Queues
  <2> QED
    BY <2>1, <2>2 DEF Emptied
<1>4. ASSUME NEW w \in Workers, NEW l \in Owning, pc' = [pc EXCEPT ![w] = l],
             \A v \in Workers \ {w} : run_buffer'[v] > 0 => run_buffer[v] > 0,
             \/ consuming'[NoWorker] = NoWorker
             \/ /\ consuming'[NoWorker] = consuming[NoWorker]
                /\ pc[w] # "publish" \/ consuming[NoWorker] # w
      PROVE  Emptied'
  <2>1. /\ \A v \in Workers : run_buffer'[v] > 0 => pc'[v] \in HasTask \union {"pop"}
    BY <1>1, <1>4 DEF Emptied
  <2>2. consuming'[NoWorker] # NoWorker => pc'[consuming'[NoWorker]] = "publish"
    BY <1>1, <1>4 DEF Emptied, Queues
  <2> QED
    BY <2>1, <2>2 DEF Emptied
<1> USE DEF Goto, queueVars
<1>5. ASSUME NEW p \in Procs,
             \/ PushGlobal(p) \/ NotifyFast(p) \/ NotifySlow(p) \/ PostIdle(p) \/ SpawnFails(p)
             \/ Unspawn(p) \/ \E n \in 1..MaxBatch : Schedule(p, n)
      PROVE  Emptied'
  <2>1. /\ pc[p] \in HasTask \union {"idle"}
        /\ \E l \in {"notify", "slow", "post", "spawn", "unspawn", "push", Return(p)} :
              pc' = [pc EXCEPT ![p] = l]
        /\ UNCHANGED <<consuming, run_buffer>>
    BY <1>5 DEF PushGlobal, NotifyFast, NotifySlow, PostIdle, SpawnFails, Unspawn, Schedule,
                Return, HasTask
  <2> QED
    BY <1>1, <1>3, <2>1 DEF Return, HasTask
<1>6. ASSUME NEW p \in Procs, NEW w \in Workers, Spawn(p, w) PROVE Emptied'
  <2>1. /\ UNCHANGED <<consuming, run_buffer>> /\ pc[p] = "spawn" /\ pc[w] = "none"
        /\ pc' = [pc EXCEPT ![p] = Return(p), ![w] = "start"]
    BY <1>6 DEF Spawn
  <2>2. \A v \in Workers : /\ pc[v] = "publish" => pc'[v] = "publish"
                           /\ pc[v] \in HasTask \union {"pop"} => pc'[v] \in HasTask \union {"pop"}
    BY <1>1, <2>1 DEF Return, HasTask
  <2> QED
    BY <1>1, <2>1, <2>2 DEF Emptied, Queues
<1>7. ASSUME NEW w \in Workers,
             \/ Register(w) \/ WaitShutdown(w) \/ WaitConsume(w) \/ WaitSleep(w)
             \/ SleepReturns(w) \/ PopNothing(w) \/ Drain(w) \/ LoadSpawned(w)
             \/ Unregister(w) \/ JoinNotify(w) \/ JoinWait(w) \/ Chain(w)
      PROVE  Emptied'
  <2> USE <1>7 DEF Register, WaitShutdown, WaitConsume, WaitSleep, SleepReturns, PopNothing, Drain,
             LoadSpawned, Unregister, JoinNotify, JoinWait, Chain
  <2>1. /\ pc[w] \notin Owning \union {"publish"} /\ \E l : pc' = [pc EXCEPT ![w] = l]
        /\ UNCHANGED <<consuming, run_buffer>>
    BY DEF HasTask
  <2> QED
    BY <1>1, <1>3, <2>1
<1>8. ASSUME NEW w \in Workers, \/ PushLocal(w) \/ Run(w)
                                \/ \E n \in 1..MaxBatch : ScheduleInside(w, n)
      PROVE  Emptied'
  <2>1. /\ pc[w] # "publish" /\ \E l \in {"notify", "pop", "fill"} : pc' = [pc EXCEPT ![w] = l]
        /\ UNCHANGED <<consuming, run_buffer>>
    BY <1>8 DEF PushLocal, Run, ScheduleInside
  <2> QED
    BY <1>1, <1>3, <2>1 DEF HasTask
<1>9. ASSUME NEW w \in Workers, FillBuffer(w) \/ Migrate(w) PROVE Emptied'
  <2>1. /\ pc[w] = "fill" /\ \E l \in {"notify", "fill", "overflow"} : pc' = [pc EXCEPT ![w] = l]
        /\ UNCHANGED consuming /\ \E n : run_buffer' = [run_buffer EXCEPT ![w] = n]
    BY <1>9 DEF FillBuffer, Migrate
  <2> QED
    BY <1>1, <1>4, <2>1 DEF HasTask
<1>10. ASSUME NEW w \in Workers, PopBuffer(w) PROVE Emptied'
  <2>1. CASE run_buffer[w] = 0
    <3>1. pc[w] = "pop" /\ pc' = [pc EXCEPT ![w] = "own"] /\ UNCHANGED <<consuming, run_buffer>>
      BY <1>10, <2>1 DEF PopBuffer
    <3>2. \A v \in Workers : run_buffer'[v] > 0 => v # w /\ pc'[v] = pc[v]
      BY <1>1, <2>1, <3>1
    <3> QED
      BY <1>1, <3>1, <3>2 DEF Emptied, Queues
  <2>2. CASE run_buffer[w] # 0
    <3>1. /\ pc[w] = "pop" /\ UNCHANGED consuming
          /\ \E l \in {"slow", "notify", "run"} : pc' = [pc EXCEPT ![w] = l]
          /\ \E n : run_buffer' = [run_buffer EXCEPT ![w] = n]
      BY <1>10, <2>2 DEF PopBuffer, AfterPop
    <3> QED
      BY <1>1, <1>4, <3>1 DEF HasTask
  <2> QED
    BY <2>1, <2>2
<1>11. ASSUME NEW w \in Workers, Publish(w) PROVE Emptied'
  <2>1. /\ pc[w] = "publish"
        /\ \E l \in {"slow", "notify", "run"} : pc' = [pc EXCEPT ![w] = l]
        /\ \A v \in Workers \ {w} : run_buffer'[v] = run_buffer[v]
        /\ consuming'[NoWorker] = IF consuming[NoWorker] = w THEN NoWorker ELSE consuming[NoWorker]
    BY <1>1, <1>11 DEF Publish, AfterPop
  <2>2. \/ consuming'[NoWorker] = NoWorker
        \/ consuming'[NoWorker] = consuming[NoWorker] /\ consuming[NoWorker] # w
    BY <1>1, <2>1
  <2>3. PICK l \in {"slow", "notify", "run"} : pc' = [pc EXCEPT ![w] = l]
    BY <2>1
  <2>4. l \in Owning
    BY DEF HasTask
  <2>5. \A v \in Workers \ {w} : run_buffer'[v] > 0 => run_buffer[v] > 0
    BY <2>1
  <2> QED
    BY <1>4, <2>2, <2>3, <2>4, <2>5
<1>12. ASSUME NEW w \in Workers, NEW q \in Queues, NEW l, Consume(w, q, l),
              pc[w] \in {"own", "global", "target"}, UNCHANGED run_buffer
       PROVE  Emptied'
  <2>1. CASE TakesNone(w, l)
    BY <1>1, <1>3, <1>12, <2>1 DEF TakesNone, HasTask
  <2>2. ASSUME NEW n \in 1..(Capacity + 1), Takes(w, q, n) PROVE Emptied'
    <3>1. /\ pc' = [pc EXCEPT ![w] = "publish"] /\ consuming' = [consuming EXCEPT ![q] = w]
      BY <2>2 DEF Takes
    <3>2. consuming'[NoWorker] # NoWorker => pc'[consuming'[NoWorker]] = "publish"
      BY <1>1, <3>1 DEF Emptied, Queues
    <3>3. \A v \in Workers : run_buffer'[v] > 0 => pc'[v] \in HasTask \union {"pop"}
      BY <1>1, <1>12, <3>1 DEF Emptied, HasTask
    <3> QED
      BY <3>2, <3>3 DEF Emptied
  <2> QED
    BY <1>12, <2>1, <2>2, Consumes
<1>13. ASSUME NEW w \in Workers, ConsumeOwn(w) \/ ConsumeGlobal(w) \/ StealQueue(w)
       PROVE  Emptied'
  <2>1. /\ \E q \in Queues : \E l : Consume(w, q, l)
        /\ pc[w] \in {"own", "global", "target"} /\ UNCHANGED run_buffer
    BY <1>1, <1>13 DEF ConsumeOwn, ConsumeGlobal, StealQueue, Victim, Shape, Queues
  <2> QED
    BY <1>12, <2>1
<1>14. ASSUME NEW w \in Workers, StealBuffer(w) PROVE Emptied'
  <2>1. /\ pc[w] = "steal" /\ \E l : pc' = [pc EXCEPT ![w] = l] /\ UNCHANGED consuming
        /\ \A v \in Workers : run_buffer'[v] > 0 => run_buffer[v] > 0
    <3>1. target[w] \in Workers
      BY <1>14 DEF StealBuffer, Shape
    <3>2. /\ pc[w] = "steal" /\ \E l : pc' = [pc EXCEPT ![w] = l] /\ UNCHANGED consuming
          /\ \/ UNCHANGED run_buffer
             \/ \E n : run_buffer' = [run_buffer EXCEPT ![target[w]] = n]
          /\ run_buffer[target[w]] = 0 => UNCHANGED run_buffer
      BY <1>1, <1>14, <3>1 DEF StealBuffer
    <3>3. \A v \in Workers : run_buffer[v] = 0 => run_buffer'[v] = 0
      BY <1>1, <3>1, <3>2
    <3>4. \A v \in Workers : run_buffer[v] # 0 => run_buffer[v] > 0
      BY <1>1
    <3> QED
      BY <3>2, <3>3, <3>4
  <2>2. \A v \in Workers : run_buffer[v] > 0 => v # w
    BY <2>1 DEF Emptied, HasTask
  <2> QED
    BY <1>1, <2>1, <2>2 DEF Emptied, Queues
<1>15. ASSUME NEW w \in Workers, WaitGoIdle(w) \/ SleepDrains(w) PROVE Emptied'
  BY <1>2, <1>15 DEF WaitGoIdle, SleepDrains
<1>16. ASSUME NEW c \in Clients, WalkIdlePush(c) \/ BeginIdlePush(c) \/ Warm(c) PROVE Emptied'
  <2>1. /\ UNCHANGED <<consuming, run_buffer>>
        /\ UNCHANGED pc \/ \E l : pc' = [pc EXCEPT ![c] = l]
    BY <1>16 DEF WalkIdlePush, BeginIdlePush, Warm
  <2> QED
    BY <1>1, <1>2, <1>3, <2>1
<1>17. ASSUME DropPool \/ OwnerStep PROVE Emptied'
  <2>1. /\ UNCHANGED <<consuming, run_buffer>> /\ \E l : pc' = [pc EXCEPT ![Owner] = l]
    BY <1>17 DEF DropPool, OwnerStep, Shutdown, CloseIdle, Join, JoinReturns, SwapThreads,
                 SignalFirst
  <2> QED
    BY <1>1, <1>3, <2>1
<1>18. ASSUME UNCHANGED vars PROVE Emptied'
  BY <1>2, <1>18 DEF vars
<1> QED
  BY <1>5, <1>6, <1>7, <1>8, <1>9, <1>10, <1>11, <1>13, <1>14, <1>15, <1>16, <1>17, <1>18
     DEF Next, WorkerStep, ClientStep, CallStep, Terminated, Procs

\* A step that wakes nobody, puts nobody to sleep and calls nobody off.
Quiet ==
    /\ UNCHANGED <<is_waking, is_idle, idle_event>>
    /\ sync'.state = sync.state /\ sync'.notified = sync.notified
    /\ run_queue' = run_queue
    /\ \A w \in Workers : /\ pc[w] \in Up => pc'[w] \in Up
                          /\ pc[w] \in Looking => pc'[w] \in Looking
                          /\ pc'[w] = "sleep" => pc[w] = "sleep"
    /\ \A p \in Procs : /\ pc[p] = "post" => pc'[p] = "post"
                        /\ pc[p] \in {"notify", "slow"} => pc'[p] \in {"notify", "slow"}

\* Such a step keeps the invariant.
LEMMA QuietKeeps == Roles /\ Woken /\ Quiet => Roles' /\ Woken'
<1> SUFFICES ASSUME Roles, Woken, Quiet PROVE Roles' /\ Woken'
  OBVIOUS
<1>1. Roles'
  BY DEF Roles, Quiet
<1>2. Woken'
  BY DEF Woken, Quiet
<1> QED
  BY <1>1, <1>2

\* The steps that matter to sleepers are few.
LEMMA SleepSteps ==
    ASSUME Shape, [Next]_vars
    PROVE  \/ Quiet \/ sync'.state = "Shutdown"
           \/ \E p \in Procs : PushGlobal(p) \/ NotifyFast(p) \/ NotifySlow(p) \/ PostIdle(p)
           \/ \E w \in Workers : \/ WaitConsume(w) \/ WaitGoIdle(w) \/ WaitSleep(w)
                                 \/ SleepReturns(w) \/ ConsumeGlobal(w)
           \/ CloseIdle
<1>1. /\ sync \in SyncWord /\ Workers \subseteq Procs /\ Clients \subseteq Procs
      /\ pc \in [Procs -> WorkerPCs \union ClientPCs] /\ Workers \intersect Clients = {}
      /\ Owner \in Clients /\ sync.spawned - 1 \in Int /\ sync.spawned + 1 \in Int
  BY PoolAssumption DEF Shape, Procs, SyncWord
<1> USE DEF Up, Busy, Looking, HasTask, WorkerPCs, Unregistered
<1>2. ASSUME NEW p \in Procs, NEW l, pc' = [pc EXCEPT ![p] = l],
             UNCHANGED <<is_waking, is_idle, idle_event, run_queue>>,
             sync'.state = sync.state, sync'.notified = sync.notified,
             p \in Workers => /\ pc[p] \in Up => l \in Up
                              /\ pc[p] \in Looking => l \in Looking
                              /\ l # "sleep",
             pc[p] \notin {"post", "notify", "slow"}
      PROVE  Quiet
  <2>1. pc'[p] = l /\ \A q \in Procs \ {p} : pc'[q] = pc[q]
    BY <1>1, <1>2
  <2>2. \A w \in Workers : /\ pc[w] \in Up => pc'[w] \in Up
                           /\ pc[w] \in Looking => pc'[w] \in Looking
                           /\ pc'[w] = "sleep" => pc[w] = "sleep"
    BY <1>1, <1>2, <2>1
  <2> QED
    BY <1>2, <2>1, <2>2 DEF Quiet
<1>3. ASSUME UNCHANGED <<is_waking, is_idle, idle_event, run_queue, pc>>,
             sync'.state = sync.state, sync'.notified = sync.notified
      PROVE  Quiet
  BY <1>3 DEF Quiet
<1> USE DEF Goto, queueVars, threadVars, syncVars
<1>4. ASSUME NEW p \in Procs, SpawnFails(p) \/ Unspawn(p) \/ \E n \in 1..MaxBatch : Schedule(p, n)
      PROVE  Quiet
  <2>1. sync'.state = sync.state /\ sync'.notified = sync.notified
    <3>1. CASE Unspawn(p)
      <4>1. sync' = [sync EXCEPT !.spawned = sync.spawned - 1]
        BY <3>1 DEF Unspawn
      <4> QED
        BY <1>1, <4>1, WordAtCount
    <3> QED
      BY <1>4, <3>1 DEF SpawnFails, Schedule
  <2>2. /\ UNCHANGED <<is_waking, is_idle, idle_event, run_queue>>
        /\ pc[p] \in {"spawn", "unspawn", "run", "idle"}
        /\ \E l \in {"unspawn", "push", Return(p)} : pc' = [pc EXCEPT ![p] = l]
    BY <1>4 DEF SpawnFails, Unspawn, Schedule, Return
  <2> QED
    BY <1>2, <2>1, <2>2 DEF Return
<1>5. ASSUME NEW p \in Procs, NEW w \in Workers, Spawn(p, w) PROVE Quiet
  <2>1. /\ UNCHANGED <<is_waking, is_idle, idle_event, run_queue, sync>>
        /\ pc[p] = "spawn" /\ pc[w] = "none"
        /\ pc' = [pc EXCEPT ![p] = Return(p), ![w] = "start"]
    BY <1>5 DEF Spawn
  <2>2. /\ pc'[w] = "start" /\ pc'[p] = Return(p) /\ \A q \in Procs \ {p, w} : pc'[q] = pc[q]
    BY <1>1, <2>1
  <2>3. \A q \in Procs : pc[q] \in {"post", "notify", "slow"} => pc'[q] = pc[q]
    BY <2>1, <2>2
  <2>4. p \in Workers => pc'[p] = "run"
    BY <2>2 DEF Return
  <2>5. \A v \in Workers :
          pc'[v] = pc[v] \/ (v = p /\ pc'[v] = "run") \/ (v = w /\ pc'[v] = "start")
    BY <1>1, <2>2, <2>4
  <2> QED
    BY ZenonT(60), <2>1, <2>3, <2>5 DEF Quiet
<1>6. ASSUME NEW w \in Workers,
             \/ Register(w) \/ PopNothing(w) \/ Drain(w) \/ LoadSpawned(w) \/ PopBuffer(w)
             \/ Publish(w) \/ FillBuffer(w) \/ Migrate(w) \/ PushLocal(w) \/ Run(w)
             \/ \E n \in 1..MaxBatch : ScheduleInside(w, n)
             \/ JoinNotify(w) \/ JoinWait(w) \/ Chain(w)
      PROVE  Quiet
  <2> USE <1>6 DEF Register, PopNothing, Drain, LoadSpawned, PopBuffer, Publish, FillBuffer,
             Migrate, PushLocal, Run, ScheduleInside, AfterPop, JoinNotify, JoinWait, Chain
  <2>1. UNCHANGED <<is_waking, is_idle, idle_event, run_queue, sync>>
    OBVIOUS
  <2>2. PICK l : /\ pc' = [pc EXCEPT ![w] = l]
                 /\ pc[w] \in Up => l \in Up
                 /\ pc[w] \in Looking => l \in Looking
                 /\ l # "sleep" /\ pc[w] \notin {"post", "notify", "slow"}
    OBVIOUS
  <2>3. w \in Procs /\ sync'.state = sync.state /\ sync'.notified = sync.notified
    BY <1>1, <2>1
  <2> QED
    BY ONLY <1>2, <2>1, <2>2, <2>3
<1>7. ASSUME NEW w \in Workers, Unregister(w) PROVE Quiet
  <2>1. /\ sync' = [sync EXCEPT !.spawned = sync.spawned - 1] /\ pc[w] = "unregister"
        /\ UNCHANGED <<is_waking, is_idle, idle_event, run_queue>>
        /\ \E l \in {"join_notify", "join_wait"} : pc' = [pc EXCEPT ![w] = l]
    BY <1>7 DEF Unregister
  <2>2. sync'.state = sync.state /\ sync'.notified = sync.notified
    BY <1>1, <2>1, WordAtCount
  <2> QED
    BY <1>1, <1>2, <2>1, <2>2
<1>8. ASSUME NEW w \in Workers, ConsumeOwn(w) \/ StealQueue(w) \/ StealBuffer(w) PROVE Quiet
  <2>1. UNCHANGED <<is_waking, is_idle, idle_event, sync>>
    BY <1>8 DEF ConsumeOwn, StealQueue, StealBuffer
  <2>2. UNCHANGED run_queue
    BY <1>8, PoolAssumption DEF ConsumeOwn, StealQueue, StealBuffer, Consume
  <2>3. \E l : /\ pc' = [pc EXCEPT ![w] = l]
               /\ pc[w] \in Up => l \in Up
               /\ pc[w] \in Looking => l \in Looking
               /\ l # "sleep" /\ pc[w] \notin {"post", "notify", "slow"}
    BY <1>8 DEF ConsumeOwn, StealQueue, StealBuffer, Consume
  <2> QED
    BY <1>1, <1>2, <2>1, <2>2, <2>3
<1>9. ASSUME NEW w \in Workers, SleepDrains(w) PROVE Quiet
  BY <1>3, <1>9 DEF SleepDrains
<1>10. ASSUME NEW w \in Workers, WaitShutdown(w) PROVE sync'.state = "Shutdown"
  BY <1>10 DEF WaitShutdown
<1>11. ASSUME NEW c \in Clients, WalkIdlePush(c) \/ BeginIdlePush(c) \/ Warm(c) PROVE Quiet
  <2>1. sync'.state = sync.state /\ sync'.notified = sync.notified
    <3>1. CASE Warm(c)
      <4>1. sync' = [sync EXCEPT !.spawned = sync.spawned + 1]
        BY <3>1 DEF Warm
      <4> QED
        BY <1>1, <4>1, WordAtCount
    <3> QED
      BY <1>11, <3>1 DEF WalkIdlePush, BeginIdlePush
  <2>2. /\ UNCHANGED <<is_waking, is_idle, idle_event, run_queue>>
        /\ pc[c] \in {"idle", "walk"}
        /\ UNCHANGED pc \/ \E l : pc' = [pc EXCEPT ![c] = l]
    BY <1>11 DEF WalkIdlePush, BeginIdlePush, Warm
  <2> QED
    BY <1>1, <1>2, <1>3, <2>1, <2>2
<1>12. ASSUME DropPool \/ Join \/ JoinReturns \/ SwapThreads \/ SignalFirst PROVE Quiet
  <2>1. /\ UNCHANGED <<is_waking, is_idle, idle_event, run_queue, sync>>
        /\ pc[Owner] \in {"idle", "join", "joining", "swap", "signal"}
        /\ \E l : pc' = [pc EXCEPT ![Owner] = l]
    BY <1>1, <1>12 DEF DropPool, Join, JoinReturns, SwapThreads, SignalFirst
  <2> QED
    BY <1>1, <1>2, <2>1
<1>13. ASSUME Shutdown PROVE sync'.state = "Shutdown"
  BY <1>1, <1>13, WordAtShutdown
<1>14. ASSUME UNCHANGED vars PROVE Quiet
  BY <1>3, <1>14 DEF vars
<1> QED
  BY <1>4, <1>5, <1>6, <1>7, <1>8, <1>9, <1>10, <1>11, <1>12, <1>13, <1>14
     DEF Next, WorkerStep, ClientStep, CallStep, OwnerStep, Terminated, Procs

\* While a worker sleeps, whoever notifies finds it counted idle, or finds a
\* thread with the waking role, or a notification already there.
LEMMA SleepStep ==
    Shape /\ Counted /\ OneWakingThread /\ Closing /\ Emptied /\ Roles /\ Woken /\ [Next]_vars
        => Roles' /\ Woken'
<1> SUFFICES ASSUME Shape, Counted, OneWakingThread, Closing, Emptied, Roles, Woken, [Next]_vars
             PROVE  Roles' /\ Woken'
  OBVIOUS
<1>1. /\ sync \in SyncWord /\ Workers \subseteq Procs /\ Workers \intersect Clients = {}
      /\ pc \in [Procs -> WorkerPCs \union ClientPCs] /\ is_waking \in [Procs -> BOOLEAN]
      /\ is_idle \in [Workers -> BOOLEAN] /\ run_queue \in Nat /\ \A p \in Procs : hold[p] \in Nat
  BY PoolAssumption DEF Shape, Procs
<1>2. CASE sync'.state = "Shutdown"
  BY <1>2 DEF Roles, Woken
<1> USE DEF Up, Busy, Looking, HasTask, WorkerPCs, Unregistered, Goto, threadVars, syncVars
<1>3. ASSUME NEW p \in Procs, NEW l \in Up, pc' = [pc EXCEPT ![p] = l], pc[p] \in Up,
             UNCHANGED <<is_waking, is_idle>>, sync' = sync
      PROVE  Roles'
  BY <1>1, <1>3 DEF Roles
<1>4. ASSUME NEW p \in Procs, p \notin Workers, NEW l, pc' = [pc EXCEPT ![p] = l],
             UNCHANGED <<is_waking, is_idle>>, sync' = sync
      PROVE  Roles'
  BY <1>1, <1>4 DEF Roles
<1>5. ASSUME NEW p \in Procs, PushGlobal(p) PROVE Roles' /\ Woken'
  <2>1. /\ pc[p] = "push" /\ pc' = [pc EXCEPT ![p] = "notify"] /\ sync' = sync
        /\ UNCHANGED <<idle_event, is_waking, is_idle>>
    BY <1>5 DEF PushGlobal
  <2>2. Roles'
    BY <1>3, <1>4, <2>1
  <2>3. pc'[p] = "notify" /\ \A q \in Procs \ {p} : pc'[q] = pc[q]
    BY <1>1, <2>1
  <2>4. Woken'
    BY <1>1, <2>1, <2>3 DEF Woken
  <2> QED
    BY <2>2, <2>4
<1>6. ASSUME NEW p \in Procs, NotifyFast(p) PROVE Roles' /\ Woken'
  <2>1. /\ pc[p] = "notify" /\ pc' = [pc EXCEPT ![p] = IF sync.notified THEN Return(p) ELSE "slow"]
        /\ sync' = sync /\ UNCHANGED <<idle_event, is_waking, is_idle, run_queue>>
    BY <1>6 DEF NotifyFast, queueVars
  <2>2. Roles'
    BY <1>3, <1>4, <2>1 DEF Return
  <2>3. /\ pc'[p] = IF sync.notified THEN Return(p) ELSE "slow"
        /\ \A q \in Procs \ {p} : pc'[q] = pc[q]
    BY <1>1, <2>1
  <2>4. Woken'
    BY <1>1, <2>1, <2>3 DEF Woken, Return
  <2> QED
    BY <2>2, <2>4
<1>7. ASSUME NEW p \in Procs, PostIdle(p) PROVE Roles' /\ Woken'
  <2>1. /\ pc[p] = "post" /\ pc' = [pc EXCEPT ![p] = Return(p)] /\ idle_event' # "empty"
        /\ sync' = sync /\ UNCHANGED <<is_waking, is_idle, run_queue>>
    BY <1>7 DEF PostIdle, queueVars
  <2>2. Roles'
    BY <1>3, <1>4, <2>1 DEF Return
  <2>3. pc'[p] = Return(p) /\ \A q \in Procs \ {p} : pc'[q] = pc[q]
    BY <1>1, <2>1
  <2>4. Woken'
    BY <1>1, <2>1, <2>3 DEF Woken, Return
  <2> QED
    BY <2>2, <2>4
<1>8. ASSUME NEW w \in Workers, SleepReturns(w) PROVE Roles' /\ Woken'
  <2>1. /\ pc[w] = "sleep" /\ pc' = [pc EXCEPT ![w] = "wait"]
        /\ sync' = sync /\ UNCHANGED <<is_waking, is_idle, run_queue>>
    BY <1>8 DEF SleepReturns, queueVars
  <2>2. pc'[w] = "wait" /\ \A q \in Procs \ {w} : pc'[q] = pc[q]
    BY <1>1, <2>1
  <2>3. Roles'
    BY <1>1, <2>1, <2>2 DEF Roles
  <2>4. Woken'
    BY <1>1, <2>1, <2>2 DEF Woken
  <2> QED
    BY <2>3, <2>4
<1>9. ASSUME NEW w \in Workers, WaitSleep(w) PROVE Roles' /\ Woken'
  <2>1. /\ pc[w] = "wait" /\ pc' = [pc EXCEPT ![w] = "sleep"] /\ ~sync.notified /\ is_idle[w]
        /\ sync' = sync /\ UNCHANGED <<is_waking, is_idle, run_queue>>
    BY <1>9 DEF WaitSleep, queueVars
  <2>2. pc'[w] = "sleep" /\ \A q \in Procs \ {w} : pc'[q] = pc[q]
    BY <1>1, <2>1
  <2>3. Roles'
    BY <1>1, <2>1, <2>2 DEF Roles
  <2>4. Woken'
    BY <1>1, <2>1, <2>2 DEF Woken
  <2> QED
    BY <2>3, <2>4
<1>10. ASSUME NEW w \in Workers, WaitGoIdle(w) PROVE Roles' /\ Woken'
  <2>1. /\ ~sync.notified /\ sync'.notified = sync.notified /\ sync.state # "Shutdown"
        /\ UNCHANGED <<pc, run_queue>>
        /\ is_waking' = [is_waking EXCEPT ![w] = FALSE] /\ is_idle' = [is_idle EXCEPT ![w] = TRUE]
    BY <1>1, <1>10, WordAtGoIdle DEF WaitGoIdle, queueVars
  <2>2. Roles'
    BY <1>1, <2>1 DEF Roles
  <2>3. Woken'
    BY <1>1, <2>1 DEF Woken
  <2> QED
    BY <2>2, <2>3
<1>11. ASSUME NEW w \in Workers, WaitConsume(w) PROVE Roles' /\ Woken'
  <2>1. /\ pc[w] = "wait" /\ pc' = [pc EXCEPT ![w] = "pop"] /\ sync.state # "Shutdown"
        /\ sync'.notified = FALSE /\ is_idle' = [is_idle EXCEPT ![w] = FALSE]
        /\ \A q \in Procs \ {w} : is_waking'[q] = is_waking[q]
    BY <1>1, <1>11, WordAtConsume DEF WaitConsume
  <2>2. pc'[w] = "pop" /\ \A q \in Procs \ {w} : pc'[q] = pc[q]
    BY <1>1, <2>1
  <2>3. Roles'
    BY <1>1, <2>1, <2>2 DEF Roles
  <2>4. Woken'
    BY <1>1, <2>1, <2>2 DEF Woken
  <2> QED
    BY <2>3, <2>4
<1>12. ASSUME NEW w \in Workers, ConsumeGlobal(w) PROVE Roles' /\ Woken'
  <2>1. /\ pc[w] = "global" /\ sync' = sync
        /\ \E l \in {"load", "publish"} : pc' = [pc EXCEPT ![w] = l]
        /\ UNCHANGED <<is_waking, is_idle, idle_event>>
    BY <1>12 DEF ConsumeGlobal, Consume
  <2>2. Roles'
    BY <1>1, <1>3, <2>1
  <2>3. pc'[w] \in {"load", "publish"} /\ \A q \in Procs \ {w} : pc'[q] = pc[q]
    BY <1>1, <2>1
  <2>4. \/ run_queue' = 0 \/ pc'[w] = "publish"
        \/ \E v \in Workers : pc[v] = "publish" /\ v # w
    <3>1. CASE run_queue = 0
      BY <1>12, <3>1 DEF ConsumeGlobal, Consume, Size
    <3>2. CASE consuming[NoWorker] # NoWorker
      BY <1>1, <2>1, <3>2 DEF Emptied, Shape, Queues
    <3>3. CASE run_queue # 0 /\ consuming[NoWorker] = NoWorker
      BY <1>1, <1>12, <3>3 DEF ConsumeGlobal, Consume, Size
    <3> QED
      BY <3>1, <3>2, <3>3
  <2>5. Woken'
    BY <1>1, <2>1, <2>3, <2>4 DEF Woken
  <2> QED
    BY <2>2, <2>5
<1>13. ASSUME CloseIdle PROVE Roles' /\ Woken'
  <2>1. sync' = sync /\ sync.state = "Shutdown"
    BY <1>13 DEF CloseIdle, Closing, Announced
  <2> QED
    BY <1>2, <2>1
<1>14. ASSUME NEW p \in Procs, NotifySlow(p), sync.state # "Shutdown" PROVE Roles' /\ Woken'
  <2> DEFINE can_wake == is_waking[p] \/ sync.state = "Pending"
             wake == can_wake /\ sync.idle > 0
             l == IF wake THEN "post"
                  ELSE IF can_wake /\ ~wake /\ sync.spawned < max_threads THEN "spawn"
                  ELSE Return(p)
  <2>1. /\ sync'.notified = TRUE /\ pc[p] = "slow"
        /\ pc' = [pc EXCEPT ![p] = l]
        /\ is_waking' = [is_waking EXCEPT ![p] = FALSE]
        /\ UNCHANGED <<is_idle, idle_event, run_queue>>
    BY <1>1, <1>14, WordAtNotify DEF NotifySlow, queueVars
  <2>2. pc'[p] = l /\ \A q \in Procs \ {p} : pc'[q] = pc[q]
    BY <1>1, <2>1
  <2>3. \A q \in Procs : is_waking'[q] <=> is_waking[q] /\ q # p
    BY <1>1, <2>1
  <2>4. l \in {"post", "spawn", Return(p)} /\ (wake => l = "post")
    OBVIOUS
  <2> HIDE DEF l
  <2>5. Roles'
    BY <1>1, <1>14, <2>1, <2>2, <2>3, <2>4 DEF Roles, Return
  <2>6. ASSUME NEW w \in Workers, pc'[w] = "sleep"
        PROVE  \/ idle_event # "empty"
               \/ \E q \in Procs : pc'[q] = "post"
               \/ \E v \in Workers : pc'[v] \in Up
    <3>1. pc[w] = "sleep" /\ w # p
      BY <1>1, <2>2, <2>4, <2>6 DEF Return
    <3>2. CASE p \in Workers
      BY <2>2, <2>4, <3>2 DEF Return
    <3>3. CASE wake
      BY <2>2, <2>4, <3>3
    <3>4. CASE p \notin Workers /\ ~wake
      <4>1. ~is_waking[p]
        BY <1>14, <3>4 DEF Roles
      <4>2. sync.idle > 0
        <5>1. w \in Idle
          BY <1>14, <3>1 DEF Roles, Idle
        <5>2. Cardinality(Idle) # 0
          BY <5>1, ThreadSets, FS_EmptySet
        <5> QED
          BY <1>14, <5>2, ThreadSets DEF Counted
      <4>3. sync.state \in {"Signaled", "Waking"}
        BY <1>1, <1>14, <3>4, <4>1, <4>2 DEF SyncWord, SyncStates
      <4>4. CASE sync.state = "Waking"
        <5>1. PICK q \in Procs : is_waking[q]
          BY <4>4 DEF OneWakingThread
        <5>2. q \in Workers /\ pc[q] \in Up /\ q # p
          BY <1>14, <3>4, <5>1 DEF Roles
        <5> QED
          BY <2>2, <5>1, <5>2
      <4>5. CASE sync.state = "Signaled"
        <5>1. sync.notified
          BY <4>5 DEF OneWakingThread
        <5>2. \/ idle_event # "empty"
              \/ \E q \in Procs : pc[q] = "post"
              \/ \E v \in Workers : pc[v] \in Up
          BY <1>14, <3>1, <5>1 DEF Woken
        <5> QED
          BY <1>1, <2>1, <2>2, <3>4, <5>2
      <4> QED
        BY <4>3, <4>4, <4>5
    <3> QED
      BY <3>2, <3>3, <3>4
  <2>7. Woken'
    BY <2>1, <2>6 DEF Woken
  <2> QED
    BY <2>5, <2>7
<1>15. ASSUME NEW p \in Procs, NotifySlow(p), sync.state = "Shutdown" PROVE sync'.state = "Shutdown"
  BY <1>15 DEF NotifySlow
<1> QED
  BY <1>2, <1>5, <1>6, <1>7, <1>8, <1>9, <1>10, <1>11, <1>12, <1>13, <1>14, <1>15,
     SleepSteps, QuietKeeps

\* For any number of workers and clients and any buffer capacity: while the pool
\* is quiescent no task is left in the global queue or in a run buffer.  notify()
\* may return early, or give up the waking role, because somebody awake or a
\* wake-up on its way answers for every task.
THEOREM NothingIsStranded == SafeSpec => []NoStrandedTask
<1>1. Init => IInv /\ Emptied /\ Roles /\ Woken
  <2>1. Init => Emptied /\ Roles /\ Woken
    BY PoolAssumption DEF Init, Emptied, Roles, Woken, Queues, Procs
  <2> QED
    BY <2>1, IInvInit
<1>2. IInv /\ Emptied /\ Roles /\ Woken /\ [Next]_vars => (IInv /\ Emptied /\ Roles /\ Woken)'
  BY IInvStep, EmptiedStep, SleepStep DEF IInv, Accounts
<1>3. IInv /\ Emptied /\ Roles /\ Woken => NoStrandedTask
  <2> SUFFICES ASSUME IInv, Emptied, Roles, Woken, Quiescent
               PROVE  run_queue = 0 /\ \A w \in Workers : run_buffer[w] = 0
    BY DEF NoStrandedTask
  <2>1. run_queue \in Nat /\ run_buffer \in [Workers -> Nat] /\ Owner \in Clients
    BY PoolAssumption DEF IInv, Accounts, Shape
  <2>2. \A p \in Procs : pc[p] \notin {"notify", "slow", "post"}
    BY DEF Quiescent, Procs
  <2>3. \A w \in Workers : pc[w] \notin Looking \union Up
    BY DEF Quiescent, Looking, Up, Busy, HasTask, WorkerPCs
  <2>4. \E w \in Workers : pc[w] = "sleep"
    <3>1. Head = threads
      BY <2>1 DEF Quiescent, Head
    <3>2. threads \in Registered
      BY <3>1 DEF Quiescent, IInv, Linked
    <3> QED
      BY <3>2 DEF Quiescent, Registered
  <2>5. run_queue = 0
    BY <2>1, <2>2, <2>3, <2>4 DEF Quiescent, Woken
  <2>6. \A w \in Workers : run_buffer[w] = 0
    BY <2>1, <2>3 DEF Emptied, Looking
  <2> QED
    BY <2>5, <2>6
<1> QED
  BY <1>1, <1>2, <1>3, PTL DEF SafeSpec
=============================================================================
