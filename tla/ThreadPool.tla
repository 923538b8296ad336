----------------------------- MODULE ThreadPool -----------------------------
(***************************************************************************)
(* The work-stealing pool of src/threading/ThreadPool.rs: the packed Sync  *)
(* word, the hand-over of the "waking" role, the workers' search for work, *)
(* spawning that may fail, and shutdown with the join chain.               *)
(*                                                                         *)
(* One step per atomic access to shared memory.  A compare_exchange loop   *)
(* on `sync' is one step on its current value (a failed exchange reloads   *)
(* and retries).  The parts with modules of their own are used here        *)
(* through what they promise: the events are one-token events              *)
(* (PoolEvent), a run queue is a pool of nodes with one consumer at a time *)
(* (NodeQueue), and a run buffer a bounded pool whose owner adds and from  *)
(* which anybody takes (RunBuffer).  Tasks are alike, so queues and        *)
(* buffers are counts.                                                     *)
(***************************************************************************)
EXTENDS Integers, FiniteSets, FiniteSetsExt

CONSTANTS Workers,          \* OS threads the pool may get; max_threads of them
          Clients,          \* threads that call into the pool from outside
          Owner,            \* the client that drops the pool
          NoWorker,         \* the null *mut Thread
          Capacity,         \* size of a run buffer; 256 in the code
          MaxTasks,         \* bound on tasks and idle pushes together in a behaviour
          MaxBatch,         \* bound on the tasks of one schedule()
          MaxIdlePushes     \* bound on push_idle_task_to_each_thread calls

ASSUME PoolAssumption ==
    /\ IsFiniteSet(Workers) /\ Workers # {}
    /\ IsFiniteSet(Clients) /\ Owner \in Clients
    /\ Workers \intersect Clients = {}
    /\ NoWorker \notin Workers \union Clients
    /\ Capacity \in Nat \ {0} /\ Capacity % 2 = 0
    /\ MaxTasks \in Nat /\ MaxBatch \in Nat /\ MaxIdlePushes \in Nat

VARIABLES sync,             \* [idle, spawned, notified, state]
          idle_event,       \* token of the event idle workers sleep on
          join_event,       \* whether the pool's join_event is notified
          threads,          \* head of the stack of registered workers
          next,             \* Thread.next
          target,           \* Thread.target, where the worker's last steal stopped
          thread_join,      \* whether Thread.join_event is notified
          run_queue,        \* tasks in the global queue
          local_queue,      \* tasks in each worker's run_queue
          consuming,        \* who holds the consumer of each queue
          run_buffer,       \* tasks in each worker's run buffer
          idle_queue,       \* whether a worker's idle queue has a task
          pc,               \* where each thread is
          is_waking,        \* the thread is the "waking thread"
          is_idle,          \* the worker counted itself idle in this wait()
          hold,             \* tasks taken out of one place and not yet in another
          num_threads,      \* workers a steal has still to visit
          freed,            \* the owner's drop has returned
          scheduled,        \* tasks scheduled so far
          executed,         \* tasks run so far
          idle_pushes       \* push_idle_task_to_each_thread calls so far

syncVars == <<sync, idle_event, join_event>>
listVars == <<threads, next, target, thread_join>>
queueVars == <<run_queue, local_queue, consuming, run_buffer>>
threadVars == <<is_waking, is_idle, hold, num_threads>>
ghostVars == <<freed, scheduled, executed, idle_pushes>>
vars == <<syncVars, listVars, queueVars, idle_queue, pc, threadVars, ghostVars>>

Procs == Workers \union Clients

max_threads == Cardinality(Workers)

\* The queues: the pool's own and one per worker, named after its owner.
Queues == Workers \union {NoWorker}

SyncStates == {"Pending", "Signaled", "Waking", "Shutdown"}

WorkerPCs == {"none", "start", "wait", "sleep", "pop", "own", "global", "publish",
              "load", "target", "steal", "run", "push", "fill", "overflow",
              "notify", "slow", "post", "spawn", "unspawn", "after", "exit",
              "unregister", "join_notify", "join_wait", "chain", "gone"}

ClientPCs == {"idle", "push", "walk", "notify", "slow", "post", "spawn", "unspawn",
              "shutdown", "close", "join", "joining", "swap", "signal", "done"}

TypeOK ==
    /\ sync \in [idle : 0..max_threads, spawned : 0..max_threads,
                 notified : BOOLEAN, state : SyncStates]
    /\ idle_event \in {"empty", "posted", "shutdown"}
    /\ join_event \in BOOLEAN
    /\ threads \in Queues
    /\ next \in [Workers -> Queues]
    /\ target \in [Procs -> Queues]
    /\ thread_join \in [Workers -> BOOLEAN]
    /\ run_queue \in 0..MaxTasks
    /\ local_queue \in [Workers -> 0..MaxTasks]
    /\ consuming \in [Queues -> Queues]
    /\ run_buffer \in [Workers -> 0..Capacity]
    /\ idle_queue \in [Workers -> BOOLEAN]
    /\ \A w \in Workers : pc[w] \in WorkerPCs
    /\ \A c \in Clients : pc[c] \in ClientPCs
    /\ is_waking \in [Procs -> BOOLEAN]
    /\ is_idle \in [Workers -> BOOLEAN]
    /\ hold \in [Procs -> 0..MaxTasks]
    /\ num_threads \in [Workers -> 0..max_threads]
    /\ freed \in BOOLEAN
    /\ scheduled \in 0..MaxTasks
    /\ executed \in 0..MaxTasks
    /\ idle_pushes \in 0..MaxIdlePushes

Init ==
    /\ sync = [idle |-> 0, spawned |-> 0, notified |-> FALSE, state |-> "Pending"]
    /\ idle_event = "empty"
    /\ join_event = FALSE
    /\ threads = NoWorker
    /\ next = [w \in Workers |-> NoWorker]
    /\ target = [p \in Procs |-> NoWorker]
    /\ thread_join = [w \in Workers |-> FALSE]
    /\ run_queue = 0
    /\ local_queue = [w \in Workers |-> 0]
    /\ consuming = [q \in Queues |-> NoWorker]
    /\ run_buffer = [w \in Workers |-> 0]
    /\ idle_queue = [w \in Workers |-> FALSE]
    /\ pc = [p \in Procs |-> IF p \in Workers THEN "none" ELSE "idle"]
    /\ is_waking = [p \in Procs |-> FALSE]
    /\ is_idle = [w \in Workers |-> FALSE]
    /\ hold = [p \in Procs |-> 0]
    /\ num_threads = [w \in Workers |-> 0]
    /\ freed = FALSE
    /\ scheduled = 0
    /\ executed = 0
    /\ idle_pushes = 0

\* Thread p moves on to location l.
Goto(p, l) == pc' = [pc EXCEPT ![p] = l]

\* Where a call of notify() returns to.
Return(p) == IF p \in Workers THEN "run" ELSE "idle"

\* The owner is in drop, which takes the pool exclusively.
Dropping == pc[Owner] \in {"shutdown", "close", "join", "joining", "swap", "signal", "done"}

-----------------------------------------------------------------------------
(* schedule_impl *)

\* schedule(), by a client or by a running task: the batch is linked up, then
\* pushed to the global queue.
Schedule(p, n) ==
    /\ pc[p] = Return(p)
    /\ p \in Clients => ~Dropping
    /\ scheduled + idle_pushes + n <= MaxTasks
    /\ scheduled' = scheduled + n
    /\ hold' = [hold EXCEPT ![p] = n]
    /\ Goto(p, "push")
    /\ UNCHANGED <<syncVars, listVars, queueVars, idle_queue, is_waking, is_idle,
                   num_threads, freed, executed, idle_pushes>>

PushGlobal(p) ==
    /\ pc[p] = "push"
    /\ run_queue' = run_queue + hold[p]
    /\ hold' = [hold EXCEPT ![p] = 0]
    /\ Goto(p, "notify")
    /\ UNCHANGED <<syncVars, listVars, local_queue, consuming, run_buffer, idle_queue,
                   is_waking, is_idle, num_threads, ghostVars>>

\* schedule_inside_thread_pool(): a running task schedules a batch.
ScheduleInside(w, n) ==
    /\ pc[w] = "run"
    /\ scheduled + idle_pushes + n <= MaxTasks
    /\ scheduled' = scheduled + n
    /\ hold' = [hold EXCEPT ![w] = n]
    /\ Goto(w, "fill")
    /\ UNCHANGED <<syncVars, listVars, queueVars, idle_queue, is_waking, is_idle,
                   num_threads, freed, executed, idle_pushes>>

\* Buffer::push while there is room: fill up, publish the tail, look again.
FillBuffer(w) ==
    /\ pc[w] = "fill"
    /\ run_buffer[w] < Capacity
    /\ LET n == Min({hold[w], Capacity - run_buffer[w]}) IN
       /\ run_buffer' = [run_buffer EXCEPT ![w] = @ + n]
       /\ hold' = [hold EXCEPT ![w] = @ - n]
       /\ Goto(w, IF hold[w] = n THEN "notify" ELSE "fill")
    /\ UNCHANGED <<syncVars, listVars, run_queue, local_queue, consuming, idle_queue,
                   is_waking, is_idle, num_threads, ghostVars>>

\* Buffer::push on a full buffer: claim half of it and fail with Overflow.
Migrate(w) ==
    /\ pc[w] = "fill"
    /\ run_buffer[w] = Capacity
    /\ run_buffer' = [run_buffer EXCEPT ![w] = @ - Capacity \div 2]
    /\ hold' = [hold EXCEPT ![w] = @ + Capacity \div 2]
    /\ Goto(w, "overflow")
    /\ UNCHANGED <<syncVars, listVars, run_queue, local_queue, consuming, idle_queue,
                   is_waking, is_idle, num_threads, ghostVars>>

PushLocal(w) ==
    /\ pc[w] = "overflow"
    /\ local_queue' = [local_queue EXCEPT ![w] = @ + hold[w]]
    /\ hold' = [hold EXCEPT ![w] = 0]
    /\ Goto(w, "notify")
    /\ UNCHANGED <<syncVars, listVars, run_queue, consuming, run_buffer, idle_queue,
                   is_waking, is_idle, num_threads, ghostVars>>

-----------------------------------------------------------------------------
(* notify *)

\* The fast path: a read-modify-write that returns if already notified.
NotifyFast(p) ==
    /\ pc[p] = "notify"
    /\ Goto(p, IF sync.notified THEN Return(p) ELSE "slow")
    /\ UNCHANGED <<syncVars, listVars, queueVars, idle_queue, threadVars, ghostVars>>

\* Faulty: marks the word Signaled and does not wake the idle thread.
NotifySlowQuietly(p) ==
    /\ pc[p] = "slow"
    /\ LET can_wake == is_waking[p] \/ sync.state = "Pending"
           wake == can_wake /\ sync.idle > 0
           spawn == can_wake /\ ~wake /\ sync.spawned < max_threads
       IN  IF sync.state = "Shutdown"
           THEN Goto(p, Return(p)) /\ UNCHANGED sync
           ELSE /\ sync' = [sync EXCEPT
                     !.notified = TRUE,
                     !.spawned = IF spawn THEN @ + 1 ELSE @,
                     !.state = IF wake \/ spawn THEN "Signaled"
                               ELSE IF is_waking[p] THEN "Pending" ELSE @]
                /\ Goto(p, IF spawn THEN "spawn" ELSE Return(p))
    /\ is_waking' = [is_waking EXCEPT ![p] = FALSE]
    /\ UNCHANGED <<idle_event, join_event, listVars, queueVars, idle_queue, is_idle,
                   hold, num_threads, ghostVars>>

\* Faulty: a waking thread that finds nobody to wake leaves the word Waking.
NotifySlowKeepsRole(p) ==
    /\ pc[p] = "slow"
    /\ LET can_wake == is_waking[p] \/ sync.state = "Pending"
           wake == can_wake /\ sync.idle > 0
           spawn == can_wake /\ ~wake /\ sync.spawned < max_threads
       IN  IF sync.state = "Shutdown"
           THEN Goto(p, Return(p)) /\ UNCHANGED sync
           ELSE /\ sync' = [sync EXCEPT
                     !.notified = TRUE,
                     !.spawned = IF spawn THEN @ + 1 ELSE @,
                     !.state = IF wake \/ spawn THEN "Signaled" ELSE @]
                /\ Goto(p, IF wake THEN "post" ELSE IF spawn THEN "spawn" ELSE Return(p))
    /\ is_waking' = [is_waking EXCEPT ![p] = FALSE]
    /\ UNCHANGED <<idle_event, join_event, listVars, queueVars, idle_queue, is_idle,
                   hold, num_threads, ghostVars>>

NotifySlow(p) ==
    /\ pc[p] = "slow"
    /\ LET can_wake == is_waking[p] \/ sync.state = "Pending"
           wake == can_wake /\ sync.idle > 0
           spawn == can_wake /\ ~wake /\ sync.spawned < max_threads
       IN  IF sync.state = "Shutdown"
           THEN Goto(p, Return(p)) /\ UNCHANGED sync
           ELSE /\ sync' = [sync EXCEPT
                     !.notified = TRUE,
                     !.spawned = IF spawn THEN @ + 1 ELSE @,
                     !.state = IF wake \/ spawn THEN "Signaled"
                               ELSE IF is_waking[p] THEN "Pending" ELSE @]
                /\ Goto(p, IF wake THEN "post" ELSE IF spawn THEN "spawn" ELSE Return(p))
    /\ is_waking' = [is_waking EXCEPT ![p] = FALSE]
    /\ UNCHANGED <<idle_event, join_event, listVars, queueVars, idle_queue, is_idle,
                   hold, num_threads, ghostVars>>

\* self.idle_event.notify()
PostIdle(p) ==
    /\ pc[p] = "post"
    /\ idle_event' = IF idle_event = "shutdown" THEN "shutdown" ELSE "posted"
    /\ Goto(p, Return(p))
    /\ UNCHANGED <<sync, join_event, listVars, queueVars, idle_queue, threadVars, ghostVars>>

Spawn(p, w) ==
    /\ pc[p] = "spawn"
    /\ pc[w] = "none"
    /\ pc' = [pc EXCEPT ![p] = Return(p), ![w] = "start"]
    /\ UNCHANGED <<syncVars, listVars, queueVars, idle_queue, threadVars, ghostVars>>

\* Faulty: the failed thread stays counted.
SpawnFailsCounted(p) ==
    /\ pc[p] = "spawn"
    /\ Goto(p, Return(p))
    /\ UNCHANGED <<syncVars, listVars, queueVars, idle_queue, threadVars, ghostVars>>

\* The OS refuses the thread.
SpawnFails(p) ==
    /\ pc[p] = "spawn"
    /\ Goto(p, "unspawn")
    /\ UNCHANGED <<syncVars, listVars, queueVars, idle_queue, threadVars, ghostVars>>

\* unregister(pool, null): the count goes back down.  The caller is a client,
\* which excludes a shutdown, or a worker, which is counted itself: the thread
\* that fails to spawn is never the last one.
Unspawn(p) ==
    /\ pc[p] = "unspawn"
    /\ sync' = [sync EXCEPT !.spawned = @ - 1]
    /\ join_event' = (join_event \/ (sync.state = "Shutdown" /\ sync.spawned = 1))
    /\ Goto(p, Return(p))
    /\ UNCHANGED <<idle_event, listVars, queueVars, idle_queue, threadVars, ghostVars>>

\* warm(): spawn ahead of any work; one turn of its loop.
Warm(c) ==
    /\ pc[c] = "idle"
    /\ ~Dropping
    /\ sync.spawned < max_threads
    /\ sync' = [sync EXCEPT !.spawned = @ + 1]
    /\ Goto(c, "spawn")
    /\ UNCHANGED <<idle_event, join_event, listVars, queueVars, idle_queue, threadVars,
                   ghostVars>>

-----------------------------------------------------------------------------
(* push_idle_task_to_each_thread *)

BeginIdlePush(c) ==
    /\ pc[c] = "idle"
    /\ ~Dropping
    /\ idle_pushes < MaxIdlePushes
    /\ scheduled + idle_pushes < MaxTasks
    /\ idle_pushes' = idle_pushes + 1
    /\ target' = [target EXCEPT ![c] = threads]
    /\ Goto(c, "walk")
    /\ UNCHANGED <<syncVars, threads, next, thread_join, queueVars, idle_queue,
                   threadVars, freed, scheduled, executed>>

\* The walk ends with wake_all(), which changes nothing in this model: a
\* sleeping worker may look at its idle queue whenever it has a task.
WalkIdlePush(c) ==
    /\ pc[c] = "walk"
    /\ IF target[c] = NoWorker
       THEN Goto(c, "idle") /\ UNCHANGED <<target, idle_queue>>
       ELSE /\ idle_queue' = [idle_queue EXCEPT ![target[c]] = TRUE]
            /\ target' = [target EXCEPT ![c] = next[target[c]]]
            /\ UNCHANGED pc
    /\ UNCHANGED <<syncVars, threads, next, thread_join, queueVars, threadVars, ghostVars>>

-----------------------------------------------------------------------------
(* Thread::run: registration and wait() *)

Register(w) ==
    /\ pc[w] = "start"
    /\ next' = [next EXCEPT ![w] = threads]
    /\ threads' = w
    /\ Goto(w, "wait")
    /\ UNCHANGED <<syncVars, target, thread_join, queueVars, idle_queue, threadVars, ghostVars>>

\* Faulty: leaves without a last look at the idle queue.
WaitShutdownAtOnce(w) ==
    /\ pc[w] = "wait"
    /\ sync.state = "Shutdown"
    /\ Goto(w, "unregister")
    /\ UNCHANGED <<syncVars, listVars, queueVars, idle_queue, threadVars, ghostVars>>

\* Faulty: takes the shutdown for a notification.
WaitShutdownIgnored(w) ==
    /\ pc[w] = "wait"
    /\ sync.state = "Shutdown"
    /\ Goto(w, "pop")
    /\ UNCHANGED <<syncVars, listVars, queueVars, idle_queue, threadVars, ghostVars>>

WaitShutdown(w) ==
    /\ pc[w] = "wait"
    /\ sync.state = "Shutdown"
    /\ Goto(w, "exit")
    /\ UNCHANGED <<syncVars, listVars, queueVars, idle_queue, threadVars, ghostVars>>

WaitConsume(w) ==
    /\ pc[w] = "wait"
    /\ sync.state # "Shutdown"
    /\ sync.notified
    /\ sync' = [sync EXCEPT !.notified = FALSE,
                            !.idle = IF is_idle[w] THEN @ - 1 ELSE @,
                            !.state = IF @ = "Signaled" THEN "Waking" ELSE @]
    /\ is_waking' = [is_waking EXCEPT ![w] = @ \/ sync.state = "Signaled"]
    /\ is_idle' = [is_idle EXCEPT ![w] = FALSE]
    /\ Goto(w, "pop")
    /\ UNCHANGED <<idle_event, join_event, listVars, queueVars, idle_queue, hold,
                   num_threads, ghostVars>>

\* Faulty: goes idle without giving the waking role back.
WaitGoIdleWaking(w) ==
    /\ pc[w] = "wait"
    /\ sync.state # "Shutdown"
    /\ ~sync.notified
    /\ ~is_idle[w]
    /\ sync' = [sync EXCEPT !.idle = @ + 1]
    /\ is_waking' = [is_waking EXCEPT ![w] = FALSE]
    /\ is_idle' = [is_idle EXCEPT ![w] = TRUE]
    /\ UNCHANGED <<idle_event, join_event, listVars, queueVars, idle_queue, pc, hold,
                   num_threads, ghostVars>>

WaitGoIdle(w) ==
    /\ pc[w] = "wait"
    /\ sync.state # "Shutdown"
    /\ ~sync.notified
    /\ ~is_idle[w]
    /\ sync' = [sync EXCEPT !.idle = @ + 1,
                            !.state = IF is_waking[w] THEN "Pending" ELSE @]
    /\ is_waking' = [is_waking EXCEPT ![w] = FALSE]
    /\ is_idle' = [is_idle EXCEPT ![w] = TRUE]
    /\ UNCHANGED <<idle_event, join_event, listVars, queueVars, idle_queue, pc, hold,
                   num_threads, ghostVars>>

WaitSleep(w) ==
    /\ pc[w] = "wait"
    /\ sync.state # "Shutdown"
    /\ ~sync.notified
    /\ is_idle[w]
    /\ Goto(w, "sleep")
    /\ UNCHANGED <<syncVars, listVars, queueVars, idle_queue, threadVars, ghostVars>>

\* idle_event.wait() returns, with the token or because of shutdown.
SleepReturns(w) ==
    /\ pc[w] = "sleep"
    /\ idle_event # "empty"
    /\ idle_event' = IF idle_event = "posted" THEN "empty" ELSE idle_event
    /\ Goto(w, "wait")
    /\ UNCHANGED <<sync, join_event, listVars, queueVars, idle_queue, threadVars, ghostVars>>

\* drain_idle_events from inside idle_event.wait().
SleepDrains(w) ==
    /\ pc[w] = "sleep"
    /\ idle_queue[w]
    /\ idle_queue' = [idle_queue EXCEPT ![w] = FALSE]
    /\ UNCHANGED <<syncVars, listVars, queueVars, pc, threadVars, ghostVars>>

-----------------------------------------------------------------------------
(* Thread::pop *)

Size(q) == IF q = NoWorker THEN run_queue ELSE local_queue[q]

\* A node in hand: notify() unless there is nothing to tell, then run it.
AfterPop(w, pushed) ==
    IF is_waking[w] THEN "slow" ELSE IF pushed THEN "notify" ELSE "run"

PopBuffer(w) ==
    /\ pc[w] = "pop"
    /\ IF run_buffer[w] = 0
       THEN Goto(w, "own") /\ UNCHANGED run_buffer
       ELSE /\ run_buffer' = [run_buffer EXCEPT ![w] = @ - 1]
            /\ Goto(w, AfterPop(w, FALSE))
    /\ UNCHANGED <<syncVars, listVars, run_queue, local_queue, consuming, idle_queue,
                   threadVars, ghostVars>>

\* Buffer::consume: become the queue's consumer and take up to Capacity + 1
\* nodes, or give up if the queue is empty or contended.  Pushes that arrive
\* while nodes are taken count as having come before.
Consume(w, q, otherwise) ==
    /\ IF Size(q) = 0 \/ consuming[q] # NoWorker
       THEN Goto(w, otherwise) /\ UNCHANGED <<run_queue, local_queue, consuming, hold>>
       ELSE LET n == Min({Size(q), Capacity + 1}) IN
            /\ consuming' = [consuming EXCEPT ![q] = w]
            /\ hold' = [hold EXCEPT ![w] = n]
            /\ IF q = NoWorker
               THEN run_queue' = run_queue - n /\ UNCHANGED local_queue
               ELSE local_queue' = [local_queue EXCEPT ![q] = @ - n] /\ UNCHANGED run_queue
            /\ Goto(w, "publish")

ConsumeOwn(w) ==
    /\ pc[w] = "own"
    /\ Consume(w, w, "global")
    /\ UNCHANGED <<syncVars, listVars, run_buffer, idle_queue, is_waking, is_idle,
                   num_threads, ghostVars>>

ConsumeGlobal(w) ==
    /\ pc[w] = "global"
    /\ Consume(w, NoWorker, "load")
    /\ UNCHANGED <<syncVars, listVars, run_buffer, idle_queue, is_waking, is_idle,
                   num_threads, ghostVars>>

\* Faulty: publishes the node that is returned, too.
PublishAll(w) ==
    /\ pc[w] = "publish"
    /\ run_buffer' = [run_buffer EXCEPT ![w] = Min({@ + hold[w], Capacity})]
    /\ hold' = [hold EXCEPT ![w] = 0]
    /\ consuming' = [q \in Queues |-> IF consuming[q] = w THEN NoWorker ELSE consuming[q]]
    /\ Goto(w, AfterPop(w, hold[w] > 1))
    /\ UNCHANGED <<syncVars, listVars, run_queue, local_queue, idle_queue, is_waking,
                   is_idle, num_threads, ghostVars>>

\* The tail store that makes the taken nodes visible to thieves, all but the
\* one returned, and the release of the queue's consumer if they came from one.
Publish(w) ==
    /\ pc[w] = "publish"
    /\ run_buffer' = [run_buffer EXCEPT ![w] = @ + hold[w] - 1]
    /\ hold' = [hold EXCEPT ![w] = 0]
    /\ consuming' = [q \in Queues |-> IF consuming[q] = w THEN NoWorker ELSE consuming[q]]
    /\ Goto(w, AfterPop(w, hold[w] > 1))
    /\ UNCHANGED <<syncVars, listVars, run_queue, local_queue, idle_queue, is_waking,
                   is_idle, num_threads, ghostVars>>

LoadSpawned(w) ==
    /\ pc[w] = "load"
    /\ num_threads' = [num_threads EXCEPT ![w] = sync.spawned]
    /\ Goto(w, "target")
    /\ UNCHANGED <<syncVars, listVars, queueVars, idle_queue, is_waking, is_idle, hold,
                   ghostVars>>

\* The victim of this turn: after the last one, or again from the head.
Victim(w) == IF target[w] # NoWorker THEN target[w] ELSE threads

\* One turn of the steal loop up to the victim's queue.  The code moves its
\* private `target' on before it looks; here it stays on the victim until the
\* turn is over.
StealQueue(w) ==
    /\ pc[w] = "target"
    /\ num_threads[w] > 0
    /\ Victim(w) # NoWorker
    /\ Consume(w, Victim(w), IF Victim(w) = w THEN "target" ELSE "steal")
    /\ target' = [target EXCEPT ![w] = IF pc'[w] = "steal" THEN Victim(w) ELSE next[Victim(w)]]
    /\ num_threads' = [num_threads EXCEPT ![w] = IF pc'[w] = "target" THEN @ - 1 ELSE @]
    /\ UNCHANGED <<syncVars, threads, next, thread_join, run_buffer, idle_queue,
                   is_waking, is_idle, ghostVars>>

\* Buffer::steal: half of the victim's buffer, rounded up.
StealBuffer(w) ==
    /\ pc[w] = "steal"
    /\ LET v == target[w]
           n == run_buffer[v] - run_buffer[v] \div 2
       IN  /\ target' = [target EXCEPT ![w] = next[v]]
           /\ IF n = 0
              THEN /\ num_threads' = [num_threads EXCEPT ![w] = @ - 1]
                   /\ Goto(w, "target")
                   /\ UNCHANGED <<run_buffer, hold>>
              ELSE /\ run_buffer' = [run_buffer EXCEPT ![v] = @ - n]
                   /\ hold' = [hold EXCEPT ![w] = n]
                   /\ Goto(w, "publish")
                   /\ UNCHANGED num_threads
    /\ UNCHANGED <<syncVars, threads, next, thread_join, run_queue, local_queue, consuming,
                   idle_queue, is_waking, is_idle, ghostVars>>

PopNothing(w) ==
    /\ pc[w] = "target"
    /\ num_threads[w] = 0
    /\ Goto(w, "after")
    /\ UNCHANGED <<syncVars, listVars, queueVars, idle_queue, threadVars, ghostVars>>

\* The task's callback returns.
Run(w) ==
    /\ pc[w] = "run"
    /\ executed' = executed + 1
    /\ Goto(w, "pop")
    /\ UNCHANGED <<syncVars, listVars, queueVars, idle_queue, threadVars, freed,
                   scheduled, idle_pushes>>

\* drain_idle_events after the pop loop, and on the way out.
Drain(w) ==
    /\ pc[w] \in {"after", "exit"}
    /\ idle_queue' = [idle_queue EXCEPT ![w] = FALSE]
    /\ Goto(w, IF pc[w] = "after" THEN "wait" ELSE "unregister")
    /\ UNCHANGED <<syncVars, listVars, queueVars, threadVars, ghostVars>>

-----------------------------------------------------------------------------
(* Shutdown and the join chain *)

\* unregister: the last worker out tells the joiner.
Unregister(w) ==
    /\ pc[w] = "unregister"
    /\ sync' = [sync EXCEPT !.spawned = @ - 1]
    /\ Goto(w, IF sync.state = "Shutdown" /\ sync.spawned = 1
               THEN "join_notify" ELSE "join_wait")
    /\ UNCHANGED <<idle_event, join_event, listVars, queueVars, idle_queue, threadVars,
                   ghostVars>>

JoinNotify(w) ==
    /\ pc[w] = "join_notify"
    /\ join_event' = TRUE
    /\ Goto(w, "join_wait")
    /\ UNCHANGED <<sync, idle_event, listVars, queueVars, idle_queue, threadVars, ghostVars>>

JoinWait(w) ==
    /\ pc[w] = "join_wait"
    /\ thread_join[w]
    /\ Goto(w, IF next[w] = NoWorker THEN "gone" ELSE "chain")
    /\ UNCHANGED <<syncVars, listVars, queueVars, idle_queue, threadVars, ghostVars>>

Chain(w) ==
    /\ pc[w] = "chain"
    /\ thread_join' = [thread_join EXCEPT ![next[w]] = TRUE]
    /\ Goto(w, "gone")
    /\ UNCHANGED <<syncVars, threads, next, target, queueVars, idle_queue, threadVars,
                   ghostVars>>

\* Drop takes the pool exclusively: no client is inside a call.
DropPool ==
    /\ \A c \in Clients : pc[c] = "idle"
    /\ Goto(Owner, "shutdown")
    /\ UNCHANGED <<syncVars, listVars, queueVars, idle_queue, threadVars, ghostVars>>

Shutdown ==
    /\ pc[Owner] = "shutdown"
    /\ sync' = [sync EXCEPT !.notified = TRUE, !.state = "Shutdown", !.idle = 0]
    /\ Goto(Owner, IF sync.idle > 0 THEN "close" ELSE "join")
    /\ UNCHANGED <<idle_event, join_event, listVars, queueVars, idle_queue, threadVars,
                   ghostVars>>

\* self.idle_event.shutdown()
CloseIdle ==
    /\ pc[Owner] = "close"
    /\ idle_event' = "shutdown"
    /\ Goto(Owner, "join")
    /\ UNCHANGED <<sync, join_event, listVars, queueVars, idle_queue, threadVars, ghostVars>>

\* Faulty: does not wait for the last worker.
JoinAtOnce ==
    /\ pc[Owner] = "join"
    /\ Goto(Owner, "swap")
    /\ UNCHANGED <<syncVars, listVars, queueVars, idle_queue, threadVars, ghostVars>>

Join ==
    /\ pc[Owner] = "join"
    /\ Goto(Owner, IF sync.state = "Shutdown" /\ sync.spawned = 0 THEN "swap" ELSE "joining")
    /\ UNCHANGED <<syncVars, listVars, queueVars, idle_queue, threadVars, ghostVars>>

JoinReturns ==
    /\ pc[Owner] = "joining"
    /\ join_event
    /\ join_event' = FALSE
    /\ Goto(Owner, "swap")
    /\ UNCHANGED <<sync, idle_event, listVars, queueVars, idle_queue, threadVars, ghostVars>>

\* self.threads.swap(null)
SwapThreads ==
    /\ pc[Owner] = "swap"
    /\ target' = [target EXCEPT ![Owner] = threads]
    /\ threads' = NoWorker
    /\ Goto(Owner, IF threads = NoWorker THEN "done" ELSE "signal")
    /\ freed' = (threads = NoWorker)
    /\ UNCHANGED <<syncVars, next, thread_join, queueVars, idle_queue, threadVars,
                   scheduled, executed, idle_pushes>>

\* The chain is started; drop returns and the pool's memory is the owner's again.
SignalFirst ==
    /\ pc[Owner] = "signal"
    /\ thread_join' = [thread_join EXCEPT ![target[Owner]] = TRUE]
    /\ freed' = TRUE
    /\ Goto(Owner, "done")
    /\ UNCHANGED <<syncVars, threads, next, target, queueVars, idle_queue, threadVars,
                   scheduled, executed, idle_pushes>>

-----------------------------------------------------------------------------
\* What a thread inside the pool's code does next, tasks' own choices aside.
CallStep(p) ==
    \/ PushGlobal(p)
    \/ NotifyFast(p) \/ NotifySlow(p) \/ PostIdle(p) \/ SpawnFails(p) \/ Unspawn(p)
    \/ \E w \in Workers : Spawn(p, w)

WorkerStep(w) ==
    \/ CallStep(w)
    \/ Register(w) \/ WaitShutdown(w) \/ WaitConsume(w) \/ WaitGoIdle(w) \/ WaitSleep(w)
    \/ SleepReturns(w) \/ SleepDrains(w)
    \/ PopBuffer(w) \/ ConsumeOwn(w) \/ ConsumeGlobal(w) \/ Publish(w)
    \/ LoadSpawned(w) \/ StealQueue(w) \/ StealBuffer(w) \/ PopNothing(w)
    \/ FillBuffer(w) \/ Migrate(w) \/ PushLocal(w)
    \/ Run(w) \/ Drain(w)
    \/ Unregister(w) \/ JoinNotify(w) \/ JoinWait(w) \/ Chain(w)

ClientStep(c) == CallStep(c) \/ WalkIdlePush(c)

OwnerStep == Shutdown \/ CloseIdle \/ Join \/ JoinReturns \/ SwapThreads \/ SignalFirst

\* The pool is gone and so is every worker.
Terminated ==
    /\ freed
    /\ \A w \in Workers : pc[w] \in {"none", "gone"}
    /\ UNCHANGED vars

Next ==
    \/ \E w \in Workers : WorkerStep(w) \/ \E n \in 1..MaxBatch : ScheduleInside(w, n)
    \/ \E c \in Clients : ClientStep(c) \/ Warm(c) \/ BeginIdlePush(c)
    \/ \E p \in Procs, n \in 1..MaxBatch : Schedule(p, n)
    \/ DropPool
    \/ OwnerStep
    \/ Terminated

SafeSpec == Init /\ [][Next]_vars

\* Every thread that is not blocked keeps running and every task's callback
\* returns.  Nobody is forced to call in, to drop the pool, or to schedule.
Spec ==
    /\ SafeSpec
    /\ \A w \in Workers : WF_vars(WorkerStep(w))
    /\ \A c \in Clients : WF_vars(ClientStep(c))
    /\ WF_vars(OwnerStep)

-----------------------------------------------------------------------------
(* Properties *)

\* Workers that have taken themselves out of the count and touch the pool no
\* more, but for the last one's join_event.notify().
Unregistered == {"join_notify", "join_wait", "chain", "gone"}

\* The 14-bit fields of the Sync word count what they say: `spawned' every
\* thread that is running, being spawned or being taken back, `idle' every
\* worker that has not been chosen since it ran out of work.
SyncCounts ==
    /\ TypeOK
    /\ sync.spawned = Cardinality({w \in Workers : pc[w] \notin {"none"} \union Unregistered})
                      + Cardinality({p \in Procs : pc[p] \in {"spawn", "unspawn"}})
    /\ sync.state # "Shutdown" => sync.idle = Cardinality({w \in Workers : is_idle[w]})

\* The waking role is held by exactly one thread while the word says Waking
\* (the debug assertions of notify_slow() and wait()), and a Signaled word has a
\* notification for the next waking thread: the role is never lost, after which
\* nobody would be woken again.
OneWakingThread ==
    /\ \A p, q \in Procs : is_waking[p] /\ is_waking[q] => p = q
    /\ sync.state = "Waking" => \E p \in Procs : is_waking[p]
    /\ (\E p \in Procs : is_waking[p]) => sync.state \in {"Waking", "Shutdown"}
    /\ sync.state = "Signaled" => sync.notified

\* The sum of f over S, as the number of pairs of an element and one of its units.
Total(f, S) == Cardinality(UNION {{x} \X (1..f[x]) : x \in S})

\* Tasks in the queues and buffers, where a worker that looks finds them.
Queued == run_queue + Total(local_queue, Workers) + Total(run_buffer, Workers)

\* Workers with one task in hand.
InHand == {w \in Workers : pc[w] \in {"notify", "slow", "post", "spawn", "unspawn", "run",
                                      "push", "fill", "overflow"}}

\* Through overflow, migration, consuming and stealing no task is lost and none
\* is run twice.
TaskConservation ==
    scheduled = executed + Queued + Cardinality(InHand) + Total(hold, Procs)

\* Every worker is asleep, no notification is on its way and nobody is in the
\* middle of a call.
Quiescent ==
    /\ threads # NoWorker
    /\ sync.state # "Shutdown"
    /\ \A w \in Workers : pc[w] \in {"none", "sleep"}
    /\ \A c \in Clients : pc[c] = "idle"
    /\ idle_event = "empty"

\* notify()'s comment on the stranded task: while the workers sleep the global queue
\* is empty (unless the OS refused the very first worker, see has_workers()), and
\* so is every run buffer.  Of the workers' own queues see MCStranded.
NoStrandedTask ==
    Quiescent => run_queue = 0 /\ \A w \in Workers : run_buffer[w] = 0

\* A worker that looks for victims finds the list non-empty (the unreachable!()
\* of Thread::pop) and no victim whose stack is gone.
VictimsAlive ==
    \A w \in Workers :
        /\ pc[w] = "target" /\ num_threads[w] > 0 => Victim(w) # NoWorker
        /\ pc[w] \in {"target", "steal"} => \A v \in Workers : pc[v] # "gone"

\* drop returns only when no worker, not even one that the OS has yet to start,
\* will use the pool again; the join chain then signals each worker while it
\* still waits for it.  (join_notify is the subject of PoolOutlivesNotify.)
JoinIsSafe ==
    /\ freed => \A w \in Workers : pc[w] \in {"none"} \union Unregistered
    /\ pc[Owner] \in {"swap", "signal", "done"} => sync.state = "Shutdown" /\ sync.spawned = 0
    /\ \A w \in Workers : pc[w] = "chain" =>
          pc[next[w]] \in {"join_notify", "join_wait"} /\ ~thread_join[next[w]]

\* No pointer to a worker's stack or to the pool is used after its end.
NothingDangles == VictimsAlive /\ JoinIsSafe

\* "Run them once on the way out": an idle task queued before drop is run even
\* if the worker sees Shutdown first.
IdleTasksRunBeforeExit ==
    \A w \in Workers : pc[w] \in {"unregister"} \union Unregistered => ~idle_queue[w]

\* A scheduled task is run, once there is a worker, unless the pool is dropped.  With
\* more workers and buffers that overflow this fails: see MCStranded.
TasksRun ==
    (threads # NoWorker /\ executed < scheduled)
        ~> (executed = scheduled \/ sync.state = "Shutdown")

\* drop joins: it returns, and every worker it had ends.
ShutdownCompletes ==
    (pc[Owner] = "shutdown") ~> (freed /\ \A w \in Workers : pc[w] \in {"none", "gone"})

\* unregister()'s comment: "`pool` is live until this notify wakes the joiner".
PoolOutlivesNotify == freed => \A w \in Workers : pc[w] # "join_notify"
=============================================================================
