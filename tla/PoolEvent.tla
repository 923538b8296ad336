----------------------------- MODULE PoolEvent -----------------------------
(***************************************************************************)
(* struct Event of src/threading/ThreadPool.rs at the grain of its atomic  *)
(* operations and futex calls, as the pool's idle_event uses it.  The join *)
(* events are the same with one waiter, no idle queue and no wake_all().   *)
(*                                                                         *)
(* The 32-bit word is split into its fields: `state' is the low two bits,  *)
(* `epoch' the count of wake_all() calls above them.  The futex compares   *)
(* the whole word.  A load followed by a compare_exchange on the value     *)
(* loaded is one step on the current word: a failed exchange reloads and   *)
(* retries, which is a stutter.                                            *)
(***************************************************************************)
EXTENDS Integers, FiniteSets

CONSTANTS Waiters,          \* workers that sleep on the event
          Notifiers,        \* threads that call notify, shutdown or push_idle_task_to_each_thread
          MaxEpoch          \* bound on wake_all() calls; the code's field has 30 bits

ASSUME EpochAssumption == MaxEpoch \in Nat

VARIABLES state,            \* the low two bits of the word
          epoch,            \* the rest of the word
          pc,               \* where each waiter is in Event::wait
          seen,             \* `epoch' of the word the waiter last looked at
          acquire_with,     \* what the waiter leaves behind when it consumes
          is_idle,          \* a wait of this call has timed out
          idle_queue,       \* whether the worker's idle queue has a task
          npc,              \* where each notifier is
          todo              \* workers a push_idle_task_to_each_thread has still to visit

waiterVars == <<pc, seen, acquire_with, is_idle>>
notifierVars == <<npc, todo>>
vars == <<state, epoch, waiterVars, idle_queue, notifierVars>>

States == {"EMPTY", "WAITING", "NOTIFIED", "SHUTDOWN"}

\* "out": not in wait();  "check": has just (re)loaded the word;
\* "drain": before drain_idle_events;  "futex": before Futex::wait;
\* "parked": on the futex's queue.
WaiterPCs == {"out", "check", "drain", "futex", "parked"}

\* "wake_one", "wake_every": the word is updated, Futex::wake is still to come.
NotifierPCs == {"free", "wake_one", "push", "wake_all", "wake_every"}

TypeOK ==
    /\ state \in States
    /\ epoch \in Nat
    /\ pc \in [Waiters -> WaiterPCs]
    /\ seen \in [Waiters -> Nat]
    /\ acquire_with \in [Waiters -> {"EMPTY", "WAITING"}]
    /\ is_idle \in [Waiters -> BOOLEAN]
    /\ idle_queue \in [Waiters -> BOOLEAN]
    /\ npc \in [Notifiers -> NotifierPCs]
    /\ todo \in [Notifiers -> SUBSET Waiters]

Init ==
    /\ state = "EMPTY"
    /\ epoch = 0
    /\ pc = [w \in Waiters |-> "out"]
    /\ seen = [w \in Waiters |-> 0]
    /\ acquire_with = [w \in Waiters |-> "EMPTY"]
    /\ is_idle = [w \in Waiters |-> FALSE]
    /\ idle_queue = [w \in Waiters |-> FALSE]
    /\ npc = [n \in Notifiers |-> "free"]
    /\ todo = [n \in Notifiers |-> {}]

-----------------------------------------------------------------------------
(* Event::wait *)

Enter(w) ==
    /\ pc[w] = "out"
    /\ pc' = [pc EXCEPT ![w] = "check"]
    /\ acquire_with' = [acquire_with EXCEPT ![w] = "EMPTY"]
    /\ is_idle' = [is_idle EXCEPT ![w] = FALSE]
    /\ UNCHANGED <<state, epoch, seen, idle_queue, notifierVars>>

ReturnShutdown(w) ==
    /\ pc[w] = "check"
    /\ state = "SHUTDOWN"
    /\ pc' = [pc EXCEPT ![w] = "out"]
    /\ UNCHANGED <<state, epoch, seen, acquire_with, is_idle, idle_queue, notifierVars>>

\* Faulty: every consumer puts EMPTY back, also one that has slept.
ConsumeToEmpty(w) ==
    /\ pc[w] = "check"
    /\ state = "NOTIFIED"
    /\ state' = "EMPTY"
    /\ pc' = [pc EXCEPT ![w] = "out"]
    /\ UNCHANGED <<epoch, seen, acquire_with, is_idle, idle_queue, notifierVars>>

\* Faulty: the notification is seen but not taken.
ConsumeNothing(w) ==
    /\ pc[w] = "check"
    /\ state = "NOTIFIED"
    /\ pc' = [pc EXCEPT ![w] = "out"]
    /\ UNCHANGED <<state, epoch, seen, acquire_with, is_idle, idle_queue, notifierVars>>

Consume(w) ==
    /\ pc[w] = "check"
    /\ state = "NOTIFIED"
    /\ state' = acquire_with[w]
    /\ pc' = [pc EXCEPT ![w] = "out"]
    /\ UNCHANGED <<epoch, seen, acquire_with, is_idle, idle_queue, notifierVars>>

Arm(w) ==
    /\ pc[w] = "check"
    /\ state \in {"EMPTY", "WAITING"}
    /\ state' = "WAITING"
    /\ seen' = [seen EXCEPT ![w] = epoch]
    /\ pc' = [pc EXCEPT ![w] = "drain"]
    /\ UNCHANGED <<epoch, acquire_with, is_idle, idle_queue, notifierVars>>

DrainIdle(w) ==
    /\ pc[w] = "drain"
    /\ idle_queue' = [idle_queue EXCEPT ![w] = FALSE]
    /\ pc' = [pc EXCEPT ![w] = "futex"]
    /\ UNCHANGED <<state, epoch, seen, acquire_with, is_idle, notifierVars>>

\* The kernel compares the word and queues the caller in one step; on a
\* mismatch the wait returns at once.
FutexWait(w) ==
    /\ pc[w] = "futex"
    /\ IF state = "WAITING" /\ seen[w] = epoch
       THEN /\ pc' = [pc EXCEPT ![w] = "parked"]
            /\ UNCHANGED acquire_with
       ELSE /\ pc' = [pc EXCEPT ![w] = "check"]
            /\ acquire_with' = [acquire_with EXCEPT ![w] = "WAITING"]
    /\ UNCHANGED <<state, epoch, seen, is_idle, idle_queue, notifierVars>>

\* Only a wait that has not timed out yet passes the 100ms timeout.
Timeout(w) ==
    /\ pc[w] = "parked"
    /\ ~is_idle[w]
    /\ pc' = [pc EXCEPT ![w] = "check"]
    /\ acquire_with' = [acquire_with EXCEPT ![w] = "WAITING"]
    /\ is_idle' = [is_idle EXCEPT ![w] = TRUE]
    /\ UNCHANGED <<state, epoch, seen, idle_queue, notifierVars>>

\* A signal interrupts the futex wait (EINTR): Futex::wait returns Ok.
SpuriousWake(w) ==
    /\ pc[w] = "parked"
    /\ pc' = [pc EXCEPT ![w] = "check"]
    /\ acquire_with' = [acquire_with EXCEPT ![w] = "WAITING"]
    /\ UNCHANGED <<state, epoch, seen, is_idle, idle_queue, notifierVars>>

-----------------------------------------------------------------------------
(* The other side *)

Parked == {w \in Waiters : pc[w] = "parked"}

\* Futex::wake of the waiters in W, which must be parked.
Wake(W) ==
    /\ pc' = [w \in Waiters |-> IF w \in W THEN "check" ELSE pc[w]]
    /\ acquire_with' = [w \in Waiters |-> IF w \in W THEN "WAITING" ELSE acquire_with[w]]
    /\ UNCHANGED <<seen, is_idle>>

Notify(n) ==
    /\ npc[n] = "free"
    /\ state # "SHUTDOWN"
    /\ state' = "NOTIFIED"
    /\ npc' = [npc EXCEPT ![n] = IF state = "WAITING" THEN "wake_one" ELSE "free"]
    /\ UNCHANGED <<epoch, waiterVars, idle_queue, todo>>

WakeOne(n) ==
    /\ npc[n] = "wake_one"
    /\ IF Parked = {} THEN Wake({}) ELSE \E w \in Parked : Wake({w})
    /\ npc' = [npc EXCEPT ![n] = "free"]
    /\ UNCHANGED <<state, epoch, idle_queue, todo>>

\* Faulty: wakes only if the state says that somebody is parked, like notify().
ShutdownIfWaiting(n) ==
    /\ npc[n] = "free"
    /\ state # "SHUTDOWN"
    /\ \A m \in Notifiers : npc[m] \in {"free", "wake_one"}
    /\ state' = "SHUTDOWN"
    /\ npc' = [npc EXCEPT ![n] = IF state = "WAITING" THEN "wake_every" ELSE "free"]
    /\ UNCHANGED <<epoch, waiterVars, idle_queue, todo>>

\* Drop borrows the pool exclusively: no push_idle_task_to_each_thread is under way.
Shutdown(n) ==
    /\ npc[n] = "free"
    /\ state # "SHUTDOWN"
    /\ \A m \in Notifiers : npc[m] \in {"free", "wake_one"}
    /\ state' = "SHUTDOWN"
    /\ npc' = [npc EXCEPT ![n] = "wake_every"]
    /\ UNCHANGED <<epoch, waiterVars, idle_queue, todo>>

\* The calls that have yet to count themselves in the epoch.
Announced == {n \in Notifiers : npc[n] \in {"push", "wake_all"}}

BeginPush(n) ==
    /\ npc[n] = "free"
    /\ state # "SHUTDOWN"
    /\ epoch + Cardinality(Announced) < MaxEpoch
    /\ npc' = [npc EXCEPT ![n] = "push"]
    /\ todo' = [todo EXCEPT ![n] = Waiters]
    /\ UNCHANGED <<state, epoch, waiterVars, idle_queue>>

\* Faulty: the walk over the workers does not advance.
PushIdleTaskStuck(n, w) ==
    /\ npc[n] = "push"
    /\ w \in todo[n]
    /\ idle_queue' = [idle_queue EXCEPT ![w] = TRUE]
    /\ UNCHANGED <<state, epoch, waiterVars, npc, todo>>

PushIdleTask(n, w) ==
    /\ npc[n] = "push"
    /\ w \in todo[n]
    /\ idle_queue' = [idle_queue EXCEPT ![w] = TRUE]
    /\ todo' = [todo EXCEPT ![n] = @ \ {w}]
    /\ npc' = [npc EXCEPT ![n] = IF todo[n] = {w} THEN "wake_all" ELSE "push"]
    /\ UNCHANGED <<state, epoch, waiterVars>>

\* Faulty: wakes without changing the word.
WakeAllQuietly(n) ==
    /\ npc[n] = "wake_all"
    /\ npc' = [npc EXCEPT ![n] = "wake_every"]
    /\ UNCHANGED <<state, epoch, waiterVars, idle_queue, todo>>

WakeAll(n) ==
    /\ npc[n] = "wake_all"
    /\ epoch' = epoch + 1
    /\ npc' = [npc EXCEPT ![n] = "wake_every"]
    /\ UNCHANGED <<state, waiterVars, idle_queue, todo>>

\* Futex::wake(&self.state, u32::MAX) of wake_all() and of shutdown().
WakeEvery(n) ==
    /\ npc[n] = "wake_every"
    /\ Wake(Parked)
    /\ npc' = [npc EXCEPT ![n] = "free"]
    /\ UNCHANGED <<state, epoch, idle_queue, todo>>

-----------------------------------------------------------------------------
WaitStep(w) ==
    \/ ReturnShutdown(w)
    \/ Consume(w)
    \/ Arm(w)
    \/ DrainIdle(w)
    \/ FutexWait(w)

NotifierStep(n) ==
    \/ WakeOne(n)
    \/ \E w \in Waiters : PushIdleTask(n, w)
    \/ WakeAll(n)
    \/ WakeEvery(n)

Next ==
    \/ \E w \in Waiters : Enter(w) \/ WaitStep(w) \/ Timeout(w) \/ SpuriousWake(w)
    \/ \E n \in Notifiers : Notify(n) \/ Shutdown(n) \/ BeginPush(n) \/ NotifierStep(n)

SafeSpec == Init /\ [][Next]_vars

\* A thread inside wait(), and one inside notify, shutdown or
\* push_idle_task_to_each_thread, keeps running unless it is parked.  Nobody is
\* forced to call, and neither the timeout nor a signal is counted on.
Spec ==
    /\ SafeSpec
    /\ \A w \in Waiters : WF_vars(WaitStep(w))
    /\ \A n \in Notifiers : WF_vars(NotifierStep(n))

-----------------------------------------------------------------------------
(* Properties *)

\* A waiter that has slept or tried to in this call: it consumes to WAITING.
Rearming(w) == pc[w] \in {"check", "drain", "futex"} /\ acquire_with[w] = "WAITING"

\* The comment in notify(): a waiter may be parked while the word says EMPTY or
\* NOTIFIED, and a notify() that finds the word so wakes nobody.  The waiter is
\* not lost: a wake is already on its way, or a thread that will put WAITING
\* back is running.
NoLostNotification ==
    state \in {"EMPTY", "NOTIFIED"} /\ Parked # {} =>
        \/ \E n \in Notifiers : npc[n] \in {"wake_one", "wake_every"}
        \/ \E w \in Waiters : Rearming(w)

\* wake_all()'s epoch: a worker asleep with a task in its idle queue (or about
\* to be: past its drain, the word unchanged) still has a wake_all to come.
NoStrandedIdleTask ==
    \A w \in Waiters :
        /\ idle_queue[w]
        /\ pc[w] = "parked" \/ (pc[w] = "futex" /\ state = "WAITING" /\ seen[w] = epoch)
        => \E n \in Notifiers : npc[n] \in {"push", "wake_all", "wake_every"}

\* Nobody stays asleep on an event that is shut down without a wake to come.
ShutdownWakes ==
    state = "SHUTDOWN" /\ Parked # {} => \E n \in Notifiers : npc[n] = "wake_every"

\* An idle task queued for a worker that sits in wait() runs there, even if no
\* work is ever scheduled again.
IdleTaskRuns ==
    \A w \in Waiters : (idle_queue[w] /\ pc[w] # "out") ~> (~idle_queue[w] \/ pc[w] = "out")

\* Event implements the one-token event: no notification is taken twice, none
\* is lost while somebody waits, and shutdown releases everyone.
Abstract == INSTANCE BinaryEvent WITH
    token <- IF state = "NOTIFIED" THEN "posted"
             ELSE IF state = "SHUTDOWN" THEN "shutdown"
             ELSE "empty",
    waiting <- {w \in Waiters : pc[w] # "out"}

ImplementsBinaryEvent == Abstract!Spec
=============================================================================
