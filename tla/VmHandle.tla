------------------------------ MODULE VmHandle ------------------------------
(* The door between a JavaScript VM and the other threads (jsc/VmHandle.rs,  *)
(* jsc/job.rs): tickets, which keep the VM from being freed; the gate of the *)
(* handles that hold no ticket; and close_and_wait(), in which the JS thread *)
(* waits for the former and shuts out the latter.                            *)
(*                                                                           *)
(* Every operation of another thread is split at its atomic accesses.  The   *)
(* condition variable's mutex `drained' is held by the JS thread between     *)
(* LockDrained and CheckTickets; notify() takes and leaves it in one step.   *)
EXTENDS Naturals, FiniteSets

CONSTANTS Jobs,       \* pool jobs, fetches: each holds a ticket while off-thread
          Posters,    \* threads that post through a handle without a ticket
          Parent      \* a thread that only wakes the VM, request_termination()

ASSUME VmHandleAssumption ==
    /\ IsFiniteSet(Jobs) /\ IsFiniteSet(Posters)
    /\ Jobs \intersect Posters = {} /\ Parent \notin Jobs \union Posters

Accessors == Posters \union {Parent}
Threads == Jobs \union Accessors
Tasks == Jobs \union Posters      \* what is posted: a completion or a poster's task

VARIABLES state,        \* State of the handle
          tickets,      \* outstanding tickets
          active,       \* threads inside the gate
          pc,           \* Threads -> where each one is
          task,         \* Tasks -> none, queued, taken, run, released, refused
          woken,        \* the loop's wake-up, pending
          signalled,    \* the sleeping teardown was notified
          js            \* the JS thread: running, or where it is in close_and_wait

vars == <<state, tickets, active, pc, task, woken, signalled, js>>

Init == /\ state = "Open"
        /\ tickets = 0 /\ active = 0
        /\ pc = [t \in Threads |-> "idle"]
        /\ task = [x \in Tasks |-> "none"]
        /\ woken = FALSE /\ signalled = FALSE
        /\ js = "running"

Queued == {x \in Tasks : task[x] = "queued"}
Draining == state \in {"Draining", "Closed"}
Goto(t, l) == pc' = [pc EXCEPT ![t] = l]

-----------------------------------------------------------------------------
(* A ticket: taken on the JS thread; its job works on JS-owned memory, posts *)
(* the completion and drops the ticket.  (A holder may clone its ticket on a *)
(* pool thread, shell/builtin/cp.rs; that is left out.  The count is at      *)
(* least one then, so it is never raised from zero off the JS thread.)       *)

Issue(j) == /\ pc[j] = "idle"
            /\ tickets' = tickets + 1
            /\ Goto(j, "inside")

(* A handle: one unit of `active' before the state is looked at. *)

Enter(a) == /\ pc[a] = "idle"
            /\ active' = active + 1
            /\ Goto(a, "entered")
            /\ UNCHANGED <<state, tickets, task, woken, signalled, js>>

Admit(a) == /\ pc[a] = "entered" /\ state # "Closed"
            /\ Goto(a, IF a = Parent THEN "wakeup" ELSE "inside")
            /\ UNCHANGED <<state, tickets, active, task, woken, signalled, js>>

Refuse(a) == /\ pc[a] = "entered" /\ state = "Closed"
             /\ task' = IF a = Parent THEN task ELSE [task EXCEPT ![a] = "refused"]
             /\ Goto(a, "leaving")
             /\ UNCHANGED <<state, tickets, active, woken, signalled, js>>

(* deliver(): push, then wake the loop, or the teardown if it has begun. *)

Push(x) == /\ pc[x] = "inside"
           /\ task' = [task EXCEPT ![x] = "queued"]
           /\ Goto(x, "pushed")
           /\ UNCHANGED <<state, tickets, active, woken, signalled, js>>

\* Faulty: the loop is woken whatever the state.
ChooseWakeup(x) == /\ pc[x] = "pushed"
                   /\ Goto(x, "wakeup")
                   /\ UNCHANGED <<state, tickets, active, task, woken, signalled, js>>

ChooseWake(x) == /\ pc[x] = "pushed"
                 /\ Goto(x, IF Draining THEN "notify" ELSE "wakeup")
                 /\ UNCHANGED <<state, tickets, active, task, woken, signalled, js>>

Wakeup(x) == /\ pc[x] = "wakeup"
             /\ woken' = TRUE
             /\ Goto(x, "leaving")
             /\ UNCHANGED <<state, tickets, active, task, signalled, js>>

Notify(x) == /\ pc[x] \in {"notify", "last notify"} /\ js \notin {"held", "closing"}
             /\ signalled' = (signalled \/ js \in {"wait", "gate wait"})
             /\ Goto(x, IF pc[x] = "notify" THEN "leaving" ELSE "done")
             /\ UNCHANGED <<state, tickets, active, task, woken, js>>

(* Drop for Ticket, Drop for Access. *)

Drop(j) == /\ pc[j] = "leaving"
           /\ tickets' = tickets - 1
           /\ Goto(j, IF tickets = 1 THEN "left" ELSE "done")
           /\ UNCHANGED <<state, active, task, woken, signalled, js>>

Leave(a) == /\ pc[a] = "leaving"
            /\ active' = active - 1
            /\ Goto(a, IF active = 1 THEN "left" ELSE "done")
            /\ UNCHANGED <<state, tickets, task, woken, signalled, js>>

LastOut(x) ==
    /\ pc[x] = "left"
    /\ Goto(x, IF (x \in Jobs /\ Draining) \/ state = "Closed" THEN "last notify" ELSE "done")
    /\ UNCHANGED <<state, tickets, active, task, woken, signalled, js>>

JobStep(j) == \/ Push(j) \/ ChooseWake(j) \/ Wakeup(j) \/ Notify(j) \/ Drop(j) \/ LastOut(j)

AccessStep(a) == \/ Admit(a) \/ Refuse(a) \/ (a # Parent /\ Push(a)) \/ ChooseWake(a)
                 \/ Wakeup(a) \/ Notify(a) \/ Leave(a) \/ LastOut(a)

-----------------------------------------------------------------------------
(* The JS thread while the VM runs *)

running == js = "running" /\ UNCHANGED <<active, signalled, js>>

\* VirtualMachine::ticket, for work about to leave the thread.
Start(j) == Issue(j) /\ running /\ UNCHANGED <<state, task, woken>>

\* tick_concurrent: the batch other threads posted goes to the loop's own queue.
TickConcurrent ==
    /\ task' = [x \in Tasks |-> IF task[x] = "queued" THEN "taken" ELSE task[x]]
    /\ running /\ UNCHANGED <<state, tickets, pc, woken>>

\* One task of the loop's own queue is run, its keep-alive dropped.
RunTask(x) ==
    /\ task[x] = "taken"
    /\ task' = [task EXCEPT ![x] = "run"]
    /\ running /\ UNCHANGED <<state, tickets, pc, woken>>

\* VmHandle::stop: Open to Stopping, never back.
Stopped == state' = IF state = "Open" THEN "Stopping" ELSE state

stop == Stopped /\ UNCHANGED <<tickets, active, pc, task, woken, signalled, js>>

Poll(wake) == /\ wake \in {woken, FALSE}
              /\ woken' = wake
              /\ running /\ UNCHANGED <<state, tickets, pc, task>>

\* request_termination() on the VM's own thread.
StopSelf == Stopped /\ woken' = TRUE /\ running /\ UNCHANGED <<tickets, pc, task>>

-----------------------------------------------------------------------------
(* close_and_wait() *)

Drain == /\ js = "running" /\ js' = "service"
         /\ state' = "Draining"
         /\ UNCHANGED <<tickets, active, pc, task, woken, signalled>>

Release == task' = [x \in Tasks |-> IF task[x] \in {"queued", "taken"} THEN "released" ELSE task[x]]

\* Faulty: the batch other threads posted is not released.
ServiceOwn == /\ js = "service" /\ js' = "lock"
              /\ task' = [x \in Tasks |-> IF task[x] = "taken" THEN "released" ELSE task[x]]
              /\ UNCHANGED <<state, tickets, active, pc, woken, signalled>>

\* service(): what is queued is released unrun; a release may start more work.
Service == /\ js = "service" /\ js' = "lock"
           /\ Release
           /\ (UNCHANGED <<tickets, pc>> \/ \E j \in Jobs : Issue(j))
           /\ UNCHANGED <<state, active, woken, signalled>>

LockDrained == /\ js = "lock"
               /\ js' = IF Queued # {} THEN "service" ELSE "held"
               /\ UNCHANGED <<state, tickets, active, pc, task, woken, signalled>>

CheckTickets == /\ js = "held"
                /\ js' = IF tickets = 0 THEN "closing" ELSE "wait"
                /\ signalled' = FALSE
                /\ UNCHANGED <<state, tickets, active, pc, task, woken>>

WaitReturns == /\ js \in {"wait", "gate wait"} /\ signalled
               /\ js' = IF js = "wait" THEN "service" ELSE "gate"
               /\ UNCHANGED <<state, tickets, active, pc, task, woken, signalled>>

\* The one second is over, or the wait returns for no reason.
WaitTimesOut == /\ js \in {"wait", "gate wait"} /\ ~signalled
                /\ js' = IF js = "wait" THEN "service" ELSE "gate"
                /\ UNCHANGED <<state, tickets, active, pc, task, woken, signalled>>

SetClosed == /\ js = "closing" /\ js' = "gate"
             /\ state' = "Closed"
             /\ UNCHANGED <<tickets, active, pc, task, woken, signalled>>

\* Faulty: accessors inside the gate are not waited for.
CheckActiveNot == /\ js = "gate" /\ js' = "last service"
                  /\ signalled' = FALSE
                  /\ UNCHANGED <<state, tickets, active, pc, task, woken>>

CheckActive == /\ js = "gate"
               /\ js' = IF active = 0 THEN "last service" ELSE "gate wait"
               /\ signalled' = FALSE
               /\ UNCHANGED <<state, tickets, active, pc, task, woken>>

\* Faulty: close_and_wait ends without the last service().
LastServiceSkipped == /\ js = "last service" /\ js' = "freed"
                      /\ UNCHANGED <<state, tickets, active, pc, task, woken, signalled>>

\* The last service(); then the VM is destroyed.  Unlike before, a release
\* starts no work here: that is the contract of those who release, which the
\* code states as a debug assertion of ticket().
LastService == /\ js = "last service" /\ js' = "freed"
               /\ Release
               /\ UNCHANGED <<state, tickets, active, pc, woken, signalled>>

CloseStep == \/ Service \/ LockDrained \/ CheckTickets \/ WaitReturns \/ SetClosed
             \/ CheckActive \/ LastService

-----------------------------------------------------------------------------
RunStep == \/ \E j \in Jobs : Start(j)
           \/ TickConcurrent
           \/ \E x \in Tasks : RunTask(x)
           \/ \E wake \in BOOLEAN : Poll(wake)
           \/ StopSelf \/ Drain

Next == \/ \E j \in Jobs : JobStep(j)
        \/ \E a \in Accessors : Enter(a) \/ AccessStep(a)
        \/ RunStep \/ stop \/ CloseStep \/ WaitTimesOut

Spec == Init /\ [][Next]_vars

-----------------------------------------------------------------------------
(* Properties *)

Locations == {"idle", "entered", "inside", "pushed", "wakeup", "notify", "leaving",
              "left", "last notify", "done"}
JsLocations == {"running", "service", "lock", "held", "closing", "wait", "gate", "gate wait",
                "last service", "freed"}

\* The state has its type.
TypeOK ==
    /\ state \in {"Open", "Stopping", "Draining", "Closed"}
    /\ tickets \in Nat /\ active \in Nat
    /\ pc \in [Threads -> Locations]
    /\ task \in [Tasks -> {"none", "queued", "taken", "run", "released", "refused"}]
    /\ woken \in BOOLEAN /\ signalled \in BOOLEAN
    /\ js \in JsLocations

\* Threads that dereference the VM or its loops at their next step, or hold
\* the right to: a job until its ticket is dropped, an accessor once admitted.
Reaches == {j \in Jobs : pc[j] \in {"inside", "pushed", "wakeup", "notify", "leaving"}}
           \union {a \in Accessors : pc[a] \in {"inside", "pushed", "wakeup"}}

\* When close_and_wait has returned and the VM is destroyed, no thread holds a
\* ticket and none is inside the gate with access: the two store-load pairs of
\* `state' with `tickets' and with `active' leave no gap (VmHandle.rs).
NoUseAfterFree == js = "freed" => Reaches = {}

\* Nothing that was handed over is left in a queue of a VM that is gone: every
\* task was run, released on the JS thread, or refused to its poster.
NothingLeftBehind == js = "freed" => \A x \in Tasks : task[x] \notin {"queued", "taken"}

\* The teardown never sleeps through its reason to wake: when it sleeps and
\* the last ticket is gone, something is queued or the last accessor has left,
\* the thread that did it is still on its way to notify, whatever the timeout.
SleeperHasNotifier ==
    js \in {"wait", "gate wait"} /\ ~signalled =>
        LET coming(S, at) == \E t \in S : pc[t] \in at
        IN  IF js = "wait"
            THEN /\ tickets = 0 => coming(Jobs, {"left", "last notify"})
                 /\ Queued # {} => coming(Tasks, {"pushed", "notify"})
            ELSE active = 0 => coming(Accessors, {"left", "last notify"})
=============================================================================
