-------------------------- MODULE WebWorkerProofs --------------------------
(* Proofs about VmHandle and WebWorker for any finite sets of jobs and of    *)
(* posters.  The door: nobody reaches a VM that is freed, nothing is left in *)
(* its queues, and the wait of the teardown does not rest on its timeout.    *)
(* The worker uses the door as VmHandle says, so all of that holds of every  *)
(* worker; one stopped by its parent begins no exit handlers; one asleep in  *)
(* either of its polls has a wake-up coming for what it should get up for;   *)
(* and the completions its loops wait for are run.                           *)
EXTENDS WebWorker, FiniteSetTheorems, TLAPS

-----------------------------------------------------------------------------
(* The door of a VM: VmHandle *)

\* Who holds a ticket, and who is inside the gate.
Holders == {j \in Jobs : pc[j] \in {"inside", "pushed", "wakeup", "notify", "leaving"}}
Inside == {a \in Accessors :
              pc[a] \in {"entered", "inside", "pushed", "wakeup", "notify", "leaving"}}

\* The two counters count.
Counts == tickets = Cardinality(Holders) /\ active = Cardinality(Inside)

\* How far close_and_wait has come is what the state says.
Phase ==
    /\ js = "running" => state \in {"Open", "Stopping"}
    /\ js \in {"service", "lock", "held", "closing", "wait"} => state = "Draining"
    /\ js \in {"gate", "gate wait", "last service", "freed"} => state = "Closed"

\* Once no ticket was left there is none again; once the gate was found empty
\* nobody is let in.
Shut ==
    /\ js \in {"closing", "gate", "gate wait", "last service", "freed"} => Holders = {}
    /\ js \in {"last service", "freed"} =>
          \A a \in Accessors : pc[a] \notin {"inside", "pushed", "wakeup"}

JobsHoldTickets == \A j \in Jobs : pc[j] # "entered"

\* What was pushed while the mutex is held or the teardown sleeps has a
\* notifier, and so have the last ticket and the last accessor.
Coming ==
    /\ js = "wait" /\ ~signalled /\ tickets = 0 =>
          \E j \in Jobs : pc[j] \in {"left", "last notify"}
    /\ js = "held" \/ (js = "wait" /\ ~signalled) =>
          \A y \in Tasks : task[y] = "queued" => \E x \in Tasks : pc[x] \in {"pushed", "notify"}
    /\ js = "gate wait" /\ ~signalled /\ active = 0 =>
          \E a \in Accessors : pc[a] \in {"left", "last notify"}

IInv == /\ TypeOK /\ Counts /\ Phase /\ Shut /\ JobsHoldTickets
        /\ NothingLeftBehind /\ Coming

-----------------------------------------------------------------------------
(* Counting *)

\* A counter of zero means that its set is empty.
LEMMA ZeroMeansNone ==
    ASSUME Counts
    PROVE  /\ IsFiniteSet(Holders) /\ IsFiniteSet(Inside)
           /\ tickets = 0 <=> Holders = {}
           /\ active = 0 <=> Inside = {}
<1>1. IsFiniteSet(Holders)
  BY VmHandleAssumption, FS_Subset DEF Holders
<1>2. IsFiniteSet(Accessors)
  BY VmHandleAssumption, FS_AddElement DEF Accessors
<1>3. IsFiniteSet(Inside)
  BY <1>2, FS_Subset DEF Inside
<1> QED
  BY <1>1, <1>3, FS_EmptySet DEF Counts

\* A ticket is issued.
LEMMA TicketUp ==
    ASSUME Counts, NEW j \in Jobs, j \notin Holders, tickets' = tickets + 1, active' = active,
           Holders' = Holders \union {j}, Inside' = Inside
    PROVE  Counts'
  BY ZeroMeansNone, FS_AddElement DEF Counts

\* A ticket is dropped.
LEMMA TicketDown ==
    ASSUME Counts, NEW j \in Jobs, j \in Holders, tickets' = tickets - 1, active' = active,
           Holders' = Holders \ {j}, Inside' = Inside
    PROVE  Counts' /\ tickets > 0
<1>1. tickets \in Nat /\ tickets # 0
  BY ZeroMeansNone, FS_CardinalityType DEF Counts
<1>2. Counts'
  BY ZeroMeansNone, FS_RemoveElement DEF Counts
<1> QED
  BY <1>1, <1>2

\* A thread enters the gate.
LEMMA AccessUp ==
    ASSUME Counts, NEW a \in Accessors, a \notin Inside, active' = active + 1, tickets' = tickets,
           Inside' = Inside \union {a}, Holders' = Holders
    PROVE  Counts'
  BY ZeroMeansNone, FS_AddElement DEF Counts

\* A thread leaves the gate.
LEMMA AccessDown ==
    ASSUME Counts, NEW a \in Accessors, a \in Inside, active' = active - 1, tickets' = tickets,
           Inside' = Inside \ {a}, Holders' = Holders
    PROVE  Counts' /\ active > 0
<1>1. active \in Nat /\ active # 0
  BY ZeroMeansNone, FS_CardinalityType DEF Counts
<1>2. Counts'
  BY ZeroMeansNone, FS_RemoveElement DEF Counts
<1> QED
  BY <1>1, <1>2

-----------------------------------------------------------------------------
(* The invariant *)

\* It holds when the VM is created (VmHandle::new).
LEMMA Start0 == Init => IInv
<1> SUFFICES ASSUME Init PROVE IInv
  OBVIOUS
<1>1. Holders = {} /\ Inside = {}
  BY VmHandleAssumption DEF Init, Holders, Inside, Threads, Accessors
<1>2. Counts
  BY <1>1, FS_EmptySet DEF Init, Counts
<1> QED
  BY <1>1, <1>2, VmHandleAssumption
     DEF Init, IInv, TypeOK, Phase, Shut, JobsHoldTickets, NothingLeftBehind, Coming, Locations,
         JsLocations, Threads, Accessors

\* One step of the door preserves the invariant.
LEMMA Step == IInv /\ [Next]_vars => IInv'
<1> SUFFICES ASSUME IInv, [Next]_vars PROVE IInv'
  OBVIOUS
<1> USE VmHandleAssumption DEF Threads, Accessors, Tasks, Goto
<1> DEFINE Rest == TypeOK' /\ Phase' /\ Shut' /\ JobsHoldTickets' /\ NothingLeftBehind' /\ Coming'
<1>0. TypeOK /\ Counts
  BY DEF IInv
<1>n. tickets \in Nat /\ active \in Nat /\ pc \in [Threads -> Locations]
  BY <1>0 DEF TypeOK
<1>z. (tickets = 0 <=> Holders = {}) /\ (active = 0 <=> Inside = {})
  BY <1>0, ZeroMeansNone
<1>1. ASSUME NEW x \in Tasks, Push(x) PROVE IInv'
  <2>1. Holders' = Holders /\ Inside' = Inside
    BY <1>0, <1>1 DEF Push, TypeOK, Holders, Inside
  <2>2. Counts'
    BY <1>0, <2>1, <1>1 DEF Push, Counts
  <2>3. Rest
    BY <2>1, <1>1 DEF Push, IInv, TypeOK, Phase, Shut, JobsHoldTickets, NothingLeftBehind,
                      Coming, Holders, Inside, Locations, JsLocations
  <2> QED
    BY <2>2, <2>3 DEF IInv
<1>2. ASSUME NEW x \in Threads, ChooseWake(x) PROVE IInv'
  <2>1. Holders' = Holders /\ Inside' = Inside
    BY <1>0, <1>2 DEF ChooseWake, Draining, TypeOK, Holders, Inside
  <2>2. Counts'
    BY <1>0, <2>1, <1>2 DEF ChooseWake, Counts
  <2>3. Rest
    BY <2>1, <1>2 DEF ChooseWake, Draining, IInv, TypeOK, Phase, Shut, JobsHoldTickets,
                      NothingLeftBehind, Coming, Holders, Inside, Locations, JsLocations
  <2> QED
    BY <2>2, <2>3 DEF IInv
<1>3. ASSUME NEW x \in Threads, Wakeup(x) PROVE IInv'
  <2>1. Holders' = Holders /\ Inside' = Inside
    BY <1>0, <1>3 DEF Wakeup, TypeOK, Holders, Inside
  <2>2. Counts'
    BY <1>0, <2>1, <1>3 DEF Wakeup, Counts
  <2>3. Rest
    BY <2>1, <1>3 DEF Wakeup, IInv, TypeOK, Phase, Shut, JobsHoldTickets, NothingLeftBehind,
                      Coming, Holders, Inside, Locations, JsLocations
  <2> QED
    BY <2>2, <2>3 DEF IInv
<1>4. ASSUME NEW x \in Threads, Notify(x) PROVE IInv'
  <2>1. Holders' = Holders /\ Inside' = Inside
    BY <1>0, <1>4 DEF Notify, TypeOK, Holders, Inside
  <2>2. Counts'
    BY <1>0, <2>1, <1>4 DEF Notify, Counts
  <2>3. Rest
    BY <2>1, <1>4 DEF Notify, IInv, TypeOK, Phase, Shut, JobsHoldTickets, NothingLeftBehind,
                      Coming, Holders, Inside, Locations, JsLocations
  <2> QED
    BY <2>2, <2>3 DEF IInv
<1>5. ASSUME NEW x \in Threads, LastOut(x) PROVE IInv'
  <2>1. Holders' = Holders /\ Inside' = Inside
    BY <1>0, <1>5 DEF LastOut, Draining, TypeOK, Holders, Inside
  <2>2. Counts'
    BY <1>0, <2>1, <1>5 DEF LastOut, Counts
  <2>3. Rest
    BY ZenonT(60), <2>1, <1>5 DEF LastOut, Draining, IInv, TypeOK, Phase, Shut, JobsHoldTickets,
                      NothingLeftBehind, Coming, Holders, Inside, Locations, JsLocations
  <2> QED
    BY <2>2, <2>3 DEF IInv
<1>6. ASSUME NEW x \in Jobs, Drop(x) PROVE IInv'
  <2>1. x \in Holders /\ Holders' = Holders \ {x} /\ Inside' = Inside
    BY <1>0, <1>6 DEF Drop, TypeOK, Holders, Inside
  <2>e. tickets' = tickets - 1 /\ active' = active
    BY <1>6 DEF Drop
  <2>2. Counts' /\ tickets > 0
    BY <1>0, <2>1, <2>e, TicketDown
  <2>3. tickets' \in Nat /\ (tickets' = 0 => tickets = 1)
    BY <1>n, <2>2, <2>e
  <2>4. /\ pc[x] = "leaving" /\ pc' = [pc EXCEPT ![x] = pc'[x]]
        /\ pc'[x] \in {"left", "done"} /\ (tickets = 1 => pc'[x] = "left")
        /\ UNCHANGED <<state, active, task, woken, signalled, js>>
    BY <1>n, <1>6 DEF Drop
  <2>5. TypeOK' /\ JobsHoldTickets'
    BY ZenonT(60), <2>3, <2>4 DEF IInv, TypeOK, JobsHoldTickets, Locations, JsLocations
  <2>6. Phase' /\ NothingLeftBehind'
    BY <2>4 DEF IInv, Phase, NothingLeftBehind
  <2>7. Shut'
    BY <1>n, <2>1, <2>4 DEF IInv, Phase, Shut, Holders
  <2>8. Coming'
    BY <1>n, <2>3, <2>4 DEF IInv, Coming
  <2> QED
    BY <2>2, <2>5, <2>6, <2>7, <2>8 DEF IInv
<1>7. ASSUME NEW x \in Accessors, Enter(x) PROVE IInv'
  <2>1. x \notin Inside /\ Inside' = Inside \union {x} /\ Holders' = Holders
    BY <1>0, <1>7 DEF Enter, TypeOK, Holders, Inside
  <2>e. active' = active + 1 /\ tickets' = tickets
    BY <1>7 DEF Enter
  <2>2. Counts'
    BY <1>0, <2>1, <2>e, AccessUp
  <2>3. active' \in Nat /\ active' # 0
    BY <1>n, <2>2, <2>e
  <2>4. /\ pc[x] = "idle" /\ pc' = [pc EXCEPT ![x] = pc'[x]]
        /\ pc'[x] = "entered"
        /\ UNCHANGED <<state, tickets, task, woken, signalled, js>>
    BY <1>n, <1>7 DEF Enter
  <2>5. TypeOK' /\ JobsHoldTickets'
    BY <2>3, <2>4 DEF IInv, TypeOK, JobsHoldTickets, Locations, JsLocations
  <2>6. Phase' /\ NothingLeftBehind'
    BY <2>4 DEF IInv, Phase, NothingLeftBehind
  <2>7. Shut'
    BY <1>n, <2>1, <2>4 DEF IInv, Phase, Shut, Holders
  <2>8. Coming'
    BY <1>n, <2>3, <2>4 DEF IInv, Coming
  <2> QED
    BY <2>2, <2>5, <2>6, <2>7, <2>8 DEF IInv
<1>8. ASSUME NEW x \in Accessors, Admit(x) PROVE IInv'
  <2>1. Holders' = Holders /\ Inside' = Inside
    BY <1>0, <1>8 DEF Admit, TypeOK, Holders, Inside
  <2>2. Counts'
    BY <1>0, <2>1, <1>8 DEF Admit, Counts
  <2>3. Rest
    BY <2>1, <1>8 DEF Admit, IInv, TypeOK, Phase, Shut, JobsHoldTickets, NothingLeftBehind,
                      Coming, Holders, Inside, Locations, JsLocations
  <2> QED
    BY <2>2, <2>3 DEF IInv
<1>9. ASSUME NEW x \in Accessors, Refuse(x) PROVE IInv'
  <2>1. Holders' = Holders /\ Inside' = Inside
    BY <1>0, <1>9 DEF Refuse, TypeOK, Holders, Inside
  <2>2. Counts'
    BY <1>0, <2>1, <1>9 DEF Refuse, Counts
  <2>3. Rest
    BY <2>1, <1>9 DEF Refuse, IInv, TypeOK, Phase, Shut, JobsHoldTickets, NothingLeftBehind,
                      Coming, Holders, Inside, Locations, JsLocations
  <2> QED
    BY <2>2, <2>3 DEF IInv
<1>10. ASSUME NEW x \in Accessors, Leave(x) PROVE IInv'
  <2>1. x \in Inside /\ Inside' = Inside \ {x} /\ Holders' = Holders
    BY <1>0, <1>10 DEF Leave, TypeOK, Holders, Inside
  <2>e. active' = active - 1 /\ tickets' = tickets
    BY <1>10 DEF Leave
  <2>2. Counts' /\ active > 0
    BY <1>0, <2>1, <2>e, AccessDown
  <2>3. active' \in Nat /\ (active' = 0 => active = 1)
    BY <1>n, <2>2, <2>e
  <2>4. /\ pc[x] = "leaving" /\ pc' = [pc EXCEPT ![x] = pc'[x]]
        /\ pc'[x] \in {"left", "done"} /\ (active = 1 => pc'[x] = "left")
        /\ UNCHANGED <<state, tickets, task, woken, signalled, js>>
    BY <1>n, <1>10 DEF Leave
  <2>5. TypeOK' /\ JobsHoldTickets'
    BY <2>3, <2>4 DEF IInv, TypeOK, JobsHoldTickets, Locations, JsLocations
  <2>6. Phase' /\ NothingLeftBehind'
    BY <2>4 DEF IInv, Phase, NothingLeftBehind
  <2>7. Shut'
    BY <1>n, <2>1, <2>4 DEF IInv, Phase, Shut, Holders
  <2>8. Coming'
    BY <1>n, <2>3, <2>4 DEF IInv, Coming
  <2> QED
    BY <2>2, <2>5, <2>6, <2>7, <2>8 DEF IInv
<1>11. ASSUME NEW x \in Jobs, Start(x) PROVE IInv'
  <2>1. x \notin Holders /\ Holders' = Holders \union {x} /\ Inside' = Inside
    BY <1>0, <1>11 DEF Start, running, Issue, TypeOK, Holders, Inside
  <2>e. tickets' = tickets + 1 /\ active' = active
    BY <1>11 DEF Start, running, Issue
  <2>2. Counts'
    BY <1>0, <2>1, <2>e, TicketUp
  <2>3. tickets' \in Nat /\ tickets' # 0
    BY <1>n, <2>2, <2>e
  <2>4. /\ pc[x] = "idle" /\ pc' = [pc EXCEPT ![x] = pc'[x]]
        /\ pc'[x] = "inside" /\ js = "running"
        /\ UNCHANGED <<state, active, task, woken, signalled, js>>
    BY <1>n, <1>11 DEF Start, running, Issue
  <2>5. TypeOK' /\ JobsHoldTickets'
    BY ZenonT(60), <2>3, <2>4 DEF IInv, TypeOK, JobsHoldTickets, Locations, JsLocations
  <2>6. Phase' /\ NothingLeftBehind'
    BY <2>4 DEF IInv, Phase, NothingLeftBehind
  <2>7. Shut'
    BY <1>n, <2>1, <2>4 DEF IInv, Phase, Shut, Holders
  <2>8. Coming'
    BY <1>n, <2>3, <2>4 DEF IInv, Coming
  <2> QED
    BY <2>2, <2>5, <2>6, <2>7, <2>8 DEF IInv
<1>12. ASSUME TickConcurrent PROVE IInv'
  <2>1. Holders' = Holders /\ Inside' = Inside
    BY <1>12 DEF TickConcurrent, running, Holders, Inside
  <2>2. Counts'
    BY <1>0, <2>1, <1>12 DEF TickConcurrent, running, Counts
  <2>3. Rest
    BY <2>1, <1>z, <1>12 DEF TickConcurrent, running, IInv, TypeOK, Phase, Shut,
                             JobsHoldTickets, NothingLeftBehind, Coming, Holders, Inside,
                             Locations, JsLocations
  <2> QED
    BY <2>2, <2>3 DEF IInv
<1>13. ASSUME NEW x \in Tasks, RunTask(x) PROVE IInv'
  <2>1. Holders' = Holders /\ Inside' = Inside
    BY <1>13 DEF RunTask, running, Holders, Inside
  <2>2. Counts'
    BY <1>0, <2>1, <1>13 DEF RunTask, running, Counts
  <2>3. Rest
    BY <2>1, <1>z, <1>13 DEF RunTask, running, IInv, TypeOK, Phase, Shut, JobsHoldTickets,
                             NothingLeftBehind, Coming, Holders, Inside, Locations, JsLocations
  <2> QED
    BY <2>2, <2>3 DEF IInv
<1>14. ASSUME NEW wake \in BOOLEAN, Poll(wake) PROVE IInv'
  <2>1. Holders' = Holders /\ Inside' = Inside
    BY <1>14 DEF Poll, running, Holders, Inside
  <2>2. Counts'
    BY <1>0, <2>1, <1>14 DEF Poll, running, Counts
  <2>3. Rest
    BY <2>1, <1>z, <1>14 DEF Poll, running, IInv, TypeOK, Phase, Shut, JobsHoldTickets,
                             NothingLeftBehind, Coming, Holders, Inside, Locations, JsLocations
  <2> QED
    BY <2>2, <2>3 DEF IInv
<1>15. ASSUME StopSelf PROVE IInv'
  <2>1. Holders' = Holders /\ Inside' = Inside
    BY <1>15 DEF StopSelf, running, Stopped, Holders, Inside
  <2>2. Counts'
    BY <1>0, <2>1, <1>15 DEF StopSelf, running, Stopped, Counts
  <2>3. Rest
    BY <2>1, <1>z, <1>15 DEF StopSelf, running, Stopped, IInv, TypeOK, Phase, Shut,
                             JobsHoldTickets, NothingLeftBehind, Coming, Holders, Inside,
                             Locations, JsLocations
  <2> QED
    BY <2>2, <2>3 DEF IInv
<1>16. ASSUME stop PROVE IInv'
  <2>1. Holders' = Holders /\ Inside' = Inside
    BY <1>16 DEF stop, Stopped, Holders, Inside
  <2>2. Counts'
    BY <1>0, <2>1, <1>16 DEF stop, Stopped, Counts
  <2>3. Rest
    BY <2>1, <1>z, <1>16 DEF stop, Stopped, IInv, TypeOK, Phase, Shut, JobsHoldTickets,
                             NothingLeftBehind, Coming, Holders, Inside, Locations, JsLocations
  <2> QED
    BY <2>2, <2>3 DEF IInv
<1>17. ASSUME Drain PROVE IInv'
  <2>1. Holders' = Holders /\ Inside' = Inside
    BY <1>17 DEF Drain, Holders, Inside
  <2>2. Counts'
    BY <1>0, <2>1, <1>17 DEF Drain, Counts
  <2>3. Rest
    BY <2>1, <1>z, <1>17 DEF Drain, IInv, TypeOK, Phase, Shut, JobsHoldTickets,
                             NothingLeftBehind, Coming, Holders, Inside, Locations, JsLocations
  <2> QED
    BY <2>2, <2>3 DEF IInv
<1>18. ASSUME Service PROVE IInv'
  <2>1. CASE UNCHANGED <<tickets, pc>>
    <3>1. Holders' = Holders /\ Inside' = Inside
      BY <2>1 DEF Holders, Inside
    <3>2. Counts'
      BY <1>0, <2>1, <3>1, <1>18 DEF Service, Counts
    <3>3. Rest
      BY <2>1, <3>1, <1>18 DEF Service, Release, IInv, TypeOK, Phase, Shut, JobsHoldTickets,
         NothingLeftBehind, Coming, Holders, Inside, Locations, JsLocations
    <3> QED
      BY <3>2, <3>3 DEF IInv
  <2>2. ASSUME NEW j \in Jobs, Issue(j) PROVE IInv'
    <3>1. Holders' = Holders \union {j} /\ Inside' = Inside /\ j \notin Holders
      BY <1>0, <2>2, <1>18 DEF Issue, Service, TypeOK, Holders, Inside
    <3>e. tickets' = tickets + 1 /\ active' = active
      BY <2>2, <1>18 DEF Issue, Service
    <3>2. Counts'
      BY <1>0, <3>1, <3>e, TicketUp
    <3>a. tickets' \in Nat
      BY <1>n, <3>e
    <3>b. pc' = [pc EXCEPT ![j] = "inside"] /\ UNCHANGED <<state, active, woken, signalled>>
      BY <2>2, <1>18 DEF Service, Issue
    <3>c. task' \in [Tasks -> {"none", "queued", "taken", "run", "released", "refused"}]
      BY <1>18 DEF Service, Release, IInv, TypeOK
    <3>3. TypeOK' /\ JobsHoldTickets'
      BY <3>a, <3>b, <3>c, <1>18 DEF Service, IInv, TypeOK, JobsHoldTickets, Locations,
         JsLocations
    <3>4. Phase' /\ NothingLeftBehind' /\ Shut' /\ Coming'
      BY <1>18 DEF Service, IInv, Phase, NothingLeftBehind, Shut, Coming
    <3> QED
      BY <3>2, <3>3, <3>4 DEF IInv
  <2> QED
    BY <2>1, <2>2, <1>18 DEF Service
<1>19. ASSUME LockDrained PROVE IInv'
  <2>1. Holders' = Holders /\ Inside' = Inside
    BY <1>19 DEF LockDrained, Queued, Holders, Inside
  <2>2. Counts'
    BY <1>0, <2>1, <1>19 DEF LockDrained, Queued, Counts
  <2>3. Rest
    BY <2>1, <1>z, <1>19 DEF LockDrained, Queued, IInv, TypeOK, Phase, Shut, JobsHoldTickets,
                             NothingLeftBehind, Coming, Holders, Inside, Locations, JsLocations
  <2> QED
    BY <2>2, <2>3 DEF IInv
<1>20. ASSUME CheckTickets PROVE IInv'
  <2>1. Holders' = Holders /\ Inside' = Inside
    BY <1>20 DEF CheckTickets, Holders, Inside
  <2>2. Counts'
    BY <1>0, <2>1, <1>20 DEF CheckTickets, Counts
  <2>3. Rest
    BY <2>1, <1>z, <1>20 DEF CheckTickets, IInv, TypeOK, Phase, Shut, JobsHoldTickets,
                             NothingLeftBehind, Coming, Holders, Inside, Locations, JsLocations
  <2> QED
    BY <2>2, <2>3 DEF IInv
<1>21. ASSUME WaitReturns PROVE IInv'
  <2>1. Holders' = Holders /\ Inside' = Inside
    BY <1>21 DEF WaitReturns, Holders, Inside
  <2>2. Counts'
    BY <1>0, <2>1, <1>21 DEF WaitReturns, Counts
  <2>3. Rest
    BY <2>1, <1>z, <1>21 DEF WaitReturns, IInv, TypeOK, Phase, Shut, JobsHoldTickets,
                             NothingLeftBehind, Coming, Holders, Inside, Locations, JsLocations
  <2> QED
    BY <2>2, <2>3 DEF IInv
<1>22. ASSUME WaitTimesOut PROVE IInv'
  <2>1. Holders' = Holders /\ Inside' = Inside
    BY <1>22 DEF WaitTimesOut, Holders, Inside
  <2>2. Counts'
    BY <1>0, <2>1, <1>22 DEF WaitTimesOut, Counts
  <2>3. Rest
    BY <2>1, <1>z, <1>22 DEF WaitTimesOut, IInv, TypeOK, Phase, Shut, JobsHoldTickets,
                             NothingLeftBehind, Coming, Holders, Inside, Locations, JsLocations
  <2> QED
    BY <2>2, <2>3 DEF IInv
<1>23. ASSUME SetClosed PROVE IInv'
  <2>1. Holders' = Holders /\ Inside' = Inside
    BY <1>23 DEF SetClosed, Holders, Inside
  <2>2. Counts'
    BY <1>0, <2>1, <1>23 DEF SetClosed, Counts
  <2>3. Rest
    BY <2>1, <1>z, <1>23 DEF SetClosed, IInv, TypeOK, Phase, Shut, JobsHoldTickets,
                             NothingLeftBehind, Coming, Holders, Inside, Locations, JsLocations
  <2> QED
    BY <2>2, <2>3 DEF IInv
<1>24. ASSUME CheckActive PROVE IInv'
  <2>1. Holders' = Holders /\ Inside' = Inside
    BY <1>24 DEF CheckActive, Holders, Inside
  <2>2. Counts'
    BY <1>0, <2>1, <1>24 DEF CheckActive, Counts
  <2>3. Rest
    BY <2>1, <1>z, <1>24 DEF CheckActive, IInv, TypeOK, Phase, Shut, JobsHoldTickets,
                             NothingLeftBehind, Coming, Holders, Inside, Locations, JsLocations
  <2> QED
    BY <2>2, <2>3 DEF IInv
<1>25. ASSUME LastService PROVE IInv'
  <2>1. Holders' = Holders /\ Inside' = Inside
    BY <1>25 DEF LastService, Release, Holders, Inside
  <2>2. Counts'
    BY <1>0, <2>1, <1>25 DEF LastService, Release, Counts
  <2>3. Rest
    BY <2>1, <1>z, <1>25 DEF LastService, Release, IInv, TypeOK, Phase, Shut, JobsHoldTickets,
                             NothingLeftBehind, Coming, Holders, Inside, Locations, JsLocations
  <2> QED
    BY <2>2, <2>3 DEF IInv
<1>26. ASSUME UNCHANGED vars PROVE IInv'
  <2>1. Holders' = Holders /\ Inside' = Inside
    BY <1>26 DEF vars, Holders, Inside
  <2>2. Counts'
    BY <1>0, <2>1, <1>26 DEF vars, Counts
  <2>3. Rest
    BY <2>1, <1>z, <1>26 DEF vars, IInv, TypeOK, Phase, Shut, JobsHoldTickets,
                             NothingLeftBehind, Coming, Holders, Inside, Locations, JsLocations
  <2> QED
    BY <2>2, <2>3 DEF IInv
<1> QED
  BY <1>1, <1>2, <1>3, <1>4, <1>5, <1>6, <1>7, <1>8, <1>9, <1>10, <1>11, <1>12, <1>13,
     <1>14, <1>15, <1>16, <1>17, <1>18, <1>19, <1>20, <1>21, <1>22, <1>23, <1>24, <1>25,
     <1>26
     DEF Next, JobStep, AccessStep, RunStep, CloseStep

(* The inductive invariant holds of every use of the door: the counters say *)
(* who is inside, and each phase of close_and_wait has shut what it shut.    *)
THEOREM Invariant == Spec => []IInv
  BY Start0, Step, PTL DEF Spec

(* No thread reaches the VM once it is freed: close_and_wait returns only    *)
(* when every ticket is dropped and every admitted accessor has left.        *)
THEOREM FreedIsUnreachable == Spec => []NoUseAfterFree
<1>1. IInv => NoUseAfterFree
  BY DEF IInv, Shut, Holders, NoUseAfterFree, Reaches
<1> QED
  BY Invariant, <1>1, PTL

(* A freed VM's queues are empty: no post slips in behind the last service(). *)
THEOREM QueuesEmptied == Spec => []NothingLeftBehind
<1>1. IInv => NothingLeftBehind
  BY DEF IInv
<1> QED
  BY Invariant, <1>1, PTL

(* close_and_wait never sleeps without a notifier on its way when its reason *)
(* to wake has come: the one second timeout is only a backstop.              *)
THEOREM TeardownIsNotified == Spec => []SleeperHasNotifier
<1>1. IInv => SleeperHasNotifier
  BY DEF IInv, Coming, SleeperHasNotifier, Queued
<1> QED
  BY Invariant, <1>1, PTL

-----------------------------------------------------------------------------
(* The worker *)

\* Every step of a worker, its parent and the other threads is a step of the
\* door or leaves it alone.
LEMMA StepIsDoorStep == WNext => [Next]_vars
<1> SUFFICES ASSUME WNext PROVE [Next]_vars
  OBVIOUS
<1> USE DEF Next
<1>1. CASE WorkerStep
  <2>1. CASE Begin \/ Publish \/ SpinBegins \/ TickEnds \/ PollBlocks \/ PollEnds
             \/ BeforeExitDone \/ Unpublish \/ Join
    BY <2>1 DEF Begin, Publish, SpinBegins, TickEnds, PollBlocks, PollEnds, BeforeExitDone,
                Unpublish, Join
  <2>2. CASE EntryLoaded \/ LoopTest \/ TickTake
    BY <2>2 DEF EntryLoaded, LoopTest, TickTake, RunStep
  <2>3. CASE DrainTest
    BY <2>3 DEF DrainTest, RunStep
  <2>4. CASE \E x \in Tasks : TickRun(x)
    BY <2>4 DEF TickRun, RunStep
  <2>5. CASE PollReady \/ PollReturns
    BY <2>5 DEF PollReady, PollReturns, RunStep
  <2>6. CASE OnExit \/ HandlersDone
    BY <2>6 DEF OnExit, HandlersDone
  <2>7. CASE Teardown \/ Closing
    BY <2>7 DEF Teardown, Closing, RunStep
  <2>8. CASE EndingStep
    BY <2>8 DEF EndingStep, ExitEnds, exit, LastWordsDone, RunStep
  <2> QED
    BY <1>1, <2>1, <2>2, <2>3, <2>4, <2>5, <2>6, <2>7, <2>8 DEF WorkerStep
<1>2. CASE Script
  <2>1. CASE (\E j \in Jobs : StartJob(j)) \/ Listen \/ ExitBegins \/ ExitCut \/ EntryFails
    BY <2>1 DEF StartJob, Listen, ExitBegins, ExitCut, EntryFails, RunStep
  <2>2. CASE ReallyExit \/ Uncaught \/ EntryRejected
    BY <2>2 DEF ReallyExit, exit, Uncaught, EntryRejected, NotHandled, RunStep
  <2> QED
    BY <1>2, <2>1, <2>2 DEF Script
<1>3. CASE IoEvent \/ ClosingTimesOut \/ RequestFlag \/ RequestAgain
  BY <1>3 DEF IoEvent, ClosingTimesOut, RequestFlag, RequestAgain, allvars
<1>4. CASE ParentStep
  BY <1>4 DEF ParentStep, MarkStopped, RequestStop, RequestEnter, Return, Accessors
<1>5. CASE \E p \in Posters : PostEnters(p)
  BY <1>5 DEF PostEnters, Accessors
<1>6. CASE \E t \in Threads : Others(t)
  BY <1>6 DEF Others, Threads
<1> QED
  BY <1>1, <1>2, <1>3, <1>4, <1>5, <1>6 DEF WNext

(* A worker is a user of the door: its behaviours are behaviours of VmHandle. *)
THEOREM WorkerUsesDoor == WSpec => Spec
<1>1. WInit => Init
  BY DEF WInit
<1>2. [WNext]_allvars => [Next]_vars
  BY StepIsDoorStep DEF allvars
<1> QED
  BY <1>1, <1>2, PTL DEF WSpec, Spec

(* A worker's VM is freed only when no job and no admitted thread can reach it. *)
THEOREM WorkerVmIsSafe == WSpec => []NoUseAfterFree
  BY WorkerUsesDoor, FreedIsUnreachable, PTL

-----------------------------------------------------------------------------
(* The lock of vm_handle *)

\* From publishing the handle to taking it back; the turns of the two loops.
Published == {"spin", "entry", "first tick", "loop", "tick", "poll", "asleep", "callbacks",
              "before exit", "shutdown"}
Looping == Published \ {"spin", "shutdown"}

\* The parent is inside request_termination() with a handle only while it is
\* published, every request it made then is marked before the lock is free, and
\* a fatal error or process.exit() runs its handlers only while it is published.
LockProtocol ==
    /\ vm_handle \in BOOLEAN /\ asked \in BOOLEAN
    /\ terminated_by_parent \in BOOLEAN /\ exit_called \in BOOLEAN /\ m_isExiting \in BOOLEAN
    /\ ending \in {"none", "last words", "exiting"}
    /\ parent \in {"flagged", "marked", "stopped"} => vm_handle
    /\ asked => terminated_by_parent \/ parent = "flagged"
    /\ IF worker \in Published THEN vm_handle ELSE ~vm_handle /\ ending = "none"
    /\ exit_called => m_isExiting \/ worker \in {"closing", "joined"}
    /\ worker = "exit handlers" => m_isExiting

\* One step preserves it.
LEMMA LockStep == LockProtocol /\ [WNext]_allvars => LockProtocol'
<1> SUFFICES ASSUME LockProtocol, [WNext]_allvars PROVE LockProtocol'
  OBVIOUS
<1> USE DEF LockProtocol, Published, flags, To
<1>1. CASE WorkerStep
  <2>1. CASE Begin
    BY <2>1 DEF Begin
  <2>2. CASE Publish
    BY <2>2 DEF Publish, HandleLockFree
  <2>3. CASE SpinBegins
    BY <2>3 DEF SpinBegins
  <2>4. CASE EntryLoaded
    BY <2>4 DEF EntryLoaded
  <2>5. CASE LoopTest
    BY <2>5 DEF LoopTest
  <2>6. CASE DrainTest
    <3>1. worker = "loop" /\ worker' \in {"tick", "before exit", "shutdown"}
      BY <2>6 DEF DrainTest
    <3>2. UNCHANGED <<ending, parent, vm_handle, flags>>
      BY <2>6 DEF DrainTest
    <3> QED
      BY <3>1, <3>2
  <2>7. CASE TickEnds
    BY <2>7 DEF TickEnds
  <2>8. CASE PollReady
    BY <2>8 DEF PollReady
  <2>9. CASE PollBlocks
    BY <2>9 DEF PollBlocks
  <2>10. CASE PollReturns
    BY <2>10 DEF PollReturns
  <2>11. CASE PollEnds
    BY <2>11 DEF PollEnds
  <2>12. CASE BeforeExitDone
    BY <2>12 DEF BeforeExitDone
  <2>13. CASE Unpublish
    BY <2>13 DEF Unpublish, HandleLockFree
  <2>14. CASE OnExit
    BY <2>14 DEF OnExit
  <2>15. CASE HandlersDone
    BY <2>15 DEF HandlersDone
  <2>16. CASE Teardown
    BY <2>16 DEF Teardown
  <2>17. CASE Join
    BY <2>17 DEF Join
  <2>18. CASE EndingStep
    <3>1. CASE ExitEnds
      BY <3>1 DEF ExitEnds, exit
    <3>2. CASE LastWordsDone
      BY <3>2 DEF LastWordsDone
    <3> QED
      BY <2>18, <3>1, <3>2 DEF EndingStep
  <2>19. CASE TickTake \/ (\E x \in Tasks : TickRun(x)) \/ Closing
    <3>1. UNCHANGED own
      BY <2>19 DEF TickTake, TickRun, Closing
    <3> QED
      BY <3>1 DEF own
  <2> QED
    BY <1>1, <2>1, <2>2, <2>3, <2>4, <2>5, <2>6, <2>7, <2>8, <2>9,
       <2>10, <2>11, <2>12, <2>13, <2>14, <2>15, <2>16, <2>17, <2>18, <2>19 DEF WorkerStep
<1>2. CASE Script
  <2>1. CASE \E j \in Jobs : StartJob(j)
    <3>1. UNCHANGED <<worker, ending, parent, vm_handle, terminated_by_parent, exit_called,
                      m_isExiting, asked>>
      BY <2>1 DEF StartJob
    <3> QED
      BY <3>1
  <2>2. CASE Listen
    BY <2>2 DEF Listen
  <2>3. CASE ExitBegins
    BY <2>3 DEF ExitBegins, ScriptRuns, InHandlers, Scripting
  <2>4. CASE ExitCut
    BY <2>4 DEF ExitCut
  <2>5. CASE ReallyExit
    BY <2>5 DEF ReallyExit, exit
  <2>6. CASE Uncaught
    BY <2>6 DEF Uncaught, NotHandled, Scripting
  <2>7. CASE EntryFails
    BY <2>7 DEF EntryFails
  <2>8. CASE EntryRejected
    <3>1. worker \in {"entry", "loop", "poll"} /\ worker' = "shutdown"
      BY <2>8 DEF EntryRejected
    <3>2. UNCHANGED <<parent, vm_handle, terminated_by_parent, exit_called, asked>>
      BY <2>8 DEF EntryRejected, NotHandled
    <3>3. \/ ending' \in {ending, "none"} /\ UNCHANGED m_isExiting
          \/ ending' = "last words" /\ m_isExiting' = TRUE
      BY <2>8 DEF EntryRejected, NotHandled
    <3> QED
      BY <3>1, <3>2, <3>3
  <2> QED
    BY <1>2, <2>1, <2>2, <2>3, <2>4, <2>5, <2>6, <2>7, <2>8 DEF Script
<1>3. CASE ParentStep \/ RequestFlag
  <2>1. CASE RequestFlag
    BY <2>1 DEF RequestFlag
  <2>2. CASE MarkStopped
    BY <2>2 DEF MarkStopped
  <2>3. CASE RequestStop
    BY <2>3 DEF RequestStop
  <2>4. CASE Return
    BY <2>4 DEF Return
  <2>5. CASE RequestEnter
    <3>1. UNCHANGED own
      BY <2>5 DEF RequestEnter
    <3> QED
      BY <3>1 DEF own
  <2> QED
    BY <1>3, <2>1, <2>2, <2>3, <2>4, <2>5 DEF ParentStep
<1>4. CASE IoEvent
  BY <1>4 DEF IoEvent
<1>5. CASE \/ ClosingTimesOut \/ RequestAgain \/ UNCHANGED allvars
           \/ (\E p \in Posters : PostEnters(p)) \/ \E t \in Threads : Others(t)
  <2>1. UNCHANGED own
    BY <1>5 DEF ClosingTimesOut, RequestAgain, PostEnters, Others, allvars
  <2> QED
    BY <2>1 DEF own
<1> QED
  BY <1>1, <1>2, <1>3, <1>4, <1>5 DEF WNext

-----------------------------------------------------------------------------
(* The poll *)

\* The VM's door is as VmHandle proves it at every step of a worker.
LEMMA DoorStep == IInv /\ [WNext]_allvars => IInv'
<1>1. [WNext]_allvars => [Next]_vars
  BY StepIsDoorStep DEF allvars
<1> QED
  BY <1>1, Step

\* The request to terminate is on its way to the loop's wake-up.
RequestComing == \/ parent \in {"flagged", "marked"}
                 \/ parent = "stopped" /\ pc[Parent] \in {"idle", "entered", "wakeup"}

\* The parent goes through the door once, after its stop; a worker in a loop
\* that was told to end and is not stopped has its parent still at it; and a
\* worker about to poll, not only one asleep, has a wake-up pending or on its
\* way when it was told to end.
Polling ==
    /\ requested_terminate \in BOOLEAN
    /\ js # "running" => worker \in {"closing", "joined"}
    /\ parent \in {"flagged", "marked", "stopped"} => requested_terminate
    /\ parent \in {"flagged", "marked"} \/ ~requested_terminate => pc[Parent] = "idle"
    /\ parent = "stopped" \/ pc[Parent] # "idle" => state # "Open"
    /\ worker \in Looping /\ requested_terminate /\ state = "Open" =>
          parent \in {"flagged", "marked"}
    /\ worker \in {"poll", "asleep"} /\ ~woken /\ requested_terminate => RequestComing
    /\ worker = "asleep" /\ ~woken =>
          \A y \in Tasks : task[y] = "queued" => \E t \in Tasks : pc[t] \in {"pushed", "wakeup"}

\* A step of another thread through the door.
LEMMA PollingOthers ==
    ASSUME IInv, Polling, NEW t \in Threads, Others(t)
    PROVE  Polling'
<1>1. /\ pc \in [Threads -> Locations]
      /\ task \in [Tasks -> {"none", "queued", "taken", "run", "released", "refused"}]
      /\ Parent \in Threads /\ Parent \notin Tasks /\ Tasks \subseteq Threads
      /\ t # Parent => t \in Tasks
      /\ t \in Jobs => t # Parent
  BY VmHandleAssumption DEF IInv, TypeOK, Threads, Accessors, Tasks
<1>2. UNCHANGED own /\ UNCHANGED <<js, state>>
  BY DEF Others, JobStep, AccessStep, Push, ChooseWake, Wakeup, Notify, Drop, LastOut, Admit,
         Refuse, Leave
<1>3. /\ pc' \in [Threads -> Locations] /\ \A u \in Threads \ {t} : pc'[u] = pc[u]
      /\ pc[t] # "idle"
      /\ woken => woken'
      /\ \/ UNCHANGED task
         \/ t \in Tasks /\ pc'[t] = "pushed" /\ \A y \in Tasks \ {t} : task'[y] = task[y]
         \/ t \in Tasks /\ task'[t] = "refused" /\ \A y \in Tasks \ {t} : task'[y] = task[y]
      /\ js = "running" /\ pc[t] \in {"pushed"} => pc'[t] = "wakeup"
      /\ js = "running" /\ pc[t] = "entered" /\ t = Parent => pc'[t] = "wakeup"
      /\ pc[t] = "wakeup" => woken'
  <2>1. js = "running" => state \notin {"Draining", "Closed"}
    BY DEF IInv, Phase
  <2>2. CASE t \in Jobs
    BY <1>1, <2>1, <2>2 DEF Others, JobStep, Push, ChooseWake, Wakeup, Notify, Drop, LastOut, Goto,
                            Draining, Locations
  <2>3. CASE t \notin Jobs
    BY <1>1, <2>1, <2>3 DEF Others, AccessStep, Push, ChooseWake, Wakeup, Notify, Leave, LastOut,
                            Admit, Refuse, Goto, Draining, Locations
  <2> QED
    BY <2>2, <2>3
<1> QED
  BY <1>1, <1>2, <1>3 DEF Polling, own, flags, RequestComing, Published, Looping

\* A worker that stops itself is woken, and the parent's part does not change.
LEMMA PollingStop ==
    ASSUME Polling, StopSelf, UNCHANGED parent, requested_terminate' = TRUE,
           worker' = worker \/ worker' = "shutdown"
    PROVE  Polling'
<1>1. state' # "Open" /\ woken' = TRUE /\ UNCHANGED <<pc, js>> /\ js = "running"
  BY DEF StopSelf, Stopped, running
<1> QED
  BY <1>1 DEF Polling, RequestComing

\* Every step.
LEMMA PollingStep == IInv /\ LockProtocol /\ Polling /\ [WNext]_allvars => Polling'
<1> SUFFICES ASSUME IInv, LockProtocol, Polling, [WNext]_allvars PROVE Polling'
  OBVIOUS
<1>0. worker \in Published => vm_handle
  BY DEF LockProtocol
<1> USE DEF Polling, RequestComing, Published, Looping, flags, vars, To
<1>1. CASE WorkerStep
  <2>1. CASE Begin \/ Publish \/ SpinBegins
    <3>1. UNCHANGED <<parent, requested_terminate, pc, js, state, woken, task>>
      BY <2>1 DEF Begin, Publish, SpinBegins
    <3>2. worker \in {"start", "init", "spin"}
          /\ worker' \in {"stillborn", "init", "spin", "shutdown", "entry"}
          /\ (worker' = "entry" => ~requested_terminate)
      BY <2>1 DEF Begin, Publish, SpinBegins
    <3> QED
      BY <3>1, <3>2
  <2>2. CASE EntryLoaded
    BY <2>2 DEF EntryLoaded, TickConcurrent, running
  <2>3. CASE LoopTest
    BY <2>3 DEF LoopTest, TickConcurrent, running
  <2>4. CASE DrainTest
    <3>1. worker = "loop" /\ worker' \in {"tick", "before exit", "shutdown"}
      BY <2>4 DEF DrainTest
    <3>2. UNCHANGED <<parent, flags, pc, js, state, woken>>
      BY <2>4 DEF DrainTest, TickConcurrent, running
    <3> QED
      BY <3>1, <3>2
  <2>5. CASE TickTake
    BY <2>5 DEF TickTake, TickConcurrent, running, own
  <2>6. CASE \E x \in Tasks : TickRun(x)
    <3>1. UNCHANGED <<own, pc, js, state>> /\ worker # "asleep" /\ worker # "poll"
      BY <2>6 DEF TickRun, RunTask, running
    <3> QED
      BY <3>1 DEF own
  <2>7. CASE PollReady
    BY <2>7 DEF PollReady, Poll, running
  <2>8. CASE PollBlocks
    BY <2>8 DEF PollBlocks, HasTasks
  <2>9. CASE PollReturns
    BY <2>9 DEF PollReturns, Poll, running
  <2>10. CASE OnExit
    BY <2>10 DEF OnExit, stop, Stopped
  <2>11. CASE HandlersDone
    BY <2>11 DEF HandlersDone, stop, Stopped
  <2>12. CASE Teardown
    BY <2>12 DEF Teardown, Drain
  <2>13. CASE Closing
    <3>1. js # "running" /\ UNCHANGED own
      BY <2>13 DEF Closing, CloseStep, Service, LockDrained, CheckTickets, WaitReturns, SetClosed,
                   CheckActive, LastService
    <3>2. pc'[Parent] = pc[Parent]
      BY <2>13, VmHandleAssumption
         DEF Closing, CloseStep, Service, LockDrained, CheckTickets, WaitReturns, SetClosed,
             CheckActive, LastService, Issue, Goto, IInv, TypeOK, Threads, Accessors
    <3>3. state' = state \/ state' = "Closed"
      BY <2>13 DEF Closing, CloseStep, Service, LockDrained, CheckTickets, WaitReturns, SetClosed,
                   CheckActive, LastService
    <3> QED
      BY <3>1, <3>2, <3>3 DEF own
  <2>14. CASE Join
    BY <2>14 DEF Join
  <2>15. CASE TickEnds
    BY <2>15 DEF TickEnds, ToldToEnd, script_allowed
  <2>16. CASE PollEnds \/ BeforeExitDone \/ Unpublish
    <3>1. UNCHANGED <<parent, requested_terminate, pc, js, state, woken, task>>
      BY <2>16 DEF PollEnds, BeforeExitDone, Unpublish
    <3>2. worker \in {"callbacks", "before exit", "shutdown"}
          /\ worker' \in {"loop", "shutdown", "on exit"}
          /\ (worker' = "loop" => worker \in {"callbacks", "before exit"})
      BY <2>16 DEF PollEnds, BeforeExitDone, Unpublish
    <3> QED
      BY <3>1, <3>2
  <2>17. CASE EndingStep
    <3>1. worker # "exit handlers"
      BY <2>17 DEF EndingStep, ExitEnds, LastWordsDone, LockProtocol
    <3> QED
      BY <2>17, <3>1, PollingStop DEF EndingStep, ExitEnds, exit, LastWordsDone
  <2> QED
    BY <1>1, <2>1, <2>2, <2>3, <2>4, <2>5, <2>6, <2>7, <2>8, <2>9,
       <2>10, <2>11, <2>12, <2>13, <2>14, <2>15, <2>16, <2>17 DEF WorkerStep
<1>2. CASE Script
  <2>1. ASSUME NEW j \in Jobs, StartJob(j) PROVE Polling'
    <3>1. /\ pc' = [pc EXCEPT ![j] = "inside"] /\ pc[j] = "idle"
          /\ UNCHANGED <<worker, parent, vm_handle, requested_terminate, woken, task, js, state>>
      BY <2>1 DEF StartJob, Start, Issue, Goto, running
    <3>2. pc'[Parent] = pc[Parent]
          /\ \A t \in Tasks : pc[t] \in {"pushed", "wakeup"} => pc'[t] = pc[t]
      BY <3>1, VmHandleAssumption DEF IInv, TypeOK, Threads, Accessors, Tasks
    <3> QED
      BY <3>1, <3>2
  <2>2. CASE Listen \/ ExitBegins \/ ExitCut
    <3>1. UNCHANGED <<worker, parent, requested_terminate, pc, js, state, woken, task>>
      BY <2>2 DEF Listen, ExitBegins, ExitCut
    <3> QED
      BY <3>1
  <2>3. CASE ReallyExit
    <3>1. CASE worker = "exit handlers"
      BY <2>3, <3>1 DEF ReallyExit, exit, LockProtocol
    <3>2. CASE worker # "exit handlers"
      BY <2>3, <3>2, PollingStop DEF ReallyExit, exit
    <3> QED
      BY <3>1, <3>2
  <2>4. CASE Uncaught \/ EntryRejected
    <3>1. UNCHANGED <<parent, vm_handle>> /\ (worker' = worker \/ worker' = "shutdown")
      BY <2>4 DEF Uncaught, EntryRejected, NotHandled
    <3>2. \/ StopSelf /\ requested_terminate' = TRUE
          \/ UNCHANGED <<vars, requested_terminate>>
      BY <2>4 DEF Uncaught, EntryRejected, NotHandled
    <3>3. worker' = "shutdown" => worker \notin {"closing", "joined"}
      BY <2>4 DEF Uncaught, EntryRejected
    <3>4. CASE StopSelf /\ requested_terminate' = TRUE
      BY <3>1, <3>4, PollingStop
    <3>5. CASE UNCHANGED <<vars, requested_terminate>>
      <4>1. UNCHANGED <<parent, requested_terminate, pc, js, state, woken, task>>
        BY <3>1, <3>5
      <4> QED
        BY <3>1, <3>3, <4>1
    <3> QED
      BY <3>2, <3>4, <3>5
  <2>5. CASE EntryFails
    BY <2>5 DEF EntryFails, LockProtocol
  <2> QED
    BY <1>2, <2>1, <2>2, <2>3, <2>4, <2>5 DEF Script
<1>3. CASE ParentStep \/ RequestFlag
  <2>1. CASE RequestFlag
    BY <1>0, <2>1 DEF RequestFlag
  <2>2. CASE MarkStopped
    BY <2>2 DEF MarkStopped
  <2>3. CASE RequestStop
    BY <2>3 DEF RequestStop, stop, Stopped
  <2>4. CASE RequestEnter
    <3>1. /\ pc' = [pc EXCEPT ![Parent] = "entered"] /\ pc[Parent] = "idle"
          /\ UNCHANGED <<own, woken, task, js, state>>
          /\ parent = "stopped"
      BY <2>4 DEF RequestEnter, Enter, Goto
    <3>2. pc'[Parent] = "entered" /\ \A x \in Tasks : pc'[x] = pc[x]
      BY <3>1, VmHandleAssumption DEF IInv, TypeOK, Threads, Accessors, Tasks
    <3> QED
      BY <3>1, <3>2 DEF own
  <2>5. CASE Return
    BY <2>5 DEF Return
  <2> QED
    BY <1>3, <2>1, <2>2, <2>3, <2>4, <2>5 DEF ParentStep
<1>4. CASE IoEvent
  BY <1>4 DEF IoEvent
<1>5. CASE ClosingTimesOut
  BY <1>5 DEF ClosingTimesOut, WaitTimesOut, own
<1>6. CASE RequestAgain \/ UNCHANGED allvars
  <2>1. UNCHANGED <<own, pc, js, woken, task, state>>
    BY <1>6 DEF RequestAgain, allvars
  <2> QED
    BY <2>1 DEF own
<1>7. ASSUME NEW p \in Posters, PostEnters(p) PROVE Polling'
  <2>1. /\ pc' = [pc EXCEPT ![p] = "entered"] /\ pc[p] = "idle"
        /\ UNCHANGED <<own, woken, task, js, state>>
    BY <1>7 DEF PostEnters, Enter, Goto
  <2>2. /\ pc'[Parent] = pc[Parent]
        /\ \A x \in Tasks : pc'[x] = IF x = p THEN "entered" ELSE pc[x]
    BY <2>1, VmHandleAssumption DEF IInv, TypeOK, Threads, Accessors, Tasks
  <2> QED
    BY <2>1, <2>2 DEF own
<1>8. CASE \E t \in Threads : Others(t)
  BY <1>8, PollingOthers
<1> QED
  BY <1>1, <1>2, <1>3, <1>4, <1>5, <1>6, <1>7, <1>8 DEF WNext

\* What the theorems below start from.
WorkerInv == IInv /\ LockProtocol /\ Polling

LEMMA WorkerInvariant == WSpec => []WorkerInv
<1>1. WInit => WorkerInv
  BY Start0, VmHandleAssumption
     DEF WInit, Init, WorkerInv, LockProtocol, Polling, RequestComing, Published, Looping, Threads,
         Accessors
<1>2. WorkerInv /\ [WNext]_allvars => WorkerInv'
  BY DoorStep, LockStep, PollingStep DEF WorkerInv
<1> QED
  BY <1>1, <1>2, PTL DEF WSpec

(* A worker never sleeps in a poll, of either loop, through a posted task or *)
(* the parent's request to terminate: whoever caused it still has the        *)
(* wake-up to do.                                                            *)
THEOREM SleepingWorkerIsWoken == WSpec => []PollerHasWaker
<1>1. WorkerInv => PollerHasWaker
  BY DEF WorkerInv, Polling, RequestComing, PollerHasWaker, Queued
<1> QED
  BY <1>1, WorkerInvariant, PTL

-----------------------------------------------------------------------------
(* Exit handlers *)

(* No exit handlers begin in a worker its parent has stopped: shutdown() runs *)
(* none once the parent asked, because the lock of vm_handle orders the mark  *)
(* before the unpublish; and those of a fatal error or of process.exit()      *)
(* begin only in a running worker that the request has not trapped.           *)
THEOREM StoppedIsSilent == WSpec => StoppedRunsNoHandlers
<1>1. ASSUME WorkerInv, [WNext]_allvars, ~InHandlers, InHandlers'
      PROVE  ~asked \/ (vm_handle /\ ~TrapRaised)
  <2>1. /\ worker # "exit handlers" /\ ending = "none"
        /\ worker' = "exit handlers" \/ ending' # "none"
    BY <1>1 DEF InHandlers
  <2>2. \/ OnExit /\ worker' = "exit handlers"
        \/ ExitBegins
        \/ Uncaught \/ (EntryRejected /\ NotHandled)
    <3>1. CASE WorkerStep
      <4>1. CASE EndingStep
        BY <2>1, <4>1 DEF EndingStep, ExitEnds, LastWordsDone
      <4>2. CASE OnExit
        BY <2>1, <4>2 DEF OnExit, To
      <4>3. CASE DrainTest
        BY <2>1, <4>3 DEF DrainTest
      <4>4. CASE LoopTest
        BY <2>1, <4>4 DEF LoopTest, To
      <4>5. CASE Begin \/ SpinBegins \/ EntryLoaded \/ TickEnds \/ PollReady \/ PollBlocks
                 \/ PollReturns \/ PollEnds \/ BeforeExitDone \/ HandlersDone \/ Join
        BY <2>1, <4>5 DEF Begin, SpinBegins, EntryLoaded, TickEnds, PollReady, PollBlocks,
                          PollReturns, PollEnds, BeforeExitDone, HandlersDone, Join, To
      <4>6. CASE Publish \/ Unpublish \/ Teardown
        BY <2>1, <4>6 DEF Publish, Unpublish, Teardown
      <4>7. CASE TickTake \/ (\E x \in Tasks : TickRun(x)) \/ Closing
        BY <2>1, <4>7 DEF TickTake, TickRun, Closing, own
      <4> QED
        BY <3>1, <4>1, <4>2, <4>3, <4>4, <4>5, <4>6, <4>7 DEF WorkerStep
    <3>2. CASE Script
      <4>1. CASE (\E j \in Jobs : StartJob(j)) \/ Listen \/ ExitCut \/ ReallyExit \/ EntryFails
        BY <2>1, <4>1 DEF StartJob, Listen, ExitCut, ReallyExit, exit, EntryFails
      <4>2. CASE EntryRejected
        BY <2>1, <4>2 DEF EntryRejected
      <4> QED
        BY <3>2, <4>1, <4>2 DEF Script
    <3>3. CASE ParentStep \/ RequestFlag
      BY <2>1, <3>3 DEF ParentStep, RequestFlag, MarkStopped, RequestStop, RequestEnter, Return,
                        own
    <3>4. CASE IoEvent
      BY <2>1, <3>4 DEF IoEvent, To
    <3>5. CASE \/ ClosingTimesOut \/ RequestAgain \/ UNCHANGED allvars
               \/ (\E p \in Posters : PostEnters(p)) \/ \E t \in Threads : Others(t)
      <4>1. UNCHANGED own
        BY <3>5 DEF ClosingTimesOut, RequestAgain, PostEnters, Others, allvars
      <4> QED
        BY <2>1, <4>1 DEF own
    <3> QED
      BY <1>1, <3>1, <3>2, <3>3, <3>4, <3>5 DEF WNext
  <2>3. CASE OnExit /\ worker' = "exit handlers"
    <3>1. worker = "on exit" /\ ~stopped_by_parent /\ ~m_isExiting
      BY <2>1, <2>3 DEF OnExit, To
    <3> QED
      BY <1>1, <3>1 DEF WorkerInv, LockProtocol, Published, stopped_by_parent
  <2>4. CASE ExitBegins
    <3>1. worker \in Scripting /\ ~m_isExiting /\ ~TrapRaised
      BY <2>1, <2>4 DEF ExitBegins, ScriptRuns, InHandlers
    <3>2. worker \in Published
      BY <2>1, <3>1 DEF Scripting, Published
    <3> QED
      BY <1>1, <3>1, <3>2 DEF WorkerInv, LockProtocol
  <2>5. CASE Uncaught \/ (EntryRejected /\ NotHandled)
    <3>1. state = "Open" /\ worker \in Published
      BY <2>5 DEF Uncaught, EntryRejected, NotHandled, script_allowed, Scripting, Published
    <3>2. pc[Parent] = "idle"
      BY <1>1, <3>1 DEF WorkerInv, Polling
    <3> QED
      BY <1>1, <3>1, <3>2 DEF WorkerInv, LockProtocol, TrapRaised
  <2> QED
    BY <2>2, <2>3, <2>4, <2>5
<1>2. WorkerInv /\ [WNext]_allvars =>
        [~InHandlers /\ InHandlers' => ~asked \/ (vm_handle /\ ~TrapRaised)]_allvars
  BY <1>1
<1> QED
  BY <1>2, WorkerInvariant, PTL DEF WSpec, StoppedRunsNoHandlers

-----------------------------------------------------------------------------
(* Completions *)

\* A worker that has left its loops.
PastLoop == {"shutdown", "on exit", "exit handlers", "teardown", "closing", "joined"}

\* A job is pushed once; a worker that is stopped or has an unhandled error was
\* told to end; and when the loops ran dry, every job they kept had been run.
Completing ==
    /\ kept \subseteq Jobs
    /\ failed \in BOOLEAN /\ errors \in BOOLEAN
    /\ \A j \in Jobs : pc[j] \in {"idle", "inside"} => task[j] = "none"
    /\ worker = "stillborn" => requested_terminate
    /\ errors /\ ending # "last words" => requested_terminate
    /\ state # "Open" /\ worker \notin {"teardown", "closing", "joined"} => requested_terminate
    /\ worker \in PastLoop /\ ending = "none" /\ ~requested_terminate /\ ~failed =>
          \A j \in kept : task[j] = "run"
    /\ CompletionsRun

\* A step of another thread through the door.
LEMMA CompletingOthers ==
    ASSUME IInv, Completing, NEW t \in Threads, Others(t)
    PROVE  Completing'
<1>1. /\ pc \in [Threads -> Locations]
      /\ task \in [Tasks -> {"none", "queued", "taken", "run", "released", "refused"}]
      /\ Jobs \subseteq Threads /\ Jobs \subseteq Tasks
      /\ Jobs \intersect Accessors = {}
      /\ t \notin Jobs => t \in Accessors
      /\ t # Parent => t \in Tasks
  BY VmHandleAssumption DEF IInv, TypeOK, Threads, Accessors, Tasks
<1>2. UNCHANGED own /\ UNCHANGED <<js, state>>
  BY DEF Others, JobStep, AccessStep, Push, ChooseWake, Wakeup, Notify, Drop, LastOut, Admit,
         Refuse, Leave
<1>3. CASE t \in Jobs
  <2>1. /\ pc'[t] \notin {"idle", "inside"}
        /\ \A j \in Jobs \ {t} : pc'[j] = pc[j] /\ task'[j] = task[j]
        /\ task'[t] = task[t] \/ (pc[t] = "inside" /\ task'[t] = "queued")
    BY <1>1, <1>3 DEF Others, JobStep, Push, ChooseWake, Wakeup, Notify, Drop, LastOut, Goto
  <2> QED
    BY <1>2, <1>3, <2>1 DEF Completing, CompletionsRun, own, flags
<1>4. CASE t \notin Jobs
  <2>1. \A j \in Jobs : pc'[j] = pc[j] /\ task'[j] = task[j]
    BY <1>1, <1>4 DEF Others, AccessStep, Push, ChooseWake, Wakeup, Notify, Leave, LastOut, Admit,
                      Refuse, Goto
  <2> QED
    BY <1>2, <2>1 DEF Completing, CompletionsRun, own, flags
<1> QED
  BY <1>3, <1>4

\* A step that leaves the jobs alone, and leaves the loops only when the worker
\* was told to end or nothing keeps them alive.
LEMMA CompletingStay ==
    ASSUME Completing, UNCHANGED kept,
           \A j \in Jobs : pc'[j] = pc[j] /\ task'[j] = task[j],
           failed' \in BOOLEAN, errors' \in BOOLEAN,
           requested_terminate => requested_terminate', failed => failed',
           worker' = "stillborn" => worker = "stillborn" \/ requested_terminate,
           errors' => (errors /\ UNCHANGED ending)
                      \/ ending' = "last words" \/ requested_terminate',
           state' = state \/ worker' \in {"teardown", "closing", "joined"} \/ requested_terminate',
           worker' \in {"teardown", "closing", "joined"}
              \/ worker \notin {"teardown", "closing", "joined"},
           worker' \in PastLoop /\ ending' = "none" /\ ~requested_terminate' /\ ~failed' =>
               (worker \in PastLoop /\ ending = "none") \/ ~LoopActive
    PROVE  Completing'
  BY DEF Completing, CompletionsRun, LoopActive

\* Every step.
LEMMA CompletingStep == WorkerInv /\ Completing /\ [WNext]_allvars => Completing'
<1> SUFFICES ASSUME WorkerInv, Completing, [WNext]_allvars PROVE Completing'
  OBVIOUS
<1> USE DEF PastLoop
<1>0. /\ pc \in [Threads -> Locations]
      /\ task \in [Tasks -> {"none", "queued", "taken", "run", "released", "refused"}]
      /\ Jobs \subseteq Threads /\ Jobs \subseteq Tasks /\ Parent \notin Jobs
      /\ Posters \intersect Jobs = {}
      /\ requested_terminate \in BOOLEAN /\ failed \in BOOLEAN /\ errors \in BOOLEAN
      /\ kept \subseteq Jobs
      /\ IInv
  BY VmHandleAssumption DEF WorkerInv, IInv, TypeOK, Threads, Accessors, Tasks, Polling, Completing
<1>e. errors /\ ending = "none" => requested_terminate
  BY DEF Completing
<1>s. state # "Open" /\ worker \in Looping => requested_terminate
  BY DEF Completing, Looping, Published
<1>1. ASSUME TickConcurrent,
             UNCHANGED <<kept, requested_terminate, failed, errors, ending>>,
             worker' \notin PastLoop \union {"stillborn"},
             worker \notin {"teardown", "closing", "joined"}
      PROVE  Completing'
  <2>1. UNCHANGED <<pc, state>>
    BY <1>1 DEF TickConcurrent, running
  <2>2. \A j \in Jobs : task'[j] = IF task[j] = "queued" THEN "taken" ELSE task[j]
    BY <1>0, <1>1 DEF TickConcurrent
  <2> QED
    BY <1>0, <1>1, <2>1, <2>2 DEF Completing, CompletionsRun
<1>2. CASE WorkerStep
  <2>1. CASE Begin \/ Publish \/ SpinBegins
    <3>1. UNCHANGED <<pc, task, state, kept, requested_terminate, failed, errors, ending>>
      BY <2>1 DEF Begin, Publish, SpinBegins, To, flags, vars
    <3>2. /\ worker \in {"start", "init", "spin"}
          /\ worker' \in {"init", "spin", "entry"} \/ requested_terminate
          /\ worker' \in {"init", "spin", "entry", "stillborn", "shutdown"}
      BY <2>1 DEF Begin, Publish, SpinBegins, To
    <3> QED
      BY <1>0, <3>1, <3>2, CompletingStay
  <2>2. CASE PollBlocks \/ PollEnds \/ BeforeExitDone \/ Unpublish
    <3>1. UNCHANGED <<pc, task, state, kept, requested_terminate, failed, errors, ending>>
      BY <2>2 DEF PollBlocks, PollEnds, BeforeExitDone, Unpublish, To, flags, vars
    <3>2. /\ worker \in {"poll", "callbacks", "before exit", "shutdown"}
          /\ \/ worker' \in {"asleep", "loop"}
             \/ worker' = "shutdown" /\ requested_terminate
             \/ worker = "shutdown" /\ worker' = "on exit" /\ ending = "none"
      BY <2>2 DEF PollBlocks, PollEnds, BeforeExitDone, Unpublish, To
    <3> QED
      BY <1>0, <3>1, <3>2, CompletingStay
  <2>3. CASE TickEnds
    BY <1>0, <1>s, <2>3, CompletingStay
       DEF TickEnds, ToldToEnd, script_allowed, Looping, Published, To, flags, vars
  <2>4. CASE EntryLoaded
    <3>1. CASE requested_terminate
      BY <1>0, <2>4, <3>1, CompletingStay DEF EntryLoaded, To, flags, vars
    <3>2. CASE ~requested_terminate
      BY <1>1, <2>4, <3>2 DEF EntryLoaded, To, flags
    <3> QED
      BY <3>1, <3>2
  <2>5. CASE LoopTest
    <3>1. CASE is_event_loop_alive
      BY <1>1, <2>5, <3>1 DEF LoopTest, To, flags
    <3>2. CASE ~is_event_loop_alive
      BY <1>0, <1>e, <2>5, <3>2, CompletingStay DEF LoopTest, is_event_loop_alive, To, flags, vars
    <3> QED
      BY <3>1, <3>2
  <2>6. CASE DrainTest
    <3>1. worker = "loop" /\ ending = "none" /\ UNCHANGED <<ending, parent, vm_handle, flags>>
      BY <2>6 DEF DrainTest
    <3>2. CASE is_event_loop_alive /\ ~ToldToEnd
      <4>1. worker' = "tick" /\ TickConcurrent
        BY <2>6, <3>2 DEF DrainTest
      <4> QED
        BY <1>1, <3>1, <4>1 DEF flags
    <3>3. CASE ~(is_event_loop_alive /\ ~ToldToEnd)
      <4>1. UNCHANGED vars /\ worker' \in {"before exit", "shutdown"}
        BY <2>6, <3>3 DEF DrainTest
      <4>2. CASE is_event_loop_alive
        <5>1. state # "Open"
          BY <2>6, <3>3, <4>2 DEF DrainTest, ToldToEnd, script_allowed
        <5>2. requested_terminate
          BY <1>s, <3>1, <5>1 DEF Looping, Published
        <5> QED
          BY <1>0, <3>1, <4>1, <5>2, CompletingStay DEF flags, vars
      <4>3. CASE ~is_event_loop_alive
        <5>1. requested_terminate \/ ~LoopActive
          BY <1>e, <3>1, <4>3 DEF is_event_loop_alive
        <5> QED
          BY <1>0, <3>1, <4>1, <5>1, CompletingStay DEF flags, vars
      <4> QED
        BY <4>2, <4>3
    <3> QED
      BY <3>2, <3>3
  <2>7. CASE TickTake
    BY <1>1, <2>7 DEF TickTake, own, flags
  <2>8. ASSUME NEW x \in Tasks, TickRun(x) PROVE Completing'
    <3>1. UNCHANGED <<own, pc, js, state>> /\ task[x] = "taken"
      BY <2>8 DEF TickRun, RunTask, running
    <3>2. \A j \in Jobs : task'[j] = IF j = x THEN "run" ELSE task[j]
      BY <1>0, <2>8 DEF TickRun, RunTask
    <3> QED
      BY <1>0, <3>1, <3>2 DEF Completing, CompletionsRun, own, flags
  <2>9. CASE PollReady \/ PollReturns
    <3>1. UNCHANGED <<pc, task, state, kept, requested_terminate, failed, errors, ending>>
      BY <2>9 DEF PollReady, PollReturns, Poll, running, To, flags
    <3>2. worker \in {"poll", "asleep"} /\ worker' = "callbacks"
      BY <2>9 DEF PollReady, PollReturns, To
    <3> QED
      BY <1>0, <3>1, <3>2, CompletingStay
  <2>10. CASE OnExit
    BY <1>0, <2>10, CompletingStay DEF OnExit, stop, To, flags, vars
  <2>11. CASE HandlersDone
    BY <1>0, <2>11, CompletingStay DEF HandlersDone, stop, To, flags
  <2>12. CASE EndingStep
    <3>1. /\ UNCHANGED <<pc, task, kept, failed, errors, worker>> /\ requested_terminate' = TRUE
          /\ ending' = "none"
      BY <2>12 DEF EndingStep, ExitEnds, exit, LastWordsDone, StopSelf, running, vars
    <3> QED
      BY <1>0, <3>1, CompletingStay
  <2>13. CASE Teardown
    BY <1>0, <2>13, CompletingStay DEF Teardown, Drain
  <2>14. CASE Closing
    <3>1. UNCHANGED own /\ js # "running"
      BY <2>14 DEF Closing, CloseStep, Service, LockDrained, CheckTickets, WaitReturns, SetClosed,
                   CheckActive, LastService
    <3>2. worker \in {"closing", "joined"}
      BY <3>1 DEF WorkerInv, Polling
    <3>3. \A j \in Jobs : \/ pc'[j] = pc[j]
                          \/ pc[j] = "idle" /\ pc'[j] = "inside"
      BY <1>0, <2>14 DEF Closing, CloseStep, Service, LockDrained, CheckTickets, WaitReturns,
                         SetClosed, CheckActive, LastService, Issue, Goto
    <3>4. \A j \in Jobs : \/ task'[j] = task[j]
                          \/ task[j] \in {"queued", "taken"}
      BY <1>0, <2>14 DEF Closing, CloseStep, Service, LockDrained, CheckTickets, WaitReturns,
                         SetClosed, CheckActive, LastService, Release
    <3>5. ending = "none"
      BY <3>2 DEF WorkerInv, LockProtocol, Published
    <3> QED
      BY <1>0, <3>1, <3>2, <3>3, <3>4, <3>5 DEF Completing, CompletionsRun, own, flags
  <2>15. CASE Join
    BY <1>0, <2>15 DEF Join, To, flags, vars, Completing, CompletionsRun
  <2> QED
    BY <1>2, <2>1, <2>2, <2>3, <2>4, <2>5, <2>6, <2>7, <2>8, <2>9, <2>10, <2>11, <2>12, <2>13,
       <2>14, <2>15 DEF WorkerStep
<1>3. CASE Script
  <2>1. ASSUME NEW j \in Jobs, StartJob(j) PROVE Completing'
    <3>1. /\ pc[j] = "idle"
          /\ UNCHANGED <<worker, ending, task, state, requested_terminate, failed, errors>>
          /\ \/ kept' = kept
             \/ (worker \notin PastLoop \/ ending # "none") /\ kept' = kept \union {j}
      BY <2>1 DEF StartJob, Start, Issue, running, ScriptRuns, InHandlers, Scripting
    <3>2. \A i \in Jobs : pc'[i] = IF i = j THEN "inside" ELSE pc[i]
      BY <1>0, <2>1 DEF StartJob, Start, Issue, Goto
    <3> QED
      BY <1>0, <3>1, <3>2 DEF Completing, CompletionsRun
  <2>2. CASE Listen
    BY <1>0, <2>2, CompletingStay DEF Listen, vars
  <2>3. CASE ExitBegins
    <3>1. worker \notin PastLoop \ {"exit handlers"}
      BY <2>3 DEF ExitBegins, ScriptRuns, InHandlers, Scripting
    <3>2. worker # "exit handlers"
      BY <2>3 DEF ExitBegins, WorkerInv, LockProtocol
    <3> QED
      BY <1>0, <1>e, <2>3, <3>1, <3>2, CompletingStay DEF ExitBegins, vars
  <2>4. CASE ExitCut
    <3>1. requested_terminate
      BY <2>4 DEF ExitCut, TrapPossible, WorkerInv, Polling
    <3> QED
      BY <1>0, <2>4, <3>1, CompletingStay DEF ExitCut, flags, vars
  <2>5. CASE ReallyExit
    <3>1. UNCHANGED <<pc, task>>
      BY <2>5 DEF ReallyExit, exit, StopSelf, running, vars
    <3> QED
      BY <1>0, <2>5, <3>1, CompletingStay DEF ReallyExit, exit
  <2>6. CASE Uncaught \/ (EntryRejected /\ NotHandled)
    <3>1. NotHandled /\ (worker' = worker \/ worker' = "shutdown") /\ worker \notin PastLoop
      BY <2>6 DEF Uncaught, EntryRejected, Scripting
    <3>2. /\ UNCHANGED <<pc, task, kept, failed>> /\ errors' = TRUE
          /\ \/ requested_terminate' = TRUE
             \/ ending' = "last words" /\ UNCHANGED <<requested_terminate, state>>
      BY <3>1 DEF NotHandled, StopSelf, running, vars
    <3> QED
      BY <1>0, <3>1, <3>2, CompletingStay
  <2>7. CASE EntryFails
    BY <1>0, <2>7, CompletingStay DEF EntryFails, vars
  <2>8. CASE EntryRejected /\ ~NotHandled
    <3>1. UNCHANGED <<pc, task, state, kept, requested_terminate, failed, errors, ending>>
      BY <2>8 DEF EntryRejected, flags, vars
    <3>2. worker \in {"entry", "loop", "poll"} /\ worker' = "shutdown" /\ requested_terminate
      BY <2>8 DEF EntryRejected
    <3> QED
      BY <1>0, <3>1, <3>2, CompletingStay
  <2> QED
    BY <1>3, <2>1, <2>2, <2>3, <2>4, <2>5, <2>6, <2>7, <2>8 DEF Script
<1>4. CASE ParentStep \/ RequestFlag
  <2>1. CASE RequestEnter
    <3>1. UNCHANGED <<own, task, state>> /\ \A j \in Jobs : pc'[j] = pc[j]
      BY <1>0, <2>1 DEF RequestEnter, Enter, Goto
    <3> QED
      BY <1>0, <3>1 DEF Completing, CompletionsRun, own, flags
  <2>2. CASE RequestFlag
    BY <1>0, <2>2, CompletingStay DEF RequestFlag, vars
  <2>3. CASE MarkStopped
    BY <1>0, <2>3, CompletingStay DEF MarkStopped, vars
  <2>4. CASE RequestStop
    <3>1. requested_terminate
      BY <2>4 DEF RequestStop, WorkerInv, Polling
    <3> QED
      BY <1>0, <2>4, <3>1, CompletingStay DEF RequestStop, stop, flags
  <2>5. CASE Return
    BY <1>0, <2>5, CompletingStay DEF Return, flags, vars
  <2> QED
    BY <1>4, <2>1, <2>2, <2>3, <2>4, <2>5 DEF ParentStep
<1>5. CASE IoEvent
  BY <1>0, <1>5, CompletingStay DEF IoEvent, To, flags, vars
<1>6. CASE ClosingTimesOut
  <2>1. UNCHANGED <<own, pc, task, state>>
    BY <1>6 DEF ClosingTimesOut, WaitTimesOut
  <2> QED
    BY <1>0, <2>1, CompletingStay DEF own, flags
<1>7. CASE RequestAgain \/ UNCHANGED allvars
  <2>1. UNCHANGED <<own, pc, task, state>>
    BY <1>7 DEF RequestAgain, allvars, vars
  <2> QED
    BY <1>0, <2>1, CompletingStay DEF own, flags
<1>8. ASSUME NEW p \in Posters, PostEnters(p) PROVE Completing'
  <2>1. UNCHANGED <<own, task, state>> /\ \A j \in Jobs : pc'[j] = pc[j]
    BY <1>0, <1>8 DEF PostEnters, Enter, Goto
  <2> QED
    BY <1>0, <2>1 DEF Completing, CompletionsRun, own, flags
<1>9. CASE \E t \in Threads : Others(t)
  BY <1>0, <1>9, CompletingOthers
<1> QED
  BY <1>2, <1>3, <1>4, <1>5, <1>6, <1>7, <1>8, <1>9 DEF WNext

(* A job script started before shutdown(), in either loop or in the handlers *)
(* of beforeExit, is completed with script, never thrown away, unless the    *)
(* worker was told to end or its entry point could not be loaded.            *)
THEOREM KeptJobsComplete == WSpec => []CompletionsRun
<1>1. WInit => Completing
  BY VmHandleAssumption
     DEF WInit, Init, Completing, CompletionsRun, PastLoop, Threads, Accessors, Tasks
<1>2. WorkerInv /\ WorkerInv' /\ Completing /\ [WNext]_allvars => Completing'
  BY CompletingStep
<1>3. Completing => CompletionsRun
  BY DEF Completing
<1> QED
  BY <1>1, <1>2, <1>3, WorkerInvariant, PTL DEF WSpec
=============================================================================
