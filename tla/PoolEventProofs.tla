-------------------------- MODULE PoolEventProofs --------------------------
(***************************************************************************)
(* Proofs about PoolEvent for any number of waiters, notifiers and epochs. *)
(***************************************************************************)
EXTENDS PoolEvent, TLAPS

\* What makes the run's invariants inductive.  A waiter asleep under an old
\* epoch is about to be woken by the wake_all() that moved the epoch on; a task
\* queued behind a waiter's drain belongs to a push_idle_task_to_each_thread
\* that has not moved the epoch on yet.
EpochInv ==
    \A w \in Waiters :
        /\ seen[w] <= epoch
        /\ pc[w] = "parked" /\ seen[w] # epoch
             => \E n \in Notifiers : npc[n] = "wake_every"
        /\ idle_queue[w] /\ pc[w] \in {"futex", "parked"} /\ seen[w] = epoch
             => \E n \in Notifiers : npc[n] \in {"push", "wake_all"}

IInv == TypeOK /\ NoLostNotification /\ ShutdownWakes /\ EpochInv

-----------------------------------------------------------------------------
\* Every step keeps the types of Event's word and of its users' locals.
LEMMA TypeStep == TypeOK /\ [Next]_vars => TypeOK'
<1> SUFFICES ASSUME TypeOK, [Next]_vars PROVE TypeOK'
  OBVIOUS
<1> USE DEF TypeOK, States, WaiterPCs, NotifierPCs, waiterVars, notifierVars
<1>1. ASSUME NEW w \in Waiters,
             Enter(w) \/ ReturnShutdown(w) \/ Consume(w) \/ Arm(w) \/ DrainIdle(w)
             \/ Timeout(w) \/ SpuriousWake(w)
      PROVE  TypeOK'
  BY ZenonT(60), <1>1 DEF Enter, ReturnShutdown, Consume, Arm, DrainIdle, Timeout, SpuriousWake
<1>2. ASSUME NEW w \in Waiters, FutexWait(w) PROVE TypeOK'
  BY <1>2 DEF FutexWait
<1>3. ASSUME NEW n \in Notifiers, Notify(n) \/ Shutdown(n) \/ BeginPush(n) \/ WakeAll(n)
      PROVE  TypeOK'
  BY <1>3 DEF Notify, Shutdown, BeginPush, WakeAll
<1>4. ASSUME NEW n \in Notifiers, NEW w \in Waiters, PushIdleTask(n, w) PROVE TypeOK'
  BY <1>4 DEF PushIdleTask
<1>5. ASSUME NEW n \in Notifiers, WakeOne(n) PROVE TypeOK'
  BY <1>5 DEF WakeOne, Wake, Parked
<1>6. ASSUME NEW n \in Notifiers, WakeEvery(n) PROVE TypeOK'
  BY <1>6 DEF WakeEvery, Wake, Parked
<1>7. CASE UNCHANGED vars
  BY <1>7 DEF vars
<1> QED
  BY <1>1, <1>2, <1>3, <1>4, <1>5, <1>6, <1>7 DEF Next, WaitStep, NotifierStep

\* Event's word and its users' locals keep their types.
THEOREM Typing == SafeSpec => []TypeOK
<1>1. Init => TypeOK
  BY DEF Init, TypeOK, States, WaiterPCs, NotifierPCs
<1> QED
  BY <1>1, TypeStep, PTL DEF SafeSpec

-----------------------------------------------------------------------------
\* A waiter parked under EMPTY or NOTIFIED keeps its saviour across every step.
LEMMA LostStep == TypeOK /\ NoLostNotification /\ [Next]_vars => NoLostNotification'
<1> SUFFICES ASSUME TypeOK, NoLostNotification, [Next]_vars,
                    state' \in {"EMPTY", "NOTIFIED"}, Parked' # {}
             PROVE  \/ \E n \in Notifiers : npc'[n] \in {"wake_one", "wake_every"}
                    \/ \E w \in Waiters : Rearming(w)'
  BY DEF NoLostNotification, Rearming
<1> USE DEF TypeOK, waiterVars, notifierVars, NoLostNotification, Rearming, Parked
<1>1. ASSUME NEW w \in Waiters, Enter(w) \/ ReturnShutdown(w) \/ Arm(w) \/ DrainIdle(w)
      PROVE  NoLostNotification'
  BY <1>1 DEF Enter, ReturnShutdown, Arm, DrainIdle
<1>2. ASSUME NEW w \in Waiters, Consume(w) PROVE NoLostNotification'
  BY <1>2 DEF Consume
<1>3. ASSUME NEW w \in Waiters, Timeout(w) \/ SpuriousWake(w) PROVE NoLostNotification'
  BY <1>3 DEF Timeout, SpuriousWake
<1>4. ASSUME NEW w \in Waiters, FutexWait(w) PROVE NoLostNotification'
  BY <1>4 DEF FutexWait
<1>5. ASSUME NEW n \in Notifiers, Notify(n) PROVE NoLostNotification'
  BY <1>5 DEF Notify, States
<1>6. ASSUME NEW n \in Notifiers, Shutdown(n) \/ BeginPush(n) \/ WakeAll(n)
      PROVE  NoLostNotification'
  BY <1>6 DEF Shutdown, BeginPush, WakeAll
<1>7. ASSUME NEW n \in Notifiers, NEW w \in Waiters, PushIdleTask(n, w)
      PROVE  NoLostNotification'
  BY <1>7 DEF PushIdleTask
<1>8. ASSUME NEW n \in Notifiers, WakeOne(n) PROVE NoLostNotification'
  <2>1. CASE Parked = {}
    BY <1>8, <2>1 DEF WakeOne, Wake
  <2>2. ASSUME NEW w \in Parked, Wake({w}) PROVE NoLostNotification'
    BY <2>2 DEF Wake
  <2> QED
    BY <1>8, <2>1, <2>2 DEF WakeOne
<1>9. ASSUME NEW n \in Notifiers, WakeEvery(n) PROVE NoLostNotification'
  BY <1>9 DEF WakeEvery, Wake
<1>10. CASE UNCHANGED vars
  BY <1>10 DEF vars
<1> QED
  BY <1>1, <1>2, <1>3, <1>4, <1>5, <1>6, <1>7, <1>8, <1>9, <1>10
     DEF Next, WaitStep, NotifierStep

\* Once the event is shut down nobody parks, and shutdown() wakes who had.
LEMMA ShutdownStep == TypeOK /\ ShutdownWakes /\ [Next]_vars => ShutdownWakes'
<1> SUFFICES ASSUME TypeOK, ShutdownWakes, [Next]_vars PROVE ShutdownWakes'
  OBVIOUS
<1> USE DEF TypeOK, waiterVars, notifierVars, ShutdownWakes, Parked
<1>1. ASSUME NEW w \in Waiters,
             Enter(w) \/ ReturnShutdown(w) \/ Consume(w) \/ Arm(w) \/ DrainIdle(w)
             \/ Timeout(w) \/ SpuriousWake(w)
      PROVE  ShutdownWakes'
  BY <1>1 DEF Enter, ReturnShutdown, Consume, Arm, DrainIdle, Timeout, SpuriousWake
<1>2. ASSUME NEW w \in Waiters, FutexWait(w) PROVE ShutdownWakes'
  BY <1>2 DEF FutexWait
<1>3. ASSUME NEW n \in Notifiers, Notify(n) \/ Shutdown(n) \/ BeginPush(n) \/ WakeAll(n)
      PROVE  ShutdownWakes'
  BY <1>3 DEF Notify, Shutdown, BeginPush, WakeAll
<1>4. ASSUME NEW n \in Notifiers, NEW w \in Waiters, PushIdleTask(n, w) PROVE ShutdownWakes'
  BY <1>4 DEF PushIdleTask
<1>5. ASSUME NEW n \in Notifiers, WakeOne(n) PROVE ShutdownWakes'
  BY <1>5 DEF WakeOne, Wake
<1>6. ASSUME NEW n \in Notifiers, WakeEvery(n) PROVE ShutdownWakes'
  BY <1>6 DEF WakeEvery, Wake
<1>7. CASE UNCHANGED vars
  BY <1>7 DEF vars
<1> QED
  BY <1>1, <1>2, <1>3, <1>4, <1>5, <1>6, <1>7 DEF Next, WaitStep, NotifierStep

\* The epoch separates the waiters a wake_all() has to wake from those that
\* looked at their idle queue after it.
LEMMA EpochStep == TypeOK /\ EpochInv /\ [Next]_vars => EpochInv'
<1> SUFFICES ASSUME TypeOK, EpochInv, [Next]_vars PROVE EpochInv'
  OBVIOUS
<1> USE DEF TypeOK, waiterVars, notifierVars, EpochInv
<1>1. ASSUME NEW w \in Waiters,
             Enter(w) \/ ReturnShutdown(w) \/ Consume(w) \/ Arm(w)
             \/ Timeout(w) \/ SpuriousWake(w)
      PROVE  EpochInv'
  BY <1>1 DEF Enter, ReturnShutdown, Consume, Arm, Timeout, SpuriousWake
<1>2. ASSUME NEW w \in Waiters, DrainIdle(w) PROVE EpochInv'
  BY <1>2 DEF DrainIdle
<1>3. ASSUME NEW w \in Waiters, FutexWait(w) PROVE EpochInv'
  BY <1>3 DEF FutexWait
<1>4. ASSUME NEW n \in Notifiers, Notify(n) \/ Shutdown(n) PROVE EpochInv'
  BY <1>4 DEF Notify, Shutdown
<1>5. ASSUME NEW n \in Notifiers, BeginPush(n) PROVE EpochInv'
  BY <1>5 DEF BeginPush
<1>6. ASSUME NEW n \in Notifiers, NEW w \in Waiters, PushIdleTask(n, w) PROVE EpochInv'
  BY <1>6 DEF PushIdleTask
<1>7. ASSUME NEW n \in Notifiers, WakeAll(n) PROVE EpochInv'
  BY <1>7 DEF WakeAll
<1>8. ASSUME NEW n \in Notifiers, WakeOne(n) PROVE EpochInv'
  BY <1>8 DEF WakeOne, Wake, Parked
<1>9. ASSUME NEW n \in Notifiers, WakeEvery(n) PROVE EpochInv'
  BY <1>9 DEF WakeEvery, Wake, Parked
<1>10. CASE UNCHANGED vars
  BY <1>10 DEF vars
<1> QED
  BY <1>1, <1>2, <1>3, <1>4, <1>5, <1>6, <1>7, <1>8, <1>9, <1>10
     DEF Next, WaitStep, NotifierStep

\* The strengthened invariant holds of every reachable state.
LEMMA Invariance == SafeSpec => []IInv
<1>1. Init => IInv
  BY DEF Init, IInv, TypeOK, States, WaiterPCs, NotifierPCs, NoLostNotification,
         ShutdownWakes, EpochInv, Parked
<1>2. IInv /\ [Next]_vars => IInv'
  BY TypeStep, LostStep, ShutdownStep, EpochStep DEF IInv
<1> QED
  BY <1>1, <1>2, PTL DEF SafeSpec

\* Event::wait and Event::notify never leave a thread parked with no wake on
\* its way while the word says EMPTY or NOTIFIED.
THEOREM LostNotification == SafeSpec => []NoLostNotification
  BY Invariance, PTL DEF IInv

\* Event::shutdown leaves nobody parked without a wake to come.
THEOREM ShutdownReleases == SafeSpec => []ShutdownWakes
  BY Invariance, PTL DEF IInv

\* The wake_all() epoch closes the window between a worker's last look at its
\* idle queue and its futex wait.
THEOREM IdleTaskNotStranded == SafeSpec => []NoStrandedIdleTask
<1>1. IInv => NoStrandedIdleTask
  BY DEF IInv, TypeOK, EpochInv, NoStrandedIdleTask
<1> QED
  BY <1>1, Invariance, PTL

-----------------------------------------------------------------------------
\* Every behaviour of Event is one of the one-token event: a notification is
\* consumed by one wait(), and wait() returns only with it or after shutdown.
THEOREM Refinement == SafeSpec => Abstract!SafeSpec
<1>1. Init => Abstract!Init
  BY DEF Init, Abstract!Init
<1>2. TypeOK /\ [Next]_vars => [Abstract!Next]_(Abstract!vars)
  <2> SUFFICES ASSUME TypeOK, [Next]_vars PROVE [Abstract!Next]_(Abstract!vars)
    OBVIOUS
  <2> USE DEF TypeOK, States, waiterVars, notifierVars, Abstract!vars
  <2>1. ASSUME NEW w \in Waiters, Enter(w) PROVE Abstract!Enter(w)
    BY <2>1 DEF Enter, Abstract!Enter
  <2>2. ASSUME NEW w \in Waiters, ReturnShutdown(w) PROVE Abstract!Leave(w)
    BY <2>2 DEF ReturnShutdown, Abstract!Leave
  <2>3. ASSUME NEW w \in Waiters, Consume(w) PROVE Abstract!Take(w)
    BY <2>3 DEF Consume, Abstract!Take
  <2>4. ASSUME NEW w \in Waiters,
               Arm(w) \/ DrainIdle(w) \/ FutexWait(w) \/ Timeout(w) \/ SpuriousWake(w)
        PROVE  UNCHANGED Abstract!vars
    BY <2>4 DEF Arm, DrainIdle, FutexWait, Timeout, SpuriousWake
  <2>5. ASSUME NEW n \in Notifiers, Notify(n)
        PROVE  Abstract!Post \/ UNCHANGED Abstract!vars
    BY <2>5 DEF Notify, Abstract!Post
  <2>6. ASSUME NEW n \in Notifiers, Shutdown(n) PROVE Abstract!Close
    BY <2>6 DEF Shutdown, Abstract!Close
  <2>7. ASSUME NEW n \in Notifiers,
               BeginPush(n) \/ WakeAll(n) \/ (\E w \in Waiters : PushIdleTask(n, w))
        PROVE  UNCHANGED Abstract!vars
    BY <2>7 DEF BeginPush, WakeAll, PushIdleTask
  <2>8. ASSUME NEW n \in Notifiers, WakeOne(n) \/ WakeEvery(n)
        PROVE  UNCHANGED Abstract!vars
    BY <2>8 DEF WakeOne, WakeEvery, Wake, Parked
  <2>9. CASE UNCHANGED vars
    BY <2>9 DEF vars
  <2> QED
    BY <2>1, <2>2, <2>3, <2>4, <2>5, <2>6, <2>7, <2>8, <2>9
       DEF Next, WaitStep, NotifierStep, Abstract!Next
<1> QED
  BY <1>1, <1>2, Typing, PTL DEF SafeSpec, Abstract!SafeSpec
=============================================================================
