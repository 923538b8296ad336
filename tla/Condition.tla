------------------------------ MODULE Condition ------------------------------
(***************************************************************************)
(* FutexImpl of src/threading/Condition.rs, the condition variable of      *)
(* every build but Windows'.  Its word counts waiters and the signals      *)
(* reserved for them; an epoch beside it is what waiters sleep on.  One    *)
(* step per atomic access and futex call; a load followed by a             *)
(* compare_exchange loop is one step on the current word.  The mutex is    *)
(* the abstract Lock that FutexMutex implements.                           *)
(***************************************************************************)
EXTENDS Integers, FiniteSets, FiniteSetsExt

CONSTANTS Threads, Null,
          MaxWakes          \* bound on wake() calls; `epoch' has 32 bits

ASSUME ConditionAssumption ==
    IsFiniteSet(Threads) /\ Null \notin Threads /\ MaxWakes \in Nat

VARIABLES waiters, signals, \* the two halves of `state'
          epoch,
          holder,           \* who holds the mutex
          pc,
          seen,             \* the epoch a waiter last loaded
          timed,            \* the call is a timed_wait
          to_wake           \* wakes a waker has reserved and not yet delivered

wordVars == <<waiters, signals, epoch>>
vars == <<wordVars, holder, pc, seen, timed, to_wake>>

\* "locked": holds the mutex, in no call;  "register": has loaded the epoch;
\* "unlock": counted as a waiter;  "futex": before the futex wait;
\* "reload", "consume": has woken up;  "timeout": the wait has timed out;
\* "relock": on the way out;  "bump", "wake": inside wake().
PCs == {"out", "locked", "register", "unlock", "futex", "parked", "reload", "consume",
        "timeout", "relock", "bump", "wake"}

\* Where a thread is between its two updates of the waiters count.
Counted == {"unlock", "futex", "parked", "reload", "consume", "timeout"}

TypeOK ==
    /\ waiters \in 0..Cardinality(Threads)
    /\ signals \in 0..Cardinality(Threads)
    /\ epoch \in 0..MaxWakes
    /\ holder \in Threads \union {Null}
    /\ pc \in [Threads -> PCs]
    /\ seen \in [Threads -> 0..MaxWakes]
    /\ timed \in [Threads -> BOOLEAN]
    /\ to_wake \in [Threads -> 0..Cardinality(Threads)]

Init ==
    /\ waiters = 0 /\ signals = 0 /\ epoch = 0
    /\ holder = Null
    /\ pc = [t \in Threads |-> "out"]
    /\ seen = [t \in Threads |-> 0]
    /\ timed = [t \in Threads |-> FALSE]
    /\ to_wake = [t \in Threads |-> 0]

Goto(t, l) == pc' = [pc EXCEPT ![t] = l]

-----------------------------------------------------------------------------
(* The caller's side of the mutex *)

LockMutex(t) ==
    /\ pc[t] = "out"
    /\ holder = Null
    /\ holder' = t
    /\ Goto(t, "locked")
    /\ UNCHANGED <<wordVars, seen, timed, to_wake>>

UnlockMutex(t) ==
    /\ pc[t] = "locked"
    /\ holder' = Null
    /\ Goto(t, "out")
    /\ UNCHANGED <<wordVars, seen, timed, to_wake>>

-----------------------------------------------------------------------------
(* wait and timed_wait *)

WaitLoadEpoch(t, with_timeout) ==
    /\ pc[t] = "locked"
    /\ seen' = [seen EXCEPT ![t] = epoch]
    /\ timed' = [timed EXCEPT ![t] = with_timeout]
    /\ Goto(t, "register")
    /\ UNCHANGED <<wordVars, holder, to_wake>>

WaitRegister(t) ==
    /\ pc[t] = "register"
    /\ waiters' = waiters + 1
    /\ Goto(t, "unlock")
    /\ UNCHANGED <<signals, epoch, holder, seen, timed, to_wake>>

WaitUnlock(t) ==
    /\ pc[t] = "unlock"
    /\ holder' = Null
    /\ Goto(t, "futex")
    /\ UNCHANGED <<wordVars, seen, timed, to_wake>>

\* Faulty: sleeps without comparing the epoch.
FutexWaitBlindly(t) ==
    /\ pc[t] = "futex"
    /\ Goto(t, "parked")
    /\ UNCHANGED <<wordVars, holder, seen, timed, to_wake>>

FutexWait(t) ==
    /\ pc[t] = "futex"
    /\ Goto(t, IF seen[t] = epoch THEN "parked" ELSE "reload")
    /\ UNCHANGED <<wordVars, holder, seen, timed, to_wake>>

\* The deadline passes, before the futex wait or during it.
Timeout(t) ==
    /\ pc[t] \in {"futex", "parked"}
    /\ timed[t]
    /\ Goto(t, "timeout")
    /\ UNCHANGED <<wordVars, holder, seen, timed, to_wake>>

SpuriousWake(t) ==
    /\ pc[t] = "parked"
    /\ Goto(t, "reload")
    /\ UNCHANGED <<wordVars, holder, seen, timed, to_wake>>

\* No longer counted; a signal that is there is taken along.  The call's locals
\* are not used again.
Leave(t) ==
    /\ waiters' = waiters - 1
    /\ signals' = IF signals > 0 THEN signals - 1 ELSE signals
    /\ seen' = [seen EXCEPT ![t] = 0]
    /\ timed' = [timed EXCEPT ![t] = FALSE]
    /\ Goto(t, "relock")
    /\ UNCHANGED <<epoch, holder, to_wake>>

TimedOut(t) ==
    /\ pc[t] = "timeout"
    /\ Leave(t)

WaitReload(t) ==
    /\ pc[t] = "reload"
    /\ seen' = [seen EXCEPT ![t] = epoch]
    /\ Goto(t, "consume")
    /\ UNCHANGED <<wordVars, holder, timed, to_wake>>

\* Faulty: keeps loading the word and never takes the signal.
WaitConsumeNever(t) ==
    /\ pc[t] = "consume"
    /\ Goto(t, "reload")
    /\ UNCHANGED <<wordVars, holder, seen, timed, to_wake>>

WaitConsume(t) ==
    /\ pc[t] = "consume"
    /\ signals > 0
    /\ Leave(t)

WaitAgain(t) ==
    /\ pc[t] = "consume"
    /\ signals = 0
    /\ Goto(t, "futex")
    /\ UNCHANGED <<wordVars, holder, seen, timed, to_wake>>

\* The deferred mutex.lock() of every exit path.
Relock(t) ==
    /\ pc[t] = "relock"
    /\ holder = Null
    /\ holder' = t
    /\ Goto(t, "locked")
    /\ UNCHANGED <<wordVars, seen, timed, to_wake>>

-----------------------------------------------------------------------------
(* wake, with or without the mutex held *)

wakeable == waiters - signals

\* With nothing to wake the call returns and changes nothing.
WakeReserve(t, n) ==
    /\ pc[t] \in {"out", "locked"}
    /\ wakeable > 0
    /\ epoch + Cardinality({u \in Threads : pc[u] = "bump"}) < MaxWakes
    /\ signals' = signals + n
    /\ to_wake' = [to_wake EXCEPT ![t] = n]
    /\ Goto(t, "bump")
    /\ UNCHANGED <<waiters, epoch, holder, seen, timed>>

signal(t) == WakeReserve(t, 1)

broadcast(t) == WakeReserve(t, wakeable)

WakeBump(t) ==
    /\ pc[t] = "bump"
    /\ epoch' = epoch + 1
    /\ Goto(t, "wake")
    /\ UNCHANGED <<waiters, signals, holder, seen, timed, to_wake>>

Parked == {t \in Threads : pc[t] = "parked"}

\* Futex::wake(&self.epoch, to_wake): that many of the parked, or all of them.
WakeFutex(t) ==
    /\ pc[t] = "wake"
    /\ \E W \in SUBSET Parked :
          /\ Cardinality(W) = Min({to_wake[t], Cardinality(Parked)})
          /\ pc' = [u \in Threads |->
                      IF u \in W THEN "reload"
                      ELSE IF u = t THEN (IF holder = t THEN "locked" ELSE "out")
                      ELSE pc[u]]
    /\ to_wake' = [to_wake EXCEPT ![t] = 0]
    /\ UNCHANGED <<wordVars, holder, seen, timed>>

-----------------------------------------------------------------------------
WaitStep(t) ==
    \/ WaitRegister(t) \/ WaitUnlock(t) \/ FutexWait(t) \/ TimedOut(t)
    \/ WaitReload(t) \/ WaitConsume(t) \/ WaitAgain(t)

WakeStep(t) == WakeBump(t) \/ WakeFutex(t)

Next ==
    \E t \in Threads :
        \/ LockMutex(t) \/ UnlockMutex(t)
        \/ \E b \in BOOLEAN : WaitLoadEpoch(t, b)
        \/ WaitStep(t) \/ Relock(t)
        \/ Timeout(t) \/ SpuriousWake(t)
        \/ signal(t) \/ broadcast(t) \/ WakeStep(t)

SafeSpec == Init /\ [][Next]_vars

\* Threads inside wait() and wake() keep running unless parked.  Neither the
\* clock nor a spurious wake-up is counted on, nor that anybody calls.
Spec ==
    /\ SafeSpec
    /\ \A t \in Threads : WF_vars(WaitStep(t)) /\ WF_vars(WakeStep(t))

-----------------------------------------------------------------------------
(* Properties *)

\* wake()'s comment: "the signals count is always less than or equal to the
\* waiters count", and the latter is the number of threads inside wait().
SignalsReserved ==
    /\ signals <= waiters
    /\ waiters = Cardinality({t \in Threads : pc[t] \in Counted})

\* Threads inside wait() that will look at the word before they sleep.
Awake ==
    {t \in Threads :
        \/ pc[t] \in {"reload", "consume", "timeout"}
        \/ pc[t] \in {"unlock", "futex"} /\ seen[t] # epoch}

\* The wakes that wake() calls have reserved and not yet delivered, one by one.
Promised == UNION {{t} \X (1..to_wake[t]) : t \in Threads}

\* The comments on the order of the epoch and the word in wait() and wake():
\* for every signal in the word there is a thread that will look for it before
\* it sleeps, or a wake under way that will find a sleeper.
NoLostSignal ==
    /\ TypeOK /\ SignalsReserved
    /\ signals <= Cardinality(Awake) + Cardinality(Promised)

\* A reserved signal does not stay in the word for ever: some waiter returns
\* with it.  (wake() calls are bounded, so the count comes back to 0.)
SignalsConsumed == (signals > 0) ~> (signals = 0)
=============================================================================
