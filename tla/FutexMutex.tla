----------------------------- MODULE FutexMutex -----------------------------
(***************************************************************************)
(* FutexImpl of src/threading/Mutex.rs, the mutex of every build but       *)
(* Windows' and Apple's.  One step per atomic access and futex call.       *)
(* Names differ from those of Condition and WaitGroup, which               *)
(* BlockingProofs extends as well.                                         *)
(***************************************************************************)
CONSTANTS Lockers, Nobody

ASSUME MutexAssumption == Nobody \notin Lockers

VARIABLES state,            \* UNLOCKED, LOCKED or CONTENDED
          at                \* where each thread is

mutex_vars == <<state, at>>

\* "try": before try_lock of lock();  "try_only": before a bare try_lock();
\* "slow": before lock_slow's load;  "futex": before Futex::wait_forever;
\* "parked": on the futex's queue;  "swap": before the swap to CONTENDED;
\* "held": the critical section;  "wake": unlocked, before Futex::wake_raw.
LockerPlaces == {"out", "try", "try_only", "slow", "futex", "parked", "swap", "held", "wake"}

MutexTypeOK ==
    /\ state \in {"UNLOCKED", "LOCKED", "CONTENDED"}
    /\ at \in [Lockers -> LockerPlaces]

MutexInit ==
    /\ state = "UNLOCKED"
    /\ at = [t \in Lockers |-> "out"]

LockerAt(t, l) == at' = [at EXCEPT ![t] = l]

Call(t) ==
    /\ at[t] = "out"
    /\ LockerAt(t, "try") \/ LockerAt(t, "try_only")
    /\ UNCHANGED state

\* fetch_or of the LOCKED bit on x86, a weak compare_exchange elsewhere: neither
\* changes a word that is not UNLOCKED.
TryLock(t) ==
    /\ at[t] \in {"try", "try_only"}
    /\ state = "UNLOCKED"
    /\ state' = "LOCKED"
    /\ LockerAt(t, "held")

\* Faulty: lock() gives up where it should wait.
TryLockGivesUp(t) ==
    /\ at[t] \in {"try", "try_only"}
    /\ LockerAt(t, "out")
    /\ UNCHANGED state

\* The lock is taken, or the weak exchange fails spuriously.
TryLockFails(t) ==
    /\ at[t] \in {"try", "try_only"}
    /\ LockerAt(t, IF at[t] = "try" THEN "slow" ELSE "out")
    /\ UNCHANGED state

SlowLoad(t) ==
    /\ at[t] = "slow"
    /\ LockerAt(t, IF state = "CONTENDED" THEN "futex" ELSE "swap")
    /\ UNCHANGED state

SlowWait(t) ==
    /\ at[t] = "futex"
    /\ LockerAt(t, IF state = "CONTENDED" THEN "parked" ELSE "swap")
    /\ UNCHANGED state

SlowWake(t) ==
    /\ at[t] = "parked"
    /\ LockerAt(t, "swap")
    /\ UNCHANGED state

\* Faulty: a LOCKED word that the swap finds is taken for a free one.
SlowSwapMisread(t) ==
    /\ at[t] = "swap"
    /\ state' = "CONTENDED"
    /\ LockerAt(t, IF state = "CONTENDED" THEN "futex" ELSE "held")

\* Faulty: forgets, on acquiring, that others may be parked.
SlowSwapForgets(t) ==
    /\ at[t] = "swap"
    /\ state' = IF state = "UNLOCKED" THEN "LOCKED" ELSE "CONTENDED"
    /\ LockerAt(t, IF state = "UNLOCKED" THEN "held" ELSE "futex")

SlowSwap(t) ==
    /\ at[t] = "swap"
    /\ state' = "CONTENDED"
    /\ LockerAt(t, IF state = "UNLOCKED" THEN "held" ELSE "futex")

Unlock(t) ==
    /\ at[t] = "held"
    /\ state' = "UNLOCKED"
    /\ LockerAt(t, IF state = "CONTENDED" THEN "wake" ELSE "out")

\* Futex::wake_raw(state_ptr, 1): by address, the word is not read.
WakeOne(t) ==
    /\ at[t] = "wake"
    /\ \/ \E u \in Lockers :
            /\ at[u] = "parked"
            /\ at' = [at EXCEPT ![t] = "out", ![u] = "swap"]
       \/ /\ \A u \in Lockers : at[u] # "parked"
          /\ LockerAt(t, "out")
    /\ UNCHANGED state

LockStep(t) ==
    \/ TryLock(t) \/ TryLockFails(t) \/ SlowLoad(t) \/ SlowWait(t) \/ SlowSwap(t)

MutexNext == \E t \in Lockers : Call(t) \/ LockStep(t) \/ SlowWake(t) \/ Unlock(t) \/ WakeOne(t)

MutexSafeSpec == MutexInit /\ [][MutexNext]_mutex_vars

\* Threads in lock() and unlock() keep running unless parked, and critical
\* sections end.
MutexSpec ==
    /\ MutexSafeSpec
    /\ \A t \in Lockers : /\ WF_mutex_vars(LockStep(t)) /\ WF_mutex_vars(Unlock(t))
                        /\ WF_mutex_vars(WakeOne(t))

-----------------------------------------------------------------------------
(* Properties *)

\* One thread at a time between lock() and unlock(), and the word knows it.
MutualExclusion ==
    /\ \A t, u \in Lockers : at[t] = "held" /\ at[u] = "held" => t = u
    /\ state = "UNLOCKED" <=> \A t \in Lockers : at[t] # "held"

\* lock_slow's comment on acquiring with `contended': a parked thread is never
\* forgotten.  The word tells the next unlock of it, or a wake is under way, or
\* a thread is about to mark the word again.
NoLostWaiter ==
    (\E t \in Lockers : at[t] = "parked") =>
        state = "CONTENDED" \/ \E t \in Lockers : at[t] \in {"wake", "swap"}

\* The futex word implements a lock without deadlock.
Holders == {t \in Lockers : at[t] = "held"}
Abstract == INSTANCE Lock WITH
    Threads <- Lockers, Null <- Nobody,
    holder <- IF Holders = {} THEN Nobody ELSE CHOOSE t \in Holders : TRUE,
    wanting <- {t \in Lockers : at[t] \in {"try", "slow", "futex", "parked", "swap"}}

ImplementsLock == Abstract!Spec
=============================================================================
