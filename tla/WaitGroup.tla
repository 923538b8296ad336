------------------------------ MODULE WaitGroup ------------------------------
(***************************************************************************)
(* src/threading/WaitGroup.rs: tasks count themselves out of a group that  *)
(* the owner waits for and may free as soon as wait() returns.  The mutex  *)
(* is the abstract Lock, the condition is used through its contract: a     *)
(* wait releases the mutex and blocks in one step, and ends with a signal  *)
(* or spuriously.  A load and the compare_exchange loop after it are one   *)
(* step on the current count.  Names differ from those of Condition and    *)
(* FutexMutex, which BlockingProofs extends as well.                       *)
(***************************************************************************)
EXTENDS Integers, FiniteSets

CONSTANTS Tasks, Owner, Free

ASSUME GroupAssumption ==
    /\ IsFiniteSet(Tasks)
    /\ Owner \notin Tasks
    /\ Free \notin Tasks \union {Owner}

VARIABLES raw_count,
          mutex,            \* who holds the mutex
          stage             \* where each task and the owner are

group_vars == <<raw_count, mutex, stage>>

Procs == Tasks \union {Owner}

\* "run": counted, before finish_raw;  "lock": the fast path has declined;
\* "sub", "signal", "unlock": the steps under the mutex;  "done": returned.
TaskPCs == {"none", "run", "lock", "sub", "signal", "unlock", "done"}

\* "adding": hands out tasks;  "lock", "check", "unlock", "blocked", "relock":
\* in wait();  "returned": wait() has returned;  "freed": the group is gone.
OwnerPCs == {"adding", "lock", "check", "unlock", "blocked", "relock", "returned", "freed"}

GroupTypeOK ==
    /\ raw_count \in Nat
    /\ mutex \in Procs \union {Free}
    /\ stage \in [Procs -> TaskPCs \union OwnerPCs]
    /\ \A t \in Tasks : stage[t] \in TaskPCs
    /\ stage[Owner] \in OwnerPCs

GroupInit ==
    /\ raw_count = 0
    /\ mutex = Free
    /\ stage = [p \in Procs |-> IF p = Owner THEN "adding" ELSE "none"]

Stage(p, l) == stage' = [stage EXCEPT ![p] = l]

\* add_one() before a task is started, by the owner or by a task still counted.
AddOne(p, t) ==
    /\ stage[p] \in {"adding", "run"}
    /\ stage[t] \in {"none", "done"}
    /\ raw_count' = raw_count + 1
    /\ Stage(t, "run")
    /\ UNCHANGED mutex

-----------------------------------------------------------------------------
(* finish_raw *)

\* Faulty: the lock-free path also takes the last task out.
FinishFastLast(t) ==
    /\ stage[t] = "run"
    /\ raw_count' = raw_count - 1
    /\ Stage(t, "done")
    /\ UNCHANGED mutex

FinishFast(t) ==
    /\ stage[t] = "run"
    /\ raw_count > 1
    /\ raw_count' = raw_count - 1
    /\ Stage(t, "done")
    /\ UNCHANGED mutex

FinishSlow(t) ==
    /\ stage[t] = "run"
    /\ raw_count <= 1
    /\ Stage(t, "lock")
    /\ UNCHANGED <<raw_count, mutex>>

FinishLock(t) ==
    /\ stage[t] = "lock"
    /\ mutex = Free
    /\ mutex' = t
    /\ Stage(t, "sub")
    /\ UNCHANGED raw_count

\* Faulty: the mutex is let go of before the signal.
FinishSubUnlocks(t) ==
    /\ stage[t] = "sub"
    /\ raw_count' = raw_count - 1
    /\ mutex' = Free
    /\ Stage(t, "signal")

FinishSub(t) ==
    /\ stage[t] = "sub"
    /\ raw_count' = raw_count - 1
    /\ Stage(t, "signal")
    /\ UNCHANGED mutex

FinishSignal(t) ==
    /\ stage[t] = "signal"
    /\ stage' = [stage EXCEPT ![t] = "unlock",
                        ![Owner] = IF @ = "blocked" THEN "relock" ELSE @]
    /\ UNCHANGED <<raw_count, mutex>>

\* unlock_raw: its store is the last access to the group.
FinishUnlock(t) ==
    /\ stage[t] = "unlock"
    /\ mutex' = Free
    /\ Stage(t, "done")
    /\ UNCHANGED raw_count

-----------------------------------------------------------------------------
(* wait *)

BeginWait ==
    /\ stage[Owner] = "adding"
    /\ Stage(Owner, "lock")
    /\ UNCHANGED <<raw_count, mutex>>

WaitLock ==
    /\ stage[Owner] \in {"lock", "relock"}
    /\ mutex = Free
    /\ mutex' = Owner
    /\ Stage(Owner, "check")
    /\ UNCHANGED raw_count

WaitCheck ==
    /\ stage[Owner] = "check"
    /\ IF raw_count > 0
       THEN Stage(Owner, "blocked") /\ mutex' = Free
       ELSE Stage(Owner, "unlock") /\ UNCHANGED mutex
    /\ UNCHANGED raw_count

WaitWake ==
    /\ stage[Owner] = "blocked"
    /\ Stage(Owner, "relock")
    /\ UNCHANGED <<raw_count, mutex>>

WaitReturn ==
    /\ stage[Owner] = "unlock"
    /\ mutex' = Free
    /\ Stage(Owner, "returned")
    /\ UNCHANGED raw_count

\* The owner uses the group again, or frees it.
Reuse ==
    /\ stage[Owner] = "returned"
    /\ Stage(Owner, "adding") \/ Stage(Owner, "freed")
    /\ UNCHANGED <<raw_count, mutex>>

\* Nothing more happens to a group that is freed.
Gone ==
    /\ stage[Owner] = "freed"
    /\ UNCHANGED group_vars

-----------------------------------------------------------------------------
FinishStep(t) ==
    \/ FinishFast(t) \/ FinishSlow(t) \/ FinishLock(t) \/ FinishSub(t)
    \/ FinishSignal(t) \/ FinishUnlock(t)

OwnerStep == WaitLock \/ WaitCheck \/ WaitReturn

GroupNext ==
    \/ \E p \in Procs, t \in Tasks : AddOne(p, t)
    \/ \E t \in Tasks : FinishStep(t)
    \/ BeginWait \/ OwnerStep \/ WaitWake \/ Reuse
    \/ Gone

GroupSafeSpec == GroupInit /\ [][GroupNext]_group_vars

\* Tasks finish, and a thread that can have the mutex or go on does so.
GroupSpec ==
    /\ GroupSafeSpec
    /\ \A t \in Tasks : WF_group_vars(FinishStep(t))
    /\ WF_group_vars(OwnerStep)

-----------------------------------------------------------------------------
(* Properties *)

\* Tasks that have yet to count themselves out.
Outstanding == {t \in Tasks : stage[t] \in {"run", "lock", "sub"}}

\* The count is exact whichever path a task leaves by, so it never wraps.
CountExact == raw_count = Cardinality(Outstanding)

\* wait()'s contract: "Once this returns every finish_raw is done; the group may
\* be freed".  No task is between its decrement and its unlock.
FinishedBeforeReturn ==
    stage[Owner] \in {"returned", "freed"} => \A t \in Tasks : stage[t] \in {"none", "done"}

\* The last finisher lets the owner go: a wait() on a count of zero returns.
LastFinishReleases ==
    (raw_count = 0 /\ stage[Owner] \in {"lock", "check", "unlock", "blocked", "relock"})
        ~> (stage[Owner] = "returned")
=============================================================================
