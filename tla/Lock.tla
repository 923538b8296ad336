-------------------------------- MODULE Lock --------------------------------
(***************************************************************************)
(* What Mutex promises its users: one holder at a time, and a lock that is *)
(* wanted and free is taken by somebody.  Nothing is promised about whom.  *)
(***************************************************************************)
CONSTANTS Threads, Null

VARIABLES holder, wanting

vars == <<holder, wanting>>

Init ==
    /\ holder = Null
    /\ wanting = {}

Want(t) ==
    /\ t \notin wanting
    /\ holder # t
    /\ wanting' = wanting \union {t}
    /\ UNCHANGED holder

Acquire(t) ==
    /\ t \in wanting
    /\ holder = Null
    /\ holder' = t
    /\ wanting' = wanting \ {t}

\* try_lock succeeds without having waited.
TryAcquire(t) ==
    /\ t \notin wanting
    /\ holder = Null
    /\ holder' = t
    /\ UNCHANGED wanting

Release(t) ==
    /\ holder = t
    /\ holder' = Null
    /\ UNCHANGED wanting

Next == \E t \in Threads : Want(t) \/ Acquire(t) \/ TryAcquire(t) \/ Release(t)

SafeSpec == Init /\ [][Next]_vars

Spec == SafeSpec /\ WF_vars(\E t \in Threads : Acquire(t))
=============================================================================
