---------------------------- MODULE BinaryEvent ----------------------------
(***************************************************************************)
(* What the Event of src/threading/ThreadPool.rs promises: one semaphore   *)
(* token.  A post makes the token available if it was not, a waiter takes  *)
(* it, and once the event is shut down every wait returns at once.         *)
(***************************************************************************)
CONSTANT Waiters            \* the threads that call wait()

VARIABLES token,            \* "empty", "posted" or "shutdown"
          waiting           \* the waiters inside wait()

vars == <<token, waiting>>

TypeOK ==
    /\ token \in {"empty", "posted", "shutdown"}
    /\ waiting \subseteq Waiters

Init ==
    /\ token = "empty"
    /\ waiting = {}

Enter(w) ==
    /\ w \notin waiting
    /\ waiting' = waiting \union {w}
    /\ UNCHANGED token

\* A wait() returns with the token: it is consumed exactly once.
Take(w) ==
    /\ w \in waiting
    /\ token = "posted"
    /\ token' = "empty"
    /\ waiting' = waiting \ {w}

\* A wait() returns because the event is shut down.
Leave(w) ==
    /\ w \in waiting
    /\ token = "shutdown"
    /\ waiting' = waiting \ {w}
    /\ UNCHANGED token

Post ==
    /\ token = "empty"
    /\ token' = "posted"
    /\ UNCHANGED waiting

Close ==
    /\ token # "shutdown"
    /\ token' = "shutdown"
    /\ UNCHANGED waiting

Next ==
    \/ \E w \in Waiters : Enter(w) \/ Take(w) \/ Leave(w)
    \/ Post
    \/ Close

\* The safety part alone, the target of the refinement theorem.
SafeSpec == Init /\ [][Next]_vars

\* A posted token is taken while someone waits for it, and a shut down event
\* lets every waiter go.
Spec ==
    /\ SafeSpec
    /\ WF_vars(\E w \in Waiters : Take(w))
    /\ \A w \in Waiters : WF_vars(Leave(w))
=============================================================================
