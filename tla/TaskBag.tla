------------------------------ MODULE TaskBag ------------------------------
(***************************************************************************)
(* What node::Queue of src/threading/ThreadPool.rs promises the pool: an   *)
(* unordered collection of nodes that anybody adds to and one consumer at  *)
(* a time takes from.  ThreadPool uses its run queues through this view.   *)
(***************************************************************************)
CONSTANTS Nodes, Consumers, NoConsumer

VARIABLES bag, holder

vars == <<bag, holder>>

Init ==
    /\ bag = {}
    /\ holder = NoConsumer

Push(S) ==
    /\ S # {}
    /\ S \intersect bag = {}
    /\ bag' = bag \union S
    /\ UNCHANGED holder

Acquire(c) ==
    /\ holder = NoConsumer
    /\ bag # {}
    /\ holder' = c
    /\ UNCHANGED bag

Take(c, n) ==
    /\ holder = c
    /\ n \in bag
    /\ bag' = bag \ {n}
    /\ UNCHANGED holder

Release(c) ==
    /\ holder = c
    /\ holder' = NoConsumer
    /\ UNCHANGED bag

Next ==
    \/ \E S \in SUBSET Nodes : Push(S)
    \/ \E c \in Consumers : Acquire(c) \/ Release(c) \/ \E n \in Nodes : Take(c, n)

Spec == Init /\ [][Next]_vars
=============================================================================
