----------------------------- MODULE NodeQueue -----------------------------
(***************************************************************************)
(* node::Queue and node::Consumer of src/threading/ThreadPool.rs: a        *)
(* lock-free stack of linked nodes whose word also carries two flags,      *)
(* HAS_CACHE and IS_CONSUMING, and a cache cell that only the consumer     *)
(* touches.  Nodes are reused: a task that was taken may be pushed again.  *)
(*                                                                         *)
(* A push links its tail to the stack it saw and exchanges the word; the   *)
(* link is private until then, so both are one step on the current word.   *)
(***************************************************************************)
EXTENDS Naturals, FiniteSets, Sequences

CONSTANTS Nodes, Consumers, Null

ASSUME NodeQueueAssumption == /\ Null \notin Nodes \union Consumers
                              /\ IsFiniteSet(Nodes)

VARIABLES stack,            \* [ptr, has_cache, is_consuming]
          cache,            \* Queue.cache
          next,             \* Node.next
          pc,               \* where each consumer is
          local,            \* Consumer.cache, the consumer's own pointer
          owned             \* nodes outside the queue: not scheduled, or being run

vars == <<stack, cache, next, pc, local, owned>>

ConsumerPCs == {"out", "load_cache", "consume", "swap", "store_cache", "release"}

TypeOK ==
    /\ stack \in [ptr : Nodes \union {Null}, has_cache : BOOLEAN, is_consuming : BOOLEAN]
    /\ cache \in Nodes \union {Null}
    /\ next \in [Nodes -> Nodes \union {Null}]
    /\ pc \in [Consumers -> ConsumerPCs]
    /\ local \in [Consumers -> Nodes \union {Null}]
    /\ owned \subseteq Nodes

Init ==
    /\ stack = [ptr |-> Null, has_cache |-> FALSE, is_consuming |-> FALSE]
    /\ cache = Null
    /\ next = [n \in Nodes |-> Null]
    /\ pc = [c \in Consumers |-> "out"]
    /\ local = [c \in Consumers |-> Null]
    /\ owned = Nodes

\* Push of a list of one or two nodes, head first.
Push(list) ==
    /\ \A i \in DOMAIN list : list[i] \in owned
    /\ next' = [n \in Nodes |->
                  IF n = list[Len(list)] THEN stack.ptr
                  ELSE IF n = list[1] THEN list[2] ELSE next[n]]
    /\ stack' = [stack EXCEPT !.ptr = list[1]]
    /\ owned' = owned \ {list[i] : i \in DOMAIN list}
    /\ UNCHANGED <<cache, pc, local>>

\* Faulty: takes the stack along and leaves it in place.
TryAcquireKeepingStack(c) ==
    /\ pc[c] = "out"
    /\ ~stack.is_consuming
    /\ stack.has_cache \/ stack.ptr # Null
    /\ stack' = [stack EXCEPT !.has_cache = TRUE, !.is_consuming = TRUE]
    /\ local' = [local EXCEPT ![c] = stack.ptr]
    /\ pc' = [pc EXCEPT ![c] = "load_cache"]
    /\ UNCHANGED <<cache, next, owned>>

\* Faulty: acquires a queue that is empty.
TryAcquireEmpty(c) ==
    /\ pc[c] = "out"
    /\ ~stack.is_consuming
    /\ stack' = [ptr |-> IF stack.has_cache THEN stack.ptr ELSE Null,
                 has_cache |-> TRUE, is_consuming |-> TRUE]
    /\ local' = [local EXCEPT ![c] = stack.ptr]
    /\ pc' = [pc EXCEPT ![c] = "load_cache"]
    /\ UNCHANGED <<cache, next, owned>>

\* try_acquire_consumer; with nothing cached the stack is taken along.  A
\* contended or empty queue changes nothing.
TryAcquire(c) ==
    /\ pc[c] = "out"
    /\ ~stack.is_consuming
    /\ stack.has_cache \/ stack.ptr # Null
    /\ stack' = [ptr |-> IF stack.has_cache THEN stack.ptr ELSE Null,
                 has_cache |-> TRUE, is_consuming |-> TRUE]
    /\ local' = [local EXCEPT ![c] = stack.ptr]
    /\ pc' = [pc EXCEPT ![c] = "load_cache"]
    /\ UNCHANGED <<cache, next, owned>>

LoadCache(c) ==
    /\ pc[c] = "load_cache"
    /\ local' = [local EXCEPT ![c] = IF cache # Null THEN cache ELSE @]
    /\ pc' = [pc EXCEPT ![c] = "consume"]
    /\ UNCHANGED <<stack, cache, next, owned>>

\* Consumer::pop, fast path.
PopCached(c) ==
    /\ pc[c] = "consume"
    /\ local[c] # Null
    /\ owned' = owned \union {local[c]}
    /\ local' = [local EXCEPT ![c] = next[local[c]]]
    /\ UNCHANGED <<stack, cache, next, pc>>

\* Consumer::pop loads the word and finds something pushed since ...
PopLoad(c) ==
    /\ pc[c] = "consume"
    /\ local[c] = Null
    /\ stack.ptr # Null
    /\ pc' = [pc EXCEPT ![c] = "swap"]
    /\ UNCHANGED <<stack, cache, next, local, owned>>

\* ... and swaps all of it out.
PopSwap(c) ==
    /\ pc[c] = "swap"
    /\ stack' = [ptr |-> Null, has_cache |-> TRUE, is_consuming |-> TRUE]
    /\ owned' = owned \union {stack.ptr}
    /\ local' = [local EXCEPT ![c] = next[stack.ptr]]
    /\ pc' = [pc EXCEPT ![c] = "consume"]
    /\ UNCHANGED <<cache, next>>

\* The consumer is dropped: the caller has found the queue empty, or has
\* taken as much as its buffer holds.
DropConsumer(c) ==
    /\ pc[c] = "consume"
    /\ pc' = [pc EXCEPT ![c] = "store_cache"]
    /\ UNCHANGED <<stack, cache, next, local, owned>>

StoreCache(c) ==
    /\ pc[c] = "store_cache"
    /\ cache' = local[c]
    /\ pc' = [pc EXCEPT ![c] = "release"]
    /\ UNCHANGED <<stack, next, local, owned>>

\* fetch_sub of IS_CONSUMING, and of HAS_CACHE if the cache is empty.
ReleaseConsumer(c) ==
    /\ pc[c] = "release"
    /\ stack' = [stack EXCEPT !.is_consuming = FALSE, !.has_cache = local[c] # Null]
    /\ local' = [local EXCEPT ![c] = Null]
    /\ pc' = [pc EXCEPT ![c] = "out"]
    /\ UNCHANGED <<cache, next, owned>>

ConsumerStep(c) ==
    \/ LoadCache(c) \/ PopCached(c) \/ PopLoad(c) \/ PopSwap(c)
    \/ DropConsumer(c) \/ StoreCache(c) \/ ReleaseConsumer(c)

Lists == {<<n>> : n \in Nodes} \union {s \in Nodes \X Nodes : s[1] # s[2]}

Next ==
    \/ \E list \in Lists : Push(list)
    \/ \E c \in Consumers : TryAcquire(c) \/ ConsumerStep(c)

Spec == Init /\ [][Next]_vars

-----------------------------------------------------------------------------
(* Properties *)

\* The nodes reachable from n through next, n first.
Walk(n) ==
    LET at[i \in 0..Cardinality(Nodes)] ==
            IF i = 0 THEN n ELSE IF at[i - 1] = Null THEN Null ELSE next[at[i - 1]]
    IN  {at[i] : i \in DOMAIN at} \ {Null}

Consuming == {c \in Consumers : pc[c] # "out"}
Holder == CHOOSE c \in Consumers : pc[c] # "out"

\* Where the consumed list is: with the consumer, or parked in the cache.
ListHead ==
    IF Consuming = {} THEN cache
    ELSE IF pc[Holder] = "load_cache" /\ cache # Null THEN cache ELSE local[Holder]

\* The cache cell is not atomic: IS_CONSUMING must admit one thread at a time,
\* and the bit is set exactly while somebody is inside.  With nobody inside,
\* HAS_CACHE says whether the cell holds nodes, so that try_acquire_consumer
\* reports "Empty" only when it is true.
CacheIsExclusive ==
    /\ Cardinality(Consuming) <= 1
    /\ stack.is_consuming <=> Consuming # {}
    /\ Consuming = {} => (stack.has_cache <=> cache # Null)

\* Nodes are never lost, never in two places, never in a cycle: what is not
\* owned is on exactly one of the two lists.
NoNodeLost ==
    /\ TypeOK /\ CacheIsExclusive
    /\ Walk(stack.ptr) \intersect Walk(ListHead) = {}
    /\ Walk(stack.ptr) \union Walk(ListHead) = Nodes \ owned

\* The queue implements the bag of tasks with one consumer at a time.
Bag == INSTANCE TaskBag WITH
    NoConsumer <- Null,
    bag <- Nodes \ owned,
    holder <- IF Consuming = {} THEN Null ELSE Holder

ImplementsTaskBag == Bag!Spec
=============================================================================
