-------------------------- MODULE NodeQueueProofs --------------------------
(***************************************************************************)
(* Proofs about NodeQueue for any finite set of nodes and any consumers:   *)
(* node::Queue never loses a node, and it implements the bag of tasks that *)
(* the pool uses its run queues as.                                        *)
(***************************************************************************)
EXTENDS NodeQueue, FiniteSetTheorems, FunctionTheorems, WellFoundedInduction, TLAPS

-----------------------------------------------------------------------------
(* Linked lists *)

\* s[1], ..., s[k] are the nodes of the list that starts at h, each once.
Chain(nx, k, s, h) ==
    /\ h = IF k = 0 THEN Null ELSE s[1]
    /\ \A i \in 1..k : nx[s[i]] = IF i = k THEN Null ELSE s[i + 1]
    /\ \A i, j \in 1..k : s[i] = s[j] => i = j

\* S is the set of nodes of the list that starts at h.
List(nx, h, S) ==
    \E k \in Nat : \E s \in [1..k -> Nodes] :
        Chain(nx, k, s, h) /\ S = {s[i] : i \in 1..k}

\* The empty list is the one that starts nowhere.
LEMMA ListNull ==
    ASSUME NEW nx, NEW S
    PROVE  List(nx, Null, S) <=> S = {}
<1>1. ASSUME List(nx, Null, S) PROVE S = {}
  <2>1. PICK k \in Nat : \E s \in [1..k -> Nodes] :
            Chain(nx, k, s, Null) /\ S = {s[i] : i \in 1..k}
    BY <1>1 DEF List
  <2>2. PICK s \in [1..k -> Nodes] : Chain(nx, k, s, Null) /\ S = {s[i] : i \in 1..k}
    BY <2>1
  <2>3. k = 0
    BY <2>2, NodeQueueAssumption DEF Chain
  <2> QED
    BY <2>2, <2>3
<1>2. ASSUME S = {} PROVE List(nx, Null, S)
  <2> DEFINE s == [i \in 1..0 |-> Null]
  <2>1. s \in [1..0 -> Nodes] /\ Chain(nx, 0, s, Null) /\ S = {s[i] : i \in 1..0}
    BY <1>2 DEF Chain
  <2> QED
    BY <2>1 DEF List
<1> QED
  BY <1>1, <1>2

\* Following the first link leaves the list without its first node.
LEMMA ListPop ==
    ASSUME NEW nx, NEW h, NEW S, List(nx, h, S), h # Null
    PROVE  h \in S /\ S \subseteq Nodes /\ List(nx, nx[h], S \ {h})
<1>1. PICK k \in Nat : \E s \in [1..k -> Nodes] :
          Chain(nx, k, s, h) /\ S = {s[i] : i \in 1..k}
  BY DEF List
<1>2. PICK s \in [1..k -> Nodes] : Chain(nx, k, s, h) /\ S = {s[i] : i \in 1..k}
  BY <1>1
<1>3. k >= 1 /\ s[1] = h /\ k - 1 \in Nat
  BY <1>2 DEF Chain
<1> DEFINE t == [i \in 1..(k - 1) |-> s[i + 1]]
<1>4. t \in [1..(k - 1) -> Nodes] /\ \A i \in 1..(k - 1) : t[i] = s[i + 1]
  BY <1>3
<1> HIDE DEF t
<1>5. nx[h] = IF k - 1 = 0 THEN Null ELSE t[1]
  BY <1>2, <1>3, <1>4 DEF Chain
<1>6. \A i \in 1..(k - 1) : nx[t[i]] = IF i = k - 1 THEN Null ELSE t[i + 1]
  BY <1>2, <1>3, <1>4 DEF Chain
<1>7. \A i, j \in 1..(k - 1) : t[i] = t[j] => i = j
  BY <1>2, <1>3, <1>4 DEF Chain
<1>8. S \ {h} = {t[i] : i \in 1..(k - 1)}
  <2>1. ASSUME NEW n \in S, n # h PROVE \E i \in 1..(k - 1) : n = t[i]
    <3>1. PICK i \in 1..k : n = s[i]
      BY <1>2
    <3>2. i # 1 /\ i - 1 \in 1..(k - 1) /\ t[i - 1] = n
      BY <1>3, <1>4, <2>1, <3>1
    <3> QED
      BY <3>2
  <2>2. ASSUME NEW i \in 1..(k - 1) PROVE t[i] \in S /\ t[i] # h
    BY <1>2, <1>3, <1>4 DEF Chain
  <2> QED
    BY <2>1, <2>2
<1>9. Chain(nx, k - 1, t, nx[h])
  BY <1>5, <1>6, <1>7 DEF Chain
<1>10. List(nx, nx[h], S \ {h})
  BY <1>3, <1>4, <1>8, <1>9 DEF List
<1> QED
  BY <1>2, <1>3, <1>10

\* A node that is linked to a list is the first of a list that has one node more.
LEMMA ListPush ==
    ASSUME NEW nx, NEW ny, NEW h, NEW S, List(nx, h, S), NEW n \in Nodes \ S,
           \A x \in S : ny[x] = nx[x], ny[n] = h
    PROVE  List(ny, n, S \union {n})
<1>1. PICK k \in Nat : \E s \in [1..k -> Nodes] :
          Chain(nx, k, s, h) /\ S = {s[i] : i \in 1..k}
  BY DEF List
<1>2. PICK s \in [1..k -> Nodes] : Chain(nx, k, s, h) /\ S = {s[i] : i \in 1..k}
  BY <1>1
<1> DEFINE t == [i \in 1..(k + 1) |-> IF i = 1 THEN n ELSE s[i - 1]]
<1>3. /\ t \in [1..(k + 1) -> Nodes] /\ t[1] = n
      /\ \A i \in 2..(k + 1) : t[i] = s[i - 1] /\ t[i] \in S /\ t[i] # n
      /\ \A i \in 1..k : t[i + 1] = s[i]
  BY <1>2
<1> HIDE DEF t
<1>4. ny[t[1]] = IF 1 = k + 1 THEN Null ELSE t[2]
  BY <1>2, <1>3 DEF Chain
<1>5. ASSUME NEW i \in 2..(k + 1) PROVE ny[t[i]] = IF i = k + 1 THEN Null ELSE t[i + 1]
  <2>1. ny[t[i]] = nx[s[i - 1]] /\ i - 1 \in 1..k
    BY <1>3
  <2>2. nx[s[i - 1]] = IF i - 1 = k THEN Null ELSE s[i - 1 + 1]
    BY <1>2, <2>1 DEF Chain
  <2> QED
    BY <1>3, <2>1, <2>2
<1>6. ASSUME NEW i \in 1..(k + 1), NEW j \in 1..(k + 1), t[i] = t[j] PROVE i = j
  <2>1. CASE i = 1 \/ j = 1
    BY <1>3, <1>6, <2>1
  <2>2. CASE i \in 2..(k + 1) /\ j \in 2..(k + 1)
    <3>1. s[i - 1] = s[j - 1] /\ i - 1 \in 1..k /\ j - 1 \in 1..k
      BY <1>3, <1>6, <2>2
    <3>2. i - 1 = j - 1
      BY <1>2, <3>1 DEF Chain
    <3> QED
      BY <3>2
  <2> QED
    BY <2>1, <2>2
<1>7. Chain(ny, k + 1, t, n)
  BY <1>3, <1>4, <1>5, <1>6 DEF Chain
<1>8. S \union {n} = {t[i] : i \in 1..(k + 1)}
  <2>1. ASSUME NEW x \in S PROVE \E i \in 1..(k + 1) : x = t[i]
    <3>1. PICK i \in 1..k : x = s[i]
      BY <1>2
    <3>2. i + 1 \in 1..(k + 1) /\ x = t[i + 1]
      BY <1>3, <3>1
    <3> QED
      BY <3>2
  <2>2. ASSUME NEW i \in 1..(k + 1) PROVE t[i] \in S \union {n}
    BY <1>3
  <2> QED
    BY <1>3, <2>1, <2>2
<1>9. k + 1 \in Nat
  OBVIOUS
<1> QED
  BY <1>3, <1>7, <1>8, <1>9 DEF List

\* A list stays while its own links do.
LEMMA ListFrame ==
    ASSUME NEW nx, NEW ny, NEW h, NEW S, List(nx, h, S), \A x \in S : ny[x] = nx[x]
    PROVE  List(ny, h, S)
<1>1. PICK k \in Nat : \E s \in [1..k -> Nodes] :
          Chain(nx, k, s, h) /\ S = {s[i] : i \in 1..k}
  BY DEF List
<1>2. PICK s \in [1..k -> Nodes] : Chain(nx, k, s, h) /\ S = {s[i] : i \in 1..k}
  BY <1>1
<1>3. Chain(ny, k, s, h)
  BY <1>2 DEF Chain
<1> QED
  BY <1>2, <1>3 DEF List

-----------------------------------------------------------------------------
(* The invariant *)

\* One consumer at a time, and what it has in each phase: a queue it found
\* empty-handed stays non-empty until it swaps it out, and it leaves with the
\* cell holding what it held.
Exclusive ==
    /\ \A c, d \in Consumers : pc[c] # "out" /\ pc[d] # "out" => c = d
    /\ stack.is_consuming <=> \E c \in Consumers : pc[c] # "out"
    /\ (\A c \in Consumers : pc[c] = "out") => (stack.has_cache <=> cache # Null)
    /\ \A c \in Consumers : pc[c] = "swap" => local[c] = Null /\ stack.ptr # Null
    /\ \A c \in Consumers : pc[c] = "release" => cache = local[c]

\* The nodes in the queue are those of two lists that share nothing.
TwoLists ==
    \E S, L \in SUBSET Nodes :
        /\ List(next, stack.ptr, S) /\ List(next, ListHead, L)
        /\ S \intersect L = {} /\ S \union L = Nodes \ owned

IInv == TypeOK /\ Exclusive /\ TwoLists

\* Where the consumed list starts, by the phase of the consumer.
HeadByPhase ==
    /\ (\A c \in Consumers : pc[c] = "out") => ListHead = cache /\ Consuming = {}
    /\ \A c \in Consumers : pc[c] # "out" =>
          /\ Consuming = {c}
          /\ Holder = c
          /\ ListHead = IF pc[c] = "load_cache" /\ cache # Null THEN cache ELSE local[c]

\* One consumer at a time makes it well defined.
LEMMA HeadIs == Exclusive => HeadByPhase
<1> SUFFICES ASSUME Exclusive PROVE HeadByPhase
  OBVIOUS
<1>1. (\A c \in Consumers : pc[c] = "out") => ListHead = cache /\ Consuming = {}
  BY DEF ListHead, Consuming
<1>2. ASSUME NEW c \in Consumers, pc[c] # "out"
      PROVE  /\ Consuming = {c}
             /\ Holder = c
             /\ ListHead = IF pc[c] = "load_cache" /\ cache # Null THEN cache ELSE local[c]
  <2>1. Consuming = {c}
    BY <1>2 DEF Exclusive, Consuming
  <2>2. Holder = c
    <3>1. Holder \in Consumers /\ pc[Holder] # "out"
      BY <1>2 DEF Holder
    <3> QED
      BY <1>2, <3>1 DEF Exclusive
  <2>3. ListHead = IF pc[c] = "load_cache" /\ cache # Null THEN cache ELSE local[c]
    BY <2>1, <2>2 DEF ListHead
  <2> QED
    BY <2>1, <2>2, <2>3
<1> QED
  BY <1>1, <1>2 DEF HeadByPhase

\* A push keeps types and phases.
LEMMA PushBasics ==
    ASSUME TypeOK, Exclusive, NEW list \in Lists, Push(list)
    PROVE  TypeOK' /\ Exclusive'
<1>1. stack'.ptr = list[1] /\ list[1] \in Nodes /\ stack' = [stack EXCEPT !.ptr = list[1]]
  BY DEF Push, Lists
<1>2. /\ stack' \in [ptr : Nodes \union {Null}, has_cache : BOOLEAN, is_consuming : BOOLEAN]
      /\ stack'.has_cache = stack.has_cache /\ stack'.is_consuming = stack.is_consuming
  BY <1>1 DEF TypeOK
<1>3. next' \in [Nodes -> Nodes \union {Null}]
  BY DEF Push, Lists, TypeOK
<1>4. TypeOK'
  BY <1>2, <1>3 DEF TypeOK, Push
<1>5. Exclusive'
  BY <1>1, <1>2, NodeQueueAssumption DEF Exclusive, Push
<1> QED
  BY <1>4, <1>5

\* The pushed nodes become the first ones of the stack.
LEMMA PushLists ==
    ASSUME IInv, NEW list \in Lists, Push(list)
    PROVE  TwoLists'
<1>1. PICK S, L \in SUBSET Nodes :
          /\ List(next, stack.ptr, S) /\ List(next, ListHead, L)
          /\ S \intersect L = {} /\ S \union L = Nodes \ owned
  BY DEF IInv, TwoLists
<1>2. ListHead' = ListHead
  BY DEF Push, ListHead, Consuming, Holder
<1>3. stack'.ptr = list[1]
  BY DEF Push, IInv, TypeOK
<1> DEFINE P == {list[i] : i \in DOMAIN list}
<1>4. /\ P \subseteq owned /\ P \intersect (S \union L) = {}
      /\ \A n \in Nodes \ P : next'[n] = next[n]
      /\ owned' = owned \ P
  <2>1. CASE \E n \in Nodes : list = <<n>>
    BY <1>1, <2>1 DEF Push
  <2>2. CASE list \in Nodes \X Nodes
    BY SMTT(30), <1>1, <2>2 DEF Push
  <2> QED
    BY <2>1, <2>2 DEF Lists
<1>5. List(next', list[1], S \union P)
  <2>1. ASSUME NEW n \in Nodes, list = <<n>> PROVE List(next', list[1], S \union P)
    <3>1. P = {n} /\ next'[n] = stack.ptr /\ list[1] = n
      BY <2>1 DEF Push
    <3>2. n \in Nodes \ S /\ \A x \in S : next'[x] = next[x]
      BY <1>1, <1>4, <3>1
    <3> QED
      BY <1>1, <3>1, <3>2, ListPush
  <2>2. ASSUME NEW a \in Nodes, NEW b \in Nodes, a # b, list = <<a, b>>
        PROVE  List(next', list[1], S \union P)
    <3>1. P = {a, b} /\ next'[b] = stack.ptr /\ next'[a] = b /\ list[1] = a
      BY <2>2 DEF Push
    <3>2. b \in Nodes \ S /\ a \in Nodes \ (S \union {b}) /\ \A x \in S : next'[x] = next[x]
      BY <1>1, <1>4, <2>2, <3>1
    <3>3. List(next', b, S \union {b})
      BY <1>1, <3>1, <3>2, ListPush
    <3>4. List(next', a, (S \union {b}) \union {a})
      BY <3>1, <3>2, <3>3, ListPush
    <3>5. (S \union {b}) \union {a} = S \union P
      BY <3>1
    <3> QED
      BY <3>1, <3>4, <3>5
  <2> QED
    BY <2>1, <2>2 DEF Lists
<1>6. List(next', ListHead, L)
  BY <1>1, <1>4, ListFrame
<1>7. /\ S \union P \in SUBSET Nodes /\ (S \union P) \intersect L = {}
      /\ (S \union P) \union L = Nodes \ owned'
  BY <1>1, <1>4 DEF IInv, TypeOK
<1> QED
  BY <1>1, <1>2, <1>3, <1>5, <1>6, <1>7 DEF TwoLists

\* A step of a consumer keeps types and phases.
LEMMA ConsumerBasics ==
    ASSUME TypeOK, Exclusive, NEW c \in Consumers, TryAcquire(c) \/ ConsumerStep(c)
    PROVE  TypeOK' /\ Exclusive'
<1> USE NodeQueueAssumption DEF TypeOK, Exclusive, ConsumerPCs
<1>1. CASE TryAcquire(c)
  BY <1>1 DEF TryAcquire
<1>2. CASE LoadCache(c)
  BY <1>2 DEF LoadCache
<1>3. CASE PopCached(c)
  BY <1>3 DEF PopCached
<1>4. CASE PopLoad(c)
  BY <1>4 DEF PopLoad
<1>5. CASE PopSwap(c)
  BY <1>5 DEF PopSwap
<1>6. CASE DropConsumer(c)
  BY <1>6 DEF DropConsumer
<1>7. CASE StoreCache(c)
  BY <1>7 DEF StoreCache
<1>8. CASE ReleaseConsumer(c)
  <2> DEFINE b == local[c] # Null
  <2>1. stack' = [stack EXCEPT !.is_consuming = FALSE, !.has_cache = b] /\ b \in BOOLEAN
    BY <1>8 DEF ReleaseConsumer
  <2> HIDE DEF b
  <2>2. /\ stack' \in [ptr : Nodes \union {Null}, has_cache : BOOLEAN, is_consuming : BOOLEAN]
        /\ stack'.has_cache = b /\ stack'.is_consuming = FALSE /\ stack'.ptr = stack.ptr
    BY <2>1
  <2>3. TypeOK'
    BY <1>8, <2>2 DEF ReleaseConsumer
  <2>4. Exclusive'
    BY ZenonT(60), <1>8, <2>2 DEF ReleaseConsumer, b
  <2> QED
    BY <2>3, <2>4
<1> QED
  BY <1>1, <1>2, <1>3, <1>4, <1>5, <1>6, <1>7, <1>8 DEF ConsumerStep

\* A step of a consumer moves nodes from the front of the lists to their owner
\* and the stack to the consumed list, and nothing else.
LEMMA ConsumerLists ==
    ASSUME IInv, NEW c \in Consumers, TryAcquire(c) \/ ConsumerStep(c)
    PROVE  TwoLists'
<1>1. PICK S, L \in SUBSET Nodes :
          /\ List(next, stack.ptr, S) /\ List(next, ListHead, L)
          /\ S \intersect L = {} /\ S \union L = Nodes \ owned
  BY DEF IInv, TwoLists
<1>2. TypeOK /\ Exclusive /\ HeadByPhase /\ HeadByPhase'
  <2>1. Exclusive => HeadByPhase
    BY HeadIs
  <2>2. (Exclusive => HeadByPhase)'
    BY HeadIs, PTL
  <2> QED
    BY <2>1, <2>2, ConsumerBasics DEF IInv
<1>3. next' = next
  BY DEF TryAcquire, ConsumerStep, LoadCache, PopCached, PopLoad, PopSwap, DropConsumer,
         StoreCache, ReleaseConsumer
<1>4. ASSUME stack'.ptr = stack.ptr, ListHead' = ListHead, owned' = owned PROVE TwoLists'
  BY <1>1, <1>3, <1>4 DEF TwoLists
<1>5. CASE TryAcquire(c)
  <2>1. /\ \A d \in Consumers : pc[d] = "out"
        /\ pc'[c] = "load_cache" /\ local'[c] = stack.ptr /\ cache' = cache /\ owned' = owned
        /\ stack'.ptr = IF stack.has_cache THEN stack.ptr ELSE Null
    BY <1>2, <1>5 DEF TryAcquire, TypeOK, Exclusive
  <2>2. ListHead = cache /\ (stack.has_cache <=> cache # Null)
    BY <1>2, <2>1 DEF Exclusive, HeadByPhase
  <2>3. ListHead' = IF cache # Null THEN cache ELSE stack.ptr
    BY <1>2, <2>1 DEF HeadByPhase
  <2>4. CASE stack.has_cache
    BY <1>4, <2>1, <2>2, <2>3, <2>4
  <2>5. CASE ~stack.has_cache
    <3>1. L = {}
      BY <1>1, <2>2, <2>5, ListNull
    <3>2. List(next', stack'.ptr, {}) /\ List(next', ListHead', S)
      BY <1>1, <1>3, <2>1, <2>2, <2>3, <2>5, ListNull
    <3> QED
      BY <1>1, <2>1, <3>1, <3>2 DEF TwoLists
  <2> QED
    BY <2>4, <2>5
<1>6. CASE PopCached(c)
  <2>1. /\ pc[c] = "consume" /\ pc'[c] = "consume" /\ local[c] # Null
        /\ local'[c] = next[local[c]] /\ owned' = owned \union {local[c]} /\ stack' = stack
    BY <1>2, <1>6 DEF PopCached, TypeOK
  <2>2. ListHead = local[c] /\ ListHead' = local'[c]
    BY <1>2, <2>1 DEF HeadByPhase
  <2>3. local[c] \in L /\ List(next', ListHead', L \ {local[c]})
    BY <1>1, <1>3, <2>1, <2>2, ListPop
  <2>4. /\ S \intersect (L \ {local[c]}) = {}
        /\ S \union (L \ {local[c]}) = Nodes \ owned'
    BY <1>1, <2>1, <2>3
  <2> QED
    BY <1>1, <1>3, <2>1, <2>3, <2>4 DEF TwoLists
<1>7. CASE PopSwap(c)
  <2>1. /\ pc[c] = "swap" /\ pc'[c] = "consume" /\ local[c] = Null /\ stack.ptr # Null
        /\ local'[c] = next[stack.ptr] /\ owned' = owned \union {stack.ptr} /\ stack'.ptr = Null
    BY <1>2, <1>7 DEF PopSwap, TypeOK, Exclusive
  <2>2. ListHead = Null /\ ListHead' = local'[c]
    BY <1>2, <2>1 DEF HeadByPhase
  <2>3. L = {} /\ List(next', stack'.ptr, {})
    BY <1>1, <2>1, <2>2, ListNull
  <2>4. stack.ptr \in S /\ List(next', ListHead', S \ {stack.ptr})
    BY <1>1, <1>3, <2>1, <2>2, ListPop
  <2>5. {} \union (S \ {stack.ptr}) = Nodes \ owned'
    BY <1>1, <2>1, <2>3, <2>4
  <2> QED
    BY <1>1, <2>3, <2>4, <2>5 DEF TwoLists
<1>8. CASE LoadCache(c)
  <2>1. /\ pc[c] = "load_cache" /\ pc'[c] = "consume" /\ stack' = stack /\ owned' = owned
        /\ local'[c] = IF cache # Null THEN cache ELSE local[c]
    BY <1>2, <1>8 DEF LoadCache, TypeOK
  <2> QED
    BY <1>2, <1>4, <2>1 DEF HeadByPhase
<1>9. CASE PopLoad(c) \/ DropConsumer(c) \/ StoreCache(c)
  <2>1. /\ pc[c] \notin {"out", "load_cache"} /\ pc'[c] \notin {"out", "load_cache"}
        /\ stack' = stack /\ owned' = owned /\ local' = local
    BY <1>2, <1>9 DEF PopLoad, DropConsumer, StoreCache, TypeOK
  <2> QED
    BY <1>2, <1>4, <2>1 DEF HeadByPhase
<1>10. CASE ReleaseConsumer(c)
  <2>1. /\ pc[c] = "release" /\ \A d \in Consumers : pc'[d] = "out"
        /\ stack'.ptr = stack.ptr /\ owned' = owned /\ cache' = cache /\ cache = local[c]
    BY <1>2, <1>10 DEF ReleaseConsumer, TypeOK, Exclusive
  <2>2. ListHead = local[c] /\ ListHead' = cache'
    BY <1>2, <2>1 DEF HeadByPhase
  <2> QED
    BY <1>4, <2>1, <2>2
<1> QED
  BY <1>5, <1>6, <1>7, <1>8, <1>9, <1>10 DEF ConsumerStep

\* The invariant holds of an empty queue.
LEMMA IInvInit == Init => IInv
<1> SUFFICES ASSUME Init PROVE IInv
  OBVIOUS
<1>1. TypeOK /\ Exclusive
  BY DEF Init, TypeOK, Exclusive, ConsumerPCs
<1>2. stack.ptr = Null /\ ListHead = Null /\ owned = Nodes
  BY DEF Init, ListHead, Consuming
<1>3. List(next, stack.ptr, {}) /\ List(next, ListHead, {})
  BY <1>2, ListNull
<1> QED
  BY <1>1, <1>2, <1>3 DEF IInv, TwoLists

\* Every step keeps it.
LEMMA IInvStep == IInv /\ [Next]_vars => IInv'
<1> SUFFICES ASSUME IInv, [Next]_vars PROVE IInv'
  OBVIOUS
<1>1. ASSUME NEW list \in Lists, Push(list) PROVE IInv'
  BY <1>1, PushBasics, PushLists DEF IInv
<1>2. ASSUME NEW c \in Consumers, TryAcquire(c) \/ ConsumerStep(c) PROVE IInv'
  BY <1>2, ConsumerBasics, ConsumerLists DEF IInv
<1>3. CASE UNCHANGED vars
  <2>1. ListHead' = ListHead
    BY <1>3 DEF vars, ListHead, Consuming, Holder
  <2>2. TwoLists'
    BY <1>3, <2>1 DEF vars, IInv, TwoLists
  <2> QED
    BY <1>3, <2>2 DEF vars, IInv, TypeOK, Exclusive
<1> QED
  BY <1>1, <1>2, <1>3 DEF Next

-----------------------------------------------------------------------------
(* What a walk along the links finds *)

\* A set of numbers that is not empty has a least one.
LEMMA LeastNumber ==
    ASSUME NEW T \in SUBSET Nat, T # {}
    PROVE  \E m \in T : \A k \in T : m <= k
<1> DEFINE R == {ss \in Nat \X Nat : ss[1] < ss[2]}
<1>1. IsWellFoundedOn(R, Nat)
  BY NatLessThanWellFounded DEF OpToRel
<1> HIDE DEF R
<1>2. PICK m \in T : \A y \in T : ~(<<y, m>> \in R)
  BY <1>1, WFMin
<1>3. \A y \in T : ~(y < m)
  BY <1>2 DEF R
<1> QED
  BY <1>3

\* A list has no more nodes than there are.
LEMMA ListLength ==
    ASSUME NEW k \in Nat, NEW s \in [1..k -> Nodes], \A i, j \in 1..k : s[i] = s[j] => i = j
    PROVE  k <= Cardinality(Nodes) /\ Cardinality(Nodes) \in Nat
<1>1. s \in Injection(1..k, Nodes)
  BY DEF Injection, IsInjective
<1>2. Cardinality(1..k) <= Cardinality(Nodes)
  BY <1>1, NodeQueueAssumption, FS_Injection
<1>3. Cardinality(1..k) = k
  BY FS_Interval
<1> QED
  BY <1>2, <1>3, NodeQueueAssumption, FS_CardinalityType

\* Walking from the start of a list visits its nodes and no others.
LEMMA ListWalk ==
    ASSUME NEW h, NEW S, List(next, h, S)
    PROVE  Walk(h) = S
<1>1. PICK k \in Nat : \E s \in [1..k -> Nodes] :
          Chain(next, k, s, h) /\ S = {s[i] : i \in 1..k}
  BY DEF List
<1>2. PICK s \in [1..k -> Nodes] : Chain(next, k, s, h) /\ S = {s[i] : i \in 1..k}
  BY <1>1
<1> DEFINE N == Cardinality(Nodes)
           Rule(g) == [i \in 0..N |-> IF i = 0 THEN h
                                      ELSE IF g[i - 1] = Null THEN Null ELSE next[g[i - 1]]]
           at == CHOOSE g : g = Rule(g)
           f == [i \in 0..N |-> IF i < k THEN s[i + 1] ELSE Null]
<1>3. k <= N /\ N \in Nat
  BY <1>2, ListLength DEF Chain
<1>4. Walk(h) = {at[i] : i \in DOMAIN at} \ {Null}
  BY DEF Walk
<1> HIDE DEF N
<1>5. f = Rule(f)
  <2>1. ASSUME NEW i \in 0..N PROVE f[i] = Rule(f)[i]
    <3>1. CASE i = 0
      BY <1>2, <1>3, <3>1 DEF Chain
    <3>2. CASE i # 0 /\ i - 1 < k
      <4>1. i \in 1..k /\ i - 1 \in 0..N /\ f[i - 1] = s[i] /\ s[i] \in Nodes
        BY <1>3, <3>2
      <4>2. Rule(f)[i] = next[s[i]]
        BY <3>2, <4>1, NodeQueueAssumption
      <4>3. next[s[i]] = IF i = k THEN Null ELSE s[i + 1]
        BY <1>2, <4>1 DEF Chain
      <4> QED
        BY <1>3, <4>1, <4>2, <4>3
    <3>3. CASE i # 0 /\ ~(i - 1 < k)
      <4>1. i - 1 \in 0..N /\ f[i - 1] = Null /\ f[i] = Null
        BY <1>3, <3>3
      <4> QED
        BY <3>3, <4>1
    <3> QED
      BY <3>1, <3>2, <3>3
  <2> HIDE DEF f
  <2>2. DOMAIN f = 0..N
    BY DEF f
  <2> QED
    BY <2>1, <2>2 DEF f
<1>6. at = Rule(at)
  <2> HIDE DEF Rule, f
  <2> QED
    BY <1>5
<1> HIDE DEF at
<1>7. \A i \in 0..N : at[i] = f[i]
  <2> SUFFICES ASSUME {i \in 0..N : at[i] # f[i]} # {} PROVE FALSE
    OBVIOUS
  <2>1. PICK m \in {i \in 0..N : at[i] # f[i]} :
            \A j \in {i \in 0..N : at[i] # f[i]} : m <= j
    <3>1. {i \in 0..N : at[i] # f[i]} \in SUBSET Nat
      BY <1>3
    <3> HIDE DEF f
    <3> QED
      BY <3>1, LeastNumber
  <2>2. at[m] = Rule(at)[m] /\ f[m] = Rule(f)[m]
    BY <1>5, <1>6
  <2>3. CASE m = 0
    BY <1>3, <2>1, <2>2, <2>3
  <2>4. CASE m # 0
    <3>1. m - 1 \in 0..N /\ ~(m <= m - 1)
      BY <1>3, <2>1, <2>4
    <3>2. at[m - 1] = f[m - 1]
      BY <2>1, <3>1
    <3>3. Rule(at)[m] = Rule(f)[m]
      <4> HIDE DEF f
      <4> QED
        BY <2>1, <2>4, <3>1, <3>2
    <3> QED
      BY <2>1, <2>2, <3>3
  <2> QED
    BY <2>3, <2>4
<1>8. DOMAIN at = 0..N
  BY <1>6
<1>9. {at[i] : i \in DOMAIN at} \ {Null} = S
  <2>1. ASSUME NEW i \in 0..N, at[i] # Null PROVE at[i] \in S
    BY <1>2, <1>3, <1>7, <2>1
  <2>2. ASSUME NEW n \in S PROVE n # Null /\ \E i \in 0..N : at[i] = n
    <3>1. PICK j \in 1..k : n = s[j]
      BY <1>2
    <3>2. j - 1 \in 0..N /\ j - 1 < k /\ f[j - 1] = s[j]
      BY <1>3, <3>1
    <3> QED
      BY <1>7, <3>1, <3>2, NodeQueueAssumption
  <2> QED
    BY <1>8, <2>1, <2>2
<1> QED
  BY <1>4, <1>9

\* One consumer at a time, with the counts of the run's property.
LEMMA ExclusiveCounts == Exclusive => CacheIsExclusive
<1> SUFFICES ASSUME Exclusive PROVE CacheIsExclusive
  OBVIOUS
<1>1. CASE Consuming = {}
  BY <1>1, FS_EmptySet DEF Exclusive, CacheIsExclusive, Consuming
<1>2. CASE Consuming # {}
  <2>1. PICK c \in Consumers : pc[c] # "out"
    BY <1>2 DEF Consuming
  <2>2. Consuming = {c}
    BY <2>1, HeadIs DEF HeadByPhase
  <2>3. Cardinality(Consuming) = 1
    BY <2>2, FS_Singleton
  <2> QED
    BY <1>2, <2>1, <2>3 DEF Exclusive, CacheIsExclusive
<1> QED
  BY <1>1, <1>2

\* For any finite set of nodes and any consumers: whatever pushes, pops and swaps
\* interleave, a node that nobody owns is on exactly one of the two lists, and
\* IS_CONSUMING keeps the cache cell to one thread.
THEOREM NodesAreNeverLost == Spec => []NoNodeLost
<1>1. IInv => NoNodeLost
  <2> SUFFICES ASSUME IInv PROVE NoNodeLost
    OBVIOUS
  <2>1. PICK S, L \in SUBSET Nodes :
            /\ List(next, stack.ptr, S) /\ List(next, ListHead, L)
            /\ S \intersect L = {} /\ S \union L = Nodes \ owned
    BY DEF IInv, TwoLists
  <2>2. Walk(stack.ptr) = S /\ Walk(ListHead) = L
    BY <2>1, ListWalk
  <2> QED
    BY <2>1, <2>2, ExclusiveCounts DEF IInv, NoNodeLost
<1> QED
  BY <1>1, IInvInit, IInvStep, PTL DEF Spec

-----------------------------------------------------------------------------
(* The refinement *)

\* A step that leaves the bag and its holder alone.
LEMMA BagStutter ==
    ASSUME owned' = owned, Consuming' = Consuming, Holder' = Holder
    PROVE  [Bag!Next]_(Bag!vars)
  BY DEF Bag!vars

\* Every step of the queue is one of the bag: a push adds what it pushed, a pop
\* takes one node, acquiring and releasing the consumer are the bag's.
LEMMA BagStep == IInv /\ IInv' /\ [Next]_vars => [Bag!Next]_(Bag!vars)
<1> SUFFICES ASSUME IInv, IInv', [Next]_vars PROVE [Bag!Next]_(Bag!vars)
  OBVIOUS
<1>1. TypeOK /\ Exclusive /\ HeadByPhase /\ HeadByPhase'
  <2>1. Exclusive => HeadByPhase
    BY HeadIs
  <2>2. (Exclusive => HeadByPhase)'
    BY HeadIs, PTL
  <2> QED
    BY <2>1, <2>2 DEF IInv
<1>2. ASSUME NEW list \in Lists, Push(list) PROVE [Bag!Next]_(Bag!vars)
  <2> DEFINE P == {list[i] : i \in DOMAIN list}
  <2>1. P # {} /\ P \subseteq owned /\ owned' = owned \ P
    <3>1. CASE \E n \in Nodes : list = <<n>>
      BY <1>2, <3>1 DEF Push
    <3>2. CASE list \in Nodes \X Nodes
      BY <1>2, <3>2 DEF Push
    <3> QED
      BY <3>1, <3>2 DEF Lists
  <2>2. Consuming' = Consuming /\ Holder' = Holder
    BY <1>2 DEF Push, Consuming, Holder
  <2> HIDE DEF P
  <2>3. P \in SUBSET Nodes /\ Bag!Push(P)
    BY <1>1, <2>1, <2>2 DEF Bag!Push, TypeOK
  <2> QED
    BY <2>3 DEF Bag!Next
<1>3. ASSUME NEW c \in Consumers, TryAcquire(c) PROVE [Bag!Next]_(Bag!vars)
  <2>1. (\A d \in Consumers : pc[d] = "out") /\ pc'[c] # "out" /\ owned' = owned
    BY <1>1, <1>3 DEF TryAcquire, TypeOK, Exclusive
  <2>2. Consuming = {} /\ Consuming' = {c} /\ Holder' = c
    BY <1>1, <2>1 DEF HeadByPhase
  <2>3. Nodes \ owned # {}
    <3>1. PICK S, L \in SUBSET Nodes :
              /\ List(next, stack.ptr, S) /\ List(next, ListHead, L)
              /\ S \intersect L = {} /\ S \union L = Nodes \ owned
      BY DEF IInv, TwoLists
    <3>2. stack.ptr # Null \/ ListHead # Null
      BY <1>1, <1>3, <2>1 DEF TryAcquire, Exclusive, HeadByPhase
    <3> QED
      BY <3>1, <3>2, ListPop
  <2>4. Bag!Acquire(c)
    BY <2>1, <2>2, <2>3 DEF Bag!Acquire
  <2> QED
    BY <2>4 DEF Bag!Next
<1>4. ASSUME NEW c \in Consumers, PopCached(c) \/ PopSwap(c) PROVE [Bag!Next]_(Bag!vars)
  <2>1. pc[c] # "out" /\ pc'[c] # "out"
    BY <1>1, <1>4 DEF PopCached, PopSwap, TypeOK
  <2>2. Consuming = {c} /\ Consuming' = {c} /\ Holder = c /\ Holder' = c
    BY <1>1, <2>1 DEF HeadByPhase
  <2>3. PICK n \in Nodes \ owned : owned' = owned \union {n}
    <3>1. PICK S, L \in SUBSET Nodes :
              /\ List(next, stack.ptr, S) /\ List(next, ListHead, L)
              /\ S \intersect L = {} /\ S \union L = Nodes \ owned
      BY DEF IInv, TwoLists
    <3>2. CASE PopCached(c)
      <4>1. ListHead = local[c] /\ local[c] # Null /\ owned' = owned \union {local[c]}
        BY <1>1, <3>2 DEF PopCached, HeadByPhase
      <4> QED
        BY <3>1, <4>1, ListPop
    <3>3. CASE PopSwap(c)
      <4>1. stack.ptr # Null /\ owned' = owned \union {stack.ptr}
        BY <1>1, <3>3 DEF PopSwap, Exclusive
      <4> QED
        BY <3>1, <4>1, ListPop
    <3> QED
      BY <1>4, <3>2, <3>3
  <2>4. Bag!Take(c, n)
    BY <2>2, <2>3 DEF Bag!Take
  <2> QED
    BY <2>4 DEF Bag!Next
<1>5. ASSUME NEW c \in Consumers, LoadCache(c) \/ PopLoad(c) \/ DropConsumer(c) \/ StoreCache(c)
      PROVE  [Bag!Next]_(Bag!vars)
  <2>1. pc[c] # "out" /\ pc'[c] # "out" /\ owned' = owned
    BY <1>1, <1>5 DEF LoadCache, PopLoad, DropConsumer, StoreCache, TypeOK
  <2> QED
    BY <1>1, <2>1, BagStutter DEF HeadByPhase
<1>6. ASSUME NEW c \in Consumers, ReleaseConsumer(c) PROVE [Bag!Next]_(Bag!vars)
  <2>1. pc[c] # "out" /\ (\A d \in Consumers : pc'[d] = "out") /\ owned' = owned
    BY <1>1, <1>6 DEF ReleaseConsumer, TypeOK, Exclusive
  <2>2. Consuming = {c} /\ Holder = c /\ Consuming' = {}
    BY <1>1, <2>1 DEF HeadByPhase
  <2>3. Bag!Release(c)
    BY <2>1, <2>2 DEF Bag!Release
  <2> QED
    BY <2>3 DEF Bag!Next
<1>7. CASE UNCHANGED vars
  BY <1>7, BagStutter DEF vars, Consuming, Holder
<1> QED
  BY <1>2, <1>3, <1>4, <1>5, <1>6, <1>7 DEF Next, ConsumerStep

\* For any finite set of nodes and any consumers: the lock-free queue with its
\* flags and its cache cell is a bag of tasks with one consumer at a time.
THEOREM QueueIsBag == Spec => ImplementsTaskBag
<1>1. Init => Bag!Init
  BY DEF Init, Bag!Init, Consuming
<1> QED
  BY <1>1, IInvInit, IInvStep, BagStep, PTL DEF Spec, ImplementsTaskBag, Bag!Spec
=============================================================================
