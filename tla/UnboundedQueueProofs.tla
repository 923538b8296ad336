------------------------ MODULE UnboundedQueueProofs ------------------------
(***************************************************************************)
(* Proofs about UnboundedQueue for any nodes, any producers and any number *)
(* of pushes.  The invariant describes the broken list by positions in the *)
(* history `order': which links are in, which producer owes each missing   *)
(* one, and where the part that a new push will be linked to begins.       *)
(***************************************************************************)
EXTENDS UnboundedQueue, SequenceTheorems, TLAPS

\* How many nodes were pushed and how many were returned.
m == Len(order)
k == Len(popped)

\* The consumer has taken the front and not yet decided what comes after it.
Ahead == {"clear_back", "spin", "set_front", "swap_back"}

Linking(p) == ppc[p] = "link"

\* What was returned is what was pushed first.
Prefix == k <= m /\ \A i \in 1..k : popped[i] = order[i]

\* A node is in the queue once, and not with an owner too.
Distinct ==
    /\ \A i, j \in (k + 1)..m : order[i] = order[j] => i = j
    /\ \A i \in (k + 1)..m : order[i] \notin owned

\* What the consumer has at each place in its code.
Phase ==
    /\ cpc \notin {"idle", "walk"} => k < m /\ item = order[k + 1]
    /\ cpc \in {"load_next", "cas_front"} => front = item
    /\ cpc = "cas_front" =>
          last = Null \/ (k + 2 <= m /\ last = order[k + 2] /\ next[item] = last)
    /\ cpc \in Ahead => front = Null
    /\ cpc = "spin" => k + 2 <= m
    /\ cpc = "set_front" => k + 2 <= m /\ last = order[k + 2] /\ next[item] = last
    /\ cpc = "walk" =>
          /\ Len(batch) >= 1 /\ k + Len(batch) <= m
          /\ item = order[k + Len(batch)]
          /\ \A i \in 1..Len(batch) : batch[i] = order[k + i]
          /\ \A i \in 1..(Len(batch) - 1) : next[order[k + i]] # Null

\* No two producers owe the same link.
Gaps == \A p, q \in Producers : Linking(p) /\ Linking(q) /\ old_back[p] = old_back[q] => p = q

\* The positions after b make up the queue that pushes see: `back' is its last
\* node and `front' its first, unless a producer or the consumer is to set it.
\* Between two nodes there is a link or a producer that is about to put it in;
\* a batch that is being walked ends at b, with no link beyond.
Segment(b) ==
    /\ b \in k..m
    /\ cpc = "walk" => b >= k + Len(batch) /\ last = order[b]
    /\ cpc # "walk" => b = k
    /\ back = IF b = m THEN Null ELSE order[m]
    /\ front # Null => b < m /\ front = order[b + 1]
    /\ cpc \notin Ahead =>
          b = m \/ front # Null \/ \E p \in Producers : Linking(p) /\ old_back[p] = Null
    /\ \A p \in Producers : Linking(p) /\ old_back[p] = Null =>
          cpc \notin Ahead /\ front = Null /\ b < m /\ first[p] = order[b + 1]
    /\ \A p \in Producers : Linking(p) /\ old_back[p] # Null =>
          \E i \in (k + 1)..(m - 1) :
              i # b /\ old_back[p] = order[i] /\ first[p] = order[i + 1] /\ next[order[i]] = Null
    /\ \A i \in (k + 1)..(m - 1) : i # b =>
          \/ next[order[i]] = order[i + 1]
          \/ next[order[i]] = Null /\ \E p \in Producers : Linking(p) /\ old_back[p] = order[i]
    /\ k < m => next[order[m]] = Null

IInv == TypeOK /\ Prefix /\ Distinct /\ Phase /\ Gaps /\ \E b \in Nat : Segment(b)

-----------------------------------------------------------------------------
(* Sequences *)

\* The histories and the batch are sequences of nodes.
LEMMA Lengths ==
    ASSUME TypeOK
    PROVE  /\ m \in Nat /\ k \in Nat /\ Len(batch) \in Nat
           /\ \A i \in 1..m : order[i] \in Nodes
           /\ \A i \in 1..Len(batch) : batch[i] \in Nodes
  BY LenProperties DEF TypeOK, m, k

\* Appending s to the history t.
LEMMA Appended ==
    ASSUME NEW t \in Seq(Nodes), NEW s \in Seq(Nodes)
    PROVE  /\ t \o s \in Seq(Nodes) /\ Len(t \o s) = Len(t) + Len(s)
           /\ \A i \in 1..Len(t) : (t \o s)[i] = t[i]
           /\ \A i \in 1..Len(s) : (t \o s)[Len(t) + i] = s[i]
<1>1. Len(t) \in Nat /\ Len(s) \in Nat
  BY LenProperties
<1> QED
  BY <1>1, ConcatProperties

-----------------------------------------------------------------------------
(* Producers *)

\* What the swap of `back' appends: nodes of the caller's own, linked up.
LEMMA Swapped ==
    ASSUME IInv, NEW p \in Producers, NEW list \in Lists, PushSwap(p, list)
    PROVE  /\ TypeOK'
           /\ k' = k /\ m' > m /\ m' \in Nat
           /\ \A i \in 1..m : order'[i] = order[i]
           /\ \A i \in (m + 1)..m' : order'[i] \in owned /\ order'[i] \notin owned'
           /\ \A i, j \in (m + 1)..m' : order'[i] = order'[j] => i = j
           /\ owned' \subseteq owned
           /\ \A x \in Nodes \ owned : next'[x] = next[x]
           /\ \A i \in (m + 1)..(m' - 1) : next'[order'[i]] = order'[i + 1]
           /\ next'[order'[m']] = Null
           /\ first'[p] = order'[m + 1] /\ old_back'[p] = back /\ back' = order'[m']
<1>1. TypeOK /\ m \in Nat /\ k \in Nat /\ order \in Seq(Nodes)
  BY Lengths DEF IInv, TypeOK
<1>2. /\ list \in Seq(Nodes) /\ Len(list) \in {1, 2} /\ DOMAIN list = 1..Len(list)
      /\ \A i \in 1..Len(list) : list[i] \in Nodes
      /\ Len(list) = 2 => list[1] # list[2]
      /\ ToSet(list) = {list[1], list[Len(list)]}
  <2>1. CASE \E n \in Nodes : list = <<n>>
    BY <2>1 DEF ToSet
  <2>2. CASE list \in Nodes \X Nodes /\ list[1] # list[2]
    <3>1. PICK x \in Nodes, y \in Nodes : list = <<x, y>> /\ x # y
      BY <2>2
    <3> QED
      BY <3>1 DEF ToSet
  <2> QED
    BY <2>1, <2>2 DEF Lists
<1>3. /\ m' = m + Len(list) /\ order' \in Seq(Nodes)
      /\ \A i \in 1..m : order'[i] = order[i]
      /\ \A i \in 1..Len(list) : order'[m + i] = list[i]
  BY <1>1, <1>2, Appended DEF PushSwap, m
<1>4. /\ list[1] \in owned /\ list[Len(list)] \in owned
      /\ owned' = owned \ {list[1], list[Len(list)]}
      /\ \A x \in Nodes : next'[x] = IF x = list[Len(list)] THEN Null
                                     ELSE IF x = list[1] THEN list[2] ELSE next[x]
      /\ next' \in [Nodes -> NodeOrNull]
      /\ k' = k
  BY <1>1, <1>2 DEF PushSwap, TypeOK, NodeOrNull, k
<1>5. /\ first'[p] = list[1] /\ old_back'[p] = back /\ back' = list[Len(list)]
  BY <1>1 DEF PushSwap, TypeOK
<1>6. TypeOK'
  BY <1>1, <1>2, <1>3, <1>4 DEF PushSwap, TypeOK, NodeOrNull, consumerVars
<1>7. CASE Len(list) = 1
  <2>1. m' = m + 1 /\ order'[m + 1] = list[1]
    BY <1>1, <1>3, <1>7
  <2> QED
    BY <1>1, <1>2, <1>3, <1>4, <1>5, <1>6, <1>7, <2>1
<1>8. CASE Len(list) = 2
  <2>1. m' = m + 2 /\ order'[m + 1] = list[1] /\ order'[m + 2] = list[2]
    BY <1>1, <1>3, <1>8
  <2>2. \A i \in (m + 1)..m' : i = m + 1 \/ i = m + 2
    BY <1>1, <2>1
  <2>3. \A i \in (m + 1)..(m' - 1) : i = m + 1
    BY <1>1, <2>1
  <2>4. next'[list[1]] = list[2] /\ next'[list[2]] = Null
    BY <1>2, <1>4, <1>8
  <2>5. \A i \in (m + 1)..m' : order'[i] \in owned /\ order'[i] \notin owned'
    BY <1>4, <1>8, <2>1, <2>2
  <2>6. \A i, j \in (m + 1)..m' : order'[i] = order'[j] => i = j
    BY <1>2, <1>8, <2>1, <2>2
  <2>7. \A i \in (m + 1)..(m' - 1) : next'[order'[i]] = order'[i + 1]
    <3>1. (m + 1) + 1 = m + 2
      BY <1>1
    <3> QED
      BY <2>1, <2>3, <2>4, <3>1
  <2>8. \A x \in Nodes \ owned : next'[x] = next[x]
    BY <1>4
  <2>9. m' > m /\ m' \in Nat
    BY <1>1, <2>1
  <2>10. next'[order'[m']] = Null /\ back' = order'[m'] /\ first'[p] = order'[m + 1]
    BY <1>5, <1>8, <2>1, <2>4
  <2> QED
    BY <1>3, <1>4, <1>5, <1>6, <2>5, <2>6, <2>7, <2>8, <2>9, <2>10
<1> QED
  BY <1>2, <1>7, <1>8

\* The swap of push keeps the invariant.
LEMMA SwapStep ==
    ASSUME IInv, NEW p \in Producers, NEW list \in Lists, PushSwap(p, list)
    PROVE  IInv'
<1>1. TypeOK /\ Prefix /\ Distinct /\ Phase /\ Gaps
  BY DEF IInv
<1>2. PICK b \in Nat : Segment(b)
  BY DEF IInv
<1>3. /\ m \in Nat /\ k \in Nat /\ k <= m /\ b \in k..m
      /\ \A i \in 1..m : order[i] \in Nodes
      /\ \A i \in (k + 1)..m : order[i] \in Nodes \ owned
  BY <1>1, <1>2, Lengths DEF Prefix, Distinct, Segment
<1>4. /\ TypeOK'
      /\ k' = k /\ m' > m /\ m' \in Nat
      /\ \A i \in 1..m : order'[i] = order[i]
      /\ \A i \in (m + 1)..m' : order'[i] \in owned /\ order'[i] \notin owned'
      /\ \A i, j \in (m + 1)..m' : order'[i] = order'[j] => i = j
      /\ owned' \subseteq owned
      /\ \A x \in Nodes \ owned : next'[x] = next[x]
      /\ \A i \in (m + 1)..(m' - 1) : next'[order'[i]] = order'[i + 1]
      /\ next'[order'[m']] = Null
      /\ first'[p] = order'[m + 1] /\ old_back'[p] = back /\ back' = order'[m']
  BY Swapped
<1>5. /\ UNCHANGED <<front, cpc, item, last, batch, popped>>
      /\ ~Linking(p) /\ Linking(p)'
      /\ \A q \in Producers \ {p} : /\ Linking(q)' <=> Linking(q)
                                    /\ first'[q] = first[q] /\ old_back'[q] = old_back[q]
  BY <1>1 DEF PushSwap, Linking, TypeOK, consumerVars
<1>6. \A i \in (k + 1)..m : order'[i] = order[i] /\ next'[order[i]] = next[order[i]]
  BY <1>3, <1>4
<1>7. Prefix'
  BY <1>1, <1>3, <1>4, <1>5 DEF Prefix
<1>8. Distinct'
  <2>1. ASSUME NEW i \in (k + 1)..m', NEW j \in (k + 1)..m', order'[i] = order'[j] PROVE i = j
    <3>1. i \in (k + 1)..m \/ i \in (m + 1)..m'
      BY <1>3, <1>4
    <3>2. j \in (k + 1)..m \/ j \in (m + 1)..m'
      BY <1>3, <1>4
    <3> QED
      BY <1>1, <1>3, <1>4, <1>6, <2>1, <3>1, <3>2 DEF Distinct
  <2>2. ASSUME NEW i \in (k + 1)..m' PROVE order'[i] \notin owned'
    <3>1. i \in (k + 1)..m \/ i \in (m + 1)..m'
      BY <1>3, <1>4
    <3> QED
      BY <1>3, <1>4, <1>6, <3>1
  <2> QED
    BY <1>4, <2>1, <2>2 DEF Distinct
<1>9. Phase'
  <2>1. cpc \notin {"idle", "walk"} => k < m /\ item = order[k + 1] /\ order'[k + 1] = order[k + 1]
                                       /\ next'[item] = next[item]
    BY <1>1, <1>3, <1>6 DEF Phase
  <2>2. k + 2 <= m => order'[k + 2] = order[k + 2]
    BY <1>3, <1>6
  <2>3. cpc = "walk" =>
            /\ Len(batch) >= 1 /\ k + Len(batch) <= m
            /\ \A i \in 1..Len(batch) : order'[k + i] = order[k + i]
            /\ \A i \in 1..(Len(batch) - 1) : next'[order'[k + i]] = next[order[k + i]]
    <3>1. Len(batch) \in Nat
      BY <1>1, Lengths
    <3> SUFFICES ASSUME cpc = "walk"
                 PROVE  /\ Len(batch) >= 1 /\ k + Len(batch) <= m
                        /\ \A i \in 1..Len(batch) : order'[k + i] = order[k + i]
                        /\ \A i \in 1..(Len(batch) - 1) : next'[order'[k + i]] = next[order[k + i]]
      OBVIOUS
    <3>2. Len(batch) >= 1 /\ k + Len(batch) <= m
      BY <1>1 DEF Phase
    <3>3. ASSUME NEW i \in 1..Len(batch)
          PROVE  order'[k + i] = order[k + i] /\ next'[order'[k + i]] = next[order[k + i]]
      <4>1. k + i \in (k + 1)..m
        BY <1>3, <3>1, <3>2
      <4> QED
        BY <1>6, <4>1
    <3> QED
      BY <3>1, <3>2, <3>3
  <2>4. Len(batch) \in Nat
    BY <1>1, Lengths
  <2>5. CASE cpc = "walk"
    <3>1. Len(batch) >= 1 /\ k' + Len(batch') <= m'
      BY <1>3, <1>4, <1>5, <2>3, <2>4, <2>5
    <3>2. item' = order'[k' + Len(batch')]
      BY <1>1, <1>4, <1>5, <2>3, <2>4, <2>5 DEF Phase
    <3>3. \A i \in 1..Len(batch') : batch'[i] = order'[k' + i]
      BY <1>1, <1>4, <1>5, <2>3, <2>5 DEF Phase
    <3>4. \A i \in 1..(Len(batch') - 1) : next'[order'[k' + i]] # Null
      BY <1>1, <1>4, <1>5, <2>3, <2>5 DEF Phase
    <3> QED
      BY <1>5, <2>5, <3>1, <3>2, <3>3, <3>4 DEF Phase, Ahead
  <2>6. CASE cpc # "walk"
    BY <1>1, <1>3, <1>4, <1>5, <2>1, <2>2, <2>6 DEF Phase
  <2> QED
    BY <2>5, <2>6
<1>10. Gaps'
  <2>1. ASSUME NEW q \in Producers \ {p}, Linking(q), old_back[q] = back PROVE FALSE
    <3>1. CASE back = Null
      BY <1>2, <1>3, <2>1, <3>1, QueueAssumption DEF Segment
    <3>2. CASE back # Null
      <4>1. b < m /\ back = order[m]
        BY <1>2, <1>3, <3>2 DEF Segment
      <4>2. PICK i \in (k + 1)..(m - 1) : old_back[q] = order[i]
        BY <1>2, <2>1, <3>2 DEF Segment
      <4> QED
        BY <1>1, <1>3, <2>1, <4>1, <4>2 DEF Distinct
    <3> QED
      BY <3>1, <3>2
  <2> QED
    BY <1>1, <1>4, <1>5, <2>1 DEF Gaps
<1>11. Segment(b)'
  <2>1. b \in k'..m' /\ (cpc' # "walk" => b = k')
    BY <1>2, <1>3, <1>4, <1>5 DEF Segment
  <2>2. cpc' = "walk" => b >= k' + Len(batch') /\ last' = order'[b]
    <3>1. Len(batch) \in Nat
      BY <1>1, Lengths
    <3> QED
      BY <1>1, <1>2, <1>3, <1>4, <1>5, <3>1 DEF Segment, Phase
  <2>3. back' = IF b = m' THEN Null ELSE order'[m']
    BY <1>3, <1>4
  <2>4. front' # Null => b < m' /\ front' = order'[b + 1]
    BY <1>2, <1>3, <1>4, <1>5 DEF Segment
  <2>5. cpc' \notin Ahead =>
            b = m' \/ front' # Null \/ \E q \in Producers : Linking(q)' /\ old_back'[q] = Null
    BY <1>2, <1>3, <1>4, <1>5 DEF Segment
  <2>6. ASSUME NEW q \in Producers, Linking(q)', old_back'[q] = Null
        PROVE  cpc' \notin Ahead /\ front' = Null /\ b < m' /\ first'[q] = order'[b + 1]
    <3>1. CASE q = p
      <4>1. b = m
        BY <1>2, <1>3, <1>4, <2>6, <3>1, QueueAssumption DEF Segment
      <4>2. cpc \notin Ahead
        BY <1>1, <1>2, <1>3, <4>1 DEF Segment, Phase, Ahead
      <4> QED
        BY <1>2, <1>3, <1>4, <1>5, <3>1, <4>1, <4>2 DEF Segment
    <3>2. CASE q # p
      BY <1>2, <1>3, <1>4, <1>5, <2>6, <3>2 DEF Segment
    <3> QED
      BY <3>1, <3>2
  <2>7. ASSUME NEW q \in Producers, Linking(q)', old_back'[q] # Null
        PROVE  \E i \in (k' + 1)..(m' - 1) : /\ i # b /\ old_back'[q] = order'[i]
                                             /\ first'[q] = order'[i + 1] /\ next'[order'[i]] = Null
    <3>1. CASE q = p
      <4>1. b < m /\ back = order[m] /\ m \in (k + 1)..m /\ m \in (k' + 1)..(m' - 1)
        BY <1>2, <1>3, <1>4, <2>7, <3>1 DEF Segment
      <4>2. next'[order'[m]] = Null /\ order'[m] = order[m]
        BY <1>2, <1>3, <1>6, <4>1 DEF Segment
      <4>3. m # b /\ old_back'[q] = order'[m] /\ first'[q] = order'[m + 1]
        BY <1>3, <1>4, <3>1, <4>1, <4>2
      <4> QED
        BY <4>1, <4>2, <4>3
    <3>2. CASE q # p
      <4>1. PICK i \in (k + 1)..(m - 1) : /\ i # b /\ old_back[q] = order[i]
                                          /\ first[q] = order[i + 1] /\ next[order[i]] = Null
        BY <1>2, <1>5, <2>7, <3>2 DEF Segment
      <4>2. /\ i \in (k' + 1)..(m' - 1) /\ order'[i] = order[i] /\ order'[i + 1] = order[i + 1]
            /\ next'[order[i]] = next[order[i]]
        BY <1>3, <1>4, <1>6
      <4> QED
        BY <1>5, <3>2, <4>1, <4>2
    <3> QED
      BY <3>1, <3>2
  <2>8. ASSUME NEW i \in (k' + 1)..(m' - 1), i # b
        PROVE  \/ next'[order'[i]] = order'[i + 1]
               \/ /\ next'[order'[i]] = Null
                  /\ \E q \in Producers : Linking(q)' /\ old_back'[q] = order'[i]
    <3>1. CASE i \in (k + 1)..(m - 1)
      <4>1. /\ order'[i] = order[i] /\ order'[i + 1] = order[i + 1]
            /\ next'[order[i]] = next[order[i]]
        BY <1>3, <1>4, <1>6, <3>1
      <4> QED
        BY <1>2, <1>5, <2>8, <3>1, <4>1 DEF Segment
    <3>2. CASE i = m
      <4>1. b < m /\ back = order[m] /\ m \in (k + 1)..m
        BY <1>2, <1>3, <1>4, <2>8, <3>2 DEF Segment
      <4> QED
        BY <1>2, <1>3, <1>4, <1>5, <1>6, <3>2, <4>1 DEF Segment
    <3>3. CASE i \in (m + 1)..(m' - 1)
      BY <1>4, <3>3
    <3> QED
      BY <1>3, <1>4, <3>1, <3>2, <3>3
  <2> QED
    BY ZenonT(60), <1>4, <2>1, <2>2, <2>3, <2>4, <2>5, <2>6, <2>7, <2>8 DEF Segment
<1> QED
  BY <1>4, <1>7, <1>8, <1>9, <1>10, <1>11 DEF IInv

\* The link of push keeps the invariant.
LEMMA LinkStep ==
    ASSUME IInv, NEW p \in Producers, PushLink(p)
    PROVE  IInv'
<1>1. TypeOK /\ Prefix /\ Distinct /\ Phase /\ Gaps
  BY DEF IInv
<1>2. PICK b \in Nat : Segment(b)
  BY DEF IInv
<1>3. /\ m \in Nat /\ k \in Nat /\ k <= m /\ b \in k..m /\ Len(batch) \in Nat
      /\ \A i \in 1..m : order[i] \in Nodes
      /\ \A i \in (k + 1)..m : order[i] \in Nodes
  BY <1>1, <1>2, Lengths DEF Prefix, Distinct, Segment
<1>4. /\ UNCHANGED <<back, cpc, item, last, batch, owned, order, popped>>
      /\ m' = m /\ k' = k
      /\ Linking(p) /\ ~Linking(p)'
      /\ \A q \in Producers \ {p} : /\ Linking(q)' <=> Linking(q)
                                    /\ first'[q] = first[q] /\ old_back'[q] = old_back[q]
  BY <1>1 DEF PushLink, Linking, TypeOK, consumerVars, m, k
<1>5. Prefix' /\ Distinct' /\ Gaps'
  BY <1>1, <1>4 DEF Prefix, Distinct, Gaps
<1>6. CASE old_back[p] = Null
  <2>1. front' = first[p] /\ next' = next /\ first[p] = order[b + 1] /\ b < m /\ front = Null
        /\ cpc \notin Ahead /\ order[b + 1] \in Nodes
    BY <1>2, <1>3, <1>4, <1>6 DEF PushLink, Segment
  <2>2. TypeOK'
    BY <1>1, <2>1 DEF PushLink, TypeOK, NodeOrNull, consumerVars
  <2>3. Phase'
    <3>1. cpc \notin {"load_next", "cas_front"}
      <4>1. k < m => order[k + 1] # Null
        BY <1>3, QueueAssumption
      <4> QED
        BY <1>1, <1>3, <2>1, <4>1 DEF Phase
    <3> QED
      BY <1>1, <1>4, <2>1, <3>1 DEF Phase
  <2>4. ASSUME NEW q \in Producers, Linking(q)' PROVE q # p /\ old_back[q] # Null
    BY <1>1, <1>4, <1>6, <2>4 DEF Gaps
  <2>5. ASSUME NEW i \in (k + 1)..(m - 1), NEW q \in Producers, Linking(q), old_back[q] = order[i]
        PROVE  q # p
    BY <1>3, <1>6, <2>5, QueueAssumption
  <2>6. Segment(b)'
    BY <1>2, <1>3, <1>4, <2>1, <2>4, <2>5, QueueAssumption DEF Segment
  <2> QED
    BY <1>5, <2>2, <2>3, <2>6 DEF IInv
<1>7. CASE old_back[p] # Null
  <2>1. PICK g \in (k + 1)..(m - 1) : /\ g # b /\ old_back[p] = order[g]
                                      /\ first[p] = order[g + 1] /\ next[order[g]] = Null
    BY <1>2, <1>4, <1>7 DEF Segment
  <2>2. /\ front' = front
        /\ \A x \in Nodes : next'[x] = IF x = order[g] THEN order[g + 1] ELSE next[x]
        /\ g \in (k + 1)..m /\ g + 1 \in (k + 1)..m /\ order[g + 1] \in Nodes
        /\ next' \in [Nodes -> NodeOrNull]
    BY <1>1, <1>3, <1>7, <2>1 DEF PushLink, TypeOK, NodeOrNull
  <2>3. TypeOK'
    BY <1>1, <2>2 DEF PushLink, TypeOK, NodeOrNull, consumerVars
  <2>4. \A i \in (k + 1)..m : /\ i # g => next'[order[i]] = next[order[i]]
                              /\ i = g => next'[order[i]] = order[i + 1]
    BY <1>1, <1>3, <2>2 DEF Distinct
  <2>5. \A i \in (k + 1)..m : next[order[i]] # Null => next'[order[i]] = next[order[i]]
    BY <2>1, <2>4
  <2>6. Phase'
    <3>1. CASE cpc = "walk"
      <4>1. \A i \in 1..(Len(batch) - 1) : k + i \in (k + 1)..m
        BY <1>1, <1>3, <3>1 DEF Phase
      <4>2. \A i \in 1..(Len(batch) - 1) : next'[order[k + i]] # Null
        BY <1>1, <2>5, <3>1, <4>1 DEF Phase
      <4> QED
        BY <1>1, <1>4, <2>2, <3>1, <4>2 DEF Phase, Ahead
    <3>2. CASE cpc \in {"cas_front", "set_front"}
      <4>1. k + 1 \in (k + 1)..m /\ item = order[k + 1]
        BY <1>1, <1>3, <3>2 DEF Phase
      <4>2. k + 2 <= m => order[k + 2] # Null
        BY <1>3, QueueAssumption
      <4> QED
        BY <1>1, <1>4, <2>2, <2>5, <3>2, <4>1, <4>2 DEF Phase, Ahead
    <3>3. CASE cpc \notin {"walk", "cas_front", "set_front"}
      BY <1>1, <1>4, <2>2, <3>3 DEF Phase
    <3> QED
      BY <3>1, <3>2, <3>3
  <2>7. Segment(b)'
    <3>1. ASSUME NEW q \in Producers, Linking(q)', old_back'[q] # Null
          PROVE  \E i \in (k + 1)..(m - 1) :
                     /\ i # b /\ old_back'[q] = order[i]
                     /\ first'[q] = order[i + 1] /\ next'[order[i]] = Null
      <4>1. q # p /\ Linking(q) /\ old_back[q] # Null
        BY <1>4, <3>1
      <4>2. PICK i \in (k + 1)..(m - 1) : /\ i # b /\ old_back[q] = order[i]
                                          /\ first[q] = order[i + 1] /\ next[order[i]] = Null
        BY <1>2, <4>1 DEF Segment
      <4>3. i # g
        BY <1>1, <1>4, <2>1, <4>1, <4>2 DEF Gaps
      <4>4. next'[order[i]] = Null
        BY <1>3, <2>4, <4>2, <4>3
      <4> QED
        BY <1>4, <4>1, <4>2, <4>4
    <3>2. ASSUME NEW i \in (k + 1)..(m - 1), i # b
          PROVE  \/ next'[order[i]] = order[i + 1]
                 \/ /\ next'[order[i]] = Null
                    /\ \E q \in Producers : Linking(q)' /\ old_back'[q] = order[i]
      <4>1. CASE i = g
        BY <1>3, <2>4, <4>1
      <4>2. CASE i # g
        <5>1. order[i] # order[g]
          BY <1>1, <1>3, <2>2, <4>2 DEF Distinct
        <5>2. next'[order[i]] = next[order[i]]
          BY <1>3, <2>4, <4>2
        <5>3. \/ next[order[i]] = order[i + 1]
              \/ /\ next[order[i]] = Null
                 /\ \E q \in Producers : Linking(q) /\ old_back[q] = order[i]
          BY <1>2, <3>2 DEF Segment
        <5>4. \A q \in Producers : Linking(q) /\ old_back[q] = order[i] => q # p
          BY <2>1, <5>1
        <5> QED
          BY <1>4, <5>2, <5>3, <5>4
      <4> QED
        BY <4>1, <4>2
    <3>3. k < m => next'[order[m]] = Null
      BY <1>2, <1>3, <2>1, <2>4 DEF Segment
    <3>4. \A q \in Producers : Linking(q)' /\ old_back'[q] = Null =>
              cpc \notin Ahead /\ front = Null /\ b < m /\ first'[q] = order[b + 1]
      BY <1>2, <1>4 DEF Segment
    <3>5. cpc \notin Ahead =>
              b = m \/ front # Null \/ \E q \in Producers : Linking(q)' /\ old_back'[q] = Null
      BY <1>2, <1>4, <1>7 DEF Segment
    <3> QED
      BY <1>2, <1>4, <2>2, <3>1, <3>2, <3>3, <3>4, <3>5 DEF Segment
  <2> QED
    BY <1>5, <2>3, <2>6, <2>7 DEF IInv
<1> QED
  BY <1>6, <1>7

-----------------------------------------------------------------------------
(* The consumer *)

\* A call that returns the first nodes of the queue, all of them linked up.
LEMMA ReturnStep ==
    ASSUME IInv, NEW s \in Seq(Nodes), NEW b \in Nat, Segment(b), Return(s),
           UNCHANGED <<next, producerVars, order>>,
           back' \in NodeOrNull, front' \in NodeOrNull,
           b <= k + Len(s), k + Len(s) <= m,
           \A i \in 1..Len(s) : s[i] = order[k + i],
           \A i \in (k + 1)..(k + Len(s)) : i < m /\ i # b => next[order[i]] # Null,
           back' = IF k + Len(s) = m THEN Null ELSE order[m],
           front' # Null => k + Len(s) < m /\ front' = order[k + Len(s) + 1],
           \/ k + Len(s) = m
           \/ front' # Null
           \/ \E p \in Producers : Linking(p) /\ old_back[p] = Null,
           \A p \in Producers : Linking(p) /\ old_back[p] = Null =>
               /\ front' = Null /\ k + Len(s) < m
               /\ first[p] = order[k + Len(s) + 1]
    PROVE  IInv'
<1>1. TypeOK /\ Prefix /\ Distinct /\ Phase /\ Gaps
  BY DEF IInv
<1>0. m \in Nat /\ k \in Nat /\ Len(s) \in Nat
  BY <1>1, Lengths, LenProperties
<1> PICK n \in Nat : n = k + Len(s)
  BY <1>0
<1>2. /\ m \in Nat /\ k \in Nat /\ Len(s) \in Nat /\ n \in Nat /\ k <= n /\ n <= m
      /\ popped \in Seq(Nodes) /\ \A i \in 1..Len(s) : s[i] \in Nodes
  BY <1>0, <1>1, LenProperties DEF TypeOK
<1>3. /\ k' = n /\ popped' \in Seq(Nodes)
      /\ \A i \in 1..k : popped'[i] = popped[i]
      /\ \A i \in 1..Len(s) : popped'[k + i] = s[i]
  BY <1>2, Appended DEF Return, k
<1>4. m' = m /\ cpc' = "idle" /\ \A q \in Producers : Linking(q)' <=> Linking(q)
  BY DEF m, Return, producerVars, Linking
<1>5. owned' = owned \union {s[i] : i \in 1..Len(s)}
  <2>1. DOMAIN s = 1..Len(s)
    BY LenProperties
  <2> QED
    BY <2>1 DEF Return, ToSet
<1>6. TypeOK'
  <2>1. owned' \subseteq Nodes
    BY <1>1, <1>2, <1>5 DEF TypeOK
  <2> QED
    BY <1>1, <1>3, <2>1 DEF TypeOK, Return, producerVars, ConsumerPCs, NodeOrNull
<1>7. Prefix'
  <2>1. ASSUME NEW i \in 1..n PROVE popped'[i] = order[i]
    <3>1. CASE i \in 1..k
      BY <1>1, <1>3, <3>1 DEF Prefix
    <3>2. CASE i \in (k + 1)..n
      <4>1. i - k \in 1..Len(s) /\ k + (i - k) = i
        BY <1>2, <3>2
      <4>2. popped'[k + (i - k)] = s[i - k] /\ s[i - k] = order[k + (i - k)]
        BY <1>3, <4>1
      <4> QED
        BY <4>1, <4>2
    <3> QED
      BY <1>2, <3>1, <3>2
  <2> QED
    BY <1>2, <1>3, <1>4, <2>1 DEF Prefix
<1>8. Distinct'
  <2>1. ASSUME NEW i \in (n + 1)..m PROVE order[i] \notin owned'
    <3>1. i \in (k + 1)..m
      BY <1>2
    <3>2. ASSUME NEW j \in 1..Len(s), order[i] = s[j] PROVE FALSE
      <4>1. k + j \in (k + 1)..m /\ k + j < i /\ order[k + j] = s[j]
        BY <1>2
      <4> QED
        BY <1>1, <3>1, <3>2, <4>1 DEF Distinct
    <3> QED
      BY <1>1, <1>5, <3>1, <3>2 DEF Distinct
  <2>2. \A i \in (n + 1)..m : i \in (k + 1)..m
    BY <1>2
  <2> QED
    BY <1>1, <1>3, <1>4, <2>1, <2>2 DEF Distinct
<1>9. Phase'
  BY <1>4 DEF Phase, Ahead
<1>10. Gaps'
  BY <1>1, <1>4 DEF Gaps, producerVars
<1>11. Segment(n)'
  <2>1. ASSUME NEW q \in Producers, Linking(q), old_back[q] # Null
        PROVE  \E i \in (n + 1)..(m - 1) : /\ i # n /\ old_back[q] = order[i]
                                           /\ first[q] = order[i + 1] /\ next[order[i]] = Null
    <3>1. PICK i \in (k + 1)..(m - 1) : /\ i # b /\ old_back[q] = order[i]
                                        /\ first[q] = order[i + 1] /\ next[order[i]] = Null
      BY <2>1 DEF Segment
    <3>2. ASSUME i <= n PROVE FALSE
      <4>1. i \in (k + 1)..(k + Len(s)) /\ i < m
        BY <1>2, <3>2
      <4> QED
        BY <3>1, <4>1
    <3>3. i \in (n + 1)..(m - 1) /\ i # n
      BY <1>2, <3>2
    <3> QED
      BY <3>1, <3>3
  <2>2. ASSUME NEW i \in (n + 1)..(m - 1)
        PROVE  \/ next[order[i]] = order[i + 1]
               \/ next[order[i]] = Null /\ \E q \in Producers : Linking(q) /\ old_back[q] = order[i]
    <3>1. i \in (k + 1)..(m - 1) /\ i # b
      BY <1>2
    <3> QED
      BY <3>1 DEF Segment
  <2>3. n < m => next[order[m]] = Null
    BY <1>2 DEF Segment
  <2>4. UNCHANGED <<next, first, old_back, order>> /\ k' = n /\ m' = m /\ cpc' = "idle"
    BY <1>3, <1>4 DEF producerVars
  <2>5. /\ n \in n..m
        /\ back' = IF n = m THEN Null ELSE order[m]
        /\ front' # Null => n < m /\ front' = order[n + 1]
        /\ n = m \/ front' # Null \/ \E p \in Producers : Linking(p) /\ old_back[p] = Null
        /\ \A p \in Producers : Linking(p) /\ old_back[p] = Null =>
               front' = Null /\ n < m /\ first[p] = order[n + 1]
    BY <1>2
  <2> QED
    BY <1>4, <2>1, <2>2, <2>3, <2>4, <2>5 DEF Segment, Ahead
<1> QED
  BY <1>2, <1>6, <1>7, <1>8, <1>9, <1>10, <1>11 DEF IInv

\* A step of the consumer that returns nothing and touches no link.
LEMMA ConsumerMoves ==
    ASSUME IInv, UNCHANGED <<next, producerVars, owned, order, popped>>, TypeOK', Phase',
           NEW b \in Nat, Segment(b)'
    PROVE  IInv'
<1>1. m' = m /\ k' = k /\ \A q \in Producers : Linking(q)' <=> Linking(q)
  BY DEF m, k, Linking, producerVars
<1>2. Prefix' /\ Distinct' /\ Gaps'
  BY <1>1 DEF IInv, Prefix, Distinct, Gaps, producerVars
<1> QED
  BY <1>2 DEF IInv

\* Every step of the consumer keeps the invariant.
LEMMA ConsumerKeeps ==
    ASSUME IInv, PopFront \/ BatchSwapFront \/ ConsumerStep
    PROVE  IInv'
<1>1. TypeOK /\ Prefix /\ Distinct /\ Phase
  BY DEF IInv
<1>2. PICK b \in Nat : Segment(b)
  BY DEF IInv
<1>3. /\ m \in Nat /\ k \in Nat /\ k <= m /\ b \in k..m /\ Len(batch) \in Nat
      /\ \A i \in 1..m : order[i] \in Nodes
  BY <1>1, <1>2, Lengths DEF Prefix, Segment
<1>4. \A i \in 1..m : order[i] # Null
  BY <1>3, QueueAssumption
<1>5. ASSUME UNCHANGED <<next, producerVars, owned, order, popped>>
      PROVE  /\ m' = m /\ k' = k
             /\ UNCHANGED <<next, owned, order, popped, ppc, first, old_back>>
             /\ \A q \in Producers : Linking(q)' <=> Linking(q)
  BY <1>5 DEF m, k, Linking, producerVars
<1>6. CASE PopFront
  <2>1. /\ UNCHANGED <<next, producerVars, owned, order, popped>>
        /\ UNCHANGED <<front, back, last, batch>>
        /\ cpc = "idle" /\ cpc' = "load_next" /\ front # Null /\ item' = front
    BY <1>6 DEF PopFront, queueVars
  <2>2. TypeOK'
    BY <1>1, <2>1 DEF TypeOK, producerVars, ConsumerPCs
  <2>3. b = k /\ k < m /\ front = order[k + 1]
    BY <1>2, <2>1 DEF Segment
  <2>4. Phase'
    BY <1>5, <2>1, <2>3 DEF Phase, Ahead
  <2>5. Segment(b)'
    BY <1>2, <1>5, <2>1, <2>3 DEF Segment, Ahead
  <2> QED
    BY <2>1, <2>2, <2>4, <2>5, ConsumerMoves
<1>7. CASE PopLoadNext
  <2>1. /\ UNCHANGED <<next, producerVars, owned, order, popped>>
        /\ UNCHANGED <<front, back, item, batch>>
        /\ cpc = "load_next" /\ cpc' = "cas_front" /\ last' = next[item]
    BY <1>7 DEF PopLoadNext, queueVars
  <2>2. b = k /\ k < m /\ item = order[k + 1] /\ front = item /\ item \in Nodes
    BY <1>1, <1>2, <1>3, <2>1 DEF Segment, Phase
  <2>3. TypeOK'
    BY <1>1, <2>1, <2>2 DEF TypeOK, producerVars, ConsumerPCs
  <2>4. next[item] = Null \/ (k + 2 <= m /\ next[item] = order[k + 2])
    <3>1. CASE m = k + 1
      BY <1>2, <2>2, <3>1 DEF Segment
    <3>2. CASE m # k + 1
      <4>1. k + 1 \in (k + 1)..(m - 1) /\ k + 1 # b /\ (k + 1) + 1 = k + 2 /\ k + 2 <= m
        BY <1>3, <2>2, <3>2
      <4> QED
        BY <1>2, <2>2, <4>1 DEF Segment
    <3> QED
      BY <3>1, <3>2
  <2>5. Phase'
    BY <1>5, <2>1, <2>2, <2>4 DEF Phase, Ahead
  <2>6. Segment(b)'
    BY <1>2, <1>5, <2>1, <2>2 DEF Segment, Ahead
  <2> QED
    BY <2>1, <2>3, <2>5, <2>6, ConsumerMoves
<1>8. CASE PopCasFront
  <2>1. /\ cpc = "cas_front" /\ front' = last /\ back' = back
        /\ UNCHANGED <<next, producerVars, order>>
    BY <1>8 DEF PopCasFront
  <2>2. b = k /\ k < m /\ item = order[k + 1] /\ front = item /\ item \in Nodes /\ item # Null
    BY <1>1, <1>2, <1>3, <1>4, <2>1 DEF Segment, Phase
  <2>3. \A p \in Producers : Linking(p) => old_back[p] # Null
    BY <1>2, <2>2 DEF Segment
  <2>4. CASE last = Null
    <3>1. /\ UNCHANGED <<next, producerVars, owned, order, popped>>
          /\ UNCHANGED <<back, item, last, batch>>
          /\ cpc' = "clear_back"
      BY <1>8, <2>4 DEF PopCasFront
    <3>2. TypeOK'
      BY <1>1, <2>1, <2>4, <3>1 DEF TypeOK, producerVars, ConsumerPCs, NodeOrNull
    <3>3. Phase'
      BY <1>5, <2>1, <2>2, <2>4, <3>1 DEF Phase, Ahead
    <3>4. Segment(b)'
      BY <1>2, <1>5, <2>1, <2>2, <2>3, <2>4, <3>1 DEF Segment, Ahead
    <3> QED
      BY <3>1, <3>2, <3>3, <3>4, ConsumerMoves
  <2>5. CASE last # Null
    <3> DEFINE s == <<item>>
    <3>1. Return(s)
      BY <1>8, <2>5 DEF PopCasFront
    <3>2. s \in Seq(Nodes) /\ Len(s) = 1 /\ s[1] = item
      BY <2>2
    <3>3. k + 2 <= m /\ last = order[k + 2] /\ next[order[k + 1]] # Null
      BY <1>1, <2>1, <2>2, <2>5 DEF Phase
    <3>4. back = order[m] /\ back \in NodeOrNull /\ last \in NodeOrNull
      BY <1>1, <1>2, <1>3, <2>2 DEF Segment, TypeOK
    <3> HIDE DEF s
    <3>5. /\ b <= k + Len(s) /\ k + Len(s) <= m /\ k + Len(s) # m /\ k + Len(s) < m
          /\ \A i \in 1..Len(s) : s[i] = order[k + i]
          /\ \A i \in (k + 1)..(k + Len(s)) : next[order[i]] # Null
          /\ k + Len(s) + 1 = k + 2
      BY <1>3, <2>2, <3>2, <3>3
    <3> QED
      BY <1>2, <2>1, <2>3, <2>5, <3>1, <3>2, <3>3, <3>4, <3>5, ReturnStep
  <2> QED
    BY <2>4, <2>5
<1>9. CASE PopClearBack
  <2>1. /\ cpc = "clear_back" /\ front' = front
        /\ UNCHANGED <<next, producerVars, order>>
    BY <1>9 DEF PopClearBack
  <2>2. b = k /\ k < m /\ item = order[k + 1] /\ front = Null /\ item \in Nodes /\ item # Null
    BY <1>1, <1>2, <1>3, <1>4, <2>1 DEF Segment, Phase, Ahead
  <2>3. back = order[m]
    BY <1>2, <2>2 DEF Segment
  <2>4. \A p \in Producers : Linking(p) => old_back[p] # Null
    BY <1>2, <2>1 DEF Segment, Ahead
  <2>5. CASE back = item
    <3> DEFINE s == <<item>>
    <3>1. Return(s) /\ back' = Null
      BY <1>9, <2>5 DEF PopClearBack
    <3>2. s \in Seq(Nodes) /\ Len(s) = 1 /\ s[1] = item
      BY <2>2
    <3>3. m = k + 1
      <4>1. m \in (k + 1)..m /\ k + 1 \in (k + 1)..m /\ order[m] = order[k + 1]
        BY <1>3, <2>2, <2>3, <2>5
      <4> QED
        BY <1>1, <4>1 DEF Distinct
    <3> HIDE DEF s
    <3>4. /\ b <= k + Len(s) /\ k + Len(s) = m
          /\ \A i \in 1..Len(s) : s[i] = order[k + i]
          /\ \A i \in (k + 1)..(k + Len(s)) : ~(i < m)
      BY <1>3, <2>2, <3>2, <3>3
    <3>5. back' \in NodeOrNull /\ front' \in NodeOrNull /\ front' = Null
      BY <2>1, <2>2, <3>1 DEF NodeOrNull
    <3>6. k + Len(s) <= m
      BY <1>3, <3>4
    <3> QED
      BY <1>2, <2>1, <2>4, <3>1, <3>2, <3>4, <3>5, <3>6, ReturnStep
  <2>6. CASE back # item
    <3>1. /\ UNCHANGED <<next, producerVars, owned, order, popped>>
          /\ UNCHANGED <<back, front, item, last, batch>>
          /\ cpc' = "spin"
      BY <1>9, <2>6 DEF PopClearBack
    <3>2. TypeOK'
      BY <1>1, <3>1 DEF TypeOK, producerVars, ConsumerPCs
    <3>3. k + 2 <= m
      BY <1>3, <2>2, <2>3, <2>6
    <3>4. Phase'
      BY <1>5, <2>2, <3>1, <3>3 DEF Phase, Ahead
    <3>5. Segment(b)'
      BY <1>2, <1>5, <2>1, <2>2, <2>4, <3>1 DEF Segment, Ahead
    <3> QED
      BY <3>1, <3>2, <3>4, <3>5, ConsumerMoves
  <2> QED
    BY <2>5, <2>6
<1>10. CASE PopSpin
  <2>1. /\ UNCHANGED <<next, producerVars, owned, order, popped>>
        /\ UNCHANGED <<front, back, item, batch>>
        /\ cpc = "spin" /\ cpc' = "set_front" /\ last' = next[item] /\ next[item] # Null
    BY <1>10 DEF PopSpin, queueVars
  <2>2. b = k /\ k + 2 <= m /\ item = order[k + 1] /\ front = Null /\ item \in Nodes
    BY <1>1, <1>2, <1>3, <2>1 DEF Segment, Phase, Ahead
  <2>3. TypeOK'
    BY <1>1, <2>1, <2>2 DEF TypeOK, producerVars, ConsumerPCs
  <2>4. next[item] = order[k + 2]
    <3>1. k + 1 \in (k + 1)..(m - 1) /\ k + 1 # b /\ (k + 1) + 1 = k + 2
      BY <1>3, <2>2
    <3> QED
      BY <1>2, <2>1, <2>2, <3>1 DEF Segment
  <2>5. Phase'
    BY <1>3, <1>5, <2>1, <2>2, <2>4 DEF Phase, Ahead
  <2>6. Segment(b)'
    BY <1>2, <1>5, <2>1, <2>2 DEF Segment, Ahead
  <2> QED
    BY <2>1, <2>3, <2>5, <2>6, ConsumerMoves
<1>11. CASE PopSetFront
  <2> DEFINE s == <<item>>
  <2>1. /\ cpc = "set_front" /\ front' = last /\ back' = back /\ Return(s)
        /\ UNCHANGED <<next, producerVars, order>>
    BY <1>11 DEF PopSetFront
  <2>2. /\ b = k /\ k + 2 <= m /\ item = order[k + 1] /\ item \in Nodes
        /\ last = order[k + 2] /\ next[order[k + 1]] # Null
    BY <1>1, <1>2, <1>3, <1>4, <2>1 DEF Segment, Phase
  <2>3. \A p \in Producers : Linking(p) => old_back[p] # Null
    BY <1>2, <2>1 DEF Segment, Ahead
  <2>4. s \in Seq(Nodes) /\ Len(s) = 1 /\ s[1] = item
    BY <2>2
  <2>5. back = order[m] /\ back \in NodeOrNull /\ last \in NodeOrNull
    BY <1>1, <1>2, <1>3, <2>2 DEF Segment, TypeOK
  <2> HIDE DEF s
  <2>6. /\ b <= k + Len(s) /\ k + Len(s) <= m /\ k + Len(s) # m /\ k + Len(s) < m
        /\ \A i \in 1..Len(s) : s[i] = order[k + i]
        /\ \A i \in (k + 1)..(k + Len(s)) : next[order[i]] # Null
        /\ k + Len(s) + 1 = k + 2
    BY <1>3, <2>2, <2>4
  <2>7. last # Null
    BY <1>3, <1>4, <2>2
  <2> QED
    BY <1>2, <2>1, <2>2, <2>3, <2>4, <2>5, <2>6, <2>7, ReturnStep
<1>12. CASE BatchSwapFront
  <2>1. /\ UNCHANGED <<next, producerVars, owned, order, popped>>
        /\ UNCHANGED <<back, last, batch>>
        /\ cpc = "idle" /\ cpc' = "swap_back" /\ front # Null /\ item' = front /\ front' = Null
    BY <1>12 DEF BatchSwapFront
  <2>2. TypeOK'
    BY <1>1, <2>1 DEF TypeOK, producerVars, ConsumerPCs, NodeOrNull
  <2>3. b = k /\ k < m /\ front = order[k + 1]
    BY <1>2, <2>1 DEF Segment
  <2>4. Phase'
    BY <1>5, <2>1, <2>3 DEF Phase, Ahead
  <2>5. Segment(b)'
    BY <1>2, <1>5, <2>1, <2>3 DEF Segment, Ahead
  <2> QED
    BY <2>1, <2>2, <2>4, <2>5, ConsumerMoves
<1>13. CASE BatchSwapBack
  <2>1. /\ UNCHANGED <<next, producerVars, owned, order, popped>>
        /\ UNCHANGED <<front, item>>
        /\ cpc = "swap_back" /\ cpc' = "walk" /\ last' = back /\ back' = Null
        /\ batch' = <<item>>
    BY <1>13 DEF BatchSwapBack
  <2>2. b = k /\ k < m /\ item = order[k + 1] /\ front = Null /\ item \in Nodes
    BY <1>1, <1>2, <1>3, <2>1 DEF Segment, Phase, Ahead
  <2>3. back = order[m]
    BY <1>2, <2>2 DEF Segment
  <2>4. batch' \in Seq(Nodes) /\ Len(batch') = 1 /\ batch'[1] = item
    BY <2>1, <2>2
  <2>5. TypeOK'
    BY <1>1, <2>1, <2>4 DEF TypeOK, producerVars, ConsumerPCs, NodeOrNull
  <2>6. \A p \in Producers : Linking(p) => old_back[p] # Null
    BY <1>2, <2>1 DEF Segment, Ahead
  <2>7. Phase'
    BY <1>3, <1>5, <2>1, <2>2, <2>4 DEF Phase, Ahead
  <2>8. PICK n \in Nat : n = m
    BY <1>3
  <2>9. Segment(n)'
    <3>1. ASSUME NEW i \in (k + 1)..(m - 1) PROVE i # b /\ i # m
      BY <1>3, <2>2
    <3> QED
      BY <1>2, <1>3, <1>5, <2>1, <2>2, <2>3, <2>4, <2>6, <2>8, <3>1 DEF Segment, Ahead
  <2> QED
    BY <2>1, <2>5, <2>7, <2>9, ConsumerMoves
<1>14. CASE BatchWalk
  <2>1. /\ UNCHANGED <<next, producerVars, owned, order, popped>>
        /\ UNCHANGED <<front, back, last>>
        /\ cpc = "walk" /\ cpc' = "walk" /\ item # last /\ next[item] # Null
        /\ item' = next[item] /\ batch' = Append(batch, next[item])
    BY <1>14 DEF BatchWalk, queueVars
  <2> DEFINE l == Len(batch)
  <2>2. /\ l >= 1 /\ item = order[k + l] /\ b >= k + l /\ last = order[b]
        /\ \A i \in 1..l : batch[i] = order[k + i]
        /\ \A i \in 1..(l - 1) : next[order[k + i]] # Null
    BY <1>1, <1>2, <2>1 DEF Segment, Phase
  <2>3. /\ k + l \in (k + 1)..(m - 1) /\ k + l # b /\ (k + l) + 1 = k + (l + 1)
        /\ b >= k + (l + 1) /\ k + (l + 1) <= m
    <3>1. b # k + l /\ b <= m /\ l \in Nat /\ k \in Nat /\ b \in Nat /\ m \in Nat
      BY <1>3, <2>1, <2>2
    <3> HIDE DEF l
    <3> QED
      BY <2>2, <3>1
  <2>4. next[item] = order[k + (l + 1)] /\ next[item] \in Nodes
    <3>1. next[item] = order[(k + l) + 1]
      BY <1>2, <2>1, <2>2, <2>3 DEF Segment
    <3> QED
      BY <1>3, <2>3, <3>1
  <2>5. /\ batch' \in Seq(Nodes) /\ Len(batch') = l + 1
        /\ batch'[l + 1] = next[item] /\ \A i \in 1..l : batch'[i] = batch[i]
    BY <1>1, <1>3, <2>1, <2>4 DEF TypeOK
  <2>6. TypeOK'
    BY <1>1, <2>1, <2>4, <2>5 DEF TypeOK, producerVars, NodeOrNull
  <2>7. \A i \in 1..(l + 1) : batch'[i] = order[k + i]
    BY <1>3, <2>2, <2>4, <2>5
  <2>8. \A i \in 1..l : next[order[k + i]] # Null
    <3>1. \A i \in 1..l : i \in 1..(l - 1) \/ i = l
      BY <1>3
    <3> HIDE DEF l
    <3> QED
      BY <2>1, <2>2, <3>1
  <2> HIDE DEF l
  <2>9. (l + 1) - 1 = l /\ l \in Nat /\ l + 1 >= 1
    BY <1>3 DEF l
  <2>10. Phase'
    BY <1>5, <2>1, <2>3, <2>4, <2>5, <2>7, <2>8, <2>9 DEF Phase, Ahead
  <2>11. Segment(b)'
    BY <1>2, <1>5, <2>1, <2>2, <2>3, <2>5 DEF Segment, Ahead
  <2> QED
    BY <2>1, <2>6, <2>10, <2>11, ConsumerMoves
<1>15. CASE BatchReturn
  <2>1. /\ cpc = "walk" /\ item = last /\ Return(batch)
        /\ UNCHANGED <<next, producerVars, order>> /\ UNCHANGED <<front, back>>
    BY <1>15 DEF BatchReturn, queueVars
  <2>2. /\ Len(batch) >= 1 /\ k + Len(batch) <= m /\ item = order[k + Len(batch)]
        /\ b >= k + Len(batch) /\ last = order[b]
        /\ \A i \in 1..Len(batch) : batch[i] = order[k + i]
        /\ \A i \in 1..(Len(batch) - 1) : next[order[k + i]] # Null
    BY <1>1, <1>2, <2>1 DEF Segment, Phase
  <2>3. b = k + Len(batch)
    <3>1. k + Len(batch) \in (k + 1)..m /\ b \in (k + 1)..m
      BY <1>3, <2>2
    <3> QED
      BY <1>1, <2>1, <2>2, <3>1 DEF Distinct
  <2>4. \A i \in (k + 1)..(k + Len(batch)) : i < m /\ i # b => next[order[i]] # Null
    <3>1. ASSUME NEW i \in (k + 1)..(k + Len(batch)), i # b PROVE next[order[i]] # Null
      <4>1. i - k \in 1..(Len(batch) - 1) /\ k + (i - k) = i
        BY <1>3, <2>3, <3>1
      <4> QED
        BY <2>2, <4>1
    <3> QED
      BY <3>1
  <2>5. batch \in Seq(Nodes) /\ back \in NodeOrNull /\ front \in NodeOrNull
    BY <1>1 DEF TypeOK
  <2>6. /\ back = IF b = m THEN Null ELSE order[m]
        /\ front # Null => b < m /\ front = order[b + 1]
        /\ b = m \/ front # Null \/ \E p \in Producers : Linking(p) /\ old_back[p] = Null
        /\ \A p \in Producers : Linking(p) /\ old_back[p] = Null =>
               front = Null /\ b < m /\ first[p] = order[b + 1]
    BY <1>2, <2>1 DEF Segment, Ahead
  <2> QED
    BY <1>2, <2>1, <2>2, <2>3, <2>4, <2>5, <2>6, ReturnStep
<1> QED
  BY <1>6, <1>7, <1>8, <1>9, <1>10, <1>11, <1>12, <1>13, <1>14, <1>15 DEF ConsumerStep

-----------------------------------------------------------------------------
(* The theorems *)

\* The invariant holds of an empty queue.
LEMMA IInvInit == Init => IInv
<1> SUFFICES ASSUME Init PROVE IInv
  OBVIOUS
<1>1. TypeOK
  BY DEF Init, TypeOK, NodeOrNull, ConsumerPCs
<1>2. m = 0 /\ k = 0
  BY DEF Init, m, k
<1>3. \A p \in Producers : ~Linking(p)
  BY DEF Init, Linking
<1>4. Segment(0)
  BY <1>2, <1>3 DEF Init, Segment
<1>5. Prefix /\ Distinct /\ Phase /\ Gaps
  BY <1>2, <1>3 DEF Init, Prefix, Distinct, Phase, Gaps, Ahead
<1> QED
  BY <1>1, <1>4, <1>5 DEF IInv

\* Every step keeps it.
LEMMA IInvStep == IInv /\ [Next]_vars => IInv'
<1> SUFFICES ASSUME IInv, [Next]_vars PROVE IInv'
  OBVIOUS
<1>1. ASSUME NEW p \in Producers, NEW list \in Lists, PushSwap(p, list) PROVE IInv'
  BY <1>1, SwapStep
<1>2. ASSUME NEW p \in Producers, PushLink(p) PROVE IInv'
  BY <1>2, LinkStep
<1>3. CASE PopFront \/ BatchSwapFront \/ ConsumerStep
  BY <1>3, ConsumerKeeps
<1>4. CASE Done \/ UNCHANGED vars
  <2>1. /\ UNCHANGED <<back, front, next, ppc, first, old_back, cpc, item, last, batch, owned,
                       order, popped>>
    BY <1>4 DEF Done, vars, queueVars, producerVars, consumerVars
  <2>2. TypeOK' /\ Prefix' /\ Distinct' /\ Phase' /\ Gaps'
    BY <2>1 DEF IInv, TypeOK, Prefix, Distinct, Phase, Gaps, Linking, m, k
  <2>3. PICK b \in Nat : Segment(b)
    BY DEF IInv
  <2>4. Segment(b)'
    BY <2>1, <2>3 DEF Segment, Linking, m, k
  <2> QED
    BY <2>2, <2>4 DEF IInv
<1> QED
  BY <1>1, <1>2, <1>3, <1>4 DEF Next

\* For any producers, nodes and number of pushes: nodes come out in the order of
\* the swaps of `back', each once, by pop and by pop_batch, although the links
\* are put in later and in any order.
THEOREM QueueIsFifo == Spec => []Fifo
<1>1. IInv => Fifo
  <2> SUFFICES ASSUME IInv PROVE Fifo
    OBVIOUS
  <2>1. /\ m \in Nat /\ k \in Nat /\ k <= m /\ \A i \in 1..k : popped[i] = order[i]
        /\ order \in Seq(Nodes) /\ popped \in Seq(Nodes)
    BY Lengths DEF IInv, Prefix, TypeOK
  <2>2. SubSeq(popped, 1, Len(popped)) = SubSeq(order, 1, Len(popped))
    BY <2>1 DEF m, k
  <2> QED
    BY <2>1, <2>2 DEF Fifo, IsPrefix, m, k
<1> QED
  BY <1>1, IInvInit, IInvStep, PTL DEF Spec

\* For any producers, nodes and number of pushes: a producer never links a node
\* that has been returned to its owner, the assertions of pop and pop_batch hold,
\* and is_empty() is true of a queue at rest only when everything was returned.
THEOREM LinksStaySafe == Spec => []LinksAreSafe
<1>1. IInv => LinksAreSafe
  <2> SUFFICES ASSUME IInv PROVE LinksAreSafe
    OBVIOUS
  <2>1. PICK b \in Nat : Segment(b)
    BY DEF IInv
  <2>2. /\ TypeOK /\ Prefix /\ Distinct /\ Phase
        /\ m \in Nat /\ k \in Nat /\ k <= m /\ b \in k..m
        /\ \A i \in 1..m : order[i] \in Nodes /\ order[i] # Null
    BY <2>1, Lengths, QueueAssumption DEF IInv, Prefix, Segment
  <2>3. OldBackStillQueued
    <3>1. ASSUME NEW p \in Producers, Linking(p), old_back[p] # Null PROVE old_back[p] \notin owned
      <4>1. PICK i \in (k + 1)..(m - 1) : old_back[p] = order[i]
        BY <2>1, <3>1 DEF Segment
      <4>2. i \in (k + 1)..m
        BY <2>2
      <4> QED
        BY <2>2, <4>1, <4>2 DEF Distinct
    <3> QED
      BY <3>1 DEF OldBackStillQueued, Linking
  <2>4. cpc \in {"clear_back", "swap_back"} => back # Null
    BY <2>1, <2>2 DEF Segment, Phase
  <2>5. cpc = "cas_front" => front = item
    BY <2>2 DEF Phase
  <2>6. back = Null /\ cpc = "idle" => popped = order
    <3>1. ASSUME back = Null, cpc = "idle" PROVE popped = order
      <4>1. k = m
        BY <2>1, <2>2, <3>1 DEF Segment
      <4>2. popped \in Seq(Nodes) /\ order \in Seq(Nodes) /\ Len(popped) = Len(order)
        BY <2>2, <4>1 DEF TypeOK, m, k
      <4>3. \A i \in 1..Len(popped) : popped[i] = order[i]
        BY <2>2 DEF Prefix, k
      <4> QED
        BY <4>2, <4>3, SeqEqual
    <3> QED
      BY <3>1
  <2> QED
    BY <2>2, <2>3, <2>4, <2>5, <2>6 DEF LinksAreSafe, ConsumerAssertions
<1> QED
  BY <1>1, IInvInit, IInvStep, PTL DEF Spec
=============================================================================
