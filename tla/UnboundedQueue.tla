--------------------------- MODULE UnboundedQueue ---------------------------
(***************************************************************************)
(* src/threading/unbounded_queue.rs: the intrusive queue through which     *)
(* threads hand tasks to an event loop.  Many producers, one consumer.     *)
(* A push swaps `back' and only then links the old back (or `front') to    *)
(* the new nodes, so the list is broken in between; the consumer copes.    *)
(* One step per atomic access.  Nodes are reused once they are returned.   *)
(***************************************************************************)
EXTENDS Naturals, Sequences, SequencesExt

CONSTANTS Nodes, Producers, Null,
          MaxPushed         \* bound on nodes pushed in a behaviour

ASSUME QueueAssumption == Null \notin Nodes /\ MaxPushed \in Nat

VARIABLES back, front,      \* the two ends
          next,             \* the nodes' links
          ppc, first, old_back, \* each producer: location, first..last's first, what the swap gave
          cpc,              \* the consumer: location
          item, last,       \* pop's `first' / pop_batch's `next_item', pop_batch's `last'
          batch,            \* nodes pop_batch has walked over
          owned,            \* nodes outside the queue
          order, popped     \* history: nodes in the order of the swaps, nodes returned

queueVars == <<back, front, next>>
producerVars == <<ppc, first, old_back>>
consumerVars == <<cpc, item, last, batch>>
vars == <<queueVars, producerVars, consumerVars, owned, order, popped>>

NodeOrNull == Nodes \union {Null}

ConsumerPCs == {"idle", "load_next", "cas_front", "clear_back", "spin", "set_front",
                "swap_back", "walk"}

TypeOK ==
    /\ back \in NodeOrNull /\ front \in NodeOrNull
    /\ next \in [Nodes -> NodeOrNull]
    /\ ppc \in [Producers -> {"idle", "link"}]
    /\ first \in [Producers -> NodeOrNull] /\ old_back \in [Producers -> NodeOrNull]
    /\ cpc \in ConsumerPCs
    /\ item \in NodeOrNull /\ last \in NodeOrNull
    /\ batch \in Seq(Nodes)
    /\ owned \subseteq Nodes
    /\ order \in Seq(Nodes) /\ popped \in Seq(Nodes)

Init ==
    /\ back = Null /\ front = Null
    /\ next = [n \in Nodes |-> Null]
    /\ ppc = [p \in Producers |-> "idle"]
    /\ first = [p \in Producers |-> Null]
    /\ old_back = [p \in Producers |-> Null]
    /\ cpc = "idle"
    /\ item = Null /\ last = Null
    /\ batch = <<>>
    /\ owned = Nodes
    /\ order = <<>> /\ popped = <<>>

-----------------------------------------------------------------------------
(* push_batch; push is a list of one *)

\* set_next(last, null) on the caller's own nodes, then back.swap(last).
PushSwap(p, list) ==
    /\ ppc[p] = "idle"
    /\ ToSet(list) \subseteq owned
    /\ Len(order) + Len(list) <= MaxPushed
    /\ next' = [n \in Nodes |->
                  IF n = list[Len(list)] THEN Null
                  ELSE IF n = list[1] THEN list[2] ELSE next[n]]
    /\ old_back' = [old_back EXCEPT ![p] = back]
    /\ first' = [first EXCEPT ![p] = list[1]]
    /\ back' = list[Len(list)]
    /\ owned' = owned \ ToSet(list)
    /\ order' = order \o list
    /\ ppc' = [ppc EXCEPT ![p] = "link"]
    /\ UNCHANGED <<front, consumerVars, popped>>

\* Faulty: the old back is linked past the first node of a batch.
PushLinkSecond(p) ==
    /\ ppc[p] = "link"
    /\ LET to == IF next[first[p]] # Null THEN next[first[p]] ELSE first[p]
       IN  IF old_back[p] # Null
           THEN next' = [next EXCEPT ![old_back[p]] = to] /\ UNCHANGED front
           ELSE front' = first[p] /\ UNCHANGED next
    /\ ppc' = [ppc EXCEPT ![p] = "idle"]
    /\ first' = [first EXCEPT ![p] = Null]
    /\ old_back' = [old_back EXCEPT ![p] = Null]
    /\ UNCHANGED <<back, consumerVars, owned, order, popped>>

PushLink(p) ==
    /\ ppc[p] = "link"
    /\ IF old_back[p] # Null
       THEN next' = [next EXCEPT ![old_back[p]] = first[p]] /\ UNCHANGED front
       ELSE front' = first[p] /\ UNCHANGED next
    /\ ppc' = [ppc EXCEPT ![p] = "idle"]
    /\ first' = [first EXCEPT ![p] = Null]
    /\ old_back' = [old_back EXCEPT ![p] = Null]
    /\ UNCHANGED <<back, consumerVars, owned, order, popped>>

-----------------------------------------------------------------------------
(* The consumer *)

\* The call returns the nodes in s.
Return(s) ==
    /\ cpc' = "idle"
    /\ item' = Null /\ last' = Null /\ batch' = <<>>
    /\ owned' = owned \union ToSet(s)
    /\ popped' = popped \o s

\* pop: an empty front returns null and changes nothing.
PopFront ==
    /\ cpc = "idle"
    /\ front # Null
    /\ item' = front
    /\ cpc' = "load_next"
    /\ UNCHANGED <<queueVars, producerVars, last, batch, owned, order, popped>>

\* `last' holds the `next_ptr' that was loaded.
PopLoadNext ==
    /\ cpc = "load_next"
    /\ last' = next[item]
    /\ cpc' = "cas_front"
    /\ UNCHANGED <<queueVars, producerVars, item, batch, owned, order, popped>>

\* Faulty: the last node is not taken until it has a successor.
PopCasFrontWaits ==
    /\ cpc = "cas_front"
    /\ front = item
    /\ IF last # Null
       THEN front' = last /\ Return(<<item>>)
       ELSE cpc' = "load_next" /\ UNCHANGED <<front, item, last, batch, owned, popped>>
    /\ UNCHANGED <<back, next, producerVars, order>>

\* Only the consumer moves a front that is not null: the exchange succeeds.
PopCasFront ==
    /\ cpc = "cas_front"
    /\ front = item
    /\ front' = last
    /\ IF last # Null
       THEN Return(<<item>>)
       ELSE cpc' = "clear_back" /\ UNCHANGED <<item, last, batch, owned, popped>>
    /\ UNCHANGED <<back, next, producerVars, order>>

\* Faulty: returns the node although a push has just come in behind it.
PopClearBackAndGo ==
    /\ cpc = "clear_back"
    /\ back' = IF back = item THEN Null ELSE back
    /\ Return(<<item>>)
    /\ UNCHANGED <<front, next, producerVars, order>>

PopClearBack ==
    /\ cpc = "clear_back"
    /\ IF back = item
       THEN back' = Null /\ Return(<<item>>)
       ELSE cpc' = "spin" /\ UNCHANGED <<back, item, last, batch, owned, popped>>
    /\ UNCHANGED <<front, next, producerVars, order>>

\* Wait for the push that came in between to set `next'.
PopSpin ==
    /\ cpc = "spin"
    /\ next[item] # Null
    /\ last' = next[item]
    /\ cpc' = "set_front"
    /\ UNCHANGED <<queueVars, producerVars, item, batch, owned, order, popped>>

PopSetFront ==
    /\ cpc = "set_front"
    /\ front' = last
    /\ Return(<<item>>)
    /\ UNCHANGED <<back, next, producerVars, order>>

\* pop_batch: front.swap(null)
BatchSwapFront ==
    /\ cpc = "idle"
    /\ front # Null
    /\ item' = front
    /\ front' = Null
    /\ cpc' = "swap_back"
    /\ UNCHANGED <<back, next, producerVars, last, batch, owned, order, popped>>

\* back.swap(null)
BatchSwapBack ==
    /\ cpc = "swap_back"
    /\ last' = back
    /\ back' = Null
    /\ batch' = <<item>>
    /\ cpc' = "walk"
    /\ UNCHANGED <<front, next, producerVars, item, owned, order, popped>>

BatchWalk ==
    /\ cpc = "walk"
    /\ item # last
    /\ next[item] # Null
    /\ item' = next[item]
    /\ batch' = Append(batch, next[item])
    /\ UNCHANGED <<queueVars, producerVars, cpc, last, owned, order, popped>>

\* The batch is handed out; its iterator follows the same links.
BatchReturn ==
    /\ cpc = "walk"
    /\ item = last
    /\ Return(batch)
    /\ UNCHANGED <<queueVars, producerVars, order>>

ConsumerStep ==
    \/ PopLoadNext \/ PopCasFront \/ PopClearBack \/ PopSpin \/ PopSetFront
    \/ BatchSwapBack \/ BatchWalk \/ BatchReturn

Lists == {<<n>> : n \in Nodes} \union {s \in Nodes \X Nodes : s[1] # s[2]}

\* Everything that may be pushed has been pushed and returned.
Done ==
    /\ Len(popped) = MaxPushed
    /\ UNCHANGED vars

Next ==
    \/ \E p \in Producers : PushLink(p) \/ \E list \in Lists : PushSwap(p, list)
    \/ PopFront \/ BatchSwapFront \/ ConsumerStep
    \/ Done

\* A push that has begun ends, and the consumer keeps draining.
Spec ==
    /\ Init /\ [][Next]_vars
    /\ \A p \in Producers : WF_vars(PushLink(p))
    /\ WF_vars(PopFront \/ BatchSwapFront \/ ConsumerStep)

-----------------------------------------------------------------------------
(* Properties *)

\* Nodes come out in the order in which the producers swapped `back', each once,
\* although the links are put in later and in any order.
Fifo == IsPrefix(popped, order)

\* push_batch's SAFETY comment: the old back a producer is about to link has not
\* been returned to its owner, who might free or reuse it.
OldBackStillQueued ==
    \A p \in Producers : ppc[p] = "link" /\ old_back[p] # Null => old_back[p] \notin owned

\* The debug assertions of pop and pop_batch: back is not null while an item is
\* being popped, and pop's exchange of front never finds it changed.  And
\* is_empty(), which looks at back alone, may answer early, while the last node is
\* being returned, but never of nodes that nobody is taking out.
ConsumerAssertions ==
    /\ cpc \in {"clear_back", "swap_back"} => back # Null
    /\ cpc = "cas_front" => front = item
    /\ back = Null /\ cpc = "idle" => popped = order

\* Every access through a link or an end of the queue finds what it relies on.
LinksAreSafe == TypeOK /\ OldBackStillQueued /\ ConsumerAssertions

\* A pushed node is returned: no push is lost in the window between the swap and
\* the link, and the consumer's spinning ends.
PushedIsPopped ==
    \A k \in 1..MaxPushed : (Len(order) >= k) ~> (Len(popped) >= k)
=============================================================================
