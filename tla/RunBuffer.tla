----------------------------- MODULE RunBuffer -----------------------------
(***************************************************************************)
(* node::Buffer of src/threading/ThreadPool.rs: the ring of a worker's     *)
(* tasks.  The owner pushes, pops and refills it; other workers steal half *)
(* of it by copying slots first and claiming them with an exchange of      *)
(* `head' after.  One step per slot and per atomic access; a load of       *)
(* `head' and the exchange that relies on it are separate steps.           *)
(*                                                                         *)
(* Indices wrap: the code's are 32 bits wide, these are modulo IndexSize,  *)
(* and a behaviour starts close to the wrap.  Each task goes through the   *)
(* buffer once, fewer of them than IndexSize, so that no index comes back  *)
(* to a value a stalled thief still remembers.                             *)
(***************************************************************************)
EXTENDS Integers, Sequences, SequencesExt, FiniteSets

CONSTANTS Tasks,            \* number of tasks, scheduled in the order 1, 2, ...
          Capacity,         \* CAPACITY, 256 in the code
          IndexSize,        \* 2^32 in the code
          FirstIndex,       \* where head and tail start
          Thieves

ASSUME BufferAssumption ==
    /\ Capacity \in Nat \ {0} /\ Capacity % 2 = 0
    /\ IndexSize \in Nat /\ IndexSize % Capacity = 0
    /\ Tasks \in Nat /\ Tasks < IndexSize
    /\ FirstIndex \in 0..(IndexSize - 1)

VARIABLES head, tail, array,
          opc,              \* the owner's location
          ohead, otail,     \* the owner's locals head and tail
          list,             \* tasks the owner is still to put somewhere
          tpc, thead, ttail,\* each thief's location, buffer_head and buffer_tail
          copied,           \* slots the thief has copied to its own array
          taken,            \* history: tasks that left the buffer, in order
          fresh             \* the next task to be scheduled

bufferVars == <<head, tail, array>>
ownerVars == <<opc, ohead, otail, list>>
thiefVars == <<tpc, thead, ttail, copied>>
vars == <<bufferVars, ownerVars, thiefVars, taken, fresh>>

Index == 0..(IndexSize - 1)
Slot == 0..(Capacity - 1)
NoTask == 0

\* wrapping_add, wrapping_sub
Plus(i, n) == (i + n) % IndexSize
Minus(i, j) == (i - j + IndexSize) % IndexSize

OwnerPCs == {"free", "push", "store", "migrate", "pop", "claim", "refill"}

TypeOK ==
    /\ head \in Index /\ tail \in Index
    /\ array \in [Slot -> 0..Tasks]
    /\ opc \in OwnerPCs
    /\ ohead \in Index /\ otail \in Index
    /\ list \in Seq(1..Tasks)
    /\ tpc \in [Thieves -> {"free", "head", "copy"}]
    /\ thead \in [Thieves -> Index] /\ ttail \in [Thieves -> Index]
    /\ copied \in [Thieves -> Seq(0..Tasks)]
    /\ taken \in Seq(0..Tasks)
    /\ fresh \in 1..(Tasks + 1)

Init ==
    /\ head = FirstIndex /\ tail = FirstIndex
    /\ array = [i \in Slot |-> NoTask]
    /\ opc = "free"
    /\ ohead = FirstIndex /\ otail = FirstIndex
    /\ list = <<>>
    /\ tpc = [t \in Thieves |-> "free"]
    /\ thead = [t \in Thieves |-> FirstIndex]
    /\ ttail = [t \in Thieves |-> FirstIndex]
    /\ copied = [t \in Thieves |-> <<>>]
    /\ taken = <<>>
    /\ fresh = 1

-----------------------------------------------------------------------------
(* The owner *)

\* The next n tasks.
Batch(n) == [i \in 1..n |-> fresh + i - 1]

\* push: load head; the owner alone changes tail.
BeginPush(n) ==
    /\ opc = "free"
    /\ fresh + n <= Tasks + 1
    /\ list' = Batch(n)
    /\ fresh' = fresh + n
    /\ ohead' = head
    /\ otail' = tail
    /\ opc' = "push"
    /\ UNCHANGED <<bufferVars, thiefVars, taken>>

\* Room left, as far as the owner knows: store one node.
PushSlot ==
    /\ opc = "push"
    /\ Minus(otail, ohead) < Capacity
    /\ list # <<>>
    /\ array' = [array EXCEPT ![otail % Capacity] = Head(list)]
    /\ list' = Tail(list)
    /\ otail' = Plus(otail, 1)
    /\ UNCHANGED <<head, tail, opc, ohead, thiefVars, taken, fresh>>

\* Full, or nothing left to store: publish, and look again if there is more.
PushTail ==
    /\ opc = "push"
    /\ otail # tail
    /\ Minus(otail, ohead) = Capacity \/ list = <<>>
    /\ tail' = otail
    /\ opc' = IF list = <<>> THEN "free" ELSE "store"
    /\ UNCHANGED <<head, array, ohead, otail, list, thiefVars, taken, fresh>>

PushReload ==
    /\ opc = "store"
    /\ ohead' = head
    /\ opc' = "push"
    /\ UNCHANGED <<bufferVars, otail, list, thiefVars, taken, fresh>>

\* A full buffer: claim half of it, or see that thieves made room.
PushMigrate ==
    /\ opc = "push"
    /\ otail = tail
    /\ Minus(otail, ohead) = Capacity
    /\ IF head = ohead
       THEN head' = Plus(head, Capacity \div 2) /\ opc' = "migrate" /\ UNCHANGED ohead
       ELSE ohead' = head /\ UNCHANGED <<head, opc>>
    /\ UNCHANGED <<tail, array, otail, list, thiefVars, taken, fresh>>

\* The claimed nodes are linked up, the list after them, and all of it leaves
\* for the worker's run queue.
PushOverflow ==
    /\ opc = "migrate"
    /\ taken' = taken \o [i \in 1..(Capacity \div 2) |-> array[Plus(ohead, i - 1) % Capacity]]
                      \o list
    /\ list' = <<>>
    /\ opc' = "free"
    /\ UNCHANGED <<bufferVars, ohead, otail, thiefVars, fresh>>

\* pop: load head; an empty buffer returns at once.
BeginPop ==
    /\ opc = "free"
    /\ head # tail
    /\ ohead' = head
    /\ opc' = "pop"
    /\ UNCHANGED <<bufferVars, otail, list, thiefVars, taken, fresh>>

PopClaim ==
    /\ opc = "pop"
    /\ IF head = ohead
       THEN head' = Plus(head, 1) /\ opc' = "claim" /\ UNCHANGED ohead
       ELSE /\ ohead' = head
            /\ opc' = IF head = tail THEN "free" ELSE "pop"
            /\ UNCHANGED head
    /\ UNCHANGED <<tail, array, otail, list, thiefVars, taken, fresh>>

PopRead ==
    /\ opc = "claim"
    /\ taken' = Append(taken, array[ohead % Capacity])
    /\ opc' = "free"
    /\ UNCHANGED <<bufferVars, ohead, otail, list, thiefVars, fresh>>

\* consume: the owner found its buffer empty and drains a queue into it, up to
\* Capacity nodes and one more, which it returns.
BeginRefill(n) ==
    /\ opc = "free"
    /\ head = tail
    /\ n <= Capacity + 1
    /\ fresh + n <= Tasks + 1
    /\ list' = Batch(n)
    /\ fresh' = fresh + n
    /\ otail' = tail
    /\ opc' = "refill"
    /\ UNCHANGED <<bufferVars, ohead, thiefVars, taken>>

RefillSlot ==
    /\ opc = "refill"
    /\ list # <<>>
    /\ Minus(otail, tail) < Capacity
    /\ array' = [array EXCEPT ![otail % Capacity] = Head(list)]
    /\ list' = Tail(list)
    /\ otail' = Plus(otail, 1)
    /\ UNCHANGED <<head, tail, opc, ohead, thiefVars, taken, fresh>>

\* Faulty: publishes the node that it returns.
RefillTailAll ==
    /\ opc = "refill"
    /\ IF list # <<>>
       THEN /\ Minus(otail, tail) = Capacity
            /\ taken' = Append(taken, Head(list))
       ELSE taken' = Append(taken, array[Minus(otail, 1) % Capacity])
    /\ tail' = otail
    /\ list' = <<>>
    /\ opc' = "free"
    /\ UNCHANGED <<head, array, ohead, otail, thiefVars, fresh>>

\* Without a node to spare the last one stored is returned; the tail store
\* publishes the others.
RefillTail ==
    /\ opc = "refill"
    /\ IF list # <<>>
       THEN /\ Minus(otail, tail) = Capacity
            /\ taken' = Append(taken, Head(list))
            /\ tail' = otail
       ELSE /\ taken' = Append(taken, array[Minus(otail, 1) % Capacity])
            /\ tail' = Minus(otail, 1)
    /\ list' = <<>>
    /\ opc' = "free"
    /\ UNCHANGED <<head, array, ohead, otail, thiefVars, fresh>>

-----------------------------------------------------------------------------
(* steal *)

StealHead(t) ==
    /\ tpc[t] = "free"
    /\ thead' = [thead EXCEPT ![t] = head]
    /\ copied' = [copied EXCEPT ![t] = <<>>]
    /\ tpc' = [tpc EXCEPT ![t] = "head"]
    /\ UNCHANGED <<bufferVars, ownerVars, ttail, taken, fresh>>

StealSize(t) == Minus(ttail[t], thead[t]) - Minus(ttail[t], thead[t]) \div 2

\* Load tail.  A size beyond the capacity means that head is out of date:
\* start again.  Nothing to steal: give up.
StealTail(t) ==
    /\ tpc[t] = "head"
    /\ ttail' = [ttail EXCEPT ![t] = tail]
    /\ tpc' = [tpc EXCEPT ![t] =
                 IF Minus(tail, thead[t]) \in 1..Capacity THEN "copy" ELSE "free"]
    /\ UNCHANGED <<bufferVars, ownerVars, thead, copied, taken, fresh>>

StealCopy(t) ==
    /\ tpc[t] = "copy"
    /\ Len(copied[t]) < StealSize(t)
    /\ copied' = [copied EXCEPT ![t] =
                    Append(@, array[Plus(thead[t], Len(@)) % Capacity])]
    /\ UNCHANGED <<bufferVars, ownerVars, tpc, thead, ttail, taken, fresh>>

\* Faulty: the claim is a store that ignores what others claimed meanwhile.
StealStore(t) ==
    /\ tpc[t] = "copy"
    /\ Len(copied[t]) = StealSize(t)
    /\ head' = Plus(thead[t], StealSize(t))
    /\ taken' = taken \o copied[t]
    /\ tpc' = [tpc EXCEPT ![t] = "free"]
    /\ copied' = [copied EXCEPT ![t] = <<>>]
    /\ UNCHANGED <<tail, array, ownerVars, thead, ttail, fresh>>

\* Claim what was copied, or start again if head has moved.
StealCommit(t) ==
    /\ tpc[t] = "copy"
    /\ Len(copied[t]) = StealSize(t)
    /\ IF head = thead[t]
       THEN head' = Plus(head, StealSize(t)) /\ taken' = taken \o copied[t]
       ELSE UNCHANGED <<head, taken>>
    /\ tpc' = [tpc EXCEPT ![t] = "free"]
    /\ copied' = [copied EXCEPT ![t] = <<>>]
    /\ UNCHANGED <<tail, array, ownerVars, thead, ttail, fresh>>

-----------------------------------------------------------------------------
Next ==
    \/ \E n \in 1..Tasks : BeginPush(n) \/ BeginRefill(n)
    \/ PushSlot \/ PushTail \/ PushReload \/ PushMigrate \/ PushOverflow
    \/ BeginPop \/ PopClaim \/ PopRead
    \/ RefillSlot \/ RefillTail
    \/ \E t \in Thieves : StealHead(t) \/ StealTail(t) \/ StealCopy(t) \/ StealCommit(t)

Spec == Init /\ [][Next]_vars

-----------------------------------------------------------------------------
(* Properties *)

\* The tasks between head and tail.
Buffered == [i \in 1..Minus(tail, head) |-> array[Plus(head, i - 1) % Capacity]]

\* The owner's push, pop and refill and any number of thieves hand out every
\* task at most once, and never an empty slot.
TakenOnce ==
    /\ NoTask \notin ToSet(taken)
    /\ IsInjective(taken)

\* The size the owner and the thieves compute stays within the capacity, across
\* the wrap of the indices too (the debug assertions of push, pop and consume).
SizeInBounds ==
    /\ Minus(tail, head) <= Capacity
    /\ opc = "push" => Minus(otail, ohead) <= Capacity
    /\ opc = "pop" => Minus(tail, ohead) <= Capacity
    /\ opc = "refill" => head = tail

\* What is visible to thieves has not been handed out, and between the owner's
\* and the thieves' steps nothing is missing: tasks are buffered, taken, or in
\* the owner's hands.
NothingLost ==
    /\ TypeOK /\ SizeInBounds
    /\ IsInjective(Buffered)
    /\ ToSet(Buffered) \intersect ToSet(taken) = {}
    /\ opc = "free" => ToSet(Buffered) \union ToSet(taken) = 1..(fresh - 1)
=============================================================================
