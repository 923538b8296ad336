--------------------------- MODULE BlockingProofs ---------------------------
(* The blocking primitives of src/threading, proved for any set of threads   *)
(* (any finite one where they are counted): the condition, the futex mutex   *)
(* and the wait group.  Each has its own state; nothing here relates one     *)
(* primitive's theorems to another's state.                                  *)
EXTENDS Condition, FutexMutex, WaitGroup, FiniteSetTheorems, TLAPS

Bumping == {t \in Threads : pc[t] = "bump"}
Waiters == {t \in Threads : pc[t] \in Counted}

\* Waiters whose next look at the word, or next futex wait, comes after a
\* change of the epoch they have not seen.
Late == Awake \union {t \in Threads : pc[t] = "parked" /\ seen[t] # epoch}

\* What is reserved by wakers that have yet to change the epoch.
Unannounced == UNION {{t} \X (1..to_wake[t]) : t \in Bumping}

EpochBounded == /\ epoch + Cardinality(Bumping) <= MaxWakes
                /\ \A t \in Threads : seen[t] <= epoch

OnlyWakersPromise == \A t \in Threads : pc[t] \notin {"bump", "wake"} => to_wake[t] = 0

\* A waiter that loaded the current epoch came after every wake that has
\* changed it, so the signals of those wakes are for others.
Announced == signals <= Cardinality(Late) + Cardinality(Unannounced)

IInv == NoLostSignal /\ EpochBounded /\ OnlyWakersPromise /\ Announced
-----------------------------------------------------------------------------
(* Sets of threads and of promised wakes *)

\* Any set of threads can be counted.
LEMMA ThreadSets ==
    ASSUME NEW S, S \subseteq Threads
    PROVE  IsFiniteSet(S) /\ Cardinality(S) \in 0..Cardinality(Threads)
  BY ConditionAssumption, FS_Subset, FS_CardinalityType

\* A set in another one has no more elements.
LEMMA Fewer ==
    ASSUME NEW T, IsFiniteSet(T), NEW S, S \subseteq T
    PROVE  /\ IsFiniteSet(S)
           /\ Cardinality(S) \in Nat /\ Cardinality(T) \in Nat
           /\ Cardinality(S) <= Cardinality(T)
  BY FS_Subset, FS_CardinalityType

\* Sets that share nothing add up.
LEMMA Disjoint ==
    ASSUME NEW S, IsFiniteSet(S), NEW T, IsFiniteSet(T), S \intersect T = {}
    PROVE  IsFiniteSet(S \union T) /\ Cardinality(S \union T) = Cardinality(S) + Cardinality(T)
<1>1. Cardinality(S) \in Nat /\ Cardinality(T) \in Nat /\ Cardinality(S \intersect T) = 0
  BY FS_CardinalityType, FS_EmptySet
<1>2. /\ IsFiniteSet(S \union T)
      /\ Cardinality(S \union T) = Cardinality(S) + Cardinality(T) - Cardinality(S \intersect T)
  BY FS_Union
<1> DEFINE i == Cardinality(S \intersect T)
           u == Cardinality(S \union T)
<1>3. i = 0 /\ u = Cardinality(S) + Cardinality(T) - i
  BY <1>1, <1>2
<1> HIDE DEF i, u
<1>4. u = Cardinality(S) + Cardinality(T)
  BY <1>1, <1>3
<1> QED
  BY <1>2, <1>4 DEF u

\* The wakes one thread has promised.
LEMMA OnesOwn ==
    ASSUME NEW t, NEW n \in Nat
    PROVE  IsFiniteSet({t} \X (1..n)) /\ Cardinality({t} \X (1..n)) = n
<1>1. IsFiniteSet(1..n) /\ Cardinality(1..n) = n
  BY FS_Interval
<1>2. IsFiniteSet({t}) /\ Cardinality({t}) = 1
  BY FS_Singleton
<1> QED
  BY <1>1, <1>2, FS_Product

\* Promises can be counted, and those not announced are among them.
LEMMA Promises ==
    ASSUME TypeOK
    PROVE  /\ IsFiniteSet(Promised) /\ Cardinality(Promised) \in Nat
           /\ IsFiniteSet(Unannounced) /\ Cardinality(Unannounced) \in Nat
           /\ Cardinality(Unannounced) <= Cardinality(Promised)
<1> DEFINE N == Cardinality(Threads)
<1>1. N \in Nat
  BY ThreadSets
<1>2. IsFiniteSet(1..N)
  BY <1>1, FS_Interval
<1>3. IsFiniteSet(Threads \X (1..N))
  BY <1>2, ConditionAssumption, FS_Product
<1>4. Promised \subseteq Threads \X (1..N)
  BY <1>1 DEF TypeOK, Promised
<1>5. Unannounced \subseteq Promised
  BY DEF Unannounced, Promised, Bumping
<1> QED
  BY <1>3, <1>4, <1>5, Fewer

\* The smaller of two numbers.
LEMMA MinOfTwo ==
    ASSUME NEW a \in Nat, NEW b \in Nat
    PROVE  Min({a, b}) = IF a <= b THEN a ELSE b
  BY DEF Min

-----------------------------------------------------------------------------
(* Steps that leave the word and the promises alone *)

\* They keep the invariant when they take no waiter off the late ones.
LEMMA Quiet ==
    ASSUME IInv, TypeOK', UNCHANGED <<waiters, signals, epoch, to_wake>>,
           Waiters' = Waiters, Bumping' = Bumping, OnlyWakersPromise',
           \A t \in Threads : seen'[t] <= epoch',
           signals = 0 \/ (Awake \subseteq Awake' /\ Late \subseteq Late')
    PROVE  IInv'
<1> USE DEF IInv, NoLostSignal, SignalsReserved
<1>1. SignalsReserved'
  BY DEF Waiters
<1>2. EpochBounded'
  BY DEF EpochBounded
<1>3. Promised' = Promised /\ Unannounced' = Unannounced
  BY DEF Promised, Unannounced
<1>4. /\ IsFiniteSet(Awake') /\ Cardinality(Awake') \in Nat
      /\ IsFiniteSet(Late') /\ Cardinality(Late') \in Nat
  BY ThreadSets DEF Awake, Late
<1>5. signals = 0 \/ (Cardinality(Awake) <= Cardinality(Awake')
                       /\ Cardinality(Late) <= Cardinality(Late'))
  BY <1>4, Fewer
<1>6. Cardinality(Awake) \in Nat /\ Cardinality(Late) \in Nat
  BY ThreadSets DEF Awake, Late
<1>7. Announced' /\ signals' <= Cardinality(Awake') + Cardinality(Promised')
  BY <1>3, <1>4, <1>5, <1>6, Promises DEF Announced, TypeOK
<1> QED
  BY <1>1, <1>2, <1>7
-----------------------------------------------------------------------------
(* Steps that change them *)

\* A thread counts itself as a waiter.
LEMMA Registers ==
    ASSUME IInv, NEW t \in Threads, WaitRegister(t)
    PROVE  IInv'
<1> USE DEF IInv, NoLostSignal, WaitRegister, Goto, TypeOK, PCs
<1>1. Waiters' = Waiters \union {t} /\ t \notin Waiters
  BY DEF Waiters, Counted
<1>2. /\ IsFiniteSet(Waiters) /\ waiters = Cardinality(Waiters) /\ waiters' = Cardinality(Waiters')
      /\ Cardinality(Waiters') \in 0..Cardinality(Threads)
  BY <1>1, FS_AddElement, ThreadSets DEF Waiters, SignalsReserved
<1>3. SignalsReserved'
  BY <1>2 DEF SignalsReserved, Waiters
<1>4. TypeOK'
  BY <1>2
<1>5. /\ Bumping' = Bumping /\ OnlyWakersPromise'
      /\ Promised' = Promised /\ Unannounced' = Unannounced
  BY DEF Bumping, OnlyWakersPromise, Promised, Unannounced
<1>6. EpochBounded'
  BY <1>5 DEF EpochBounded
<1>7. Awake \subseteq Awake' /\ Late \subseteq Late'
  BY DEF Awake, Late
<1>8. /\ Cardinality(Awake) <= Cardinality(Awake') /\ Cardinality(Late) <= Cardinality(Late')
      /\ Cardinality(Awake) \in Nat /\ Cardinality(Awake') \in Nat
      /\ Cardinality(Late) \in Nat /\ Cardinality(Late') \in Nat
  BY <1>7, ThreadSets, Fewer DEF Awake, Late
<1>9. Announced' /\ signals' <= Cardinality(Awake') + Cardinality(Promised')
  BY <1>5, <1>8, Promises DEF Announced
<1> QED
  BY <1>3, <1>4, <1>5, <1>6, <1>9

\* A waiter leaves, with a signal if there is one.
LEMMA Leaves ==
    ASSUME IInv, NEW t \in Threads, pc[t] \in {"timeout", "consume"}, Leave(t)
    PROVE  IInv'
<1> USE DEF IInv, NoLostSignal, Leave, Goto, TypeOK, PCs
<1>1. /\ Waiters' = Waiters \ {t} /\ t \in Waiters
      /\ Awake' = Awake \ {t} /\ t \in Awake
      /\ Late' = Late \ {t} /\ t \in Late
  BY DEF Waiters, Counted, Awake, Late
<1>2. /\ IsFiniteSet(Waiters) /\ IsFiniteSet(Awake) /\ IsFiniteSet(Late)
      /\ Cardinality(Waiters') = Cardinality(Waiters) - 1
      /\ Cardinality(Awake') = Cardinality(Awake) - 1
      /\ Cardinality(Late') = Cardinality(Late) - 1
      /\ Cardinality(Waiters') \in 0..Cardinality(Threads)
      /\ Cardinality(Awake') \in Nat /\ Cardinality(Late') \in Nat
      /\ Cardinality(Awake) \in Nat /\ Cardinality(Late) \in Nat
  <2>1. /\ IsFiniteSet(Waiters) /\ IsFiniteSet(Awake) /\ IsFiniteSet(Late)
        /\ Cardinality(Awake) \in Nat /\ Cardinality(Late) \in Nat
    BY ThreadSets DEF Waiters, Awake, Late
  <2>2. Cardinality(Waiters') = Cardinality(Waiters) - 1
    BY <1>1, <2>1, FS_RemoveElement
  <2>3. Cardinality(Awake') = Cardinality(Awake) - 1
    BY <1>1, <2>1, FS_RemoveElement
  <2>4. Cardinality(Late') = Cardinality(Late) - 1
    BY <1>1, <2>1, FS_RemoveElement
  <2>5. /\ Cardinality(Waiters') \in 0..Cardinality(Threads)
        /\ Cardinality(Awake') \in Nat /\ Cardinality(Late') \in Nat
    BY ThreadSets DEF Waiters, Awake, Late
  <2> QED
    BY <2>1, <2>2, <2>3, <2>4, <2>5
<1>3. waiters = Cardinality(Waiters) /\ waiters' = Cardinality(Waiters')
  BY <1>2, ThreadSets DEF Waiters, SignalsReserved
<1>4. SignalsReserved'
  BY <1>2, <1>3 DEF SignalsReserved, Waiters
<1>5. TypeOK'
  <2>1. waiters' \in 0..Cardinality(Threads)
    BY <1>2, <1>3
  <2>2. signals' \in 0..Cardinality(Threads)
    BY ThreadSets
  <2>3. seen' \in [Threads -> 0..MaxWakes]
    BY ConditionAssumption
  <2> QED
    BY <2>1, <2>2, <2>3
<1>6. /\ Bumping' = Bumping /\ OnlyWakersPromise'
      /\ Promised' = Promised /\ Unannounced' = Unannounced
  BY DEF Bumping, OnlyWakersPromise, Promised, Unannounced
<1>7. EpochBounded'
  BY <1>6 DEF EpochBounded
<1>8. Announced' /\ signals' <= Cardinality(Awake') + Cardinality(Promised')
  BY <1>2, <1>6, Promises DEF Announced
<1> QED
  BY <1>4, <1>5, <1>6, <1>7, <1>8

\* A wake reserves n signals.
LEMMA Reserves ==
    ASSUME IInv, NEW t \in Threads, NEW n \in 1..wakeable, WakeReserve(t, n)
    PROVE  IInv'
<1> USE DEF IInv, NoLostSignal, WakeReserve, Goto, TypeOK, PCs
<1>1. /\ Waiters' = Waiters /\ Awake' = Awake /\ Late' = Late
      /\ Bumping' = Bumping \union {t} /\ t \notin Bumping
  BY DEF Waiters, Counted, Awake, Late, Bumping
<1>2. n \in Nat /\ n <= waiters - signals
  BY DEF wakeable
<1>3. SignalsReserved'
  <2>1. waiters' = Cardinality(Waiters')
    BY <1>1 DEF SignalsReserved, Waiters
  <2>2. signals' <= waiters'
    BY <1>2
  <2> QED
    BY <2>1, <2>2 DEF SignalsReserved, Waiters
<1>4. TypeOK'
  <2>1. signals + n <= waiters /\ n <= waiters /\ Cardinality(Threads) \in Nat
    BY <1>2, ThreadSets
  <2>2. signals + n \in 0..Cardinality(Threads) /\ n \in 0..Cardinality(Threads)
    BY <1>2, <2>1
  <2> QED
    BY <2>2
<1>5. OnlyWakersPromise' /\ to_wake[t] = 0
  BY DEF OnlyWakersPromise
<1>6. EpochBounded'
  <2>1. Bumping \subseteq Threads
    BY DEF Bumping
  <2>2. /\ IsFiniteSet(Bumping) /\ Cardinality(Bumping) \in Nat
        /\ Cardinality(Bumping') = Cardinality(Bumping) + 1
    BY <1>1, <2>1, ThreadSets, FS_AddElement
  <2>3. epoch + Cardinality(Bumping) < MaxWakes
    BY DEF Bumping
  <2> QED
    BY <2>2, <2>3, ConditionAssumption DEF EpochBounded
<1> DEFINE own == {t} \X (1..n)
<1>7. /\ Promised' = Promised \union own /\ Promised \intersect own = {}
      /\ Unannounced' = Unannounced \union own /\ Unannounced \intersect own = {}
  <2>1. \A u \in Threads \ {t} : to_wake'[u] = to_wake[u]
    OBVIOUS
  <2>2. to_wake'[t] = n
    OBVIOUS
  <2> HIDE DEF WakeReserve
  <2>3. Promised' = Promised \union own
    BY <2>1, <2>2, <1>5 DEF Promised
  <2>4. Unannounced' = Unannounced \union own
    BY <2>1, <2>2, <1>1 DEF Unannounced, Bumping
  <2>5. Promised \intersect own = {} /\ Unannounced \intersect own = {}
    BY <1>5 DEF Promised, Unannounced, Bumping
  <2> QED
    BY <2>3, <2>4, <2>5
<1>8. IsFiniteSet(own) /\ Cardinality(own) = n
  BY <1>2, OnesOwn
<1> HIDE DEF own
<1>9. /\ Cardinality(Promised') = Cardinality(Promised) + n
      /\ Cardinality(Unannounced') = Cardinality(Unannounced) + n
  <2>1. IsFiniteSet(Promised) /\ IsFiniteSet(Unannounced)
    BY Promises
  <2>2. Cardinality(Promised') = Cardinality(Promised) + n
    BY <1>7, <1>8, <2>1, Disjoint
  <2>3. Cardinality(Unannounced') = Cardinality(Unannounced) + n
    BY <1>7, <1>8, <2>1, Disjoint
  <2> QED
    BY <2>2, <2>3
<1>10. Cardinality(Awake) \in Nat /\ Cardinality(Late) \in Nat
  BY ThreadSets DEF Awake, Late
<1>11. Announced' /\ signals' <= Cardinality(Awake') + Cardinality(Promised')
  BY <1>1, <1>2, <1>9, <1>10, Promises DEF Announced
<1> QED
  BY <1>3, <1>4, <1>5, <1>6, <1>11
\* The epoch changes: whoever slept or is about to sleep on the old one is late.
LEMMA Bumps ==
    ASSUME IInv, NEW t \in Threads, WakeBump(t)
    PROVE  IInv'
<1> USE DEF IInv, NoLostSignal, WakeBump, Goto, TypeOK, PCs
<1>1. Waiters' = Waiters /\ Bumping' = Bumping \ {t} /\ t \in Bumping
  BY DEF Waiters, Counted, Bumping
<1>2. SignalsReserved'
  BY <1>1 DEF SignalsReserved, Waiters
<1>3. OnlyWakersPromise'
  BY DEF OnlyWakersPromise
<1>4. EpochBounded' /\ epoch' \in 0..MaxWakes
  <2>1. IsFiniteSet(Bumping) /\ Cardinality(Bumping) \in Nat /\ Cardinality(Bumping') \in Nat
    BY ThreadSets DEF Bumping
  <2>2. Cardinality(Bumping') = Cardinality(Bumping) - 1
    BY <1>1, <2>1, FS_RemoveElement
  <2>3. \A u \in Threads : seen[u] <= epoch + 1
    BY DEF EpochBounded
  <2> QED
    BY <2>1, <2>2, <2>3, ConditionAssumption DEF EpochBounded
<1>5. TypeOK'
  BY <1>4
<1>6. Awake \subseteq Awake' /\ Waiters \subseteq Late'
  <2>1. \A u \in Threads : seen'[u] # epoch'
    BY DEF EpochBounded
  <2>2. \A u \in Threads : u # t => pc'[u] = pc[u]
    OBVIOUS
  <2>3. Awake \subseteq Awake'
    BY <2>1, <2>2 DEF Awake
  <2>4. Waiters \subseteq Late'
    BY <2>1, <2>2 DEF Waiters, Counted, Late, Awake
  <2> QED
    BY <2>3, <2>4
<1>7. Promised' = Promised
  BY DEF Promised
<1>8. /\ Cardinality(Awake) <= Cardinality(Awake') /\ Cardinality(Waiters) <= Cardinality(Late')
      /\ Cardinality(Awake) \in Nat /\ Cardinality(Awake') \in Nat
      /\ Cardinality(Waiters) \in Nat /\ Cardinality(Late') \in Nat
  BY <1>6, ThreadSets, Fewer DEF Awake, Late, Waiters
<1>9. IsFiniteSet(Unannounced') /\ Cardinality(Unannounced') \in Nat
  <2>1. Unannounced' \subseteq Promised
    BY <1>1 DEF Unannounced, Promised, Bumping
  <2> QED
    BY <2>1, Promises, Fewer
<1>10. signals <= Cardinality(Waiters)
  BY DEF SignalsReserved, Waiters
<1>11. Announced' /\ signals' <= Cardinality(Awake') + Cardinality(Promised')
  BY <1>7, <1>8, <1>9, <1>10, Promises DEF Announced
<1> QED
  BY <1>2, <1>3, <1>4, <1>5, <1>11

\* The futex wake: as many sleepers as were promised, or all of them, and then
\* only late waiters could have been meant.
LEMMA Delivers ==
    ASSUME IInv, NEW t \in Threads, WakeFutex(t)
    PROVE  IInv'
<1> USE DEF IInv, NoLostSignal, TypeOK, PCs
<1>1. PICK W \in SUBSET Parked :
        /\ Cardinality(W) = Min({to_wake[t], Cardinality(Parked)})
        /\ pc' = [u \in Threads |->
                     IF u \in W THEN "reload"
                     ELSE IF u = t THEN (IF holder = t THEN "locked" ELSE "out")
                     ELSE pc[u]]
  BY DEF WakeFutex
<1>2. /\ pc[t] = "wake" /\ to_wake' = [to_wake EXCEPT ![t] = 0]
      /\ UNCHANGED <<wordVars, holder, seen, timed>>
  BY DEF WakeFutex
<1>3. W \subseteq Threads /\ \A u \in W : pc[u] = "parked" /\ u # t
  BY <1>1, <1>2 DEF Parked
<1> USE DEF wordVars
<1>4. /\ Waiters' = Waiters /\ Bumping' = Bumping
      /\ Awake' = Awake \union W /\ Awake \intersect W = {}
      /\ Late \subseteq Late'
  BY <1>1, <1>2, <1>3 DEF Waiters, Counted, Bumping, Awake, Late
<1>5. SignalsReserved'
  BY <1>2, <1>4 DEF SignalsReserved, Waiters
<1>6. OnlyWakersPromise' /\ EpochBounded'
  BY <1>1, <1>2, <1>3, <1>4 DEF OnlyWakersPromise, EpochBounded
<1>7. TypeOK'
  BY <1>1, <1>2, <1>3, ThreadSets
<1> DEFINE own == {t} \X (1..to_wake[t])
<1>8. IsFiniteSet(own) /\ Cardinality(own) = to_wake[t] /\ to_wake[t] \in Nat
  <2>1. to_wake[t] \in Nat
    BY ThreadSets
  <2> QED
    BY <2>1, OnesOwn
<1>9. /\ Promised' = Promised \ own /\ own \subseteq Promised
      /\ Unannounced' = Unannounced
  <2>1. to_wake'[t] = 0 /\ \A u \in Threads \ {t} : to_wake'[u] = to_wake[u]
    BY <1>2
  <2>2. Promised' = Promised \ own /\ own \subseteq Promised
    BY <2>1 DEF Promised
  <2>3. Unannounced' = Unannounced
    BY <1>2, <1>4, <2>1 DEF Unannounced, Bumping
  <2> QED
    BY <2>2, <2>3
<1> HIDE DEF own
<1>10. /\ Cardinality(Promised) = Cardinality(Promised') + to_wake[t]
       /\ Cardinality(Promised') \in Nat
  <2>1. IsFiniteSet(Promised)
    BY Promises
  <2>2. IsFiniteSet(Promised') /\ Cardinality(Promised') \in Nat
    BY <2>1, <1>9, Fewer
  <2>3. Promised = Promised' \union own /\ Promised' \intersect own = {}
    BY <1>9
  <2> QED
    BY <2>2, <2>3, <1>8, Disjoint
<1>11. /\ IsFiniteSet(W) /\ IsFiniteSet(Awake) /\ IsFiniteSet(Parked)
       /\ Cardinality(W) \in Nat /\ Cardinality(Parked) \in Nat /\ Cardinality(Awake) \in Nat
  BY <1>3, ThreadSets DEF Awake, Parked
<1>12. Cardinality(Awake') = Cardinality(Awake) + Cardinality(W)
  BY <1>4, <1>11, Disjoint
<1>13. /\ Cardinality(Late) <= Cardinality(Late')
       /\ Cardinality(Late) \in Nat /\ Cardinality(Late') \in Nat
  BY <1>4, ThreadSets, Fewer DEF Late, Awake
<1>14. Announced'
  BY <1>2, <1>9, <1>13, Promises DEF Announced
<1>15. signals' <= Cardinality(Awake') + Cardinality(Promised')
  <2>1. CASE to_wake[t] <= Cardinality(Parked)
    <3>1. Cardinality(W) = to_wake[t]
      BY <1>1, <1>8, <1>11, <2>1, MinOfTwo
    <3> QED
      BY <3>1, <1>2, <1>8, <1>10, <1>11, <1>12
  <2>2. CASE ~(to_wake[t] <= Cardinality(Parked))
    <3>1. Cardinality(W) = Cardinality(Parked)
      BY <1>1, <1>8, <1>11, <2>2, MinOfTwo
    <3>2. W = Parked
      BY <3>1, <1>11, FS_Subset
    <3>3. Late' = Awake'
      BY <3>2, <1>1, <1>3 DEF Late, Awake, Parked
    <3>4. Cardinality(Unannounced') <= Cardinality(Promised') /\ Cardinality(Unannounced') \in Nat
      <4>1. Unannounced' \subseteq Promised'
        BY <1>9, <1>4, <1>2 DEF Unannounced, Promised, Bumping
      <4>2. IsFiniteSet(Promised')
        BY <1>9, Promises, Fewer
      <4> QED
        BY <4>1, <4>2, Fewer
    <3>5. signals' <= Cardinality(Awake') + Cardinality(Unannounced')
      BY <3>3, <1>14 DEF Announced
    <3>6. Cardinality(Awake') \in Nat /\ signals' \in Nat
      BY <1>11, <1>12, <1>2, ThreadSets
    <3> QED
      BY <3>4, <3>5, <3>6, <1>10
  <2> QED
    BY <2>1, <2>2
<1> QED
  BY <1>5, <1>6, <1>7, <1>14, <1>15

-----------------------------------------------------------------------------
\* Initially nobody waits.
LEMMA Start0 == Init => IInv
<1> SUFFICES ASSUME Init PROVE IInv
  OBVIOUS
<1>1. /\ Cardinality(Threads) \in Nat /\ Cardinality({}) = 0
  BY ThreadSets, FS_EmptySet
<1>2. TypeOK
  BY <1>1, ConditionAssumption DEF Init, TypeOK, PCs
<1>3. Waiters = {} /\ Bumping = {} /\ Awake = {} /\ Late = {}
  BY DEF Init, Waiters, Bumping, Awake, Late, Counted
<1>4. SignalsReserved
  BY <1>1, <1>3 DEF Init, SignalsReserved, Waiters
<1>5. EpochBounded /\ OnlyWakersPromise
  BY <1>1, <1>3, ConditionAssumption DEF Init, EpochBounded, OnlyWakersPromise
<1>6. Announced /\ signals <= Cardinality(Awake) + Cardinality(Promised)
  BY <1>1, <1>2, <1>3, Promises DEF Announced, Init
<1> QED
  BY <1>2, <1>4, <1>5, <1>6 DEF IInv, NoLostSignal

\* Every step preserves the invariant.
LEMMA Step == IInv /\ [Next]_vars => IInv'
<1> SUFFICES ASSUME IInv, [Next]_vars PROVE IInv'
  OBVIOUS
<1> DEFINE Same == UNCHANGED <<waiters, signals, epoch, to_wake>>
           Sets == /\ TypeOK' /\ Waiters' = Waiters /\ Bumping' = Bumping
                   /\ OnlyWakersPromise' /\ \A t \in Threads : seen'[t] <= epoch'
           Looks == signals = 0 \/ (Awake \subseteq Awake' /\ Late \subseteq Late')
<1>1. TypeOK /\ OnlyWakersPromise /\ EpochBounded
  BY DEF IInv, NoLostSignal
<1>2. ASSUME Same, Sets, Looks PROVE IInv'
  BY <1>2, Quiet
<1>3. ASSUME NEW t \in Threads,
             \/ LockMutex(t) \/ UnlockMutex(t) \/ Relock(t) \/ WaitUnlock(t)
             \/ FutexWait(t) \/ Timeout(t) \/ SpuriousWake(t) \/ WaitReload(t) \/ WaitAgain(t)
             \/ \E b \in BOOLEAN : WaitLoadEpoch(t, b)
      PROVE  IInv'
  <2> USE <1>1, <1>3 DEF LockMutex, UnlockMutex, Relock, WaitUnlock, FutexWait, Timeout,
             SpuriousWake, WaitReload, WaitAgain, WaitLoadEpoch, Goto, wordVars
  <2>1. Same
    OBVIOUS
  <2>2. TypeOK'
    BY DEF TypeOK, PCs
  <2>3. /\ Waiters' = Waiters /\ Bumping' = Bumping /\ OnlyWakersPromise'
        /\ \A u \in Threads : seen'[u] <= epoch'
    BY DEF Waiters, Counted, Bumping, OnlyWakersPromise, EpochBounded, TypeOK, PCs
  <2>4. Looks
    BY DEF Awake, Late, TypeOK, PCs
  <2> QED
    BY <2>1, <2>2, <2>3, <2>4, <1>2
<1>4. ASSUME NEW t \in Threads, signal(t) \/ broadcast(t) PROVE IInv'
  <2>1. wakeable \in Nat \ {0}
    BY <1>1, <1>4 DEF signal, broadcast, WakeReserve, wakeable, TypeOK
  <2>2. \E n \in 1..wakeable : WakeReserve(t, n)
    BY <1>4, <2>1 DEF signal, broadcast
  <2> QED
    BY <2>2, Reserves
<1>5. ASSUME NEW t \in Threads, TimedOut(t) \/ WaitConsume(t) PROVE IInv'
  BY <1>5, Leaves DEF TimedOut, WaitConsume
<1>6. CASE UNCHANGED vars
  <2>1. Same /\ Sets
    BY <1>1, <1>6 DEF vars, wordVars, TypeOK, Waiters, Bumping, OnlyWakersPromise, EpochBounded
  <2>2. Looks
    BY <1>6 DEF vars, wordVars, Awake, Late
  <2> QED
    BY <2>1, <2>2, <1>2
<1> QED
  BY <1>3, <1>4, <1>5, <1>6, Registers, Bumps, Delivers DEF Next, WaitStep, WakeStep

\* For any number of threads and any interleaving of waits, timeouts, signals
\* and broadcasts: the word never holds more signals than waiters, and every
\* signal has a waiter that will look before it sleeps, or a wake under way
\* that will find a sleeper (the order of epoch and word in wait() and wake()).
THEOREM SignalsNotLost == SafeSpec => []NoLostSignal
<1>1. IInv => NoLostSignal
  BY DEF IInv
<1> QED
  BY <1>1, Start0, Step, PTL DEF SafeSpec
-----------------------------------------------------------------------------
(* FutexMutex *)

MutexInv == MutexTypeOK /\ MutualExclusion /\ NoLostWaiter

\* The mutex word and the threads' locations keep their types.
LEMMA MutexTypes == MutexTypeOK /\ [MutexNext]_mutex_vars => MutexTypeOK'
<1> SUFFICES ASSUME MutexTypeOK, [MutexNext]_mutex_vars PROVE MutexTypeOK'
  OBVIOUS
<1> USE DEF MutexTypeOK, LockerPlaces, LockerAt
<1>1. ASSUME NEW t \in Lockers, Call(t) \/ TryLock(t) \/ TryLockFails(t)
                                \/ SlowLoad(t)
                                \/ SlowWait(t) \/ SlowWake(t)
      PROVE  MutexTypeOK'
  BY <1>1 DEF Call, TryLock, TryLockFails, SlowLoad, SlowWait,
              SlowWake
<1>2. ASSUME NEW t \in Lockers, SlowSwap(t) \/ Unlock(t) \/ WakeOne(t)
      PROVE  MutexTypeOK'
  BY <1>2 DEF SlowSwap, Unlock, WakeOne
<1>3. CASE UNCHANGED mutex_vars
  BY <1>3 DEF mutex_vars
<1> QED
  BY <1>1, <1>2, <1>3 DEF MutexNext, LockStep

\* A thread enters the critical section only over an UNLOCKED word, and leaves
\* it UNLOCKED.
LEMMA ExclusionStep ==
    MutexTypeOK /\ MutualExclusion /\ [MutexNext]_mutex_vars => MutualExclusion'
<1> SUFFICES ASSUME MutexTypeOK, MutualExclusion, [MutexNext]_mutex_vars
             PROVE  MutualExclusion'
  OBVIOUS
<1> USE DEF MutexTypeOK, LockerPlaces, LockerAt, MutualExclusion
<1>1. ASSUME NEW t \in Lockers, Call(t) PROVE MutualExclusion'
  BY <1>1 DEF Call
<1>2. ASSUME NEW t \in Lockers, TryLock(t) PROVE MutualExclusion'
  BY <1>2 DEF TryLock
<1>3. ASSUME NEW t \in Lockers, TryLockFails(t) \/ SlowLoad(t)
                                \/ SlowWait(t) \/ SlowWake(t)
      PROVE  MutualExclusion'
  BY <1>3 DEF TryLockFails, SlowLoad, SlowWait, SlowWake
<1>4. ASSUME NEW t \in Lockers, SlowSwap(t) PROVE MutualExclusion'
  BY <1>4 DEF SlowSwap
<1>5. ASSUME NEW t \in Lockers, Unlock(t) PROVE MutualExclusion'
  BY <1>5 DEF Unlock
<1>6. ASSUME NEW t \in Lockers, WakeOne(t) PROVE MutualExclusion'
  BY <1>6 DEF WakeOne
<1>7. CASE UNCHANGED mutex_vars
  BY <1>7 DEF mutex_vars
<1> QED
  BY <1>1, <1>2, <1>3, <1>4, <1>5, <1>6, <1>7 DEF MutexNext, LockStep

\* A parked thread keeps a witness that it will be woken.
LEMMA WaiterStep ==
    MutexTypeOK /\ MutualExclusion /\ NoLostWaiter /\ [MutexNext]_mutex_vars
    => NoLostWaiter'
<1> SUFFICES ASSUME MutexTypeOK, MutualExclusion, NoLostWaiter,
                    [MutexNext]_mutex_vars
             PROVE  NoLostWaiter'
  OBVIOUS
<1> USE DEF MutexTypeOK, LockerPlaces, LockerAt, NoLostWaiter
<1>1. ASSUME NEW t \in Lockers, Call(t) \/ TryLock(t) \/ TryLockFails(t)
                                \/ SlowLoad(t)
      PROVE  NoLostWaiter'
  BY <1>1 DEF Call, TryLock, TryLockFails, SlowLoad
<1>2. ASSUME NEW t \in Lockers, SlowWait(t) \/ SlowWake(t)
      PROVE  NoLostWaiter'
  BY <1>2 DEF SlowWait, SlowWake
<1>3. ASSUME NEW t \in Lockers, SlowSwap(t) \/ Unlock(t) PROVE NoLostWaiter'
  BY <1>3 DEF SlowSwap, Unlock
<1>4. ASSUME NEW t \in Lockers, WakeOne(t) PROVE NoLostWaiter'
  <2>1. ASSUME NEW u \in Lockers, at[u] = "parked",
               at' = [at EXCEPT ![t] = "out", ![u] = "swap"]
        PROVE  NoLostWaiter'
    <3>1. at'[u] = "swap"
      BY <2>1
    <3> QED
      BY <3>1
  <2>2. ASSUME \A u \in Lockers : at[u] # "parked", LockerAt(t, "out") PROVE NoLostWaiter'
    BY <2>2
  <2> QED
    BY <1>4, <2>1, <2>2 DEF WakeOne
<1>5. CASE UNCHANGED mutex_vars
  BY <1>5 DEF mutex_vars
<1> QED
  BY <1>1, <1>2, <1>3, <1>4, <1>5 DEF MutexNext, LockStep

\* lock()/unlock() exclude each other and forget no parked thread.
LEMMA MutexInvariance == MutexSafeSpec => []MutexInv
<1>1. MutexInit => MutexInv
  BY DEF MutexInit, MutexInv, MutexTypeOK, LockerPlaces, MutualExclusion, NoLostWaiter
<1>2. MutexInv /\ [MutexNext]_mutex_vars => MutexInv'
  BY MutexTypes, ExclusionStep, WaiterStep DEF MutexInv
<1> QED
  BY <1>1, <1>2, PTL DEF MutexSafeSpec

\* At most one thread is between Mutex::lock and Mutex::unlock.
THEOREM Exclusion == MutexSafeSpec => []MutualExclusion
  BY MutexInvariance, PTL DEF MutexInv

\* A thread parked in lock_slow is known to the word or to a running thread.
THEOREM WaiterNotLost == MutexSafeSpec => []NoLostWaiter
  BY MutexInvariance, PTL DEF MutexInv

-----------------------------------------------------------------------------
\* Every behaviour of the futex mutex is one of the abstract lock.
THEOREM MutexIsLock == MutexSafeSpec => Abstract!SafeSpec
<1> DEFINE H == IF Holders = {} THEN Nobody ELSE CHOOSE t \in Holders : TRUE
           W == {t \in Lockers : at[t] \in {"try", "slow", "futex", "parked", "swap"}}
<1>1. MutexInit => Abstract!Init
  BY DEF MutexInit, Abstract!Init, Holders
<1>2. MutexInv /\ MutexInv' /\ [MutexNext]_mutex_vars
      => [Abstract!Next]_(Abstract!vars)
  <2> SUFFICES ASSUME MutexInv, MutexInv', [MutexNext]_mutex_vars
               PROVE  [Abstract!Next]_(Abstract!vars)
    OBVIOUS
  <2> USE MutexAssumption DEF MutexInv, MutexTypeOK, LockerPlaces, LockerAt
  <2>1. ASSUME NEW t \in Lockers, at[t] = "held" PROVE H = t /\ Holders = {t}
    BY <2>1 DEF MutualExclusion, Holders
  <2>2. ASSUME NEW t \in Lockers, at'[t] = "held" PROVE H' = t /\ Holders' = {t}
    BY <2>2 DEF MutualExclusion, Holders
  <2>3. ASSUME \A t \in Lockers : at[t] # "held" PROVE H = Nobody
    BY <2>3 DEF Holders
  <2>4. ASSUME \A t \in Lockers : at'[t] # "held" PROVE H' = Nobody
    BY <2>4 DEF Holders
  <2>5. ASSUME Holders' = Holders PROVE H' = H
    BY <2>5
  <2> HIDE DEF H
  <2> USE DEF Holders
  <2>6. ASSUME NEW t \in Lockers, Call(t)
        PROVE  Abstract!Want(t) \/ UNCHANGED <<H, W>>
    <3>1. Holders' = Holders
      BY <2>6 DEF Call
    <3>2. H # t
      <4>1. CASE \A u \in Lockers : at[u] # "held"
        BY <4>1, <2>3
      <4>2. ASSUME NEW u \in Lockers, at[u] = "held" PROVE H # t
        BY <4>2, <2>1, <2>6 DEF Call
      <4> QED
        BY <4>1, <4>2
    <3> QED
      BY <2>6, <2>5, <3>1, <3>2 DEF Call, Abstract!Want, H
  <2>7. ASSUME NEW t \in Lockers, TryLock(t)
        PROVE  Abstract!Acquire(t) \/ Abstract!TryAcquire(t)
    <3>1. H = Nobody
      BY <2>7, <2>3 DEF TryLock, MutualExclusion
    <3>2. H' = t
      BY <2>7, <2>2 DEF TryLock
    <3> QED
      BY <2>7, <3>1, <3>2 DEF TryLock, Abstract!Acquire, Abstract!TryAcquire, H
  <2>8. ASSUME NEW t \in Lockers,
               TryLockFails(t) \/ SlowLoad(t) \/ SlowWait(t)
               \/ SlowWake(t)
        PROVE  UNCHANGED <<H, W>>
    <3>1. Holders' = Holders /\ W' = W
      BY <2>8 DEF TryLockFails, SlowLoad, SlowWait, SlowWake
    <3> QED
      BY <2>5, <3>1
  <2>9. ASSUME NEW t \in Lockers, SlowSwap(t)
        PROVE  Abstract!Acquire(t) \/ UNCHANGED <<H, W>>
    <3>1. CASE state = "UNLOCKED"
      <4>1. H = Nobody
        BY <3>1, <2>3 DEF MutualExclusion
      <4>2. H' = t
        BY <2>9, <3>1, <2>2 DEF SlowSwap
      <4> QED
        BY <2>9, <3>1, <4>1, <4>2 DEF SlowSwap, Abstract!Acquire, H
    <3>2. CASE state # "UNLOCKED"
      <4>1. Holders' = Holders /\ W' = W
        BY <2>9, <3>2 DEF SlowSwap
      <4> QED
        BY <2>5, <4>1
    <3> QED
      BY <3>1, <3>2
  <2>10. ASSUME NEW t \in Lockers, Unlock(t) PROVE Abstract!Release(t)
    <3>1. H = t
      BY <2>10, <2>1 DEF Unlock
    <3>2. H' = Nobody
      BY <2>10, <2>4 DEF Unlock, MutualExclusion
    <3> QED
      BY <2>10, <3>1, <3>2 DEF Unlock, Abstract!Release, H
  <2>11. ASSUME NEW t \in Lockers, WakeOne(t) PROVE UNCHANGED <<H, W>>
    <3>1. Holders' = Holders /\ W' = W
      BY <2>11 DEF WakeOne
    <3> QED
      BY <2>5, <3>1
  <2>12. ASSUME UNCHANGED mutex_vars PROVE UNCHANGED <<H, W>>
    <3>1. Holders' = Holders /\ W' = W
      BY <2>12 DEF mutex_vars
    <3> QED
      BY <2>5, <3>1
  <2>13. \/ \E t \in Lockers : \/ Abstract!Want(t) \/ Abstract!Acquire(t)
                               \/ Abstract!TryAcquire(t) \/ Abstract!Release(t)
         \/ UNCHANGED <<H, W>>
    <3> HIDE DEF W, MutexTypeOK, LockerPlaces, LockerAt, Holders, MutexInv
    <3>1. CASE UNCHANGED mutex_vars
      BY <3>1, <2>12
    <3>2. CASE MutexNext
      BY <3>2, <2>6, <2>7, <2>8, <2>9, <2>10, <2>11 DEF MutexNext, LockStep
    <3> QED
      BY <3>1, <3>2
  <2> QED
    BY <2>13 DEF Abstract!Next, Abstract!vars, H
<1> QED
  BY <1>1, <1>2, MutexInvariance, PTL DEF MutexSafeSpec, Abstract!SafeSpec
-----------------------------------------------------------------------------
(* WaitGroup *)

USE GroupAssumption

\* Who holds the mutex is told by where it is.
MutexDiscipline ==
    /\ \A t \in Tasks : stage[t] \in {"sub", "signal", "unlock"} <=> mutex = t
    /\ stage[Owner] \in {"check", "unlock"} <=> mutex = Owner

\* The owner leaves wait() only with a count of zero, and nobody is left to
\* raise it.
ZeroOnReturn == stage[Owner] \in {"unlock", "returned", "freed"} => raw_count = 0

GroupInv ==
    /\ GroupTypeOK
    /\ CountExact
    /\ MutexDiscipline
    /\ ZeroOnReturn
    /\ FinishedBeforeReturn

\* A count of zero means that no task is outstanding.
LEMMA ZeroMeansNone ==
    ASSUME GroupTypeOK, CountExact
    PROVE  /\ IsFiniteSet(Outstanding)
           /\ raw_count = 0 => \A t \in Tasks : stage[t] \notin {"run", "lock", "sub"}
<1>1. IsFiniteSet(Outstanding)
  BY FS_Subset DEF Outstanding
<1>2. Cardinality(Outstanding) = 0 => Outstanding = {}
  BY <1>1, FS_EmptySet
<1> QED
  BY <1>1, <1>2 DEF CountExact, Outstanding

\* A task that has not counted itself out makes the count positive.
LEMMA OutstandingPositive ==
    ASSUME GroupTypeOK, CountExact,
           NEW t \in Tasks, stage[t] \in {"run", "lock", "sub"}
    PROVE  raw_count > 0
  BY ZeroMeansNone DEF GroupTypeOK

\* AddOne adds the task to the outstanding ones.
LEMMA CountUp ==
    ASSUME GroupTypeOK, CountExact, NEW t \in Tasks,
           t \notin Outstanding,
           raw_count' = raw_count + 1, Outstanding' = Outstanding \union {t}
    PROVE  CountExact'
  BY ZeroMeansNone, FS_AddElement DEF CountExact

\* A decrement takes the task out of them.
LEMMA CountDown ==
    ASSUME GroupTypeOK, CountExact, NEW t \in Tasks,
           t \in Outstanding,
           raw_count' = raw_count - 1, Outstanding' = Outstanding \ {t}
    PROVE  CountExact'
  BY ZeroMeansNone, FS_RemoveElement DEF CountExact

\* The other steps leave both alone.
LEMMA CountSame ==
    ASSUME CountExact, raw_count' = raw_count, Outstanding' = Outstanding
    PROVE  CountExact'
  BY DEF CountExact

\* One step of the group preserves the invariant.
LEMMA GroupStep == GroupInv /\ [GroupNext]_group_vars => GroupInv'
<1> SUFFICES ASSUME GroupInv, [GroupNext]_group_vars PROVE GroupInv'
  OBVIOUS
<1> USE DEF Procs
<1> DEFINE Rest == GroupTypeOK' /\ MutexDiscipline' /\ ZeroOnReturn' /\ FinishedBeforeReturn'
<1>0. GroupTypeOK /\ CountExact
  BY DEF GroupInv
<1>z. raw_count = 0 => \A t \in Tasks : stage[t] \notin {"run", "lock", "sub"}
  BY <1>0, ZeroMeansNone
<1>1. ASSUME NEW p \in Procs, NEW t \in Tasks, AddOne(p, t) PROVE GroupInv'
  <2>1. raw_count > 0 \/ stage[Owner] = "adding"
    BY <1>0, <1>1, <1>z DEF AddOne, GroupTypeOK, TaskPCs, OwnerPCs
  <2>2. CountExact'
    BY <1>0, <1>1, CountUp DEF AddOne, Stage, Outstanding, GroupTypeOK
  <2>3. Rest
    BY <1>1, <2>1 DEF AddOne, Stage, GroupInv, GroupTypeOK, MutexDiscipline,
                      ZeroOnReturn,
                      FinishedBeforeReturn, TaskPCs, OwnerPCs
  <2> QED
    BY <2>2, <2>3 DEF GroupInv
<1>2. ASSUME NEW t \in Tasks, FinishFast(t) PROVE GroupInv'
  <2>1. CountExact'
    BY <1>0, <1>2, CountDown DEF FinishFast, Stage, Outstanding, GroupTypeOK
  <2>2. Rest
    BY <1>2 DEF FinishFast, Stage, GroupInv, GroupTypeOK, MutexDiscipline, ZeroOnReturn,
                FinishedBeforeReturn, TaskPCs, OwnerPCs
  <2> QED
    BY <2>1, <2>2 DEF GroupInv
<1>3. ASSUME NEW t \in Tasks, FinishSlow(t) PROVE GroupInv'
  <2>1. CountExact'
    BY <1>0, <1>3, CountSame DEF FinishSlow, Stage, Outstanding, GroupTypeOK
  <2>2. Rest
    BY <1>3 DEF FinishSlow, Stage, GroupInv, GroupTypeOK, MutexDiscipline, ZeroOnReturn,
                FinishedBeforeReturn, TaskPCs, OwnerPCs
  <2> QED
    BY <2>1, <2>2 DEF GroupInv
<1>4. ASSUME NEW t \in Tasks, FinishLock(t) PROVE GroupInv'
  <2>1. CountExact'
    BY <1>0, <1>4, CountSame DEF FinishLock, Stage, Outstanding, GroupTypeOK
  <2>2. Rest
    BY <1>4 DEF FinishLock, Stage, GroupInv, GroupTypeOK, MutexDiscipline, ZeroOnReturn,
                FinishedBeforeReturn, TaskPCs, OwnerPCs
  <2> QED
    BY <2>1, <2>2 DEF GroupInv
<1>5. ASSUME NEW t \in Tasks, FinishSub(t) PROVE GroupInv'
  <2>1. raw_count > 0
    BY <1>0, <1>5, OutstandingPositive DEF FinishSub
  <2>2. CountExact'
    BY <1>0, <1>5, CountDown DEF FinishSub, Stage, Outstanding, GroupTypeOK
  <2>3. Rest
    BY <1>5, <2>1 DEF FinishSub, Stage, GroupInv, GroupTypeOK, MutexDiscipline,
                      ZeroOnReturn,
                      FinishedBeforeReturn, TaskPCs, OwnerPCs
  <2> QED
    BY <2>2, <2>3 DEF GroupInv
<1>6. ASSUME NEW t \in Tasks, FinishSignal(t) PROVE GroupInv'
  <2>1. CountExact'
    BY <1>0, <1>6, CountSame DEF FinishSignal, Outstanding, GroupTypeOK
  <2>2. Rest
    BY <1>6 DEF FinishSignal, GroupInv, GroupTypeOK, MutexDiscipline, ZeroOnReturn,
                FinishedBeforeReturn, TaskPCs, OwnerPCs
  <2> QED
    BY <2>1, <2>2 DEF GroupInv
<1>7. ASSUME NEW t \in Tasks, FinishUnlock(t) PROVE GroupInv'
  <2>1. CountExact'
    BY <1>0, <1>7, CountSame DEF FinishUnlock, Stage, Outstanding, GroupTypeOK
  <2>2. Rest
    BY <1>7 DEF FinishUnlock, Stage, GroupInv, GroupTypeOK, MutexDiscipline,
                ZeroOnReturn,
                FinishedBeforeReturn, TaskPCs, OwnerPCs
  <2> QED
    BY <2>1, <2>2 DEF GroupInv
<1>8. CASE BeginWait \/ WaitLock \/ WaitWake \/ Reuse
  <2>1. CountExact'
    BY <1>0, <1>8, CountSame DEF BeginWait, WaitLock, WaitWake,
                                 Reuse, Stage,
                                 Outstanding, GroupTypeOK
  <2>2. Rest
    BY <1>8 DEF BeginWait, WaitLock, WaitWake, Reuse, Stage,
                GroupInv, GroupTypeOK,
                MutexDiscipline, ZeroOnReturn, FinishedBeforeReturn, TaskPCs,
                OwnerPCs
  <2> QED
    BY <2>1, <2>2 DEF GroupInv
<1>9. CASE WaitCheck
  <2>1. CountExact'
    BY <1>0, <1>9, CountSame DEF WaitCheck, Stage, Outstanding, GroupTypeOK
  <2>2. Rest
    BY <1>9 DEF WaitCheck, Stage, GroupInv, GroupTypeOK, MutexDiscipline, ZeroOnReturn,
                FinishedBeforeReturn, TaskPCs, OwnerPCs
  <2> QED
    BY <2>1, <2>2 DEF GroupInv
\* The count is zero and the mutex is the owner's: no task is left inside.
<1>10. CASE WaitReturn
  <2>1. CountExact'
    BY <1>0, <1>10, CountSame DEF WaitReturn, Stage, Outstanding, GroupTypeOK
  <2>2. \A t \in Tasks : stage[t] \in {"none", "done"}
    BY <1>10, <1>z DEF WaitReturn, GroupInv, GroupTypeOK, MutexDiscipline, ZeroOnReturn,
                       TaskPCs
  <2>3. Rest
    BY <1>10, <2>2 DEF WaitReturn, Stage, GroupInv, GroupTypeOK, MutexDiscipline,
                       ZeroOnReturn,
                       FinishedBeforeReturn, TaskPCs, OwnerPCs
  <2> QED
    BY <2>1, <2>3 DEF GroupInv
<1>11. CASE Gone \/ UNCHANGED group_vars
  BY <1>11 DEF Gone, group_vars, GroupInv, GroupTypeOK, CountExact,
               Outstanding, MutexDiscipline,
               ZeroOnReturn, FinishedBeforeReturn
<1> QED
  BY <1>1, <1>2, <1>3, <1>4, <1>5, <1>6, <1>7, <1>8, <1>9, <1>10, <1>11
     DEF GroupNext, FinishStep, OwnerStep

\* The invariant holds throughout.
LEMMA GroupInvariance == GroupSafeSpec => []GroupInv
<1>1. GroupInit => GroupInv
  <2> SUFFICES ASSUME GroupInit PROVE GroupInv
    OBVIOUS
  <2>1. Outstanding = {}
    BY DEF GroupInit, Procs, Outstanding
  <2>2. CountExact
    BY <2>1, FS_EmptySet DEF GroupInit, CountExact
  <2> QED
    BY <2>2 DEF GroupInit, GroupInv, Procs, GroupTypeOK, TaskPCs, OwnerPCs,
                MutexDiscipline,
                                 ZeroOnReturn, FinishedBeforeReturn
<1>2. GroupInv /\ [GroupNext]_group_vars => GroupInv'
  BY GroupStep
<1> QED
  BY <1>1, <1>2, PTL DEF GroupSafeSpec

\* raw_count is the number of tasks that have yet to finish, so no fetch_sub
\* wraps it.
THEOREM Counting == GroupSafeSpec => []CountExact
  BY GroupInvariance, PTL DEF GroupInv

\* When wait() returns no finish_raw() will touch the group again.
THEOREM SafeToFree == GroupSafeSpec => []FinishedBeforeReturn
  BY GroupInvariance, PTL DEF GroupInv
=============================================================================
