-------------------------- MODULE RunBufferProofs --------------------------
(* What RunBuffer's run checks on a ring of a few slots, proved for every    *)
(* even capacity, every number of thieves and every start of the indices.    *)
(*                                                                           *)
(* First the arithmetic: indices that wrap are traded for positions that do  *)
(* not.  Then sequences without repetition.  Then the invariant, one lemma   *)
(* per action, and the theorems.                                             *)
EXTENDS RunBuffer, SequenceTheorems, TLAPS

(* Remainders *)

\* Arithmetic modulo n: a number below n is its own remainder,
LEMMA ModSmall ==
    ASSUME NEW n \in Nat \ {0}, NEW x \in 0..(n - 1)
    PROVE  x % n = x
BY SMT

\* ... one below 2n loses n,
LEMMA ModOnce ==
    ASSUME NEW n \in Nat \ {0}, NEW x \in n..(2 * n - 1)
    PROVE  x % n = x - n
BY SMT

\* ... a remainder is below n, and with the quotient it gives the number
\* back,
LEMMA ModRange ==
    ASSUME NEW n \in Nat \ {0}, NEW x \in Int
    PROVE  /\ x % n \in 0..(n - 1)
           /\ x \div n \in Int
           /\ x = n * (x \div n) + (x % n)
BY SMT

\* ... and there is only one such remainder.
LEMMA ModUnique ==
    ASSUME NEW n \in Nat \ {0}, NEW d \in Int, NEW r \in 0..(n - 1)
    PROVE  (n * d + r) % n = r
BY SMT

\* Multiples of n do not change the remainder.
LEMMA ModShift ==
    ASSUME NEW n \in Nat \ {0}, NEW x \in Int, NEW k \in Int
    PROVE  (x + n * k) % n = x % n
<1> DEFINE d == x \div n
           r == x % n
<1>1. d \in Int /\ r \in 0..(n - 1) /\ x = n * d + r
  BY ModRange
<1> HIDE DEF d, r
<1>2. x + n * k = n * (d + k) + r
  BY <1>1, SMT
<1>3. (n * (d + k) + r) % n = r
  <2>1. d + k \in Int
    BY <1>1
  <2> QED BY <2>1, <1>1, ModUnique
<1> QED BY <1>2, <1>3 DEF r

\* Numbers less than n apart have different remainders.
LEMMA ModApart ==
    ASSUME NEW n \in Nat \ {0}, NEW x \in Int, NEW y \in Int, x < y, y < x + n
    PROVE  x % n # y % n
<1> DEFINE d == x \div n
           e == y \div n
           r == x % n
<1> SUFFICES ASSUME r = y % n PROVE FALSE
  OBVIOUS
<1>1. d \in Int /\ r \in 0..(n - 1) /\ x = n * d + r
  BY ModRange
<1>2. e \in Int /\ y = n * e + r
  BY ModRange
<1> HIDE DEF d, r, e
<1>3. n * (e - d) = y - x
  BY <1>1, <1>2, SMT
<1>4. e - d \in Int
  BY <1>1, <1>2
<1>5. CASE e - d <= 0
  <2>1. n * (e - d) <= 0
    BY <1>4, <1>5, SMT
  <2> QED BY <2>1, <1>3
<1>6. CASE e - d >= 1
  <2>1. n * (e - d) >= n
    BY <1>4, <1>6, SMT
  <2> QED BY <2>1, <1>3
<1> QED BY <1>4, <1>5, <1>6

-----------------------------------------------------------------------------
(* Positions *)

\* An index counts from FirstIndex: its position, in which the wrap of the 32
\* bits does not show.  At is the index of a position, Place its slot.
Abs(i) == Minus(i, FirstIndex)
At(a) == Plus(FirstIndex, a)
Place(a) == (FirstIndex + a) % Capacity

\* What the assumption says of the constants, in the form the proofs use.
LEMMA Sizes ==
    /\ IndexSize \in Nat \ {0} /\ Capacity \in Nat \ {0}
    /\ FirstIndex \in Index
    /\ Tasks \in Nat /\ Tasks < IndexSize
    /\ \E k \in Int : IndexSize = Capacity * k
<1>1. IndexSize \in Nat \ {0} /\ Capacity \in Nat \ {0} /\ IndexSize % Capacity = 0
  BY BufferAssumption
<1>2. /\ IndexSize \div Capacity \in Int
      /\ IndexSize = Capacity * (IndexSize \div Capacity) + (IndexSize % Capacity)
  BY <1>1, ModRange
<1>3. IndexSize = Capacity * (IndexSize \div Capacity)
  <2> DEFINE k == IndexSize \div Capacity
  <2>1. k \in Int /\ IndexSize = Capacity * k + 0
    BY <1>1, <1>2
  <2> HIDE DEF k
  <2>2. IndexSize = Capacity * k
    BY <1>1, <2>1
  <2> QED BY <2>2 DEF k
<1> QED BY <1>1, <1>2, <1>3, BufferAssumption DEF Index

\* The position of an index.
LEMMA AbsValue ==
    ASSUME NEW i \in Index
    PROVE  /\ Abs(i) \in Index
           /\ Abs(i) = IF i >= FirstIndex THEN i - FirstIndex ELSE i - FirstIndex + IndexSize
           /\ At(Abs(i)) = i
<1>1. CASE i >= FirstIndex
  <2>1. i - FirstIndex + IndexSize \in IndexSize..(2 * IndexSize - 1)
    BY <1>1, Sizes DEF Index
  <2>2. Abs(i) = i - FirstIndex
    BY <2>1, ModOnce, Sizes DEF Abs, Minus, Index
  <2>3. FirstIndex + Abs(i) = i
    BY <2>2, Sizes DEF Index
  <2>4. At(Abs(i)) = i
    BY <2>3, ModSmall, Sizes DEF At, Plus, Index
  <2> QED BY <2>2, <2>4, <1>1, Sizes DEF Index
<1>2. CASE i < FirstIndex
  <2>1. i - FirstIndex + IndexSize \in 0..(IndexSize - 1)
    BY <1>2, Sizes DEF Index
  <2>2. Abs(i) = i - FirstIndex + IndexSize
    BY <2>1, ModSmall, Sizes DEF Abs, Minus, Index
  <2>3. FirstIndex + Abs(i) = i + IndexSize
    BY <2>2, Sizes DEF Index
  <2>4. At(Abs(i)) = i
    <3>1. i + IndexSize \in IndexSize..(2 * IndexSize - 1)
      BY Sizes DEF Index
    <3> QED BY <2>3, <3>1, ModOnce, Sizes DEF At, Plus, Index
  <2> QED BY <2>1, <2>2, <2>4, <1>2, Sizes DEF Index
<1> QED BY <1>1, <1>2, Sizes DEF Index

\* A position, its index and its slot belong together: the slots go round
\* with the indices because the capacity divides their number.
LEMMA AtValue ==
    ASSUME NEW a \in Index
    PROVE  /\ At(a) \in Index
           /\ Abs(At(a)) = a
           /\ At(a) % Capacity = Place(a)
           /\ Place(a) \in Slot
<1>0. Place(a) \in Slot
  BY ModRange, Sizes DEF Place, Index, Slot
<1>1. CASE FirstIndex + a < IndexSize
  <2>1. At(a) = FirstIndex + a
    BY <1>1, ModSmall, Sizes DEF At, Plus, Index
  <2>2. At(a) \in Index /\ At(a) >= FirstIndex /\ At(a) - FirstIndex = a
    BY <2>1, <1>1, Sizes DEF Index
  <2>3. At(a) % Capacity = Place(a)
    BY <2>1 DEF Place
  <2> QED BY <1>0, <2>2, <2>3, AbsValue
<1>2. CASE FirstIndex + a >= IndexSize
  <2>1. FirstIndex + a \in IndexSize..(2 * IndexSize - 1)
    BY <1>2, Sizes DEF Index
  <2>2. At(a) = FirstIndex + a - IndexSize
    BY <2>1, ModOnce, Sizes DEF At, Plus, Index
  <2>3. At(a) \in Index /\ At(a) < FirstIndex /\ At(a) - FirstIndex + IndexSize = a
    BY <2>2, <1>2, Sizes DEF Index
  <2>4. At(a) % Capacity = Place(a)
    <3>1. PICK k \in Int : IndexSize = Capacity * k
      BY Sizes
    <3>2. FirstIndex + a = At(a) + Capacity * k
      BY <3>1, <2>2, <2>3, Sizes DEF Index
    <3>3. At(a) \in Int /\ Capacity \in Nat \ {0}
      BY <2>3, Sizes DEF Index
    <3>4. (At(a) + Capacity * k) % Capacity = At(a) % Capacity
      BY ONLY <3>3, k \in Int, ModShift
    <3> QED BY <3>2, <3>4 DEF Place
  <2>5. ~(At(a) >= FirstIndex)
    BY <2>3, Sizes DEF Index
  <2> QED BY <1>0, <2>3, <2>4, <2>5, AbsValue
<1> QED BY <1>1, <1>2, Sizes DEF Index

\* wrapping_add moves a position forward, as long as it does not come round.
LEMMA PlusValue ==
    ASSUME NEW i \in Index, NEW n \in Nat, Abs(i) + n < IndexSize
    PROVE  /\ Plus(i, n) \in Index
           /\ Plus(i, n) = At(Abs(i) + n)
           /\ Abs(Plus(i, n)) = Abs(i) + n
           /\ Plus(i, n) % Capacity = Place(Abs(i) + n)
<1>0. Abs(i) \in Index /\ Abs(i) + n \in Index
  BY AbsValue, Sizes DEF Index
<1>1. CASE i >= FirstIndex
  <2>1. FirstIndex + (Abs(i) + n) = i + n
    BY AbsValue, <1>1, Sizes DEF Index
  <2>2. Plus(i, n) = At(Abs(i) + n)
    BY <2>1 DEF Plus, At
  <2> QED BY <1>0, <2>2, AtValue
<1>2. CASE i < FirstIndex
  <2>1. FirstIndex + (Abs(i) + n) = i + n + IndexSize
    BY AbsValue, <1>2, Sizes DEF Index
  <2>2. i + n \in 0..(IndexSize - 1)
    BY AbsValue, <1>2, Sizes DEF Index
  <2>3. Plus(i, n) = i + n
    BY <2>2, ModSmall, Sizes DEF Plus
  <2>4. At(Abs(i) + n) = i + n
    <3>1. i + n + IndexSize \in IndexSize..(2 * IndexSize - 1)
      BY <2>2, Sizes DEF Index
    <3> QED BY <3>1, <2>1, <2>2, ModOnce, Sizes DEF At, Plus, Index
  <2> QED BY <1>0, <2>3, <2>4, AtValue
<1> QED BY <1>1, <1>2, Sizes DEF Index

\* wrapping_sub of a later and an earlier index is the distance of their
\* positions; in the other order it wraps.
LEMMA MinusValue ==
    ASSUME NEW i \in Index, NEW j \in Index
    PROVE  Minus(i, j) = IF Abs(j) <= Abs(i) THEN Abs(i) - Abs(j)
                         ELSE Abs(i) - Abs(j) + IndexSize
<1>1. CASE i >= j
  <2>1. i - j + IndexSize \in IndexSize..(2 * IndexSize - 1)
    BY <1>1, Sizes DEF Index
  <2>2. Minus(i, j) = i - j
    BY <2>1, ModOnce, Sizes DEF Minus, Index
  <2> QED BY <2>2, <1>1, AbsValue, Sizes DEF Index
<1>2. CASE i < j
  <2>1. i - j + IndexSize \in 0..(IndexSize - 1)
    BY <1>2, Sizes DEF Index
  <2>2. Minus(i, j) = i - j + IndexSize
    BY <2>1, ModSmall, Sizes DEF Minus, Index
  <2> QED BY <2>2, <1>2, AbsValue, Sizes DEF Index
<1> QED BY <1>1, <1>2, Sizes DEF Index

\* Minus(i, 1) is the previous position.
LEMMA BackValue ==
    ASSUME NEW i \in Index, Abs(i) >= 1
    PROVE  /\ Minus(i, 1) \in Index
           /\ Minus(i, 1) = At(Abs(i) - 1)
           /\ Abs(Minus(i, 1)) = Abs(i) - 1
           /\ Minus(i, 1) % Capacity = Place(Abs(i) - 1)
<1>0. Abs(i) \in Index /\ Abs(i) - 1 \in Index
  BY AbsValue, Sizes DEF Index
<1>1. FirstIndex + (Abs(i) - 1) = IF i >= FirstIndex THEN i - 1 ELSE i - 1 + IndexSize
  BY AbsValue, Sizes DEF Index
<1>2. Minus(i, 1) = At(Abs(i) - 1)
  <2>1. CASE i >= FirstIndex
    <3>1. i >= 1 /\ i - 1 + IndexSize \in IndexSize..(2 * IndexSize - 1)
      BY <2>1, AbsValue, Sizes DEF Index
    <3>2. Minus(i, 1) = i - 1
      BY <3>1, ModOnce, Sizes DEF Minus, Index
    <3>3. At(Abs(i) - 1) = i - 1
      BY <2>1, <1>1, <3>1, ModSmall, Sizes DEF At, Plus, Index
    <3> QED BY <3>2, <3>3
  <2>2. CASE ~(i >= FirstIndex)
    <3>1. FirstIndex + (Abs(i) - 1) = i - 1 + IndexSize
      BY <1>1, <2>2
    <3>2. i - 1 + IndexSize = (FirstIndex + (Abs(i) - 1))
      BY <3>1
    <3> QED BY <3>2 DEF Minus, At, Plus
  <2> QED BY <2>1, <2>2
<1> QED BY <1>0, <1>2, AtValue

\* Positions less than a capacity apart have slots of their own.
LEMMA PlacesApart ==
    ASSUME NEW a \in Int, NEW b \in Int, a < b, b < a + Capacity
    PROVE  Place(a) # Place(b)
<1>1. FirstIndex + a < FirstIndex + b /\ FirstIndex + b < FirstIndex + a + Capacity
  BY Sizes DEF Index
<1>2. FirstIndex + a \in Int /\ FirstIndex + b \in Int /\ Capacity \in Nat \ {0}
  BY Sizes DEF Index
<1> QED BY <1>1, <1>2, ModApart DEF Place

-----------------------------------------------------------------------------
(* Sequences without repetition *)

\* Two sequences without repetition that have nothing in common, joined.
LEMMA JoinedSeq ==
    ASSUME NEW S, NEW r \in Seq(S), NEW s \in Seq(S), IsInjective(r), IsInjective(s),
           \A x \in ToSet(r) : x \notin ToSet(s)
    PROVE  /\ r \o s \in Seq(S)
           /\ IsInjective(r \o s)
           /\ ToSet(r \o s) = ToSet(r) \union ToSet(s)
<1>1. /\ r \o s \in Seq(S) /\ Len(r \o s) = Len(r) + Len(s)
      /\ \A i \in 1..(Len(r) + Len(s)) :
            (r \o s)[i] = IF i <= Len(r) THEN r[i] ELSE s[i - Len(r)]
  BY ConcatProperties
<1>2. /\ DOMAIN r = 1..Len(r) /\ DOMAIN s = 1..Len(s)
      /\ DOMAIN (r \o s) = 1..(Len(r) + Len(s)) /\ Len(r) \in Nat /\ Len(s) \in Nat
  BY <1>1, LenProperties
<1> DEFINE j == r \o s
<1> HIDE DEF j
<1>3. \A i \in 1..(Len(r) + Len(s)) :
         \/ i \in 1..Len(r) /\ j[i] = r[i] /\ j[i] \in ToSet(r)
         \/ i - Len(r) \in 1..Len(s) /\ j[i] = s[i - Len(r)] /\ j[i] \in ToSet(s)
  <2> SUFFICES ASSUME NEW i \in 1..(Len(r) + Len(s))
               PROVE \/ i \in 1..Len(r) /\ j[i] = r[i] /\ j[i] \in ToSet(r)
                     \/ i - Len(r) \in 1..Len(s) /\ j[i] = s[i - Len(r)] /\ j[i] \in ToSet(s)
    OBVIOUS
  <2>1. CASE i <= Len(r)
    <3>1. i \in 1..Len(r) /\ j[i] = r[i]
      BY <2>1, <1>1, <1>2 DEF j
    <3> QED BY <3>1, <1>2 DEF ToSet
  <2>2. CASE i > Len(r)
    <3>1. i - Len(r) \in 1..Len(s) /\ j[i] = s[i - Len(r)]
      BY <2>2, <1>1, <1>2 DEF j
    <3> QED BY <3>1, <1>2 DEF ToSet
  <2> QED BY <2>1, <2>2, <1>2
<1>4. IsInjective(j)
  <2> SUFFICES ASSUME NEW a \in 1..(Len(r) + Len(s)), NEW b \in 1..(Len(r) + Len(s)),
                      j[a] = j[b]
               PROVE  a = b
    BY <1>2 DEF IsInjective, j
  <2>1. CASE a \in 1..Len(r) /\ j[a] = r[a] /\ b \in 1..Len(r) /\ j[b] = r[b]
    BY <2>1, <1>2 DEF IsInjective
  <2>2. CASE /\ a - Len(r) \in 1..Len(s) /\ j[a] = s[a - Len(r)]
             /\ b - Len(r) \in 1..Len(s) /\ j[b] = s[b - Len(r)]
    <3>1. a - Len(r) = b - Len(r)
      BY <2>2, <1>2 DEF IsInjective
    <3> QED BY <3>1, <1>2
  <2> QED BY <2>1, <2>2, <1>3
<1>5. ToSet(j) = ToSet(r) \union ToSet(s)
  <2>1. \A i \in 1..Len(r) : i \in 1..(Len(r) + Len(s)) /\ j[i] = r[i]
    BY <1>1, <1>2 DEF j
  <2>2. \A i \in 1..Len(s) : i + Len(r) \in 1..(Len(r) + Len(s)) /\ j[i + Len(r)] = s[i]
    BY <1>1, <1>2 DEF j
  <2>3. DOMAIN j = 1..(Len(r) + Len(s))
    BY <1>2 DEF j
  <2>4. ASSUME NEW x \in ToSet(j) PROVE x \in ToSet(r) \union ToSet(s)
    <3>1. PICK i \in 1..(Len(r) + Len(s)) : x = j[i]
      BY <2>3 DEF ToSet
    <3> QED BY <3>1, <1>3
  <2>5. ASSUME NEW x \in ToSet(r) PROVE x \in ToSet(j)
    BY <2>1, <2>3, <1>2 DEF ToSet
  <2>6. ASSUME NEW x \in ToSet(s) PROVE x \in ToSet(j)
    <3>1. PICK i \in 1..Len(s) : x = s[i]
      BY <1>2 DEF ToSet
    <3> QED BY <3>1, <2>2, <2>3 DEF ToSet
  <2> QED BY <2>4, <2>5, <2>6
<1> QED BY <1>1, <1>4, <1>5 DEF j

\* Head and tail of a sequence without repetition.
LEMMA SplitSeq ==
    ASSUME NEW S, NEW s \in Seq(S), s # <<>>, IsInjective(s)
    PROVE  /\ Head(s) \in S /\ Tail(s) \in Seq(S) /\ Len(s) >= 1 /\ Len(Tail(s)) = Len(s) - 1
           /\ IsInjective(Tail(s))
           /\ ToSet(s) = {Head(s)} \union ToSet(Tail(s))
           /\ Head(s) \notin ToSet(Tail(s))
<1>1. /\ Head(s) \in S /\ Tail(s) \in Seq(S) /\ Len(s) \in Nat /\ Len(s) >= 1
      /\ Len(Tail(s)) = Len(s) - 1
      /\ DOMAIN s = 1..Len(s) /\ DOMAIN Tail(s) = 1..(Len(s) - 1)
      /\ Head(s) = s[1]
      /\ \A i \in 1..(Len(s) - 1) : Tail(s)[i] = s[i + 1]
  OBVIOUS
<1>2. IsInjective(Tail(s))
  BY <1>1 DEF IsInjective
<1>3. Head(s) \notin ToSet(Tail(s))
  BY <1>1 DEF IsInjective, ToSet
<1>4. ToSet(s) = {Head(s)} \union ToSet(Tail(s))
  <2>1. ASSUME NEW x \in ToSet(s) PROVE x \in {Head(s)} \union ToSet(Tail(s))
    <3>1. PICK i \in 1..Len(s) : x = s[i]
      BY <1>1 DEF ToSet
    <3>2. CASE i = 1
      BY <3>1, <3>2, <1>1
    <3>3. CASE i # 1
      <4>1. i - 1 \in 1..(Len(s) - 1) /\ Tail(s)[i - 1] = s[i]
        BY <3>3, <1>1
      <4> QED BY <4>1, <3>1, <1>1 DEF ToSet
    <3> QED BY <3>2, <3>3
  <2>2. Head(s) \in ToSet(s)
    BY <1>1 DEF ToSet
  <2>3. ASSUME NEW x \in ToSet(Tail(s)) PROVE x \in ToSet(s)
    <3>1. PICK i \in 1..(Len(s) - 1) : x = Tail(s)[i]
      BY <1>1 DEF ToSet
    <3>2. i + 1 \in 1..Len(s)
      BY <1>1
    <3> QED BY <3>1, <3>2, <1>1 DEF ToSet
  <2> QED BY <2>1, <2>2, <2>3
<1> QED BY <1>1, <1>2, <1>3, <1>4

\* A function on 1..k is a sequence of length k.
LEMMA FunctionSeq ==
    ASSUME NEW S, NEW k \in Nat, NEW f \in [1..k -> S]
    PROVE  f \in Seq(S) /\ Len(f) = k
OBVIOUS

\* The sequence of one element.
LEMMA OneSeq ==
    ASSUME NEW S, NEW x \in S
    PROVE  <<x>> \in Seq(S) /\ IsInjective(<<x>>) /\ ToSet(<<x>>) = {x} /\ Len(<<x>>) = 1
BY DEF IsInjective, ToSet

\* The empty sequence.
LEMMA NoSeq ==
    IsInjective(<<>>) /\ ToSet(<<>>) = {} /\ \A S : <<>> \in Seq(S)
BY DEF IsInjective, ToSet

-----------------------------------------------------------------------------
(* The invariant *)

\* The task in the slot of a position, and the positions of head, tail and
\* the owner's copies of them.
Cell(a) == array[Place(a)]

H == Abs(head)
T == Abs(tail)
OH == Abs(ohead)
OT == Abs(otail)

\* Where the owner's stores end; they run ahead of tail while it fills slots.
\* How many slots below head the owner has claimed and not read yet.
Top == IF opc \in {"push", "refill"} THEN OT ELSE T
Claim == IF opc = "claim" THEN 1 ELSE IF opc = "migrate" THEN Capacity \div 2 ELSE 0

\* The positions whose slots hold a task that nobody was handed: what is
\* buffered, what the owner has stored and not published, what it has
\* claimed.
Live == (H..(Top - 1)) \union (OH..(OH + Claim - 1))

\* Who is ahead of whom.  Positions are bounded by the tasks scheduled so far
\* (fewer than IndexSize), so none of them comes round; the owner's copy of
\* head may be out of date but is close enough to tail for its sums to be
\* right.
Order ==
    /\ H <= T /\ T <= H + Capacity
    /\ Top + Len(list) < fresh
    /\ opc \in {"push", "store", "pop"} => OH <= H /\ T <= OH + Capacity
    /\ opc \in {"claim", "migrate"} => OH + Claim <= H
    /\ opc = "push" => T <= OT /\ OT <= OH + Capacity
    /\ opc = "store" => OT = T
    /\ opc = "pop" => OH < T
    /\ opc = "refill" => /\ H = T /\ T <= OT /\ OT <= T + Capacity
                         /\ OT - T + Len(list) \in 1..(Capacity + 1)
    /\ opc \in {"free", "pop", "claim"} => list = <<>>

\* What a thief remembers.  Its copy of head is never ahead of head, and as
\* long as head has not moved the slots it copied still hold what it copied:
\* the exchange of head that commits the steal is the proof.
Hunt(t) ==
    /\ tpc[t] \in {"head", "copy"} => Abs(thead[t]) <= H
    /\ tpc[t] = "head" => copied[t] = <<>>
    /\ tpc[t] = "copy" =>
          /\ Abs(thead[t]) < Abs(ttail[t]) /\ Abs(ttail[t]) <= T
          /\ Abs(ttail[t]) <= Abs(thead[t]) + Capacity
          /\ Len(copied[t]) <= StealSize(t)
          /\ head = thead[t] => \A i \in 1..Len(copied[t]) : copied[t][i] = Cell(H + i - 1)

\* So for every thief.
Stealing == \A t \in Thieves : Hunt(t)

\* Every task scheduled so far is in exactly one place: a live slot, the
\* owner's list, or the history of tasks handed out.
Placed ==
    /\ \A a, b \in Live : Cell(a) = Cell(b) => a = b
    /\ \A a \in Live : /\ Cell(a) \in 1..(fresh - 1)
                       /\ Cell(a) \notin ToSet(list) /\ Cell(a) \notin ToSet(taken)
    /\ IsInjective(list) /\ IsInjective(taken)
    /\ \A n \in ToSet(list) : n \in 1..(fresh - 1) /\ n \notin ToSet(taken)
    /\ \A n \in ToSet(taken) : n \in 1..(fresh - 1)
    /\ \A n \in 1..(fresh - 1) : \/ n \in ToSet(list) \/ n \in ToSet(taken)
                                 \/ \E a \in Live : n = Cell(a)

\* The inductive invariant.
Inv == TypeOK /\ Order /\ Stealing /\ Placed

\* Positions are numbers below IndexSize.
LEMMA Positions ==
    ASSUME TypeOK, Order
    PROVE  /\ H \in Nat /\ T \in Nat /\ OH \in Nat /\ OT \in Nat
           /\ H < IndexSize /\ T < IndexSize /\ OH < IndexSize /\ OT < IndexSize
           /\ Top \in {T, OT} /\ Len(list) \in Nat
           /\ fresh \in Nat /\ fresh <= IndexSize /\ Capacity \in Nat /\ Capacity >= 1
           /\ Claim \in Nat
<1>1. H \in Index /\ T \in Index /\ OH \in Index /\ OT \in Index
  BY AbsValue DEF TypeOK, H, T, OH, OT
<1>2. fresh \in Nat /\ fresh <= IndexSize /\ Capacity \in Nat /\ Capacity >= 1
  BY Sizes DEF TypeOK
<1>3. Len(list) \in Nat
  BY DEF TypeOK
<1>4. Claim \in Nat
  BY Sizes DEF Claim
<1> QED BY <1>1, <1>2, <1>3, <1>4, Sizes DEF Index, Top

\* Two indices are equal when their positions are.
LEMMA SamePlace ==
    ASSUME NEW i \in Index, NEW j \in Index, Abs(i) = Abs(j)
    PROVE  i = j
BY AbsValue

\* Steps that leave the contents alone.
LEMMA PlacedKept ==
    ASSUME Placed, Live' = Live, array' = array, UNCHANGED <<list, taken, fresh>>
    PROVE  Placed'
<1>1. \A a : Cell(a)' = Cell(a)
  BY DEF Cell
<1> QED BY <1>1 DEF Placed

\* Steps that take tasks out: s lists those of the places given up and of the
\* tasks that leave the owner's list.
LEMMA PlacedTaken ==
    ASSUME TypeOK, Placed, NEW s \in Seq(0..Tasks), IsInjective(s),
           taken' = taken \o s,
           \A a \in Live' : a \in Live,
           IsInjective(list'), \A n \in ToSet(list') : n \in ToSet(list),
           \A n \in ToSet(s) : \/ n \in ToSet(list) /\ n \notin ToSet(list')
                               \/ \E a \in Live : a \notin Live' /\ n = Cell(a),
           \A n \in ToSet(list) : n \in ToSet(list') \/ n \in ToSet(s),
           \A a \in Live : a \in Live' \/ Cell(a) \in ToSet(s),
           array' = array, fresh' = fresh
    PROVE  Placed' /\ taken' \in Seq(0..Tasks)
<1>1. \A a : Cell(a)' = Cell(a)
  BY DEF Cell
<1>2. \A n \in ToSet(taken) : n \notin ToSet(s)
  BY DEF Placed
<1>3. taken \in Seq(0..Tasks) /\ IsInjective(taken)
  BY DEF TypeOK, Placed
<1>4. /\ taken' \in Seq(0..Tasks) /\ IsInjective(taken')
      /\ ToSet(taken') = ToSet(taken) \union ToSet(s)
  BY <1>2, <1>3, JoinedSeq
<1>5. \A a, b \in Live' : Cell(a)' = Cell(b)' => a = b
  BY <1>1 DEF Placed
<1>6. \A a \in Live' : Cell(a) \notin ToSet(s)
  BY DEF Placed
<1>7. \A a \in Live' : /\ Cell(a)' \in 1..(fresh' - 1)
                       /\ Cell(a)' \notin ToSet(list') /\ Cell(a)' \notin ToSet(taken')
  BY <1>1, <1>4, <1>6 DEF Placed
<1>8. \A n \in ToSet(list') : n \notin ToSet(s)
  BY DEF Placed
<1>9. \A n \in ToSet(list') : n \in 1..(fresh' - 1) /\ n \notin ToSet(taken')
  BY <1>4, <1>8 DEF Placed
<1>10. \A n \in ToSet(taken') : n \in 1..(fresh' - 1)
  BY <1>4 DEF Placed
<1>11. \A n \in 1..(fresh' - 1) : \/ n \in ToSet(list') \/ n \in ToSet(taken')
                                  \/ \E a \in Live' : n = Cell(a)'
  BY <1>1, <1>4 DEF Placed
<1>12. ToSet(list)' = ToSet(list') /\ ToSet(taken)' = ToSet(taken')
      /\ IsInjective(list)' /\ IsInjective(taken)'
  BY <1>4 DEF ToSet, IsInjective
<1> QED BY <1>4, <1>5, <1>7, <1>9, <1>10, <1>11, <1>12 DEF Placed

-----------------------------------------------------------------------------
\* What a thief knows survives a step of the owner that only moves the indices
\* forward and overwrites no place between head and tail.
LEMMA HuntKept ==
    ASSUME TypeOK, Order, Stealing, UNCHANGED thiefVars, head' \in Index, H' \in Int, T' \in Int,
           H <= H', T <= T',
           head' = head => \A a \in H..(T - 1) : Cell(a)' = Cell(a)
    PROVE  Stealing'
<1> SUFFICES ASSUME NEW t \in Thieves PROVE Hunt(t)'
  BY DEF Stealing
<1>1. /\ tpc' = tpc /\ thead' = thead /\ ttail' = ttail /\ copied' = copied
      /\ StealSize(t)' = StealSize(t)
  BY DEF thiefVars, StealSize
<1>2. Hunt(t)
  BY DEF Stealing
<1>3. /\ thead[t] \in Index /\ ttail[t] \in Index /\ head \in Index
      /\ Abs(thead[t]) \in Int /\ Abs(ttail[t]) \in Int
      /\ H \in Int /\ T \in Int
  <2>1. thead[t] \in Index /\ ttail[t] \in Index /\ head \in Index
    BY DEF TypeOK
  <2>2. Abs(thead[t]) \in Index /\ Abs(ttail[t]) \in Index
    BY <2>1, AbsValue
  <2> QED BY <2>1, <2>2, Positions DEF Index
<1>4. ASSUME tpc[t] = "copy", head' = thead[t]
      PROVE  /\ head' = head
             /\ \A i \in 1..Len(copied[t]) : copied[t][i] = Cell(H + i - 1)'
  <2>1. Abs(thead[t]) = H'
    BY <1>4 DEF H
  <2>2. H' = H
    BY <2>1, <1>2, <1>3, <1>4 DEF Hunt
  <2>3. head' = head
    BY <2>2, <1>3, SamePlace DEF H
  <2>4. \A i \in 1..Len(copied[t]) : copied[t][i] = Cell(H + i - 1)
    BY <2>3, <1>2, <1>4 DEF Hunt
  <2>5. Len(copied[t]) \in Nat /\ Len(copied[t]) <= T - H
    <3>1. Minus(ttail[t], thead[t]) = Abs(ttail[t]) - Abs(thead[t])
      BY MinusValue, <1>2, <1>3, <1>4 DEF Hunt
    <3>2. Abs(ttail[t]) - Abs(thead[t]) \in Nat /\ Abs(thead[t]) = H
      BY <2>1, <2>2, <1>2, <1>3, <1>4 DEF Hunt
    <3>3. StealSize(t) <= Abs(ttail[t]) - Abs(thead[t])
      BY <3>1, <3>2 DEF StealSize
    <3>4. Len(copied[t]) \in Nat /\ StealSize(t) \in Int
      BY <3>1, <3>2 DEF TypeOK, StealSize
    <3> QED BY <3>2, <3>3, <3>4, <1>2, <1>3, <1>4 DEF Hunt
  <2>6. \A i \in 1..Len(copied[t]) : H + i - 1 \in H..(T - 1)
    BY <2>5, <1>3
  <2>7. \A i \in 1..Len(copied[t]) : Cell(H + i - 1)' = Cell(H + i - 1)
    BY <2>2, <2>3, <2>6 DEF Cell
  <2> QED BY <2>3, <2>4, <2>7
<1>5. tpc[t] \in {"head", "copy"} => Abs(thead[t]) <= H'
  BY <1>2, <1>3 DEF Hunt
<1>6. tpc[t] = "copy" => Abs(ttail[t]) <= T'
  BY <1>2, <1>3 DEF Hunt
<1> QED BY <1>1, <1>2, <1>4, <1>5, <1>6 DEF Hunt

-----------------------------------------------------------------------------
(* The steps of the owner *)

\* The next n tasks are new.
LEMMA BatchValue ==
    ASSUME TypeOK, NEW n \in 1..Tasks, fresh + n <= Tasks + 1
    PROVE  /\ Batch(n) \in Seq(1..Tasks) /\ Len(Batch(n)) = n /\ IsInjective(Batch(n))
           /\ ToSet(Batch(n)) = fresh..(fresh + n - 1)
<1>1. n \in Nat /\ fresh \in Nat /\ fresh >= 1 /\ Tasks \in Nat
  BY Sizes DEF TypeOK
<1>2. Batch(n) \in [1..n -> 1..Tasks]
  BY <1>1 DEF Batch
<1>3. Batch(n) \in Seq(1..Tasks) /\ Len(Batch(n)) = n /\ DOMAIN Batch(n) = 1..n
  BY <1>1, <1>2 DEF Batch
<1>4. IsInjective(Batch(n))
  BY <1>1, <1>3 DEF Batch, IsInjective
<1>5. ToSet(Batch(n)) = fresh..(fresh + n - 1)
  <2>1. ASSUME NEW x \in ToSet(Batch(n)) PROVE x \in fresh..(fresh + n - 1)
    BY <1>1, <1>3 DEF Batch, ToSet
  <2>2. ASSUME NEW x \in fresh..(fresh + n - 1) PROVE x \in ToSet(Batch(n))
    <3>1. x - fresh + 1 \in 1..n /\ Batch(n)[x - fresh + 1] = x
      BY <1>1 DEF Batch
    <3> QED BY <3>1, <1>3 DEF ToSet
  <2> QED BY <2>1, <2>2
<1> QED BY <1>3, <1>4, <1>5

\* A batch of new tasks in the owner's list.
LEMMA PlacedBatch ==
    ASSUME TypeOK, Placed, NEW n \in 1..Tasks, fresh + n <= Tasks + 1,
           list = <<>>, list' = Batch(n), fresh' = fresh + n,
           Live' = Live, array' = array, taken' = taken
    PROVE  Placed'
<1>1. \A a : Cell(a)' = Cell(a)
  BY DEF Cell
<1>2. /\ IsInjective(list') /\ ToSet(list') = fresh..(fresh + n - 1)
      /\ fresh \in Nat /\ n \in Nat /\ n >= 1 /\ fresh >= 1
  BY BatchValue DEF TypeOK
<1>3. ToSet(list) = {}
  BY NoSeq
<1>4. \A m \in 1..(fresh' - 1) : m \in 1..(fresh - 1) \/ m \in ToSet(list')
  BY <1>2
<1>5. \A m \in 1..(fresh - 1) : m \in 1..(fresh' - 1) /\ m \notin ToSet(list')
  BY <1>2
<1>6. \A m \in ToSet(list') : m \in 1..(fresh' - 1) /\ m \notin 1..(fresh - 1)
  BY <1>2
<1>7. /\ ToSet(list)' = ToSet(list') /\ ToSet(taken)' = ToSet(taken)
      /\ IsInjective(list)' /\ IsInjective(taken)'
  BY <1>2 DEF ToSet, IsInjective, Placed
<1> QED BY <1>1, <1>3, <1>4, <1>5, <1>6, <1>7 DEF Placed

\* push begins.
LEMMA BeginPushStep ==
    ASSUME Inv, NEW n \in 1..Tasks, BeginPush(n)
    PROVE  Inv'
<1> USE DEF Inv
<1>1. /\ opc = "free" /\ opc' = "push" /\ fresh + n <= Tasks + 1 /\ list' = Batch(n)
      /\ fresh' = fresh + n /\ UNCHANGED <<head, tail, array, thiefVars, taken>>
      /\ ohead' = head /\ otail' = tail
  BY DEF BeginPush, bufferVars
<1>2. list = <<>> /\ Len(list) = 0
  BY <1>1 DEF Order
<1>3. H' = H /\ T' = T /\ OH' = H /\ OT' = T
  BY <1>1 DEF H, T, OH, OT
<1>4. TypeOK'
  BY <1>1, BatchValue, Sizes DEF TypeOK, OwnerPCs, thiefVars
<1>5. Len(list') = n
  BY <1>1, BatchValue
<1>6. /\ H \in Nat /\ T \in Nat /\ OH \in Nat /\ fresh \in Nat /\ Top = T /\ Top' = T
      /\ Capacity \in Nat /\ n \in Nat
  BY Positions, <1>1, <1>3, Sizes DEF Top
<1>7. Order'
  BY <1>1, <1>2, <1>3, <1>5, <1>6 DEF Order
<1>8. Live' = Live
  BY <1>1, <1>3, <1>6 DEF Live, Claim
<1>9. Placed'
  BY <1>1, <1>2, <1>8, PlacedBatch
<1>10. Stealing'
  <2>1. \A a : Cell(a)' = Cell(a)
    BY <1>1 DEF Cell
  <2> QED BY <1>1, <1>3, <1>6, <2>1, HuntKept DEF TypeOK
<1> QED BY <1>4, <1>7, <1>9, <1>10

\* consume begins.
LEMMA BeginRefillStep ==
    ASSUME Inv, NEW n \in 1..Tasks, BeginRefill(n)
    PROVE  Inv'
<1> USE DEF Inv
<1>1. /\ opc = "free" /\ opc' = "refill" /\ fresh + n <= Tasks + 1 /\ list' = Batch(n)
      /\ n <= Capacity + 1 /\ head = tail
      /\ fresh' = fresh + n /\ UNCHANGED <<head, tail, array, ohead, thiefVars, taken>>
      /\ otail' = tail
  BY DEF BeginRefill, bufferVars
<1>2. list = <<>> /\ Len(list) = 0
  BY <1>1 DEF Order
<1>3. H' = H /\ T' = T /\ OH' = OH /\ OT' = T /\ H = T
  BY <1>1 DEF H, T, OH, OT
<1>4. TypeOK'
  BY <1>1, BatchValue, Sizes DEF TypeOK, OwnerPCs, thiefVars
<1>5. Len(list') = n
  BY <1>1, BatchValue
<1>6. /\ H \in Nat /\ T \in Nat /\ OH \in Nat /\ fresh \in Nat /\ Top = T /\ Top' = T
      /\ Capacity \in Nat /\ n \in Nat /\ n >= 1
  BY Positions, <1>1, <1>3, Sizes DEF Top
<1>7. Order'
  BY <1>1, <1>2, <1>3, <1>5, <1>6 DEF Order
<1>8. Live' = Live
  BY <1>1, <1>3, <1>6 DEF Live, Claim
<1>9. Placed'
  BY <1>1, <1>2, <1>8, PlacedBatch
<1>10. Stealing'
  <2>1. \A a : Cell(a)' = Cell(a)
    BY <1>1 DEF Cell
  <2> QED BY <1>1, <1>3, <1>6, <2>1, HuntKept DEF TypeOK
<1> QED BY <1>4, <1>7, <1>9, <1>10

\* push and consume store a node in the place after the last one.
LEMMA StoreStep ==
    ASSUME Inv, opc \in {"push", "refill"}, list # <<>>, OT < H + Capacity,
           array' = [array EXCEPT ![otail % Capacity] = Head(list)],
           list' = Tail(list), otail' = Plus(otail, 1),
           UNCHANGED <<head, tail, opc, ohead, thiefVars, taken, fresh>>
    PROVE  /\ TypeOK' /\ Stealing' /\ Placed'
           /\ H' = H /\ T' = T /\ OH' = OH /\ OT' = OT + 1 /\ Len(list') = Len(list) - 1
           /\ Len(list) >= 1
<1> USE DEF Inv
<1>1. /\ H \in Nat /\ T \in Nat /\ OH \in Nat /\ OT \in Nat /\ Top = OT /\ Capacity \in Nat
      /\ H <= T /\ T <= OT /\ Len(list) \in Nat /\ OT + Len(list) < fresh
      /\ fresh \in Nat /\ fresh <= IndexSize /\ Claim = 0
  BY Positions DEF Order, Top, Claim
<1>2. /\ Head(list) \in 1..Tasks /\ Tail(list) \in Seq(1..Tasks) /\ Len(list) >= 1
      /\ Len(Tail(list)) = Len(list) - 1 /\ IsInjective(Tail(list))
      /\ ToSet(list) = {Head(list)} \union ToSet(Tail(list))
      /\ Head(list) \notin ToSet(Tail(list))
  BY SplitSeq DEF TypeOK, Placed
<1>3. otail % Capacity = Place(OT) /\ Place(OT) \in Slot
  <2>1. At(Abs(otail)) = otail /\ Abs(otail) \in Index
    BY AbsValue DEF TypeOK
  <2> QED BY <2>1, AtValue DEF OT
<1>4. otail' \in Index /\ OT' = OT + 1
  <2>1. Abs(otail) + 1 < IndexSize /\ otail \in Index
    BY <1>1, <1>2, Sizes DEF OT, TypeOK
  <2> QED BY <2>1, PlusValue DEF OT
<1>5. H' = H /\ T' = T /\ OH' = OH
  BY DEF H, T, OH
<1>6. TypeOK'
  BY <1>2, <1>3, <1>4 DEF TypeOK, thiefVars
<1>7. \A a \in H..(OT - 1) : Cell(a)' = Cell(a)
  <2> SUFFICES ASSUME NEW a \in H..(OT - 1) PROVE Cell(a)' = Cell(a)
    OBVIOUS
  <2>1. a \in Int /\ a < OT /\ OT < a + Capacity
    BY <1>1
  <2>2. Place(a) # Place(OT)
    BY <2>1, <1>1, PlacesApart
  <2> QED BY <2>2, <1>3 DEF Cell, TypeOK
<1>9. array'[Place(OT)] = Head(list)
  BY <1>3 DEF TypeOK
<1>10. Live = H..(OT - 1) /\ Live' = H..OT
  <2>1. Top' = OT + 1 /\ Claim' = 0
    BY <1>4 DEF Top, Claim
  <2> QED BY <1>1, <1>5, <2>1 DEF Live
<1>11. Stealing'
  <2>1. \A a \in H..(T - 1) : a \in H..(OT - 1)
    BY <1>1
  <2> QED BY <1>1, <1>5, <1>7, <2>1, HuntKept DEF TypeOK
<1>12. Placed'
  <2> DEFINE New(a) == array'[Place(a)]
  <2>1. \A a \in H..(OT - 1) : New(a) = Cell(a) /\ a # OT
    BY <1>7, <1>1 DEF Cell
  <2>2. New(OT) = Head(list)
    BY <1>9
  <2> HIDE DEF New
  <2>3. \A a \in Live' : a = OT \/ a \in Live
    BY <1>10, <1>1
  <2>4. OT \in Live' /\ \A a \in Live : a \in Live' /\ New(a) = Cell(a)
    BY <1>10, <1>1, <2>1
  <2>5. \A a, b \in Live' : New(a) = New(b) => a = b
    BY <2>2, <2>3, <2>4, <1>2 DEF Placed
  <2>6. \A a \in Live' : /\ New(a) \in 1..(fresh - 1)
                         /\ New(a) \notin ToSet(Tail(list)) /\ New(a) \notin ToSet(taken)
    BY <2>2, <2>3, <2>4, <1>2 DEF Placed
  <2>7. \A n \in ToSet(Tail(list)) : n \in 1..(fresh - 1) /\ n \notin ToSet(taken)
    BY <1>2 DEF Placed
  <2>8. \A n \in 1..(fresh - 1) : \/ n \in ToSet(Tail(list)) \/ n \in ToSet(taken)
                                  \/ \E a \in Live' : n = New(a)
    BY <2>2, <2>4, <1>2 DEF Placed
  <2>9. \A a : Cell(a)' = New(a)
    BY DEF Cell, New
  <2>10. /\ ToSet(list)' = ToSet(Tail(list)) /\ ToSet(taken)' = ToSet(taken)
         /\ IsInjective(list)' /\ IsInjective(taken)'
    BY <1>2 DEF ToSet, IsInjective, Placed
  <2> QED BY <2>5, <2>6, <2>7, <2>8, <2>9, <2>10 DEF Placed
<1> QED BY <1>2, <1>4, <1>5, <1>6, <1>11, <1>12

\* push stores a node: the copy of head may be old, but head has only moved
\* on, so the slot is free.
LEMMA PushSlotStep ==
    ASSUME Inv, PushSlot
    PROVE  Inv'
<1> USE DEF Inv
<1>1. /\ H \in Nat /\ T \in Nat /\ OH \in Nat /\ OT \in Nat /\ Capacity \in Nat
      /\ opc = "push" /\ opc' = "push" /\ fresh' = fresh /\ fresh \in Nat
  BY Positions DEF PushSlot
<1>2. OT < OH + Capacity
  <2>1. Minus(otail, ohead) = OT - OH
    BY <1>1, MinusValue DEF Order, OT, OH, TypeOK
  <2> QED BY <2>1, <1>1 DEF PushSlot
<1>3. OT < H + Capacity
  BY <1>1, <1>2 DEF Order
<1>4. /\ TypeOK' /\ Stealing' /\ Placed'
      /\ H' = H /\ T' = T /\ OH' = OH /\ OT' = OT + 1 /\ Len(list') = Len(list) - 1
      /\ Len(list) >= 1
  BY <1>1, <1>3, StoreStep DEF PushSlot
<1>5. Top = OT /\ Top' = OT + 1 /\ Len(list) \in Nat
  BY <1>1, <1>4, Positions DEF Top
<1>6. Order'
  BY <1>1, <1>2, <1>4, <1>5 DEF Order
<1> QED BY <1>4, <1>6

\* consume stores a node behind an empty buffer.
LEMMA RefillSlotStep ==
    ASSUME Inv, RefillSlot
    PROVE  Inv'
<1> USE DEF Inv
<1>1. /\ H \in Nat /\ T \in Nat /\ OH \in Nat /\ OT \in Nat /\ Capacity \in Nat
      /\ opc = "refill" /\ opc' = "refill" /\ fresh' = fresh /\ fresh \in Nat
  BY Positions DEF RefillSlot
<1>2. OT < T + Capacity
  <2>1. Minus(otail, tail) = OT - T
    BY <1>1, MinusValue DEF Order, OT, T, TypeOK
  <2> QED BY <2>1, <1>1 DEF RefillSlot
<1>3. OT < H + Capacity
  BY <1>1, <1>2 DEF Order
<1>4. /\ TypeOK' /\ Stealing' /\ Placed'
      /\ H' = H /\ T' = T /\ OH' = OH /\ OT' = OT + 1 /\ Len(list') = Len(list) - 1
      /\ Len(list) >= 1
  BY <1>1, <1>3, StoreStep DEF RefillSlot
<1>5. Top = OT /\ Top' = OT + 1 /\ Len(list) \in Nat
  BY <1>1, <1>4, Positions DEF Top
<1>6. Order'
  BY <1>1, <1>2, <1>4, <1>5 DEF Order
<1> QED BY <1>4, <1>6

\* The store of tail publishes what was stored.
LEMMA PushTailStep ==
    ASSUME Inv, PushTail
    PROVE  Inv'
<1> USE DEF Inv
<1>1. /\ H \in Nat /\ T \in Nat /\ OH \in Nat /\ OT \in Nat /\ Capacity \in Nat
      /\ Len(list) \in Nat /\ fresh \in Nat
      /\ opc = "push" /\ opc' = IF list = <<>> THEN "free" ELSE "store"
      /\ tail' = otail
      /\ UNCHANGED <<head, array, ohead, otail, list, thiefVars, taken, fresh>>
  BY Positions DEF PushTail
<1>2. H' = H /\ T' = OT /\ OH' = OH /\ OT' = OT
  BY <1>1 DEF H, T, OH, OT
<1>3. TypeOK'
  BY <1>1 DEF TypeOK, OwnerPCs, thiefVars
<1>4. /\ H <= T /\ T <= OT /\ OT <= OH + Capacity /\ OH <= H /\ Top = OT /\ Top' = OT
      /\ OT + Len(list) < fresh
  BY <1>1, <1>2 DEF Order, Top
<1>5. Order'
  BY <1>1, <1>2, <1>4 DEF Order
<1>6. Live' = Live
  <2>1. Claim = 0 /\ Claim' = 0
    BY <1>1 DEF Claim
  <2> QED BY <1>2, <1>4, <2>1 DEF Live
<1>7. Placed'
  BY <1>1, <1>6, PlacedKept
<1>8. Stealing'
  <2>1. \A a : Cell(a)' = Cell(a)
    BY <1>1 DEF Cell
  <2> QED BY <1>1, <1>2, <1>4, <2>1, HuntKept DEF TypeOK
<1> QED BY <1>3, <1>5, <1>7, <1>8

\* The owner looks at head again.
LEMMA PushReloadStep ==
    ASSUME Inv, PushReload
    PROVE  Inv'
<1> USE DEF Inv
<1>1. /\ H \in Nat /\ T \in Nat /\ OH \in Nat /\ OT \in Nat /\ Capacity \in Nat
      /\ Len(list) \in Nat /\ fresh \in Nat
      /\ opc = "store" /\ opc' = "push" /\ ohead' = head
      /\ UNCHANGED <<head, tail, array, otail, list, thiefVars, taken, fresh>>
  BY Positions DEF PushReload, bufferVars
<1>2. H' = H /\ T' = T /\ OH' = H /\ OT' = OT
  BY <1>1 DEF H, T, OH, OT
<1>3. TypeOK'
  BY <1>1 DEF TypeOK, OwnerPCs, thiefVars
<1>4. /\ H <= T /\ T <= H + Capacity /\ OT = T /\ Top = T /\ Top' = OT
      /\ T + Len(list) < fresh
  BY <1>1, <1>2 DEF Order, Top
<1>5. Order'
  BY <1>1, <1>2, <1>4 DEF Order
<1>6. Live' = Live
  <2>1. Claim = 0 /\ Claim' = 0
    BY <1>1 DEF Claim
  <2> QED BY <1>1, <1>2, <1>4, <2>1 DEF Live
<1>7. Placed'
  BY <1>1, <1>6, PlacedKept
<1>8. Stealing'
  <2>1. \A a : Cell(a)' = Cell(a)
    BY <1>1 DEF Cell
  <2> QED BY <1>1, <1>2, <1>4, <2>1, HuntKept DEF TypeOK
<1> QED BY <1>3, <1>5, <1>7, <1>8

\* The exchange of head claims half a full buffer, or fails.
LEMMA PushMigrateStep ==
    ASSUME Inv, PushMigrate
    PROVE  Inv'
<1> USE DEF Inv
<1>1. /\ H \in Nat /\ T \in Nat /\ OH \in Nat /\ OT \in Nat /\ Capacity \in Nat
      /\ Len(list) \in Nat /\ fresh \in Nat /\ fresh <= IndexSize
      /\ opc = "push" /\ otail = tail
      /\ UNCHANGED <<tail, array, otail, list, thiefVars, taken, fresh>>
  BY Positions DEF PushMigrate
<1>2. T' = T /\ OT' = OT /\ OT = T
  BY <1>1 DEF T, OT
<1>3. /\ OH <= H /\ H <= T /\ T <= OH + Capacity /\ Top = T /\ T + Len(list) < fresh
      /\ T <= H + Capacity
  BY <1>1, <1>2 DEF Order, Top
<1>4. \A a : Cell(a)' = Cell(a)
  BY <1>1 DEF Cell
<1>5. CASE head = ohead
  <2>1. /\ head' = Plus(head, Capacity \div 2) /\ opc' = "migrate" /\ ohead' = ohead /\ H = OH
    BY <1>5 DEF PushMigrate, H, OH
  <2>2. T = H + Capacity
    <3>1. Minus(otail, ohead) = OT - OH
      BY <1>1, <1>2, <1>3, MinusValue DEF OT, OH, TypeOK
    <3> QED BY <3>1, <2>1, <1>1, <1>2 DEF PushMigrate
  <2>3. PICK h \in Nat : h = Capacity \div 2 /\ h <= Capacity
    BY <1>1
  <2>4. head' \in Index /\ H' = H + h
    <3>1. H + h < IndexSize
      BY <1>1, <1>3, <2>2, <2>3, Sizes
    <3>2. Abs(head) + h < IndexSize /\ head \in Index
      BY <3>1 DEF H, TypeOK
    <3> QED BY <3>2, <2>1, <2>3, PlusValue DEF H
  <2>5. OH' = OH /\ Claim' = h /\ Top' = T
    BY <1>2, <2>1, <2>3 DEF OH, Claim, Top
  <2>6. TypeOK'
    BY <1>1, <2>1, <2>4 DEF TypeOK, OwnerPCs, thiefVars
  <2>7. Order'
    BY <1>1, <1>2, <1>3, <2>1, <2>2, <2>3, <2>4, <2>5 DEF Order
  <2>8. Live' = Live
    <3>1. Claim = 0
      BY <1>1 DEF Claim
    <3> QED BY <1>1, <1>2, <1>3, <2>1, <2>2, <2>3, <2>4, <2>5, <3>1 DEF Live
  <2>9. Placed'
    BY <1>1, <2>8, PlacedKept
  <2>10. Stealing'
    BY <1>1, <1>2, <1>4, <2>3, <2>4, HuntKept
  <2> QED BY <2>6, <2>7, <2>9, <2>10
<1>6. CASE head # ohead
  <2>1. ohead' = head /\ head' = head /\ opc' = opc
    BY <1>6 DEF PushMigrate
  <2>2. H' = H /\ OH' = H
    BY <2>1 DEF H, OH
  <2>3. TypeOK'
    BY <1>1, <2>1 DEF TypeOK, thiefVars
  <2>4. Top' = T
    BY <1>1, <1>2, <2>1 DEF Top
  <2>5. Order'
    BY <1>1, <1>2, <1>3, <2>1, <2>2, <2>4 DEF Order
  <2>6. Live' = Live
    <3>1. Claim = 0 /\ Claim' = 0
      BY <1>1, <2>1 DEF Claim
    <3> QED BY <1>1, <1>3, <2>2, <2>4, <3>1 DEF Live
  <2>7. Placed'
    BY <1>1, <2>6, PlacedKept
  <2>8. Stealing'
    BY <1>1, <1>2, <1>4, <2>1, <2>2, HuntKept DEF TypeOK
  <2> QED BY <2>3, <2>5, <2>7, <2>8
<1> QED BY <1>5, <1>6

\* pop begins.
LEMMA BeginPopStep ==
    ASSUME Inv, BeginPop
    PROVE  Inv'
<1> USE DEF Inv
<1>1. /\ H \in Nat /\ T \in Nat /\ OH \in Nat /\ OT \in Nat /\ Capacity \in Nat
      /\ Len(list) \in Nat /\ fresh \in Nat
      /\ opc = "free" /\ opc' = "pop" /\ ohead' = head /\ head # tail
      /\ UNCHANGED <<head, tail, array, otail, list, thiefVars, taken, fresh>>
  BY Positions DEF BeginPop, bufferVars
<1>2. H' = H /\ T' = T /\ OH' = H /\ OT' = OT
  BY <1>1 DEF H, T, OH, OT
<1>3. TypeOK'
  BY <1>1 DEF TypeOK, OwnerPCs, thiefVars
<1>4. /\ H <= T /\ T <= H + Capacity /\ Top = T /\ Top' = T /\ T + Len(list) < fresh /\ list = <<>>
  BY <1>1, <1>2 DEF Order, Top
<1>5. H # T
  BY <1>1, SamePlace DEF H, T, TypeOK
<1>6. Order'
  BY <1>1, <1>2, <1>4, <1>5 DEF Order
<1>7. Live' = Live
  <2>1. Claim = 0 /\ Claim' = 0
    BY <1>1 DEF Claim
  <2> QED BY <1>1, <1>2, <1>4, <2>1 DEF Live
<1>8. Placed'
  BY <1>1, <1>7, PlacedKept
<1>9. Stealing'
  <2>1. \A a : Cell(a)' = Cell(a)
    BY <1>1 DEF Cell
  <2> QED BY <1>1, <1>2, <1>4, <2>1, HuntKept DEF TypeOK
<1> QED BY <1>3, <1>6, <1>8, <1>9

\* The exchange of head claims one slot, or fails.
LEMMA PopClaimStep ==
    ASSUME Inv, PopClaim
    PROVE  Inv'
<1> USE DEF Inv
<1>1. /\ H \in Nat /\ T \in Nat /\ OH \in Nat /\ OT \in Nat /\ Capacity \in Nat
      /\ Len(list) \in Nat /\ fresh \in Nat /\ T < IndexSize
      /\ opc = "pop"
      /\ UNCHANGED <<tail, array, otail, list, thiefVars, taken, fresh>>
  BY Positions DEF PopClaim
<1>2. T' = T /\ OT' = OT
  BY <1>1 DEF T, OT
<1>3. /\ OH <= H /\ H <= T /\ T <= OH + Capacity /\ Top = T /\ T + Len(list) < fresh
      /\ T <= H + Capacity /\ OH < T /\ list = <<>>
  BY <1>1, <1>2 DEF Order, Top
<1>4. \A a : Cell(a)' = Cell(a)
  BY <1>1 DEF Cell
<1>5. Claim = 0
  BY <1>1 DEF Claim
<1>6. CASE head = ohead
  <2>1. /\ head' = Plus(head, 1) /\ opc' = "claim" /\ ohead' = ohead /\ H = OH
    BY <1>6 DEF PopClaim, H, OH
  <2>2. head' \in Index /\ H' = H + 1
    <3>1. Abs(head) + 1 < IndexSize /\ head \in Index
      BY <1>1, <1>3, <2>1, Sizes DEF H, TypeOK
    <3> QED BY <3>1, <2>1, PlusValue DEF H
  <2>3. OH' = OH /\ Claim' = 1 /\ Top' = T
    BY <1>2, <2>1 DEF OH, Claim, Top
  <2>4. TypeOK'
    BY <1>1, <2>1, <2>2 DEF TypeOK, OwnerPCs, thiefVars
  <2>5. Order'
    BY <1>1, <1>2, <1>3, <2>1, <2>2, <2>3 DEF Order
  <2>6. Live' = Live
    BY <1>1, <1>3, <1>5, <2>1, <2>2, <2>3 DEF Live
  <2>7. Placed'
    BY <1>1, <2>6, PlacedKept
  <2>8. Stealing'
    BY <1>1, <1>2, <1>4, <2>2, HuntKept
  <2> QED BY <2>4, <2>5, <2>7, <2>8
<1>7. CASE head # ohead
  <2>1. ohead' = head /\ head' = head /\ opc' = IF head = tail THEN "free" ELSE "pop"
    BY <1>7 DEF PopClaim
  <2>2. H' = H /\ OH' = H
    BY <2>1 DEF H, OH
  <2>3. TypeOK'
    BY <1>1, <2>1 DEF TypeOK, thiefVars, OwnerPCs
  <2>4. Top' = T /\ Claim' = 0
    BY <1>1, <1>2, <2>1 DEF Top, Claim
  <2>5. head # tail => H # T
    BY SamePlace DEF H, T, TypeOK
  <2>6. Order'
    BY <1>1, <1>2, <1>3, <2>1, <2>2, <2>4, <2>5 DEF Order
  <2>7. Live' = Live
    BY <1>1, <1>3, <1>5, <2>2, <2>4 DEF Live
  <2>8. Placed'
    BY <1>1, <2>7, PlacedKept
  <2>9. Stealing'
    BY <1>1, <1>2, <1>4, <2>1, <2>2, HuntKept DEF TypeOK
  <2> QED BY <2>3, <2>6, <2>8, <2>9
<1> QED BY <1>6, <1>7

\* The tasks in the places from a on, n of them.
LEMMA Cells ==
    ASSUME Inv, NEW a \in Nat, NEW n \in Nat, NEW s \in Seq(0..Tasks), Len(s) = n,
           \A b \in a..(a + n - 1) : b \in Live,
           \A i \in 1..n : s[i] = Cell(a + i - 1)
    PROVE  /\ IsInjective(s)
           /\ \A m \in ToSet(s) : \E b \in a..(a + n - 1) : m = Cell(b)
           /\ \A b \in a..(a + n - 1) : Cell(b) \in ToSet(s)
<1>1. DOMAIN s = 1..n
  OBVIOUS
<1>2. \A i \in 1..n : a + i - 1 \in a..(a + n - 1) /\ a + i - 1 \in Live
  OBVIOUS
<1>3. IsInjective(s)
  <2> SUFFICES ASSUME NEW i \in 1..n, NEW j \in 1..n, s[i] = s[j] PROVE i = j
    BY <1>1 DEF IsInjective
  <2>1. Cell(a + i - 1) = Cell(a + j - 1)
    OBVIOUS
  <2>2. a + i - 1 = a + j - 1
    BY <2>1, <1>2 DEF Inv, Placed
  <2> QED BY <2>2
<1>4. \A m \in ToSet(s) : \E b \in a..(a + n - 1) : m = Cell(b)
  BY <1>1, <1>2 DEF ToSet
<1>5. ASSUME NEW b \in a..(a + n - 1) PROVE Cell(b) \in ToSet(s)
  <2>1. b - a + 1 \in 1..n /\ s[b - a + 1] = Cell(a + (b - a + 1) - 1)
    OBVIOUS
  <2>2. a + (b - a + 1) - 1 = b
    OBVIOUS
  <2> QED BY <2>1, <2>2, <1>1 DEF ToSet
<1> QED BY <1>3, <1>4, <1>5

\* The claimed slot is read: nobody has overwritten it.
LEMMA PopReadStep ==
    ASSUME Inv, PopRead
    PROVE  Inv'
<1> USE DEF Inv
<1>1. /\ H \in Nat /\ T \in Nat /\ OH \in Nat /\ OT \in Nat /\ Capacity \in Nat
      /\ Len(list) \in Nat /\ fresh \in Nat
      /\ opc = "claim" /\ opc' = "free" /\ taken' = Append(taken, array[ohead % Capacity])
      /\ UNCHANGED <<head, tail, array, ohead, otail, list, thiefVars, fresh>>
  BY Positions DEF PopRead, bufferVars
<1>2. H' = H /\ T' = T /\ OH' = OH /\ OT' = OT
  BY <1>1 DEF H, T, OH, OT
<1>3. /\ OH + 1 <= H /\ H <= T /\ T <= H + Capacity /\ Top = T /\ Top' = T
      /\ T + Len(list) < fresh /\ list = <<>> /\ Claim = 1 /\ Claim' = 0
  BY <1>1, <1>2 DEF Order, Top, Claim
<1>4. \A a : Cell(a)' = Cell(a)
  BY <1>1 DEF Cell
<1>5. array[ohead % Capacity] = Cell(OH) /\ Cell(OH) \in 0..Tasks
  <2>1. At(Abs(ohead)) = ohead /\ Abs(ohead) \in Index
    BY AbsValue DEF TypeOK
  <2>2. ohead % Capacity = Place(OH) /\ Place(OH) \in Slot
    BY <2>1, AtValue DEF OH
  <2> QED BY <2>2 DEF Cell, TypeOK
<1>6. taken' = taken \o <<Cell(OH)>>
  BY <1>1, <1>5 DEF TypeOK
<1>7. \A a : a \in Live <=> a \in Live' \/ a = OH
  BY <1>1, <1>2, <1>3 DEF Live
<1>8. OH \notin Live'
  BY <1>1, <1>2, <1>3 DEF Live
<1>9. Placed' /\ taken' \in Seq(0..Tasks)
  <2>1. PICK s \in Seq(0..Tasks) : s = <<Cell(OH)>> /\ IsInjective(s) /\ ToSet(s) = {Cell(OH)}
    BY <1>5, OneSeq
  <2>2. taken' = taken \o s
    BY <1>6, <2>1
  <2>3. IsInjective(list') /\ \A n \in ToSet(list') : n \in ToSet(list)
    BY <1>1 DEF Placed
  <2>4. \A n \in ToSet(s) : \E a \in Live : a \notin Live' /\ n = Cell(a)
    BY <2>1, <1>7, <1>8
  <2>5. \A a \in Live : a \in Live' \/ Cell(a) \in ToSet(s)
    BY <2>1, <1>7
  <2> QED BY <1>1, <1>7, <2>1, <2>2, <2>3, <2>4, <2>5, PlacedTaken
<1>10. TypeOK'
  BY <1>1, <1>9 DEF TypeOK, OwnerPCs, thiefVars
<1>11. Order'
  BY <1>1, <1>2, <1>3 DEF Order
<1>12. Stealing'
  BY <1>1, <1>2, <1>3, <1>4, HuntKept DEF TypeOK
<1> QED BY <1>9, <1>10, <1>11, <1>12

\* The claimed half and the rest of the list leave the buffer.
LEMMA PushOverflowStep ==
    ASSUME Inv, PushOverflow
    PROVE  Inv'
<1> USE DEF Inv
<1> DEFINE h == Capacity \div 2
           s == [i \in 1..h |-> array[Plus(ohead, i - 1) % Capacity]]
<1>1. /\ H \in Nat /\ T \in Nat /\ OH \in Nat /\ OT \in Nat /\ Capacity \in Nat
      /\ Len(list) \in Nat /\ fresh \in Nat /\ fresh <= IndexSize /\ h \in Nat
      /\ opc = "migrate" /\ opc' = "free" /\ list' = <<>> /\ Len(list') = 0
      /\ UNCHANGED <<head, tail, array, ohead, otail, thiefVars, fresh>>
  BY Positions DEF PushOverflow, bufferVars
<1>0. taken' = taken \o s \o list
  BY DEF PushOverflow
<1>2. H' = H /\ T' = T /\ OH' = OH /\ OT' = OT
  BY <1>1 DEF H, T, OH, OT
<1>3. /\ OH + h <= H /\ H <= T /\ T <= H + Capacity /\ Top = T /\ Top' = T
      /\ T + Len(list) < fresh /\ Claim = h /\ Claim' = 0
  BY <1>1, <1>2 DEF Order, Top, Claim
<1>4. \A a : Cell(a)' = Cell(a)
  BY <1>1 DEF Cell
<1>5. \A i \in 1..h : s[i] = Cell(OH + i - 1) /\ s[i] \in 0..Tasks
  <2> SUFFICES ASSUME NEW i \in 1..h PROVE s[i] = Cell(OH + i - 1) /\ s[i] \in 0..Tasks
    OBVIOUS
  <2>1. ohead \in Index /\ i - 1 \in Nat /\ Abs(ohead) + (i - 1) < IndexSize
    BY <1>1, <1>3, Sizes DEF TypeOK, OH
  <2>2. Plus(ohead, i - 1) % Capacity = Place(OH + (i - 1)) /\ OH + (i - 1) \in Index
    BY <2>1, <1>1, Sizes, PlusValue DEF OH, Index
  <2>3. Place(OH + (i - 1)) \in Slot /\ OH + (i - 1) = OH + i - 1
    BY <2>2, <1>1, AtValue
  <2>4. s[i] = array[Place(OH + i - 1)] /\ Place(OH + i - 1) \in Slot
    BY <2>2, <2>3
  <2> QED BY <2>4 DEF Cell, TypeOK
<1>6. s \in Seq(0..Tasks) /\ Len(s) = h
  <2>1. s \in [1..h -> 0..Tasks]
    BY <1>5
  <2> QED BY <2>1, <1>1
<1>7. \A a : a \in Live <=> a \in Live' \/ a \in OH..(OH + h - 1)
  BY <1>1, <1>2, <1>3 DEF Live
<1>8. \A a \in OH..(OH + h - 1) : a \notin Live'
  BY <1>1, <1>2, <1>3 DEF Live
<1> HIDE DEF s, h
<1>9. /\ IsInjective(s)
      /\ \A m \in ToSet(s) : \E b \in OH..(OH + h - 1) : m = Cell(b)
      /\ \A b \in OH..(OH + h - 1) : Cell(b) \in ToSet(s)
  <2>1. OH \in Nat /\ h \in Nat /\ s \in Seq(0..Tasks) /\ Len(s) = h
    BY <1>1, <1>6
  <2>2. \A b \in OH..(OH + h - 1) : b \in Live
    BY <1>7
  <2>3. \A i \in 1..h : s[i] = Cell(OH + i - 1)
    BY <1>5
  <2> QED BY ONLY Inv, <2>1, <2>2, <2>3, Cells
<1>10. list \in Seq(0..Tasks) /\ IsInjective(list)
  <2>1. 1..Tasks \subseteq 0..Tasks
    BY Sizes
  <2> QED BY <2>1, SeqMonotonic DEF TypeOK, Placed
<1>11. \A m \in ToSet(s) : m \notin ToSet(list)
  BY <1>7, <1>9 DEF Placed
<1>12. PICK r \in Seq(0..Tasks) : /\ r = s \o list /\ IsInjective(r)
                                 /\ ToSet(r) = ToSet(s) \union ToSet(list)
  <2>1. /\ s \o list \in Seq(0..Tasks) /\ IsInjective(s \o list)
        /\ ToSet(s \o list) = ToSet(s) \union ToSet(list)
    BY ONLY <1>6, <1>9, <1>10, <1>11, JoinedSeq
  <2> QED BY ONLY <2>1, Zenon
<1>13. taken' = taken \o r
  <2>1. (taken \o s) \o list = taken \o (s \o list)
    <3>1. taken \in Seq(0..Tasks)
      BY DEF TypeOK
    <3>2. list \in Seq(0..Tasks) /\ s \in Seq(0..Tasks)
      BY <1>6, <1>10
    <3> HIDE DEF Inv
    <3> QED BY ONLY <3>1, <3>2, ConcatAssociative, SMTT(30)
  <2> QED BY <2>1, <1>0, <1>12
<1>14. Placed' /\ taken' \in Seq(0..Tasks)
  <2>1. IsInjective(list') /\ ToSet(list') = {}
    BY <1>1, NoSeq
  <2>2. \A m \in ToSet(r) : \/ m \in ToSet(list) /\ m \notin ToSet(list')
                            \/ \E a \in Live : a \notin Live' /\ m = Cell(a)
    BY <2>1, <1>7, <1>8, <1>9, <1>12
  <2>3. \A a \in Live : a \in Live' \/ Cell(a) \in ToSet(r)
    BY <1>7, <1>9, <1>12
  <2> QED BY <1>1, <1>7, <1>12, <1>13, <2>1, <2>2, <2>3, PlacedTaken
<1>15. TypeOK'
  BY <1>1, <1>14 DEF TypeOK, OwnerPCs, thiefVars
<1>16. Order'
  BY <1>1, <1>2, <1>3 DEF Order
<1>17. Stealing'
  BY <1>1, <1>2, <1>3, <1>4, HuntKept DEF TypeOK
<1> QED BY <1>14, <1>15, <1>16, <1>17

\* consume publishes, and hands out one node.
LEMMA RefillTailStep ==
    ASSUME Inv, RefillTail
    PROVE  Inv'
<1> USE DEF Inv
<1>1. /\ H \in Nat /\ T \in Nat /\ OH \in Nat /\ OT \in Nat /\ Capacity \in Nat
      /\ Len(list) \in Nat /\ fresh \in Nat /\ fresh <= IndexSize
      /\ opc = "refill" /\ opc' = "free" /\ list' = <<>> /\ Len(list') = 0
      /\ UNCHANGED <<head, array, ohead, otail, thiefVars, fresh>>
  BY Positions DEF RefillTail
<1>2. H' = H /\ OH' = OH /\ OT' = OT /\ T' = Abs(tail')
  BY <1>1 DEF H, T, OH, OT
<1>3. /\ H = T /\ T <= OT /\ OT <= T + Capacity /\ OT - T + Len(list) \in 1..(Capacity + 1)
      /\ Top = OT /\ OT + Len(list) < fresh /\ Claim = 0 /\ Claim' = 0 /\ Top' = T'
  BY <1>1 DEF Order, Top, Claim
<1>4. \A a : Cell(a)' = Cell(a)
  BY <1>1 DEF Cell
<1>5. IsInjective(list') /\ ToSet(list') = {}
  BY <1>1, NoSeq
<1>6. CASE list # <<>>
  <2>1. /\ Minus(otail, tail) = Capacity /\ taken' = Append(taken, Head(list)) /\ tail' = otail
    BY <1>6 DEF RefillTail
  <2>2. T' = OT /\ tail' \in Index
    BY <2>1 DEF T, OT, TypeOK
  <2>3. OT - T = Capacity
    BY <2>1, <1>1, <1>3, MinusValue DEF OT, T, TypeOK
  <2>4. /\ Head(list) \in 1..Tasks /\ Tail(list) \in Seq(1..Tasks)
        /\ Len(list) >= 1 /\ Len(Tail(list)) = Len(list) - 1
        /\ ToSet(list) = {Head(list)} \union ToSet(Tail(list))
    BY <1>6, SplitSeq DEF TypeOK, Placed
  <2>5. ToSet(list) = {Head(list)}
    <3>1. Len(Tail(list)) = 0
      BY <2>3, <2>4, <1>1, <1>3
    <3>2. Tail(list) = <<>>
      BY <3>1, <2>4
    <3> QED BY <3>2, <2>4, NoSeq
  <2>6. PICK s \in Seq(0..Tasks) : /\ s = <<Head(list)>> /\ IsInjective(s)
                                   /\ ToSet(s) = {Head(list)}
    <3>1. Head(list) \in 0..Tasks
      BY <2>4, Sizes
    <3> QED BY <3>1, OneSeq
  <2>7. taken' = taken \o s
    BY <2>1, <2>6, <2>4 DEF TypeOK
  <2>8. Live' = Live
    BY <1>1, <1>2, <1>3, <2>2 DEF Live
  <2>9. Placed' /\ taken' \in Seq(0..Tasks)
    BY <1>1, <1>5, <2>5, <2>6, <2>7, <2>8, PlacedTaken
  <2>10. TypeOK'
    BY <1>1, <2>2, <2>9 DEF TypeOK, OwnerPCs, thiefVars
  <2>11. Order'
    BY <1>1, <1>2, <1>3, <2>2 DEF Order
  <2>12. Stealing'
    BY <1>1, <1>2, <1>3, <1>4, <2>2, HuntKept DEF TypeOK
  <2> QED BY <2>9, <2>10, <2>11, <2>12
<1>7. CASE list = <<>>
  <2>1. /\ taken' = Append(taken, array[Minus(otail, 1) % Capacity]) /\ tail' = Minus(otail, 1)
        /\ Len(list) = 0 /\ ToSet(list) = {}
    BY <1>7, NoSeq DEF RefillTail
  <2>2. otail \in Index /\ Abs(otail) >= 1 /\ OT >= T + 1
    BY <1>1, <1>3, <2>1 DEF OT, TypeOK
  <2>3. T' = OT - 1 /\ tail' \in Index /\ Minus(otail, 1) % Capacity = Place(OT - 1)
    BY <2>1, <2>2, <1>2, BackValue DEF OT
  <2>4. Place(OT - 1) \in Slot
    <3>1. OT - 1 \in Index
      <4>1. OT < IndexSize
        BY Positions
      <4> QED BY <4>1, <1>1, <2>2, Sizes DEF Index
    <3> QED BY <3>1, AtValue
  <2>5. array[Minus(otail, 1) % Capacity] = Cell(OT - 1) /\ Cell(OT - 1) \in 0..Tasks
    BY <2>3, <2>4 DEF Cell, TypeOK
  <2>6. PICK s \in Seq(0..Tasks) : /\ s = <<Cell(OT - 1)>> /\ IsInjective(s)
                                   /\ ToSet(s) = {Cell(OT - 1)}
    BY <2>5, OneSeq
  <2>7. taken' = taken \o s
    BY <2>1, <2>5, <2>6 DEF TypeOK
  <2>8. /\ \A a : a \in Live <=> a \in Live' \/ a = OT - 1
        /\ OT - 1 \notin Live'
    BY <1>1, <1>2, <1>3, <2>2, <2>3 DEF Live
  <2>9. Placed' /\ taken' \in Seq(0..Tasks)
    <3>1. \A n \in ToSet(s) : \E a \in Live : a \notin Live' /\ n = Cell(a)
      BY <2>6, <2>8
    <3>2. \A a \in Live : a \in Live' \/ Cell(a) \in ToSet(s)
      BY <2>6, <2>8
    <3> QED BY <1>1, <1>5, <2>1, <2>6, <2>7, <2>8, <3>1, <3>2, PlacedTaken
  <2>10. TypeOK'
    BY <1>1, <2>3, <2>9 DEF TypeOK, OwnerPCs, thiefVars
  <2>11. Order'
    BY <1>1, <1>2, <1>3, <2>1, <2>2, <2>3 DEF Order
  <2>12. Stealing'
    BY <1>1, <1>2, <1>3, <1>4, <2>2, <2>3, HuntKept DEF TypeOK
  <2> QED BY <2>9, <2>10, <2>11, <2>12
<1> QED BY <1>6, <1>7

-----------------------------------------------------------------------------
(* The steps of the thieves *)

\* A thief is not disturbed by what another one does to itself.
LEMMA OtherThief ==
    ASSUME NEW u \in Thieves, Hunt(u), UNCHANGED bufferVars,
           tpc'[u] = tpc[u], thead'[u] = thead[u], ttail'[u] = ttail[u], copied'[u] = copied[u]
    PROVE  Hunt(u)'
<1>1. H' = H /\ T' = T /\ head' = head /\ \A a : Cell(a)' = Cell(a)
  BY DEF H, T, Cell, bufferVars
<1>2. StealSize(u)' = StealSize(u)
  BY DEF StealSize
<1> QED BY <1>1, <1>2 DEF Hunt

\* What a thief does to itself leaves the owner's part alone.
LEMMA OwnerKept ==
    ASSUME Inv, UNCHANGED <<bufferVars, ownerVars, taken, fresh>>
    PROVE  Order' /\ Placed'
<1>1. /\ H' = H /\ T' = T /\ OH' = OH /\ OT' = OT /\ opc' = opc /\ list' = list /\ fresh' = fresh
      /\ array' = array /\ taken' = taken
  BY DEF H, T, OH, OT, bufferVars, ownerVars
<1>2. Top' = Top /\ Claim' = Claim
  BY <1>1 DEF Top, Claim
<1>3. Live' = Live
  BY <1>1, <1>2 DEF Live
<1> QED BY <1>1, <1>2, <1>3, PlacedKept DEF Inv, Order

\* A thief loads head.
LEMMA StealHeadStep ==
    ASSUME Inv, NEW t \in Thieves, StealHead(t)
    PROVE  Inv'
<1> USE DEF Inv
<1>1. Order' /\ Placed'
  BY OwnerKept DEF StealHead
<1>2. TypeOK'
  BY NoSeq DEF StealHead, TypeOK, bufferVars, ownerVars
<1>3. ASSUME NEW u \in Thieves PROVE Hunt(u)'
  <2>1. CASE u = t
    <3>1. tpc'[t] = "head" /\ thead'[t] = head /\ copied'[t] = <<>> /\ head' = head
      BY DEF StealHead, TypeOK, bufferVars
    <3>2. H' = Abs(head) /\ H' <= H'
      BY <3>1, Positions DEF H
    <3> QED BY <3>1, <3>2, <2>1 DEF Hunt
  <2>2. CASE u # t
    BY <2>2, OtherThief DEF StealHead, TypeOK, Stealing
  <2> QED BY <2>1, <2>2
<1> QED BY <1>1, <1>2, <1>3 DEF Stealing

\* A thief loads tail, later: a size within the capacity may still belong to
\* an old head, and the invariant says only what holds then.
LEMMA StealTailStep ==
    ASSUME Inv, NEW t \in Thieves, StealTail(t)
    PROVE  Inv'
<1> USE DEF Inv
<1>1. Order' /\ Placed'
  BY OwnerKept DEF StealTail
<1>2. TypeOK'
  BY DEF StealTail, TypeOK, bufferVars, ownerVars
<1>3. ASSUME NEW u \in Thieves PROVE Hunt(u)'
  <2>1. CASE u = t
    <3>1. /\ tpc'[t] = IF Minus(tail, thead[t]) \in 1..Capacity THEN "copy" ELSE "free"
          /\ tpc[t] = "head" /\ thead'[t] = thead[t] /\ ttail'[t] = tail
          /\ copied'[t] = copied[t]
          /\ head' = head /\ tail' = tail
      BY DEF StealTail, TypeOK, bufferVars
    <3>2. Abs(thead[t]) <= H /\ copied[t] = <<>>
      BY <3>1 DEF Stealing, Hunt
    <3>3. /\ H' = H /\ T' = T /\ H \in Nat /\ T \in Nat /\ H <= T
          /\ Abs(thead[t]) \in Nat /\ Capacity \in Nat
      <4>1. Abs(thead[t]) \in Index
        BY AbsValue DEF TypeOK
      <4> QED BY <3>1, <4>1, Positions DEF H, T, Order, Index
    <3>4. Minus(tail, thead[t]) = T - Abs(thead[t])
      BY <3>2, <3>3, MinusValue DEF TypeOK, T
    <3>5. CASE tpc'[t] = "copy"
      <4>1. /\ Abs(thead[t]) < T /\ T <= Abs(thead[t]) + Capacity /\ T <= T
        BY <3>1, <3>3, <3>4, <3>5
      <4>2. StealSize(t)' = (T - Abs(thead[t])) - (T - Abs(thead[t])) \div 2
        BY <3>1, <3>4 DEF StealSize
      <4>3. 0 <= StealSize(t)'
        BY <4>1, <4>2, <3>3
      <4>4. Len(copied'[t]) = 0 /\ Abs(ttail'[t]) = T
        BY <3>1, <3>2 DEF T
      <4> QED BY <4>1, <4>3, <4>4, <3>1, <3>2, <3>3, <2>1 DEF Hunt
    <3> QED BY <3>1, <3>5, <2>1 DEF Hunt
  <2>2. CASE u # t
    BY <2>2, OtherThief DEF StealTail, TypeOK, Stealing
  <2> QED BY <2>1, <2>2
<1> QED BY <1>1, <1>2, <1>3 DEF Stealing

\* The positions of a thief that is copying.
LEMMA Hunting ==
    ASSUME Inv, NEW t \in Thieves, tpc[t] = "copy"
    PROVE  /\ Abs(thead[t]) \in Nat /\ Len(copied[t]) \in Nat /\ StealSize(t) \in Nat
           /\ StealSize(t) >= 1
           /\ Abs(thead[t]) + StealSize(t) <= T
<1> USE DEF Inv
<1>1. thead[t] \in Index /\ ttail[t] \in Index /\ Len(copied[t]) \in Nat
  BY DEF TypeOK
<1>2. Abs(thead[t]) \in Nat /\ Abs(ttail[t]) \in Nat /\ T \in Nat
  BY <1>1, AbsValue, Positions DEF Index
<1>3. Abs(thead[t]) < Abs(ttail[t]) /\ Abs(ttail[t]) <= T
  BY DEF Stealing, Hunt
<1>4. Minus(ttail[t], thead[t]) = Abs(ttail[t]) - Abs(thead[t])
  BY <1>1, <1>2, <1>3, MinusValue
<1>5. PICK n \in Nat : n = Abs(ttail[t]) - Abs(thead[t]) /\ n >= 1
  BY <1>2, <1>3
<1>6. StealSize(t) = n - n \div 2
  BY <1>4, <1>5 DEF StealSize
<1>7. n - n \div 2 \in Nat /\ n - n \div 2 >= 1 /\ n - n \div 2 <= n
  BY <1>5
<1>8. Abs(thead[t]) + n <= T
  BY <1>2, <1>3, <1>5
<1>9. PICK k \in Nat : k = n - n \div 2 /\ k >= 1 /\ k <= n
  BY <1>7
<1> QED BY <1>1, <1>2, <1>6, <1>8, <1>9

\* A thief copies a slot that the owner may be overwriting.
LEMMA StealCopyStep ==
    ASSUME Inv, NEW t \in Thieves, StealCopy(t)
    PROVE  Inv'
<1> USE DEF Inv
<1>1. Order' /\ Placed'
  BY OwnerKept DEF StealCopy
<1> DEFINE n == Len(copied[t])
           p == Abs(thead[t])
<1>2. /\ p \in Nat /\ n \in Nat /\ StealSize(t) \in Nat /\ p + StealSize(t) <= T
      /\ n < StealSize(t) /\ T \in Nat /\ T < IndexSize
  BY Hunting, Positions DEF StealCopy
<1>3. /\ Plus(thead[t], n) % Capacity = Place(p + n) /\ Place(p + n) \in Slot
  <2>1. thead[t] \in Index /\ p + n < IndexSize /\ p + n \in Index
    BY <1>2, Sizes DEF TypeOK, Index
  <2> QED BY <1>2, <2>1, PlusValue, AtValue
<1>4. PICK v \in 0..Tasks : v = Cell(p + n) /\ v = array[Plus(thead[t], n) % Capacity]
  BY <1>3 DEF Cell, TypeOK
<1>5. copied' = [copied EXCEPT ![t] = Append(copied[t], v)]
  BY <1>4 DEF StealCopy
<1>6. TypeOK'
  <2>1. Append(copied[t], v) \in Seq(0..Tasks)
    BY DEF TypeOK
  <2>2. copied' \in [Thieves -> Seq(0..Tasks)]
    BY <1>5, <2>1 DEF TypeOK
  <2> QED BY <2>2 DEF StealCopy, TypeOK, bufferVars, ownerVars
<1>7. ASSUME NEW u \in Thieves PROVE Hunt(u)'
  <2>1. CASE u = t
    <3>1. /\ tpc'[t] = "copy" /\ tpc[t] = "copy" /\ thead' = thead /\ ttail' = ttail
          /\ head' = head /\ tail' = tail /\ array' = array
          /\ copied'[t] = Append(copied[t], v)
      BY <1>5 DEF StealCopy, TypeOK, bufferVars
    <3>2. H' = H /\ T' = T /\ StealSize(t)' = StealSize(t) /\ \A a : Cell(a)' = Cell(a)
      BY <3>1 DEF H, T, StealSize, Cell
    <3>3. /\ Len(copied'[t]) = n + 1
          /\ \A i \in 1..n : copied'[t][i] = copied[t][i]
          /\ copied'[t][n + 1] = v
      BY <3>1 DEF TypeOK
    <3>4. Hunt(t)
      BY DEF Stealing
    <3>5. ASSUME head = thead[t], NEW i \in 1..(n + 1)
          PROVE copied'[t][i] = Cell(H + i - 1)
      <4>1. CASE i = n + 1
        <5>1. H + i - 1 = p + n
          BY <3>5, <4>1, <1>2 DEF H
        <5> QED BY <5>1, <4>1, <3>3, <1>4
      <4>2. CASE i \in 1..n
        BY <4>2, <3>1, <3>3, <3>4, <3>5 DEF Hunt
      <4> QED BY <4>1, <4>2, <1>2
    <3>6. Len(copied'[t]) <= StealSize(t)
      BY <3>3, <1>2
    <3> QED BY <3>1, <3>2, <3>3, <3>4, <3>5, <3>6, <2>1 DEF Hunt
  <2>2. CASE u # t
    BY <2>2, OtherThief DEF StealCopy, TypeOK, Stealing
  <2> QED BY <2>1, <2>2
<1> QED BY <1>1, <1>6, <1>7 DEF Stealing

\* The exchange succeeds only if head has not moved: what was copied is still
\* there.
LEMMA StealCommitStep ==
    ASSUME Inv, NEW t \in Thieves, StealCommit(t)
    PROVE  Inv'
<1> USE DEF Inv
<1> DEFINE n == StealSize(t)
<1>1. /\ tpc[t] = "copy" /\ tpc' = [tpc EXCEPT ![t] = "free"]
      /\ copied' = [copied EXCEPT ![t] = <<>>] /\ Len(copied[t]) = n
      /\ UNCHANGED <<tail, array, opc, ohead, otail, list, thead, ttail, fresh>>
  BY DEF StealCommit, ownerVars
<1>2. /\ copied' \in [Thieves -> Seq(0..Tasks)]
      /\ tpc' \in [Thieves -> {"free", "head", "copy"}]
      /\ tpc'[t] = "free"
  BY <1>1, NoSeq DEF TypeOK
<1>3. CASE head # thead[t]
  <2>1. head' = head /\ taken' = taken
    BY <1>3 DEF StealCommit
  <2>2. TypeOK'
    BY <1>1, <1>2, <2>1 DEF TypeOK
  <2>3. Order' /\ Placed'
    BY <1>1, <2>1, OwnerKept DEF bufferVars, ownerVars
  <2>4. ASSUME NEW u \in Thieves PROVE Hunt(u)'
    <3>1. CASE u = t
      BY <3>1, <1>2 DEF Hunt
    <3>2. CASE u # t
      BY <3>2, <1>1, <2>1, OtherThief DEF TypeOK, Stealing, bufferVars
    <3> QED BY <3>1, <3>2
  <2> QED BY <2>2, <2>3, <2>4 DEF Stealing
<1>4. CASE head = thead[t]
  <2>1. head' = Plus(head, n) /\ taken' = taken \o copied[t]
    BY <1>4 DEF StealCommit
  <2>2. /\ n \in Nat /\ n >= 1 /\ H + n <= T /\ H = Abs(head)
        /\ H \in Nat /\ T \in Nat /\ T < IndexSize /\ OH \in Nat /\ OT \in Nat
        /\ Capacity \in Nat /\ fresh \in Nat /\ Len(list) \in Nat /\ Claim \in Nat
    BY <1>1, <1>4, Hunting, Positions DEF H
  <2> HIDE DEF n
  <2>3. head' \in Index /\ H' = H + n
    <3>1. head \in Index /\ Abs(head) + n < IndexSize
      BY <2>2, Sizes DEF TypeOK
    <3> QED BY <3>1, <2>1, <2>2, PlusValue DEF H
  <2>4. T' = T /\ OH' = OH /\ OT' = OT /\ opc' = opc /\ Top' = Top /\ Claim' = Claim
    BY <1>1 DEF T, OH, OT, Top, Claim
  <2>5. opc # "refill" /\ T <= Top /\ Top \in Nat
    BY <2>2 DEF Order, Top
  <2>6. Order'
    <3>1. /\ H' <= T' /\ T' <= H' + Capacity /\ Top' + Len(list') < fresh'
      BY <1>1, <2>2, <2>3, <2>4, <2>5 DEF Order
    <3>2. /\ opc \in {"push", "store", "pop"} => OH <= H' /\ T <= OH + Capacity
          /\ opc \in {"claim", "migrate"} => OH + Claim <= H'
      BY <2>2, <2>3 DEF Order
    <3>3. /\ opc = "push" => T <= OT /\ OT <= OH + Capacity
          /\ opc = "store" => OT = T
          /\ opc = "pop" => OH < T
          /\ opc \in {"free", "pop", "claim"} => list = <<>>
      BY DEF Order
    <3> QED BY <3>1, <3>2, <3>3, <1>1, <2>4, <2>5 DEF Order
  <2>7. OH + Claim <= H \/ Claim = 0
    BY DEF Order, Claim
  <2>8. /\ \A a : a \in Live <=> a \in Live' \/ a \in H..(H + n - 1)
        /\ \A a \in H..(H + n - 1) : a \notin Live'
    BY <2>2, <2>3, <2>4, <2>5, <2>7 DEF Live
  <2>9. /\ copied[t] \in Seq(0..Tasks) /\ Len(copied[t]) = n
        /\ \A i \in 1..n : copied[t][i] = Cell(H + i - 1)
    BY <1>1, <1>4 DEF TypeOK, Stealing, Hunt
  <2>10. /\ IsInjective(copied[t])
         /\ \A m \in ToSet(copied[t]) : \E b \in H..(H + n - 1) : m = Cell(b)
         /\ \A b \in H..(H + n - 1) : Cell(b) \in ToSet(copied[t])
    <3>1. H \in Nat /\ n \in Nat
      BY <2>2
    <3>2. \A b \in H..(H + n - 1) : b \in Live
      BY <2>8
    <3> QED BY ONLY Inv, <3>1, <3>2, <2>9, Cells
  <2>11. Placed' /\ taken' \in Seq(0..Tasks)
    <3>1. PICK s \in Seq(0..Tasks) : s = copied[t]
      BY <2>9
    <3>2. IsInjective(list') /\ ToSet(list') = ToSet(list)
      BY <1>1 DEF Placed
    <3>3. \A m \in ToSet(s) : \E a \in Live : a \notin Live' /\ m = Cell(a)
      BY <3>1, <2>8, <2>10
    <3>4. \A a \in Live : a \in Live' \/ Cell(a) \in ToSet(s)
      BY <3>1, <2>8, <2>10
    <3>5. IsInjective(s) /\ taken' = taken \o s /\ \A a \in Live' : a \in Live
      BY <3>1, <2>1, <2>8, <2>10
    <3> QED BY <1>1, <3>2, <3>3, <3>4, <3>5, PlacedTaken
  <2>12. TypeOK'
    BY <1>1, <1>2, <2>3, <2>11 DEF TypeOK
  <2>13. ASSUME NEW u \in Thieves PROVE Hunt(u)'
    <3>1. CASE u = t
      BY <3>1, <1>2 DEF Hunt
    <3>2. CASE u # t
      <4>1. /\ tpc'[u] = tpc[u] /\ copied'[u] = copied[u] /\ thead' = thead /\ ttail' = ttail
            /\ StealSize(u)' = StealSize(u)
        BY <3>2, <1>1 DEF TypeOK, StealSize
      <4>2. Hunt(u) /\ Abs(thead[u]) \in Nat
        <5>1. Abs(thead[u]) \in Index
          BY AbsValue DEF TypeOK
        <5> QED BY <5>1 DEF Stealing, Index
      <4>3. tpc[u] \in {"head", "copy"} => Abs(thead[u]) < H'
        BY <4>2, <2>2, <2>3 DEF Hunt
      <4>4. tpc[u] \in {"head", "copy"} => head' # thead[u] /\ Abs(thead[u]) <= H'
        BY <4>2, <4>3, <2>2, <2>3 DEF H
      <4> QED BY <4>1, <4>2, <4>4, <2>4 DEF Hunt
    <3> QED BY <3>1, <3>2
  <2> QED BY <2>6, <2>11, <2>12, <2>13 DEF Stealing
<1> QED BY <1>3, <1>4

-----------------------------------------------------------------------------
(* The theorems *)

\* Every reachable state satisfies the invariant.
THEOREM Invariance == Spec => []Inv
<1>1. Init => Inv
  <2> SUFFICES ASSUME Init PROVE Inv
    OBVIOUS
  <2>1. TypeOK
    BY Sizes, NoSeq DEF Init, TypeOK, OwnerPCs, Index, NoTask
  <2>2. H = 0 /\ T = 0 /\ OH = 0 /\ OT = 0
    <3>1. FirstIndex \in Index /\ FirstIndex - FirstIndex = 0 /\ FirstIndex >= FirstIndex
      BY Sizes DEF Index
    <3>2. Abs(FirstIndex) = 0
      BY <3>1, AbsValue
    <3> QED BY <3>2 DEF Init, H, T, OH, OT
  <2>3. opc = "free" /\ Top = 0 /\ Claim = 0 /\ Live = {} /\ list = <<>> /\ Len(list) = 0
    BY <2>2 DEF Init, Top, Claim, Live
  <2>4. Order
    BY <2>2, <2>3, Sizes DEF Order, Init
  <2>5. Stealing
    BY DEF Stealing, Hunt, Init
  <2>6. Placed
    BY <2>3, NoSeq DEF Placed, Init
  <2> QED BY <2>1, <2>4, <2>5, <2>6 DEF Inv
<1>2. Inv /\ [Next]_vars => Inv'
  <2> SUFFICES ASSUME Inv, [Next]_vars PROVE Inv'
    OBVIOUS
  <2>1. CASE UNCHANGED vars
    <3>1. Order' /\ Placed'
      BY <2>1, OwnerKept DEF vars
    <3>2. TypeOK'
      BY <2>1 DEF vars, bufferVars, ownerVars, thiefVars, Inv, TypeOK
    <3>3. ASSUME NEW u \in Thieves PROVE Hunt(u)'
      BY <2>1, OtherThief DEF vars, thiefVars, Inv, Stealing
    <3> QED BY <3>1, <3>2, <3>3 DEF Inv, Stealing
  <2>2. ASSUME NEW n \in 1..Tasks, BeginPush(n) \/ BeginRefill(n) PROVE Inv'
    BY <2>2, BeginPushStep, BeginRefillStep
  <2>3. ASSUME NEW t \in Thieves,
               StealHead(t) \/ StealTail(t) \/ StealCopy(t) \/ StealCommit(t)
        PROVE  Inv'
    BY <2>3, StealHeadStep, StealTailStep, StealCopyStep, StealCommitStep
  <2>4. CASE PushSlot \/ PushTail \/ PushReload \/ PushMigrate \/ PushOverflow
    BY <2>4, PushSlotStep, PushTailStep, PushReloadStep, PushMigrateStep, PushOverflowStep
  <2>5. CASE BeginPop \/ PopClaim \/ PopRead \/ RefillSlot \/ RefillTail
    BY <2>5, BeginPopStep, PopClaimStep, PopReadStep, RefillSlotStep, RefillTailStep
  <2> QED BY <2>1, <2>2, <2>3, <2>4, <2>5 DEF Next
<1> QED BY <1>1, <1>2, PTL DEF Spec

\* push, pop, consume and steal hand out no task twice and no empty slot, for
\* every even capacity, any number of thieves and any start of the indices,
\* the wrap included, while fewer tasks than there are indices go through.
THEOREM HandsOutOnce == Spec => []TakenOnce
<1>1. Inv => TakenOnce
  BY DEF Inv, Placed, TakenOnce, NoTask
<1> QED BY <1>1, Invariance, PTL

\* Nothing is lost: a task is buffered, handed out or in the owner's hands,
\* in one place only, and the sizes computed with wrapped indices stay within
\* the capacity, as the debug assertions of push, pop and consume say.
THEOREM KeepsAll == Spec => []NothingLost
<1>1. Inv => NothingLost
  <2> SUFFICES ASSUME Inv PROVE NothingLost
    OBVIOUS
  <2> USE DEF Inv
  <2>1. /\ H \in Nat /\ T \in Nat /\ OH \in Nat /\ OT \in Nat /\ Capacity \in Nat
        /\ H <= T /\ T <= H + Capacity /\ T < IndexSize /\ fresh \in Nat
    BY Positions DEF Order
  <2>2. Minus(tail, head) = T - H
    BY <2>1, MinusValue DEF H, T, TypeOK
  <2>3. SizeInBounds
    <3>1. opc = "push" => Minus(otail, ohead) <= Capacity
      <4>1. opc = "push" => Minus(otail, ohead) = OT - OH
        BY <2>1, MinusValue DEF OT, OH, TypeOK, Order
      <4> QED BY <4>1, <2>1 DEF Order
    <3>2. opc = "pop" => Minus(tail, ohead) <= Capacity
      <4>1. opc = "pop" => Minus(tail, ohead) = T - OH
        BY <2>1, MinusValue DEF T, OH, TypeOK, Order
      <4> QED BY <4>1, <2>1 DEF Order
    <3>3. opc = "refill" => head = tail
      BY SamePlace DEF Order, H, T, TypeOK
    <3> QED BY <2>1, <2>2, <3>1, <3>2, <3>3 DEF SizeInBounds
  <2> DEFINE s == Buffered
             n == T - H
  <2>4. n \in Nat /\ \A b \in H..(H + n - 1) : b \in Live
    BY <2>1 DEF Live, Top, Order
  <2>5. \A i \in 1..n : s[i] = Cell(H + i - 1) /\ s[i] \in 0..Tasks
    <3> SUFFICES ASSUME NEW i \in 1..n PROVE s[i] = Cell(H + i - 1) /\ s[i] \in 0..Tasks
      OBVIOUS
    <3>1. head \in Index /\ i - 1 \in Nat /\ Abs(head) + (i - 1) < IndexSize
      BY <2>1, Sizes DEF TypeOK, H
    <3>2. Plus(head, i - 1) % Capacity = Place(H + (i - 1)) /\ H + (i - 1) \in Index
      BY <2>1, <3>1, Sizes, PlusValue DEF H, Index
    <3>3. Place(H + (i - 1)) \in Slot /\ H + (i - 1) = H + i - 1
      BY <3>2, <2>1, AtValue
    <3>4. s[i] = array[Place(H + i - 1)] /\ Place(H + i - 1) \in Slot
      BY <3>2, <3>3, <2>2 DEF Buffered
    <3> QED BY <3>4 DEF Cell, TypeOK
  <2>6. s \in Seq(0..Tasks) /\ Len(s) = n
    <3>1. s \in [1..n -> 0..Tasks]
      BY <2>2, <2>5 DEF Buffered
    <3>2. n \in Nat
      BY <2>4
    <3> HIDE DEF s, n
    <3> QED BY ONLY <3>1, <3>2, FunctionSeq
  <2> HIDE DEF s, n
  <2>7. /\ IsInjective(s)
        /\ \A m \in ToSet(s) : \E b \in H..(H + n - 1) : m = Cell(b)
        /\ \A b \in H..(H + n - 1) : Cell(b) \in ToSet(s)
    <3>1. H \in Nat /\ \A i \in 1..n : s[i] = Cell(H + i - 1)
      BY <2>1, <2>5
    <3> QED BY ONLY Inv, <3>1, <2>4, <2>6, Cells
  <2>8. ToSet(s) \intersect ToSet(taken) = {}
    BY <2>4, <2>7 DEF Placed
  <2>9. ASSUME opc = "free" PROVE ToSet(s) \union ToSet(taken) = 1..(fresh - 1)
    <3>1. ToSet(list) = {}
      BY <2>9, NoSeq DEF Order
    <3>2. Live = H..(H + n - 1)
      BY <2>1, <2>9 DEF Live, Top, Claim, n
    <3> QED BY <3>1, <3>2, <2>7 DEF Placed
  <2> QED BY <2>3, <2>7, <2>8, <2>9 DEF NothingLost, s
<1> QED BY <1>1, Invariance, PTL
=============================================================================
