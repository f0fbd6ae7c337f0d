----------------------- MODULE ConcurrentVectorProofs -----------------------
(***************************************************************************)
(* Proofs about ConcurrentVector, for any number of reading threads, any   *)
(* store policy and any number of elements: the queue is first in, first   *)
(* out, it implements the channel of Fifo, and no reader sleeps on data.   *)
(*                                                                         *)
(* The order alone does not show that only the store policy loses          *)
(* elements.  QueueInv adds where the elements are: the i-th is at least   *)
(* i, under pop_front the queue is the end of what was pushed, and each    *)
(* element after the last one read is in it or had no room.                *)
(***************************************************************************)
EXTENDS ConcurrentVector, SequenceTheorems, TLAPS

NoRoom(e) == IF DropOldest THEN e + MaxSize <= pushed ELSE e > MaxSize

QueueTypes ==
  /\ values \in Seq(Nat) /\ Len(values) <= MaxSize
  /\ pushed \in Nat /\ taken \subseteq Nat /\ last \in Nat /\ last <= pushed

Increasing(q) == \A i, j \in 1 .. Len(q) : i < j => q[i] < q[j]
Within(q, lo, hi) == \A i \in 1 .. Len(q) : lo < q[i] /\ i <= q[i] /\ q[i] <= hi
EndOfPushed(q, n) == \A i \in 1 .. Len(q) : q[i] = n - Len(q) + i
Accounted ==
  \A e \in last + 1 .. pushed : (\E i \in 1 .. Len(values) : values[i] = e) \/ NoRoom(e)

QueueInv ==
  /\ QueueTypes
  /\ Increasing(values)
  /\ Within(values, last, pushed)
  /\ DropOldest => EndOfPushed(values, pushed)
  /\ \A e \in taken : e <= last
  /\ Accounted

-----------------------------------------------------------------------------
(* The operators on the deque.                                             *)

\* regulate keeps one end of the queue, as much as fits.
LEMMA RegulateKeepsAnEnd ==
  ASSUME NEW q \in Seq(Nat)
  PROVE  LET r == Regulate(q) IN
         /\ r \in Seq(Nat)
         /\ Len(r) = IF Len(q) <= MaxSize THEN Len(q) ELSE MaxSize
         /\ \A i \in 1 .. Len(r) : r[i] = IF DropOldest THEN q[Len(q) - Len(r) + i] ELSE q[i]
  <1>1. MaxSize \in Nat \ {0} /\ DropOldest \in BOOLEAN /\ Len(q) \in Nat
    BY SizeAssumption
  <1>2. CASE Len(q) <= MaxSize
    <2>1. Regulate(q) = q
      BY <1>2 DEF Regulate
    <2>2. QED
      BY <1>1, <1>2, <2>1
  <1>3. CASE Len(q) > MaxSize /\ DropOldest
    <2> DEFINE m == Len(q) - MaxSize + 1
    <2>1. Regulate(q) = SubSeq(q, m, Len(q))
      BY <1>1, <1>3 DEF Regulate
    <2>2. m \in Int /\ Len(q) \in Int /\ \A i \in m .. Len(q) : q[i] \in Nat
      BY <1>1, <1>3
    <2>3. m = Len(q) - MaxSize + 1 /\ m <= Len(q) /\ Len(q) - m + 1 = MaxSize
      BY <1>1, <1>3
    <2> HIDE DEF m
    <2>4. /\ SubSeq(q, m, Len(q)) \in Seq(Nat)
          /\ Len(SubSeq(q, m, Len(q))) = IF m <= Len(q) THEN Len(q) - m + 1 ELSE 0
          /\ \A i \in 1 .. Len(q) - m + 1 : SubSeq(q, m, Len(q))[i] = q[m + i - 1]
      BY <2>2, SubSeqProperties
    <2>5. Len(SubSeq(q, m, Len(q))) = MaxSize
      BY <1>1, <2>4, <2>3
    <2>6. \A i \in 1 .. MaxSize : SubSeq(q, m, Len(q))[i] = q[Len(q) - MaxSize + i]
      <3> SUFFICES ASSUME NEW i \in 1 .. MaxSize
                   PROVE  SubSeq(q, m, Len(q))[i] = q[Len(q) - MaxSize + i]
        OBVIOUS
      <3>1. m + i - 1 = Len(q) - MaxSize + i
        BY <1>1, <2>3
      <3>2. SubSeq(q, m, Len(q))[i] = q[m + i - 1]
        BY <2>4, <2>3
      <3>3. QED
        BY <3>1, <3>2
    <2>7. ~(Len(q) <= MaxSize)
      BY <1>1, <1>3
    <2>8. QED
      BY <1>3, <2>1, <2>4, <2>5, <2>6, <2>7
  <1>4. CASE Len(q) > MaxSize /\ ~DropOldest
    <2>1. Regulate(q) = SubSeq(q, 1, MaxSize)
      BY <1>1, <1>4 DEF Regulate
    <2>2. \A i \in 1 .. MaxSize : q[i] \in Nat
      BY <1>1, <1>4
    <2>3. /\ SubSeq(q, 1, MaxSize) \in Seq(Nat)
          /\ Len(SubSeq(q, 1, MaxSize)) = IF 1 <= MaxSize THEN MaxSize - 1 + 1 ELSE 0
          /\ \A i \in 1 .. MaxSize - 1 + 1 : SubSeq(q, 1, MaxSize)[i] = q[1 + i - 1]
      BY <1>1, <2>2, SubSeqProperties
    <2>4. QED
      BY <1>1, <1>4, <2>1, <2>3
  <1>5. QED
    BY <1>1, <1>2, <1>3, <1>4

\* New elements at the back keep the order and the bounds.
LEMMA ExtendedQueue ==
  ASSUME NEW v \in Seq(Nat), NEW q \in Seq(Nat), NEW n \in Nat, NEW p \in Nat, NEW lo \in Nat,
         lo <= p, Increasing(v), Within(v, lo, p),
         Len(q) = Len(v) + n,
         \A i \in 1 .. Len(v) : q[i] = v[i],
         \A m \in 1 .. n : q[Len(v) + m] = p + m
  PROVE  /\ Increasing(q)
         /\ Within(q, lo, p + n)
         /\ EndOfPushed(v, p) => EndOfPushed(q, p + n)
  <1>1. Len(v) \in Nat /\ Len(q) \in Nat
    OBVIOUS
  <1>2. Len(v) <= p
    <2>1. CASE Len(v) = 0
      BY <2>1
    <2>2. CASE Len(v) # 0
      <3>1. Len(v) \in 1 .. Len(v)
        BY <1>1, <2>2
      <3>2. v[Len(v)] \in Nat
        BY <3>1
      <3>3. Len(v) <= v[Len(v)] /\ v[Len(v)] <= p
        BY <3>1 DEF Within
      <3>4. QED
        BY <1>1, <3>2, <3>3
    <2>3. QED
      BY <2>1, <2>2
  <1>3. ASSUME NEW i \in 1 .. Len(v)
        PROVE  q[i] = v[i] /\ v[i] \in Nat /\ lo < v[i] /\ i <= v[i] /\ v[i] <= p
    BY <1>3 DEF Within
  <1>4. ASSUME NEW i \in 1 .. Len(q), ~(i <= Len(v))
        PROVE  /\ i - Len(v) \in 1 .. n
               /\ q[i] = p + (i - Len(v))
    <2>1. i - Len(v) \in 1 .. n
      BY <1>1, <1>4
    <2>2. q[Len(v) + (i - Len(v))] = p + (i - Len(v))
      BY <2>1
    <2>3. Len(v) + (i - Len(v)) = i
      BY <1>1
    <2>4. QED
      BY <2>1, <2>2, <2>3
  <1>5. Within(q, lo, p + n)
    <2>1. SUFFICES ASSUME NEW i \in 1 .. Len(q)
                   PROVE  lo < q[i] /\ i <= q[i] /\ q[i] <= p + n
      BY DEF Within
    <2>2. CASE i <= Len(v)
      <3>1. i \in 1 .. Len(v)
        BY <1>1, <2>2
      <3>2. q[i] = v[i] /\ v[i] \in Nat /\ lo < v[i] /\ i <= v[i] /\ v[i] <= p
        BY <1>3, <3>1
      <3>3. v[i] <= p + n
        BY <3>2
      <3>4. QED
        BY <3>2, <3>3
    <2>3. CASE ~(i <= Len(v))
      BY <1>1, <1>2, <1>4, <2>3
    <2>4. QED
      BY <2>2, <2>3
  <1>6. Increasing(q)
    <2>1. SUFFICES ASSUME NEW i \in 1 .. Len(q), NEW j \in 1 .. Len(q), i < j
                   PROVE  q[i] < q[j]
      BY DEF Increasing
    <2>2. CASE j <= Len(v)
      <3>1. i \in 1 .. Len(v) /\ j \in 1 .. Len(v)
        BY <1>1, <2>1, <2>2
      <3>2. v[i] < v[j]
        BY <2>1, <3>1 DEF Increasing
      <3>3. QED
        BY <1>3, <3>1, <3>2
    <2>3. CASE i <= Len(v) /\ ~(j <= Len(v))
      <3>1. i \in 1 .. Len(v)
        BY <1>1, <2>3
      <3>2. q[i] = v[i] /\ v[i] \in Nat /\ v[i] <= p
        BY <1>3, <3>1
      <3>3. j - Len(v) \in 1 .. n /\ q[j] = p + (j - Len(v))
        BY <1>4, <2>3
      <3>4. QED
        BY <1>1, <3>2, <3>3
    <2>4. CASE ~(i <= Len(v)) /\ ~(j <= Len(v))
      <3>1. q[i] = p + (i - Len(v)) /\ q[j] = p + (j - Len(v))
        BY <1>4, <2>4
      <3>2. QED
        BY <1>1, <2>1, <3>1
    <2>5. QED
      BY <1>1, <2>1, <2>2, <2>3, <2>4
  <1>7. ASSUME EndOfPushed(v, p), NEW i \in 1 .. Len(q)
        PROVE  q[i] = p + n - Len(q) + i
    <2>1. CASE i <= Len(v)
      <3>1. i \in 1 .. Len(v)
        BY <1>1, <2>1
      <3>2. v[i] = p - Len(v) + i
        BY <1>7, <3>1 DEF EndOfPushed
      <3>3. QED
        BY <1>1, <1>3, <3>1, <3>2
    <2>2. CASE ~(i <= Len(v))
      BY <1>1, <1>4, <2>2
    <2>3. QED
      BY <2>1, <2>2
  <1>8. QED
    BY <1>5, <1>6, <1>7 DEF EndOfPushed

\* So does what regulate then keeps of it.
LEMMA RegulatedQueue ==
  ASSUME NEW q \in Seq(Nat), NEW lo \in Nat, NEW hi \in Nat, Increasing(q), Within(q, lo, hi)
  PROVE  /\ Increasing(Regulate(q))
         /\ Within(Regulate(q), lo, hi)
         /\ DropOldest /\ EndOfPushed(q, hi) => EndOfPushed(Regulate(q), hi)
  <1> DEFINE r == Regulate(q)
             At(i) == IF DropOldest THEN Len(q) - Len(r) + i ELSE i
  <1>1. /\ r \in Seq(Nat)
        /\ Len(r) = IF Len(q) <= MaxSize THEN Len(q) ELSE MaxSize
        /\ \A i \in 1 .. Len(r) : r[i] = IF DropOldest THEN q[Len(q) - Len(r) + i] ELSE q[i]
    BY RegulateKeepsAnEnd
  <1> HIDE DEF r
  <1>2. MaxSize \in Nat \ {0} /\ Len(q) \in Nat /\ Len(r) \in Nat /\ Len(r) <= Len(q)
    BY <1>1, SizeAssumption
  <1>3. ASSUME NEW i \in 1 .. Len(r)
        PROVE  At(i) \in 1 .. Len(q) /\ i <= At(i) /\ r[i] = q[At(i)]
    <2>1. CASE DropOldest
      <3>1. At(i) = Len(q) - Len(r) + i /\ r[i] = q[Len(q) - Len(r) + i]
        BY <1>1, <2>1
      <3>2. QED
        BY <1>2, <3>1
    <2>2. CASE ~DropOldest
      <3>1. At(i) = i /\ r[i] = q[i]
        BY <1>1, <2>2
      <3>2. QED
        BY <1>2, <3>1
    <2>3. QED
      BY <2>1, <2>2
  <1>4. Increasing(r)
    <2>1. SUFFICES ASSUME NEW i \in 1 .. Len(r), NEW j \in 1 .. Len(r), i < j
                   PROVE  r[i] < r[j]
      BY DEF Increasing
    <2>2. At(i) < At(j)
      BY <1>2, <2>1
    <2>3. q[At(i)] < q[At(j)]
      BY <1>3, <2>2 DEF Increasing
    <2>4. QED
      BY <1>3, <2>3
  <1>5. Within(r, lo, hi)
    <2>1. SUFFICES ASSUME NEW i \in 1 .. Len(r)
                   PROVE  lo < r[i] /\ i <= r[i] /\ r[i] <= hi
      BY DEF Within
    <2>2. At(i) \in 1 .. Len(q) /\ i <= At(i) /\ r[i] = q[At(i)]
      BY <1>3
    <2>3. q[At(i)] \in Nat /\ lo < q[At(i)] /\ At(i) <= q[At(i)] /\ q[At(i)] <= hi
      BY <2>2 DEF Within
    <2>4. At(i) \in Nat
      BY <1>2, <2>2
    <2> HIDE DEF At
    <2>5. QED
      BY <2>2, <2>3, <2>4
  <1>6. ASSUME DropOldest, EndOfPushed(q, hi), NEW i \in 1 .. Len(r)
        PROVE  r[i] = hi - Len(r) + i
    <2>1. At(i) \in 1 .. Len(q) /\ r[i] = q[At(i)]
      BY <1>3
    <2>2. q[At(i)] = hi - Len(q) + At(i)
      BY <1>6, <2>1 DEF EndOfPushed
    <2>3. At(i) = Len(q) - Len(r) + i
      BY <1>6
    <2>4. QED
      BY <1>2, <2>1, <2>2, <2>3
  <1>7. QED
    BY <1>4, <1>5, <1>6 DEF EndOfPushed, r

LEMMA EndElement ==
  ASSUME NEW q, NEW hi, EndOfPushed(q, hi), NEW j \in 1 .. Len(q)
  PROVE  q[j] = hi - Len(q) + j
  BY DEF EndOfPushed

\* Pushing n elements, by push_back or insert, keeps the queue.
LEMMA PushKeepsQueue ==
  ASSUME QueueInv, NEW n \in Nat \ {0}, NEW q \in Seq(Nat),
         Len(q) = Len(values) + n,
         \A i \in 1 .. Len(values) : q[i] = values[i],
         \A m \in 1 .. n : q[Len(values) + m] = pushed + m,
         values' = Regulate(q), pushed' = pushed + n, UNCHANGED <<taken, last>>
  PROVE  QueueInv'
  <1> DEFINE r == Regulate(q)
  <1>1. /\ values \in Seq(Nat) /\ Len(values) \in Nat /\ Len(q) \in Nat
        /\ pushed \in Nat /\ last \in Nat /\ last <= pushed
        /\ MaxSize \in Nat \ {0} /\ DropOldest \in BOOLEAN
    BY SizeAssumption DEF QueueInv, QueueTypes
  <1>2. /\ r \in Seq(Nat)
        /\ Len(r) = IF Len(q) <= MaxSize THEN Len(q) ELSE MaxSize
        /\ \A i \in 1 .. Len(r) : r[i] = IF DropOldest THEN q[Len(q) - Len(r) + i] ELSE q[i]
    BY RegulateKeepsAnEnd
  <1>3. /\ Increasing(q)
        /\ Within(q, last, pushed + n)
        /\ EndOfPushed(values, pushed) => EndOfPushed(q, pushed + n)
    <2>1. Increasing(values) /\ Within(values, last, pushed)
      BY DEF QueueInv
    <2>2. QED
      BY <1>1, <2>1, ExtendedQueue
  <1>4. /\ Increasing(r)
        /\ Within(r, last, pushed + n)
        /\ DropOldest /\ EndOfPushed(q, pushed + n) => EndOfPushed(r, pushed + n)
    BY <1>1, <1>3, RegulatedQueue
  <1>5. values' = r
    OBVIOUS
  <1> HIDE DEF r
  <1>6. Len(r) \in Nat /\ Len(r) <= Len(q) /\ Len(r) <= MaxSize
    BY <1>1, <1>2
  <1>7. Accounted'
    <2>1. SUFFICES ASSUME NEW e \in last + 1 .. pushed + n, ~NoRoom(e)'
                   PROVE  \E i \in 1 .. Len(r) : r[i] = e
      BY <1>5 DEF Accounted
    <2>2. PICK j \in 1 .. Len(q) : q[j] = e
      <3>1. CASE e <= pushed
        <4>1. ~NoRoom(e)
          BY <1>1, <2>1 DEF NoRoom
        <4>2. e \in last + 1 .. pushed
          BY <1>1, <3>1
        <4>3. PICK j \in 1 .. Len(values) : values[j] = e
          BY <4>1, <4>2 DEF QueueInv, Accounted
        <4>4. j \in 1 .. Len(q) /\ q[j] = e
          BY <1>1, <4>3
        <4>5. QED
          BY <4>4
      <3>2. CASE ~(e <= pushed)
        <4>1. e - pushed \in 1 .. n
          BY <1>1, <3>2
        <4>2. q[Len(values) + (e - pushed)] = pushed + (e - pushed)
          BY <4>1
        <4>3. Len(values) + (e - pushed) \in 1 .. Len(q) /\ pushed + (e - pushed) = e
          BY <1>1, <4>1
        <4>4. QED
          BY <4>2, <4>3
      <3>3. QED
        BY <3>1, <3>2
    <2>3. CASE Len(q) <= MaxSize
      <3>1. Len(r) = Len(q) /\ r[j] = q[j]
        BY <1>1, <1>2, <2>2, <2>3
      <3>2. QED
        BY <2>2, <3>1
    <2>4. CASE Len(q) > MaxSize /\ DropOldest
      <3>1. e = pushed + n - Len(q) + j
        <4>1. EndOfPushed(q, pushed + n)
          BY <1>3, <2>4 DEF QueueInv
        <4>2. q[j] = (pushed + n) - Len(q) + j
          BY <4>1, EndElement
        <4>3. QED
          BY <1>1, <2>2, <4>2
      <3>2. e + MaxSize > pushed + n
        BY <1>1, <2>1, <2>4 DEF NoRoom
      <3>3. Len(r) = MaxSize
        BY <1>1, <1>2, <2>4
      <3> DEFINE i == j - Len(q) + MaxSize
      <3>4. i \in 1 .. Len(r)
        BY <1>1, <2>2, <3>1, <3>2, <3>3
      <3>5. Len(q) - Len(r) + i = j
        BY <1>1, <2>2, <3>3
      <3>6. r[i] = q[Len(q) - Len(r) + i]
        BY <1>2, <2>4, <3>4
      <3>7. QED
        BY <2>2, <3>4, <3>5, <3>6
    <2>5. CASE Len(q) > MaxSize /\ ~DropOldest
      <3>1. e <= MaxSize
        BY <1>1, <2>1, <2>5 DEF NoRoom
      <3>2. j <= e
        BY <1>3, <2>2 DEF Within
      <3>3. j \in 1 .. Len(r)
        BY <1>1, <1>2, <2>1, <2>2, <2>5, <3>1, <3>2
      <3>4. r[j] = q[j]
        BY <1>2, <2>5, <3>3
      <3>5. QED
        BY <2>2, <3>3, <3>4
    <2>6. QED
      BY <1>1, <2>3, <2>4, <2>5
  <1>8. (\A e \in taken : e <= last)'
    BY DEF QueueInv
  <1>9. QueueTypes'
    BY <1>1, <1>2, <1>5, <1>6 DEF QueueInv, QueueTypes
  <1>10. QED
    BY <1>3, <1>4, <1>5, <1>7, <1>8, <1>9 DEF QueueInv

\* Handing the first n elements to a reader keeps the queue, and is a
\* reception of the channel: what is skipped had no room.
LEMMA TakeKeepsQueue ==
  ASSUME QueueInv, NEW n \in 1 .. Len(values), TakeFirst(n)
  PROVE  QueueInv' /\ Channel!Receive
  <1> DEFINE rest == SubSeq(values, n + 1, Len(values))
             part == SubSeq(values, 1, n)
             k == Len(values)
  <1>1. /\ values \in Seq(Nat) /\ k \in Nat /\ n \in Nat /\ n # 0 /\ n <= k
        /\ pushed \in Nat /\ last \in Nat /\ last <= pushed /\ taken \subseteq Nat /\ k <= MaxSize
        /\ MaxSize \in Nat \ {0}
    BY SizeAssumption DEF QueueInv, QueueTypes
  <1>2. \A i \in 1 .. k : values[i] \in Nat
    BY <1>1
  <1>3. \A i \in 1 .. k : last < values[i] /\ i <= values[i] /\ values[i] <= pushed
    BY DEF QueueInv, Within
  <1>4. \A i, j \in 1 .. k : i < j => values[i] < values[j]
    BY DEF QueueInv, Increasing
  <1>5. /\ rest \in Seq(Nat) /\ Len(rest) = k - n
        /\ \A i \in 1 .. k - n : rest[i] = values[n + i]
    <2>1. \A i \in n + 1 .. k : values[i] \in Nat
      BY <1>1, <1>2
    <2>2. /\ rest \in Seq(Nat)
          /\ Len(rest) = IF n + 1 <= k THEN k - (n + 1) + 1 ELSE 0
          /\ \A i \in 1 .. k - (n + 1) + 1 : rest[i] = values[n + 1 + i - 1]
      <3>1. n + 1 \in Int /\ k \in Int
        BY <1>1
      <3>2. QED
        BY <2>1, <3>1, SubSeqProperties
    <2>3. QED
      BY <1>1, <2>2
  <1>6. /\ part \in Seq(Nat) /\ Len(part) = n
        /\ \A i \in 1 .. n : part[i] = values[i]
    <2>1. \A i \in 1 .. n : values[i] \in Nat
      BY <1>1, <1>2
    <2>2. /\ part \in Seq(Nat)
          /\ Len(part) = IF 1 <= n THEN n - 1 + 1 ELSE 0
          /\ \A i \in 1 .. n - 1 + 1 : part[i] = values[1 + i - 1]
      <3>1. 1 \in Int /\ n \in Int
        BY <1>1
      <3>2. QED
        BY <2>1, <3>1, SubSeqProperties
    <2>3. QED
      BY <1>1, <2>2
  <1>7. /\ values' = rest /\ taken' = taken \cup Elems(part) /\ last' = values[n]
        /\ pushed' = pushed
    BY <1>1 DEF TakeFirst
  <1> HIDE DEF rest, part
  <1>8. Elems(part) = {values[i] : i \in 1 .. n}
    <2>1. DOMAIN part = 1 .. n
      BY <1>6
    <2>2. QED
      BY <1>6, <2>1 DEF Elems
  <1>9. /\ values[n] \in Nat /\ last < values[n] /\ values[n] <= pushed
        /\ \A i \in 1 .. n : values[i] \in Nat /\ values[i] <= values[n]
    <2>1. n \in 1 .. k
      BY <1>1
    <2>2. values[n] \in Nat /\ last < values[n] /\ values[n] <= pushed
      BY <1>2, <1>3, <2>1
    <2>3. ASSUME NEW i \in 1 .. n
          PROVE  values[i] \in Nat /\ values[i] <= values[n]
      <3>1. i \in 1 .. k
        BY <1>1
      <3>2. i = n \/ i < n
        BY <1>1
      <3>3. QED
        BY <1>2, <1>4, <2>1, <2>2, <3>1, <3>2
    <2>4. QED
      BY <2>2, <2>3
  <1>10. QueueTypes'
    <2>1. taken' \subseteq Nat
      BY <1>1, <1>7, <1>8, <1>9
    <2>2. QED
      BY <1>1, <1>5, <1>7, <1>9, <2>1 DEF QueueTypes
  <1>11. ASSUME NEW i \in 1 .. k - n
         PROVE  n + i \in 1 .. k /\ rest[i] = values[n + i]
    BY <1>1, <1>5
  <1>12. Increasing(rest)
    <2>1. SUFFICES ASSUME NEW i \in 1 .. k - n, NEW j \in 1 .. k - n, i < j
                   PROVE  rest[i] < rest[j]
      BY <1>5 DEF Increasing
    <2>2. n + i < n + j
      BY <1>1, <2>1
    <2>3. values[n + i] < values[n + j]
      BY <1>4, <1>11, <2>2
    <2>4. QED
      BY <1>11, <2>3
  <1>13. Within(rest, values[n], pushed)
    <2>1. SUFFICES ASSUME NEW i \in 1 .. k - n
                   PROVE  values[n] < rest[i] /\ i <= rest[i] /\ rest[i] <= pushed
      BY <1>5 DEF Within
    <2>2. n + i \in 1 .. k /\ rest[i] = values[n + i]
      BY <1>11
    <2>3. n \in 1 .. k /\ n < n + i
      BY <1>1, <2>1
    <2>4. values[n] < values[n + i]
      BY <1>4, <2>2, <2>3
    <2>5. values[n + i] \in Nat /\ n + i <= values[n + i] /\ values[n + i] <= pushed
      BY <1>2, <1>3, <2>2
    <2>6. i <= values[n + i]
      BY <1>1, <2>1, <2>5
    <2>7. QED
      BY <2>2, <2>4, <2>5, <2>6
  <1>14. DropOldest => EndOfPushed(rest, pushed)
    <2>1. SUFFICES ASSUME DropOldest, NEW i \in 1 .. k - n
                   PROVE  rest[i] = pushed - (k - n) + i
      BY <1>5 DEF EndOfPushed
    <2>2. \A j \in 1 .. k : values[j] = pushed - k + j
      BY <2>1 DEF QueueInv, EndOfPushed
    <2>3. values[n + i] = pushed - k + (n + i)
      BY <1>11, <2>2
    <2>4. QED
      BY <1>1, <1>11, <2>1, <2>3
  <1>15. \A e \in taken' : e <= values[n]
    <2>1. \A e \in taken : e \in Nat /\ e <= last
      BY <1>1 DEF QueueInv
    <2>2. \A e \in taken : e <= values[n]
      BY <1>1, <1>9, <2>1
    <2>3. QED
      BY <1>7, <1>8, <1>9, <2>2
  <1>16. ASSUME NEW e \in last + 1 .. pushed, ~NoRoom(e)
         PROVE  \E i \in 1 .. k : values[i] = e
    BY <1>16 DEF QueueInv, Accounted
  <1>17. Accounted'
    <2>1. SUFFICES ASSUME NEW e \in values[n] + 1 .. pushed, ~NoRoom(e)
                   PROVE  \E i \in 1 .. Len(rest) : rest[i] = e
      BY <1>7 DEF Accounted, NoRoom
    <2>2. e \in last + 1 .. pushed
      BY <1>1, <1>9
    <2>3. PICK i \in 1 .. k : values[i] = e
      BY <1>16, <2>1, <2>2
    <2>4. n < i
      <3>1. CASE i <= n
        <4>1. i \in 1 .. n
          BY <1>1, <3>1
        <4>2. e <= values[n]
          BY <1>9, <2>3, <4>1
        <4>3. QED
          BY <1>9, <2>1, <4>2
      <3>2. QED
        BY <1>1, <3>1
    <2>5. i - n \in 1 .. k - n /\ n + (i - n) = i
      BY <1>1, <2>4
    <2>6. rest[i - n] = e
      BY <1>11, <2>3, <2>5
    <2>7. QED
      BY <1>5, <2>5, <2>6
  <1>18. QueueInv'
    BY <1>7, <1>10, <1>12, <1>13, <1>14, <1>15, <1>17 DEF QueueInv
  <1>19. Channel!Receive
    <2> DEFINE skipped == {e \in last + 1 .. values[n] - 1 : \A i \in 1 .. k : values[i] # e}
    <2>1. values[n] \in last + 1 .. pushed
      BY <1>1, <1>9
    <2>2. \A e \in skipped : Channel!NoRoom(e)
      <3>1. SUFFICES ASSUME NEW e \in skipped
                     PROVE  Channel!NoRoom(e)
        OBVIOUS
      <3>2. e \in last + 1 .. pushed /\ \A i \in 1 .. k : values[i] # e
        BY <1>1, <1>9
      <3>3. NoRoom(e)
        BY <1>16, <3>2
      <3>4. QED
        BY <3>3 DEF NoRoom, Channel!NoRoom
    <2>3. Elems(part) = (last + 1 .. values[n]) \ skipped
      <3>1. ASSUME NEW i \in 1 .. n
            PROVE  values[i] \in (last + 1 .. values[n]) \ skipped
        <4>1. i \in 1 .. k
          BY <1>1
        <4>2. last < values[i] /\ values[i] \in Nat /\ values[i] <= values[n]
          BY <1>3, <1>9, <4>1
        <4>3. values[i] \in last + 1 .. values[n]
          BY <1>1, <1>9, <4>2
        <4>4. QED
          BY <4>1, <4>3
      <3>2. ASSUME NEW e \in (last + 1 .. values[n]) \ skipped
            PROVE  \E i \in 1 .. n : values[i] = e
        <4>1. PICK i \in 1 .. k : values[i] = e
          <5>1. CASE e = values[n]
            BY <1>1, <5>1
          <5>2. CASE e # values[n]
            <6>1. e \in last + 1 .. values[n] - 1
              BY <1>1, <1>9, <5>2
            <6>2. QED
              BY <6>1
          <5>3. QED
            BY <5>1, <5>2
        <4>2. i <= n
          <5>1. CASE n < i
            <6>1. values[n] < values[i]
              BY <1>1, <1>4, <5>1
            <6>2. QED
              BY <1>1, <1>9, <4>1, <6>1
          <5>2. QED
            BY <1>1, <5>1
        <4>3. QED
          BY <1>1, <4>1, <4>2
      <3>3. QED
        BY <1>8, <3>1, <3>2
    <2>4. skipped \in SUBSET (last + 1 .. values[n] - 1)
      OBVIOUS
    <2> HIDE DEF skipped
    <2>5. QED
      BY <1>7, <2>1, <2>2, <2>3, <2>4 DEF Channel!Receive
  <1>20. QED
    BY <1>18, <1>19

-----------------------------------------------------------------------------
(* The steps.                                                              *)

queueVars == <<values, pushed, taken, last>>

LEMMA PushStep ==
  ASSUME QueueInv, PushBack \/ Insert
  PROVE  QueueInv' /\ Channel!Send
  <1>1. /\ values \in Seq(Nat) /\ Len(values) \in Nat /\ pushed \in Nat /\ MaxBatch \in Nat
    BY BoundAssumption DEF QueueInv, QueueTypes
  <1>2. CASE PushBack
    <2> DEFINE q == Append(values, pushed + 1)
    <2>1. /\ values' = Regulate(q) /\ pushed' = pushed + 1 /\ UNCHANGED <<taken, last>>
      BY <1>2 DEF PushBack
    <2>2. q \in Seq(Nat) /\ Len(q) = Len(values) + 1
      BY <1>1
    <2>3. \A i \in 1 .. Len(values) : q[i] = values[i]
      BY <1>1
    <2>4. \A m \in 1 .. 1 : q[Len(values) + m] = pushed + m
      BY <1>1
    <2> HIDE DEF q
    <2>5. 1 \in Nat \ {0}
      OBVIOUS
    <2>6. QueueInv'
      BY <2>1, <2>2, <2>3, <2>4, <2>5, PushKeepsQueue
    <2>7. Channel!Send
      BY <1>1, <2>1 DEF Channel!Send
    <2>8. QED
      BY <2>6, <2>7
  <1>3. CASE Insert
    <2>1. PICK n \in 1 .. MaxBatch :
            /\ values' = Regulate(values \o Batch(n)) /\ pushed' = pushed + n
            /\ UNCHANGED <<taken, last>>
      BY <1>3 DEF Insert
    <2>2. n \in Nat \ {0}
      BY <1>1
    <2> DEFINE q == values \o Batch(n)
    <2>3. Batch(n) \in Seq(Nat) /\ Len(Batch(n)) = n /\ \A m \in 1 .. n : Batch(n)[m] = pushed + m
      BY <1>1, <2>2 DEF Batch
    <2>4. /\ q \in Seq(Nat) /\ Len(q) = Len(values) + n
          /\ \A i \in 1 .. Len(values) + n :
               q[i] = IF i <= Len(values) THEN values[i] ELSE Batch(n)[i - Len(values)]
      <3> DEFINE b == Batch(n)
      <3>1. b \in Seq(Nat) /\ Len(b) = n
        BY <2>3
      <3> HIDE DEF b
      <3>2. /\ values \o b \in Seq(Nat)
            /\ Len(values \o b) = Len(values) + Len(b)
            /\ \A i \in 1 .. Len(values) + Len(b) :
                 (values \o b)[i] = IF i <= Len(values) THEN values[i] ELSE b[i - Len(values)]
        BY <1>1, <3>1, ConcatProperties
      <3>3. QED
        BY <3>1, <3>2 DEF b
    <2>5. \A i \in 1 .. Len(values) : q[i] = values[i]
      BY <1>1, <2>2, <2>4
    <2>6. ASSUME NEW m \in 1 .. n
          PROVE  q[Len(values) + m] = pushed + m
      <3>1. /\ Len(values) + m \in 1 .. Len(values) + n /\ ~(Len(values) + m <= Len(values))
            /\ (Len(values) + m) - Len(values) = m
        BY <1>1, <2>2
      <3>2. q[Len(values) + m] = Batch(n)[(Len(values) + m) - Len(values)]
        BY <2>4, <3>1
      <3>3. QED
        BY <2>3, <3>1, <3>2
    <2>7. values' = Regulate(q)
      BY <2>1
    <2> HIDE DEF q
    <2>8. QueueInv'
      BY <2>1, <2>2, <2>4, <2>5, <2>6, <2>7, PushKeepsQueue
    <2>9. Channel!Send
      BY <1>1, <2>1, <2>2 DEF Channel!Send
    <2>10. QED
      BY <2>8, <2>9
  <1>4. QED
    BY <1>2, <1>3

\* Each way of reading takes some first elements.
LEMMA ReadTakes ==
  ASSUME QueueInv,
         \/ Pop \/ GetAndClear \/ GetAllAndClear
         \/ \E c \in Waiters : TestTakes(c)
  PROVE  \E n \in 1 .. Len(values) : TakeFirst(n)
  <1>1. Len(values) \in Nat
    BY DEF QueueInv, QueueTypes
  <1>2. CASE Pop
    BY <1>1, <1>2 DEF Pop
  <1>3. CASE GetAndClear
    <2>1. Len(values) > 0
      BY <1>3 DEF GetAndClear
    <2>2. PICK n \in 1 .. MaxBatch : TakeFirst(IF Len(values) <= n THEN Len(values) ELSE n)
      BY <1>3 DEF GetAndClear
    <2>3. (IF Len(values) <= n THEN Len(values) ELSE n) \in 1 .. Len(values)
      BY <1>1, <2>1, BoundAssumption
    <2>4. QED
      BY <2>2, <2>3
  <1>4. CASE GetAllAndClear
    BY <1>1, <1>4 DEF GetAllAndClear
  <1>5. ASSUME NEW c \in Waiters, TestTakes(c)
        PROVE  \E n \in 1 .. Len(values) : TakeFirst(n)
    <2>1. Len(values) > 0
      BY <1>5 DEF TestTakes
    <2>2. TakeFirst(IF c \in Poppers THEN 1 ELSE Len(values))
      BY <1>5 DEF TestTakes
    <2>3. (IF c \in Poppers THEN 1 ELSE Len(values)) \in 1 .. Len(values)
      BY <1>1, <2>1
    <2>4. QED
      BY <2>2, <2>3
  <1>6. QED
    BY <1>2, <1>3, <1>4, <1>5

\* The other steps leave the queue alone.
LEMMA QueueKept ==
  ASSUME NEW c \in Waiters,
         TestEnds(c) \/ TestFails(c) \/ Block(c) \/ LeaveLoop(c) \/ SpuriousWake(c) \/ Submit
  PROVE  UNCHANGED queueVars
  BY DEF TestEnds, TestFails, Block, LeaveLoop, SpuriousWake, Submit, SetKillSwitch,
         SetEndOfData, NotifyEnd, queueVars

LEMMA QueueStep ==
  ASSUME QueueInv, [Next]_vars
  PROVE  QueueInv' /\ [Channel!Next]_<<pushed, taken, last>>
  <1>1. CASE PushBack \/ Insert
    BY <1>1, PushStep DEF Channel!Next
  <1>2. CASE \/ Pop \/ GetAndClear \/ GetAllAndClear
             \/ \E c \in Waiters : TestTakes(c)
    <2>1. PICK n \in 1 .. Len(values) : TakeFirst(n)
      BY <1>2, ReadTakes
    <2>2. QED
      BY <2>1, TakeKeepsQueue DEF Channel!Next
  <1>3. CASE UNCHANGED queueVars
    <2>1. QueueInv'
      BY <1>3 DEF queueVars, QueueInv, QueueTypes, Increasing, Within, EndOfPushed, Accounted,
                  NoRoom
    <2>2. UNCHANGED <<pushed, taken, last>>
      BY <1>3 DEF queueVars
    <2>3. QED
      BY <2>1, <2>2
  <1>4. UNCHANGED vars => UNCHANGED queueVars
    BY DEF vars, queueVars
  <1>5. Submit => UNCHANGED queueVars
    BY DEF Submit, SetKillSwitch, SetEndOfData, NotifyEnd, queueVars
  <1>6. QED
    BY <1>1, <1>2, <1>3, <1>4, <1>5, QueueKept DEF Next, Read

LEMMA QueueInit == Init => QueueInv
  <1> SUFFICES ASSUME Init PROVE QueueInv
    OBVIOUS
  <1>1. values = <<>> /\ pushed = 0 /\ taken = {} /\ last = 0
    BY DEF Init
  <1>2. values \in Seq(Nat) /\ Len(values) = 0
    BY <1>1
  <1>3. QED
    BY <1>1, <1>2, SizeAssumption
    DEF QueueInv, QueueTypes, Increasing, Within, EndOfPushed, Accounted

LEMMA QueueInvariant == Spec => []QueueInv
  <1>1. QueueInv /\ [Next]_vars => QueueInv'
    BY QueueStep
  <1>2. QED
    BY <1>1, QueueInit, PTL DEF Spec

\* First in, first out, for any threads and any store policy: the queue is
\* ordered and newer than everything a reader was given.
THEOREM QueueInOrder == Spec => []InOrder
  <1>1. QueueInv => InOrder
    <2> SUFFICES ASSUME QueueInv PROVE InOrder
      OBVIOUS
    <2>1. DOMAIN values = 1 .. Len(values)
      BY DEF QueueInv, QueueTypes
    <2>2. QED
      BY <2>1 DEF QueueInv, Increasing, Within, InOrder
  <1>2. QED
    BY <1>1, QueueInvariant, PTL

\* The queue implements the channel of Fifo: each of its steps is a send, a
\* reception that skips only what the store policy had no room for, or no
\* step of the channel.
THEOREM QueueImplementsFifo == Spec => ImplementsFifo
  <1>1. Init => Channel!Init
    BY DEF Init, Channel!Init
  <1>2. QueueInv /\ [Next]_vars => [Channel!Next]_<<pushed, taken, last>>
    BY QueueStep
  <1>3. QED
    BY <1>1, <1>2, QueueInvariant, PTL DEF Spec, ImplementsFifo, Channel!Spec

-----------------------------------------------------------------------------
(* The readers.  NoSleepOnData is not inductive: the reader that is awake  *)
(* could leave its loop.  SomeoneTakes says which readers count: one that  *)
(* was woken, or one that only leaves an empty queue.                      *)

SomeoneTakes ==
  (values # <<>> /\ \E c \in Waiters : pc[c] = "wait")
    => \E c \in Waiters : pc[c] = "woken" \/ (c \in Poppers /\ pc[c] = "run")

ReaderInv ==
  /\ pc \in [Waiters -> Places] /\ closing \in Stages /\ missed \subseteq Waiters
  /\ \A c \in Waiters : pc[c] = "tested" => values = <<>>
  /\ SomeoneTakes

LEMMA NotifyOneTypes ==
  ASSUME pc \in [Waiters -> Places], NotifyOne
  PROVE  /\ pc' \in [Waiters -> Places]
         /\ \A c \in Waiters : pc'[c] = "tested" => pc[c] = "tested"
         /\ (\E c \in Waiters : pc[c] = "wait") => \E c \in Waiters : pc'[c] = "woken"
         /\ \A c \in Waiters : pc'[c] = "wait" => pc[c] = "wait"
  BY DEF NotifyOne, Places

LEMMA NotifyAllTypes ==
  ASSUME pc \in [Waiters -> Places], NotifyAll
  PROVE  /\ pc' \in [Waiters -> Places]
         /\ \A c \in Waiters : pc'[c] = "tested" => pc[c] = "tested"
         /\ \A c \in Waiters : pc'[c] # "wait"
  BY DEF NotifyAll, Places

LEMMA PushWakes ==
  ASSUME ReaderInv, PushBack \/ Insert
  PROVE  ReaderInv'
  <1>1. /\ pc \in [Waiters -> Places] /\ closing' = closing /\ missed' = missed
        /\ \A c \in Waiters : pc[c] # "tested"
    BY DEF ReaderInv, PushBack, Insert, MutexFree
  <1>2. CASE PushBack
    <2>1. NotifyOne
      BY <1>2 DEF PushBack
    <2>2. QED
      BY <1>1, <2>1, NotifyOneTypes DEF ReaderInv, SomeoneTakes
  <1>3. CASE Insert
    <2>1. NotifyAll
      BY <1>3 DEF Insert
    <2>2. QED
      BY <1>1, <2>1, NotifyAllTypes DEF ReaderInv, SomeoneTakes
  <1>4. QED
    BY <1>2, <1>3

LEMMA EmptyAfterAll ==
  ASSUME TakeFirst(Len(values)), values \in Seq(Nat)
  PROVE  values' = <<>>
  <1>1. Len(values) \in Int /\ Len(values) + 1 \in Int /\ Len(values) < Len(values) + 1
    OBVIOUS
  <1>2. QED
    BY <1>1, SubSeqEmpty DEF TakeFirst

LEMMA TakeLeavesReader ==
  ASSUME QueueInv, ReaderInv,
         \/ Pop \/ GetAndClear \/ GetAllAndClear
         \/ \E c \in Waiters : TestTakes(c)
  PROVE  ReaderInv'
  <1>1. values # <<>> /\ \A c \in Waiters : pc[c] # "tested"
    BY DEF Pop, GetAndClear, GetAllAndClear, TestTakes, MutexFree
  <1>2. closing' = closing /\ missed' = missed
    BY DEF Pop, GetAndClear, GetAllAndClear, TestTakes, TakeFirst
  <1>3. CASE Pop \/ GetAndClear \/ GetAllAndClear
    <2>1. pc' = pc
      BY <1>3 DEF Pop, GetAndClear, GetAllAndClear
    <2>2. QED
      BY <1>1, <1>2, <2>1 DEF ReaderInv, SomeoneTakes
  <1>4. ASSUME NEW c \in Waiters, TestTakes(c)
        PROVE  ReaderInv'
    <2>1. pc \in [Waiters -> Places] /\ pc' = [pc EXCEPT ![c] = "run"]
      BY <1>4 DEF ReaderInv, TestTakes
    <2>2. pc' \in [Waiters -> Places] /\ \A d \in Waiters : pc'[d] # "tested"
      BY <1>1, <2>1 DEF Places
    <2>3. SomeoneTakes'
      <3>1. CASE c \in Poppers
        <4>1. pc'[c] = "run"
          BY <2>1
        <4>2. QED
          BY <3>1, <4>1 DEF SomeoneTakes
      <3>2. CASE c \notin Poppers
        <4>1. values \in Seq(Nat) /\ TakeFirst(Len(values))
          BY <1>4, <3>2 DEF QueueInv, QueueTypes, TestTakes
        <4>2. QED
          BY <4>1, EmptyAfterAll DEF SomeoneTakes
      <3>3. QED
        BY <3>1, <3>2
    <2>4. QED
      BY <1>2, <2>2, <2>3 DEF ReaderInv
  <1>5. QED
    BY <1>3, <1>4

LEMMA ReaderStep ==
  ASSUME QueueInv, ReaderInv, [Next]_vars
  PROVE  ReaderInv'
  <1>1. pc \in [Waiters -> Places]
    BY DEF ReaderInv
  <1>2. CASE PushBack \/ Insert
    BY <1>2, PushWakes
  <1>3. CASE \/ Pop \/ GetAndClear \/ GetAllAndClear
             \/ \E c \in Waiters : TestTakes(c)
    BY <1>3, TakeLeavesReader
  <1>4. ASSUME NEW c \in Waiters, TestEnds(c) \/ TestFails(c)
        PROVE  ReaderInv'
    <2>1. values = <<>> /\ values' = values /\ closing' = closing /\ missed' = missed
      BY <1>4 DEF TestEnds, TestFails
    <2>2. pc' \in [Waiters -> Places]
      BY <1>1, <1>4 DEF TestEnds, TestFails, Places
    <2>3. QED
      BY <2>1, <2>2 DEF ReaderInv, SomeoneTakes
  <1>5. ASSUME NEW c \in Waiters, Block(c)
        PROVE  ReaderInv'
    <2>1. values = <<>> /\ values' = values /\ closing' = closing /\ missed' = missed
      BY <1>5 DEF Block, ReaderInv
    <2>2. pc' \in [Waiters -> Places]
      BY <1>1, <1>5 DEF Block, Places
    <2>3. QED
      BY <2>1, <2>2 DEF ReaderInv, SomeoneTakes
  <1>6. ASSUME NEW c \in Waiters, SpuriousWake(c)
        PROVE  ReaderInv'
    <2>1. values' = values /\ closing' = closing /\ missed' = missed
      BY <1>6 DEF SpuriousWake
    <2>2. pc' = [pc EXCEPT ![c] = "woken"]
      BY <1>6 DEF SpuriousWake
    <2>3. /\ pc' \in [Waiters -> Places] /\ pc'[c] = "woken"
          /\ \A d \in Waiters : pc'[d] = "tested" => pc[d] = "tested"
      BY <1>1, <2>2 DEF Places
    <2>4. QED
      BY <2>1, <2>3 DEF ReaderInv, SomeoneTakes
  <1>7. ASSUME NEW c \in Waiters, LeaveLoop(c)
        PROVE  ReaderInv'
    <2>1. values' = values /\ closing' = closing /\ missed' = missed
      BY <1>7 DEF LeaveLoop
    <2>2. pc[c] = "run" /\ pc' = [pc EXCEPT ![c] = "ended"] /\ (c \in Poppers => values = <<>>)
      BY <1>7 DEF LeaveLoop
    <2>3. /\ pc' \in [Waiters -> Places] /\ pc'[c] = "ended"
          /\ \A d \in Waiters : d # c => pc'[d] = pc[d]
      BY <1>1, <2>2 DEF Places
    <2>4. SomeoneTakes'
      <3>1. CASE values = <<>>
        BY <2>1, <3>1 DEF SomeoneTakes
      <3>2. CASE c \notin Poppers
        BY <2>1, <2>2, <2>3, <3>2 DEF ReaderInv, SomeoneTakes
      <3>3. QED
        BY <2>2, <3>1, <3>2
    <2>5. QED
      BY <2>1, <2>3, <2>4 DEF ReaderInv
  <1>8. CASE Submit
    <2>1. CASE SetKillSwitch \/ SetEndOfData
      <3>1. closing' \in Stages /\ UNCHANGED <<values, pc, missed>>
        BY <2>1 DEF SetKillSwitch, SetEndOfData, Stages
      <3>2. QED
        BY <3>1 DEF ReaderInv, SomeoneTakes
    <2>2. CASE NotifyEnd
      <3>1. closing' \in Stages /\ missed' \subseteq Waiters /\ values' = values /\ NotifyAll
        BY <2>2 DEF NotifyEnd, Stages
      <3>2. QED
        BY <1>1, <3>1, NotifyAllTypes DEF ReaderInv, SomeoneTakes
    <2>3. QED
      BY <1>8, <2>1, <2>2 DEF Submit
  <1>9. CASE UNCHANGED vars
    BY <1>9 DEF vars, ReaderInv, SomeoneTakes
  <1>10. QED
    BY <1>2, <1>3, <1>4, <1>5, <1>6, <1>7, <1>8, <1>9 DEF Next, Read

LEMMA ReaderInvariant == Spec => []ReaderInv
  <1>1. Init => ReaderInv
    BY DEF Init, ReaderInv, SomeoneTakes, Places, Stages
  <1>2. QueueInv /\ ReaderInv /\ [Next]_vars => ReaderInv'
    BY ReaderStep
  <1>3. QED
    BY <1>1, <1>2, QueueInvariant, PTL DEF Spec

\* Every variable has its type, and the queue never outgrows max_size.
THEOREM QueueTypeOK == Spec => []TypeOK
  <1>1. QueueInv /\ ReaderInv => TypeOK
    BY DEF QueueInv, QueueTypes, ReaderInv, TypeOK
  <1>2. QED
    BY <1>1, QueueInvariant, ReaderInvariant, PTL

\* notify_one is enough for any number of readers: none sleeps while the
\* queue holds something and nobody is awake to take it.
THEOREM NobodySleepsOnData == Spec => []NoSleepOnData
  <1>1. ReaderInv => NoSleepOnData
    BY DEF ReaderInv, SomeoneTakes, NoSleepOnData
  <1>2. QED
    BY <1>1, ReaderInvariant, PTL
=============================================================================
