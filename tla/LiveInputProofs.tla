--------------------------- MODULE LiveInputProofs ---------------------------
(***************************************************************************)
(* Proofs about LiveInput, for any lidars, window, thresholds and sizes,   *)
(* and any number of messages.  The order of release rests on two facts:   *)
(* while messages still come, what was released is older than the window   *)
(* or was forced out; and a message in the queue that is older than what   *)
(* was released came late or is older than what was forced out.            *)
(***************************************************************************)
EXTENDS LiveInput, WellFoundedInduction, SequenceTheorems, TLAPS

\* A message that is overtaken came late, or pressure forced the other one out.
Excused == \A e \in queue : e.stamp < released => e.seq \in late \/ e.stamp < forced

\* What was released while messages still come.
ReleasedOld == stage = "run" => released <= forced \/ released <= latest - Window

\* What a lidar delivered is in its buffer or evicted, and not newer than its mark.
HeardKept ==
  \A a \in Aux : \A t \in heard[a] : (t \in Elems(auxBuf[a]) \/ t \in evicted[a]) /\ t <= auxLatest[a]

\* A merged cloud had the watermark of every lidar.
MergedCovered == \A f \in merged : Covered(f.stamp, auxLatest)

-----------------------------------------------------------------------------
(* Least and greatest numbers: they stand in for inductions over a         *)
(* sequence, the first index at which something fails.                     *)

\* Every nonempty set of naturals has a least element.
LEMMA LeastNatural ==
  ASSUME NEW T, T \subseteq Nat, T # {}
  PROVE  \E m \in T : \A n \in T : m <= n
  <1> DEFINE R == OpToRel(<, Nat)
  <1>1. \A n, m \in Nat : n < m => <<n, m>> \in R
    BY DEF OpToRel
  <1>2. IsWellFoundedOn(R, Nat)
    BY ONLY NatLessThanWellFounded, Zenon
  <1> HIDE DEF R
  <1>3. PICK m \in T : \A n \in T : ~(<<n, m>> \in R)
    BY <1>2, WFMin
  <1>4. \A n \in T : ~(n < m)
    BY <1>1, <1>3
  <1>5. QED
    BY <1>4

\* Every nonempty set of naturals up to some bound has a greatest element.
LEMMA GreatestNatural ==
  ASSUME NEW b \in Nat, NEW T, T \subseteq 0 .. b, T # {}
  PROVE  \E m \in T : \A n \in T : n <= m
  <1> DEFINE D == {b - n : n \in T}
  <1>0. \A n \in T : n \in Int /\ b - n \in Nat
    OBVIOUS
  <1>1. D \subseteq Nat /\ D # {}
    BY <1>0
  <1>2. PICK d \in D : \A e \in D : d <= e
    BY <1>1, LeastNatural
  <1>3. PICK m \in T : d = b - m
    OBVIOUS
  <1>4. ASSUME NEW n \in T PROVE n <= m
    <2>1. b - n \in D
      OBVIOUS
    <2>2. b - m <= b - n
      BY <1>2, <1>3, <2>1
    <2>3. QED
      BY <1>0, <2>2
  <1>5. QED
    BY <1>4

-----------------------------------------------------------------------------
(* What the definitions choose exists.                                     *)

LEMMA EventTyped ==
  ASSUME NEW e \in Events
  PROVE  e.stream \in Streams /\ e.stamp \in Stamps /\ e.stamp \in Nat /\ e.seq \in Nat
  BY BoundAssumption DEF Events, Stamps

\* The queue has a message that is due first, and no other is older.
LEMMA OldestFound ==
  ASSUME NEW evs \in SUBSET Events, evs # {}
  PROVE  Oldest(evs) \in evs /\ \A f \in evs : Oldest(evs).stamp <= f.stamp
  <1> DEFINE T == {e.stamp : e \in evs}
  <1>1. T \subseteq Nat /\ T # {}
    BY EventTyped
  <1>2. PICK t \in T : \A u \in T : t <= u
    BY <1>1, LeastNatural
  <1> DEFINE S == {e.seq : e \in {d \in evs : d.stamp = t}}
  <1>3. S \subseteq Nat /\ S # {}
    BY EventTyped
  <1>4. PICK s \in S : \A r \in S : s <= r
    BY <1>3, LeastNatural
  <1>5. PICK e \in evs : e.stamp = t /\ e.seq = s
    OBVIOUS
  <1>6. \A f \in evs : e.stamp < f.stamp \/ (e.stamp = f.stamp /\ e.seq <= f.seq)
    <2> SUFFICES ASSUME NEW f \in evs, ~(e.stamp < f.stamp)
                 PROVE  e.stamp = f.stamp /\ e.seq <= f.seq
      OBVIOUS
    <2>1. f.stamp \in T /\ f.stamp \in Nat /\ e.stamp \in Nat
      BY EventTyped
    <2>2. f.stamp = t
      BY <1>2, <1>5, <2>1
    <2>3. f.seq \in S
      BY <2>2
    <2>4. QED
      BY <1>4, <1>5, <2>2, <2>3
  <1>7. /\ Oldest(evs) \in evs
        /\ \A f \in evs : \/ Oldest(evs).stamp < f.stamp
                          \/ Oldest(evs).stamp = f.stamp /\ Oldest(evs).seq <= f.seq
    BY <1>6 DEF Oldest, First
  <1>8. ASSUME NEW f \in evs PROVE Oldest(evs).stamp <= f.stamp
    <2>1. f.stamp \in Nat /\ Oldest(evs).stamp \in Nat
      BY <1>7, EventTyped
    <2>2. QED
      BY <1>7, <2>1
  <1>9. QED
    BY <1>7, <1>8

LEMMA Typed ==
  ASSUME NEW buf \in Seq(Stamps)
  PROVE  /\ Len(buf) \in Nat
         /\ \A i \in 1 .. Len(buf) : buf[i] \in Stamps /\ buf[i] \in Int
         /\ \A t \in Stamps : t \in Int /\ t > 0
         /\ Elems(buf) \subseteq Stamps
         /\ DOMAIN buf = 1 .. Len(buf)
  <1>1. \A t \in Stamps : t \in Int /\ t > 0
    BY BoundAssumption DEF Stamps
  <1>2. Len(buf) \in Nat /\ DOMAIN buf = 1 .. Len(buf) /\ \A i \in 1 .. Len(buf) : buf[i] \in Stamps
    OBVIOUS
  <1>3. QED
    BY <1>1, <1>2 DEF Elems

\* A buffered cloud near enough has a nearest one, and that one is merged.
LEMMA NearestFound ==
  ASSUME NEW buf \in Seq(Stamps), NEW t \in Int
  PROVE  /\ Nearest(buf, t) \in Stamps \cup {None}
         /\ \A u \in Elems(buf) : Abs(u - t) <= Threshold =>
              Nearest(buf, t) # None /\ Abs(Nearest(buf, t) - t) <= Abs(u - t)
  <1> DEFINE D == {Abs(buf[i] - t) : i \in DOMAIN buf}
  <1>0. Threshold \in Nat /\ \A n \in Int : Abs(n) \in Nat
    BY SizeAssumption DEF Abs
  <1>1. CASE \A i \in DOMAIN buf : Abs(buf[i] - t) > Threshold
    <2>1. Nearest(buf, t) = None
      BY <1>1 DEF Nearest
    <2>2. ASSUME NEW u \in Elems(buf) PROVE ~(Abs(u - t) <= Threshold)
      <3>1. PICK i \in DOMAIN buf : u = buf[i]
        BY DEF Elems
      <3>2. buf[i] - t \in Int
        BY Typed
      <3>3. QED
        BY <1>0, <1>1, <3>1, <3>2
    <2>3. QED
      BY <2>1, <2>2
  <1>2. CASE ~\A i \in DOMAIN buf : Abs(buf[i] - t) > Threshold
    <2>1. \A i \in DOMAIN buf : Abs(buf[i] - t) \in Nat
      <3>1. \A i \in DOMAIN buf : buf[i] \in Int
        BY Typed
      <3>2. \A i \in DOMAIN buf : buf[i] - t \in Int
        BY <3>1
      <3>3. QED
        BY <1>0, <3>2
    <2>2. D \subseteq Nat /\ D # {}
      BY <1>2, <2>1
    <2>3. PICK d \in D : \A c \in D : d <= c
      BY <2>2, LeastNatural
    <2> DEFINE I == {i \in DOMAIN buf : Abs(buf[i] - t) = d}
    <2>4. I \subseteq Nat /\ I # {}
      <3>1. PICK i \in DOMAIN buf : d = Abs(buf[i] - t)
        OBVIOUS
      <3>2. i \in I /\ DOMAIN buf \subseteq Nat
        BY <3>1, Typed
      <3>3. QED
        BY <3>2
    <2>5. PICK k \in I : \A i \in I : k <= i
      BY <2>4, LeastNatural
    <2>6. \A j \in DOMAIN buf : Abs(buf[k] - t) <= Abs(buf[j] - t)
      BY <2>3
    <2>7. ASSUME NEW j \in 1 .. k - 1 PROVE Abs(buf[k] - t) < Abs(buf[j] - t)
      <3>1. j \in DOMAIN buf /\ j \notin I
        BY <2>5, Typed
      <3>2. Abs(buf[j] - t) # d /\ d <= Abs(buf[j] - t) /\ Abs(buf[k] - t) = d
        BY <2>3, <3>1
      <3>3. QED
        BY <2>1, <2>2, <3>1, <3>2
    <2> DEFINE best == CHOOSE i \in DOMAIN buf :
                         /\ \A j \in DOMAIN buf : Abs(buf[i] - t) <= Abs(buf[j] - t)
                         /\ \A j \in 1 .. i - 1 : Abs(buf[i] - t) < Abs(buf[j] - t)
    <2>8. best \in DOMAIN buf /\ \A j \in DOMAIN buf : Abs(buf[best] - t) <= Abs(buf[j] - t)
      BY <2>6, <2>7
    <2>9. Nearest(buf, t) = buf[best]
      BY <1>2 DEF Nearest
    <2> HIDE DEF best
    <2>10. buf[best] \in Stamps /\ buf[best] # None
      BY <2>8, Typed DEF None
    <2>11. QED
      BY <2>8, <2>9, <2>10 DEF Elems
  <1>3. QED
    BY <1>1, <1>2

\* A cloud is buffered; the oldest one may have to go.
LEMMA BufferedFound ==
  ASSUME NEW buf \in Seq(Stamps), NEW t \in Stamps
  PROVE  LET new == KeepNewest(Append(buf, t), BufferSize)
         IN  /\ new \in Seq(Stamps) /\ Len(new) <= BufferSize
             /\ Elems(Append(buf, t)) = Elems(buf) \cup {t}
  <1> DEFINE app == Append(buf, t)
  <1>1. /\ app \in Seq(Stamps) /\ Len(app) = Len(buf) + 1 /\ Len(buf) \in Nat
        /\ app[Len(buf) + 1] = t /\ \A i \in 1 .. Len(buf) : app[i] = buf[i]
    OBVIOUS
  <1>2. BufferSize \in Nat \ {0}
    BY SizeAssumption
  <1> HIDE DEF app
  <1>3. DOMAIN app = 1 .. Len(buf) + 1 /\ DOMAIN buf = 1 .. Len(buf)
    BY <1>1
  <1>4. Elems(app) = Elems(buf) \cup {t}
    <2>1. ASSUME NEW i \in DOMAIN app PROVE app[i] \in Elems(buf) \cup {t}
      <3>1. CASE i = Len(buf) + 1
        BY <1>1, <3>1
      <3>2. CASE i # Len(buf) + 1
        <4>1. i \in 1 .. Len(buf)
          BY <1>1, <1>3, <3>2
        <4>2. QED
          BY <1>1, <1>3, <4>1 DEF Elems
      <3>3. QED
        BY <3>1, <3>2
    <2>2. ASSUME NEW i \in DOMAIN buf PROVE buf[i] \in Elems(app)
      <3>1. i \in 1 .. Len(buf) /\ i \in 1 .. Len(buf) + 1
        BY <1>1, <1>3
      <3>2. i \in DOMAIN app /\ app[i] = buf[i]
        BY <1>1, <1>3, <3>1
      <3>3. QED
        BY <3>2 DEF Elems
    <2>3. t \in Elems(app)
      <3>1. Len(buf) + 1 \in DOMAIN app
        BY <1>1, <1>3
      <3>2. QED
        BY <1>1, <3>1 DEF Elems
    <2>4. QED
      BY <2>1, <2>2, <2>3 DEF Elems
  <1>5. CASE Len(app) <= BufferSize
    BY <1>1, <1>4, <1>5 DEF KeepNewest, app
  <1>6. CASE ~(Len(app) <= BufferSize)
    <2> DEFINE m == Len(app) - BufferSize + 1
    <2>1. /\ m \in Int /\ Len(app) \in Int /\ m <= Len(app) /\ Len(app) - m + 1 = BufferSize
          /\ \A i \in m .. Len(app) : i \in 1 .. Len(app)
      BY <1>1, <1>2, <1>6
    <2>2. \A i \in m .. Len(app) : app[i] \in Stamps
      BY <1>1, <2>1
    <2> HIDE DEF m
    <2>3. SubSeq(app, m, Len(app)) \in Seq(Stamps) /\ Len(SubSeq(app, m, Len(app))) = BufferSize
      BY <2>1, <2>2, SubSeqProperties
    <2>4. KeepNewest(app, BufferSize) = SubSeq(app, m, Len(app))
      BY <1>6 DEF KeepNewest, m
    <2>5. /\ KeepNewest(app, BufferSize) \in Seq(Stamps)
          /\ Len(KeepNewest(app, BufferSize)) <= BufferSize
      BY <1>2, <2>3, <2>4
    <2>6. QED
      BY <1>4, <2>5 DEF app
  <1>7. QED
    BY <1>5, <1>6

\* Flushing takes the covered clouds at the front, and stops at one that is not.
LEMMA FlushFound ==
  ASSUME NEW prim \in Seq(Stamps), NEW marks
  PROVE  LET out  == Flushed(prim, marks)
             rest == SubSeq(prim, Len(out) + 1, Len(prim))
         IN  /\ out \in Seq(Stamps)
             /\ \A i \in 1 .. Len(out) : Covered(out[i], marks)
             /\ rest \in Seq(Stamps) /\ Len(rest) <= Len(prim)
             /\ rest # <<>> => ~Covered(rest[1], marks)
  <1> DEFINE T == {n \in 0 .. Len(prim) : n < Len(prim) => ~Covered(prim[n + 1], marks)}
             good(n) == /\ \A i \in 1 .. n : Covered(prim[i], marks)
                        /\ n < Len(prim) => ~Covered(prim[n + 1], marks)
             k == CHOOSE n \in 0 .. Len(prim) : good(n)
             out == Flushed(prim, marks)
             rest == SubSeq(prim, Len(out) + 1, Len(prim))
  <1>1. Len(prim) \in Nat /\ \A i \in 1 .. Len(prim) : prim[i] \in Stamps
    OBVIOUS
  <1>2. T \subseteq Nat /\ Len(prim) \in T
    BY <1>1
  <1>3. PICK m \in T : \A n \in T : m <= n
    BY <1>2, LeastNatural
  <1>4. ASSUME NEW i \in 1 .. m PROVE Covered(prim[i], marks)
    <2>1. i - 1 \in 0 .. Len(prim) /\ i - 1 < Len(prim) /\ (i - 1) + 1 = i /\ i - 1 < m
      BY <1>1
    <2>2. i - 1 \notin T
      BY <1>1, <1>3, <2>1
    <2>3. QED
      BY <2>1, <2>2
  <1>5. m \in 0 .. Len(prim) /\ good(m)
    BY <1>4
  <1>6. k \in 0 .. Len(prim) /\ good(k)
    BY <1>5
  <1>7. out = SubSeq(prim, 1, k)
    BY DEF Flushed
  <1> HIDE DEF k
  <1>8. /\ out \in Seq(Stamps) /\ Len(out) = k
        /\ \A i \in 1 .. k : out[i] = prim[i]
    <2>1. \A i \in 1 .. k : prim[i] \in Stamps /\ 1 + i - 1 = i
      BY <1>1, <1>6
    <2>2. /\ SubSeq(prim, 1, k) \in Seq(Stamps)
          /\ Len(SubSeq(prim, 1, k)) = IF 1 <= k THEN k - 1 + 1 ELSE 0
          /\ \A i \in 1 .. k - 1 + 1 : SubSeq(prim, 1, k)[i] = prim[1 + i - 1]
      BY <1>6, <2>1, SubSeqProperties
    <2>3. k - 1 + 1 = k /\ (IF 1 <= k THEN k - 1 + 1 ELSE 0) = k
      BY <1>6
    <2>4. QED
      BY <1>7, <2>1, <2>2, <2>3
  <1>9. \A i \in 1 .. Len(out) : Covered(out[i], marks)
    BY <1>6, <1>8
  <1>10. rest = SubSeq(prim, k + 1, Len(prim))
    BY <1>8
  <1> HIDE DEF out, rest
  <1>11. /\ rest \in Seq(Stamps)
         /\ Len(rest) = IF k + 1 <= Len(prim) THEN Len(prim) - (k + 1) + 1 ELSE 0
         /\ \A i \in 1 .. Len(prim) - (k + 1) + 1 : rest[i] = prim[k + 1 + i - 1]
    <2>1. k + 1 \in Int /\ Len(prim) \in Int /\ \A i \in k + 1 .. Len(prim) : prim[i] \in Stamps
      BY <1>1, <1>6
    <2>2. QED
      BY <1>10, <2>1, SubSeqProperties
  <1>12. Len(rest) <= Len(prim)
    BY <1>1, <1>6, <1>11
  <1>13. rest # <<>> => ~Covered(rest[1], marks)
    <2> SUFFICES ASSUME rest # <<>> PROVE ~Covered(rest[1], marks)
      OBVIOUS
    <2>1. Len(rest) # 0
      BY <1>11
    <2>2. k < Len(prim)
      BY <1>1, <1>6, <1>11, <2>1
    <2>3. 1 \in 1 .. Len(prim) - (k + 1) + 1 /\ k + 1 + 1 - 1 = k + 1
      BY <1>1, <1>6, <2>2
    <2>4. rest[1] = prim[k + 1]
      BY <1>11, <2>3
    <2>5. QED
      BY <1>6, <2>2, <2>4
  <1>14. QED
    BY <1>8, <1>9, <1>11, <1>12, <1>13 DEF out, rest

Merged == [stamp : Stamps, aux : [Aux -> 0 .. MaxStamp]]

\* What merging does to the clouds held and to the clouds merged.
LEMMA MergeFound ==
  ASSUME NEW prim \in Seq(Stamps), NEW bufs \in [Aux -> Seq(Stamps)], NEW marks,
         lastPoints \in 0 .. MaxStamp, merged \subseteq Merged,
         Merge(prim, bufs, marks)
  PROVE  /\ primary' \in Seq(Stamps) /\ Len(primary') <= Len(prim)
         /\ primary' # <<>> => ~Covered(primary'[1], marks)
         /\ merged' \subseteq Merged /\ merged \subseteq merged'
         /\ lastPoints' \in 0 .. MaxStamp
         /\ \A f \in merged' \ merged :
              Covered(f.stamp, marks) /\ \A a \in Aux : f.aux[a] = Nearest(bufs[a], f.stamp)
  <1> DEFINE out == Flushed(prim, marks)
             rec(i) == [stamp |-> out[i], aux |-> [a \in Aux |-> Nearest(bufs[a], out[i])]]
  <1>1. /\ out \in Seq(Stamps)
        /\ \A i \in 1 .. Len(out) : Covered(out[i], marks)
        /\ SubSeq(prim, Len(out) + 1, Len(prim)) \in Seq(Stamps)
        /\ Len(SubSeq(prim, Len(out) + 1, Len(prim))) <= Len(prim)
        /\ SubSeq(prim, Len(out) + 1, Len(prim)) # <<>>
             => ~Covered(SubSeq(prim, Len(out) + 1, Len(prim))[1], marks)
    BY FlushFound
  <1>2. /\ primary' = SubSeq(prim, Len(out) + 1, Len(prim))
        /\ merged' = merged \cup {rec(i) : i \in DOMAIN out}
        /\ KeepTime(out)
    BY DEF Merge
  <1> HIDE DEF out
  <1>3. DOMAIN out = 1 .. Len(out) /\ \A i \in DOMAIN out : out[i] \in Stamps /\ out[i] \in Int
    BY <1>1, Typed
  <1>4. ASSUME NEW i \in DOMAIN out
        PROVE  /\ rec(i) \in Merged /\ Covered(rec(i).stamp, marks)
               /\ \A a \in Aux : rec(i).aux[a] = Nearest(bufs[a], rec(i).stamp)
    <2>1. ASSUME NEW a \in Aux PROVE Nearest(bufs[a], out[i]) \in 0 .. MaxStamp
      <3>1. Nearest(bufs[a], out[i]) \in Stamps \cup {None}
        BY <1>3, NearestFound
      <3>2. QED
        BY <3>1, BoundAssumption DEF Stamps, None
    <2>2. rec(i) \in Merged
      BY <1>3, <2>1 DEF Merged
    <2>3. QED
      BY <1>1, <1>3, <2>2
  <1> HIDE DEF rec
  <1>5. merged' \subseteq Merged /\ merged \subseteq merged'
    BY <1>2, <1>4
  <1>6. \A f \in merged' \ merged :
          Covered(f.stamp, marks) /\ \A a \in Aux : f.aux[a] = Nearest(bufs[a], f.stamp)
    BY <1>2, <1>4
  <1>7. lastPoints' \in 0 .. MaxStamp
    <2> DEFINE T == {lastPoints} \cup Elems(out)
    <2>1. T \subseteq 0 .. MaxStamp /\ T # {} /\ MaxStamp \in Nat
      BY <1>1, Typed, BoundAssumption DEF Stamps
    <2>2. \E t \in T : \A u \in T : u <= t
      BY <2>1, GreatestNatural
    <2>3. lastPoints' = CHOOSE t \in T : \A u \in T : u <= t
      BY <1>2 DEF KeepTime
    <2> HIDE DEF T
    <2>4. lastPoints' \in T
      BY <2>2, <2>3
    <2>5. QED
      BY <2>1, <2>4
  <1>8. QED
    BY <1>1, <1>2, <1>5, <1>6, <1>7

-----------------------------------------------------------------------------
(* What a message does when it leaves the queue.                           *)

\* The part of the invariant that is about clouds.
ConcatInv ==
  /\ auxBuf \in [Aux -> Seq(Stamps)] /\ \A a \in Aux : Len(auxBuf[a]) <= BufferSize
  /\ auxLatest \in [Aux -> 0 .. MaxStamp]
  /\ primary \in Seq(Stamps) /\ Len(primary) <= BufferSize
  /\ {lastImu, lastPoints} \subseteq 0 .. MaxStamp
  /\ merged \subseteq Merged
  /\ heard \in [Aux -> SUBSET Stamps] /\ evicted \in [Aux -> SUBSET Stamps]
  /\ HeldForAux /\ HeardKept /\ MergedCovered

\* What NearestIsMerged says of a step.
NearestStep ==
  \A f \in merged', a \in Aux : \A t \in heard'[a] :
    ((f \notin merged \/ t \notin heard[a]) /\ Nearer(t, f, a))
      => t \in evicted'[a] \/ (f \in merged /\ t <= auxLatest[a])

\* A cloud merged in this step got the nearest of those in the buffers.
LEMMA NearestNow ==
  ASSUME HeardKept', auxBuf' \in [Aux -> Seq(Stamps)],
         NEW f \in Merged, \A a \in Aux : f.aux[a] = Nearest(auxBuf'[a], f.stamp),
         NEW a \in Aux, NEW t \in heard'[a], Nearer(t, f, a)
  PROVE  t \in evicted'[a]
  <1>1. SUFFICES ASSUME t \in Elems(auxBuf'[a]) PROVE FALSE
    BY DEF HeardKept
  <1>2. f.stamp \in Int /\ auxBuf'[a] \in Seq(Stamps)
    BY BoundAssumption DEF Merged, Stamps
  <1>3. f.aux[a] # None /\ Abs(f.aux[a] - f.stamp) <= Abs(t - f.stamp)
    BY <1>1, <1>2, NearestFound DEF Nearer
  <1>4. Abs(t - f.stamp) < Abs(f.aux[a] - f.stamp)
    BY <1>3 DEF Nearer
  <1>5. Abs(t - f.stamp) \in Int /\ Abs(f.aux[a] - f.stamp) \in Int
    <2>1. t \in Int /\ f.aux[a] \in Int
      <3>1. t \in Int
        BY <1>1, <1>2, Typed
      <3>2. f.aux[a] \in 0 .. MaxStamp
        BY DEF Merged
      <3>3. QED
        BY <3>1, <3>2, BoundAssumption
    <2>2. QED
      BY <1>2, <2>1 DEF Abs
  <1>6. QED
    BY <1>3, <1>4, <1>5

LEMMA ProcessImuKeeps ==
  ASSUME ConcatInv, NEW t \in Stamps, ProcessImu(t)
  PROVE  ConcatInv' /\ NearestStep
  <1>1. UNCHANGED <<auxBuf, auxLatest, primary, merged, heard, evicted, lastPoints>>
    BY DEF ProcessImu, concatVars
  <1>2. lastImu' \in 0 .. MaxStamp
    BY BoundAssumption DEF ConcatInv, ProcessImu, Larger, Stamps
  <1>3. ConcatInv'
    BY <1>1, <1>2 DEF ConcatInv, HeldForAux, HeardKept, MergedCovered, Covered
  <1>4. NearestStep
    BY <1>1 DEF NearestStep
  <1>5. QED
    BY <1>3, <1>4

LEMMA ProcessPointsKeeps ==
  ASSUME ConcatInv, NEW t \in Stamps, ProcessPoints(t)
  PROVE  ConcatInv' /\ NearestStep
  <1> DEFINE prim == KeepNewest(Append(primary, t), BufferSize)
  <1>1. /\ UNCHANGED <<auxBuf, auxLatest, heard, evicted, lastImu>>
        /\ Merge(prim, auxBuf, auxLatest)
    BY DEF ProcessPoints
  <1>2. prim \in Seq(Stamps) /\ Len(prim) <= BufferSize
    BY BufferedFound DEF ConcatInv
  <1> HIDE DEF prim
  <1>3. /\ primary' \in Seq(Stamps) /\ Len(primary') <= Len(prim)
        /\ primary' # <<>> => ~Covered(primary'[1], auxLatest)
        /\ merged' \subseteq Merged /\ merged \subseteq merged'
        /\ lastPoints' \in 0 .. MaxStamp
        /\ \A f \in merged' \ merged :
              Covered(f.stamp, auxLatest) /\ \A a \in Aux : f.aux[a] = Nearest(auxBuf[a], f.stamp)
    BY <1>1, <1>2, MergeFound DEF ConcatInv
  <1>4. Len(primary') <= BufferSize
    BY <1>2, <1>3, SizeAssumption
  <1>5. HeldForAux' /\ HeardKept' /\ MergedCovered'
    BY <1>1, <1>3 DEF ConcatInv, HeldForAux, HeardKept, MergedCovered, Covered
  <1>6. ConcatInv'
    BY <1>1, <1>3, <1>4, <1>5 DEF ConcatInv
  <1>7. NearestStep
    <2> SUFFICES ASSUME NEW f \in merged', NEW a \in Aux, NEW u \in heard'[a],
                        f \notin merged, Nearer(u, f, a)
                 PROVE  u \in evicted'[a]
      BY <1>1 DEF NearestStep
    <2>1. f \in Merged /\ \A b \in Aux : f.aux[b] = Nearest(auxBuf'[b], f.stamp)
      BY <1>1, <1>3
    <2>2. auxBuf' \in [Aux -> Seq(Stamps)]
      BY <1>1 DEF ConcatInv
    <2>3. QED
      BY <1>5, <2>1, <2>2, NearestNow
  <1>8. QED
    BY <1>6, <1>7

LEMMA ProcessAuxKeeps ==
  ASSUME ConcatInv, NEW a \in Aux, NEW t \in Stamps, ProcessAux(a, t)
  PROVE  ConcatInv' /\ NearestStep
  <1> DEFINE app == Append(auxBuf[a], t)
             buf == KeepNewest(app, BufferSize)
  <1>1. /\ auxBuf' = [auxBuf EXCEPT ![a] = buf]
        /\ auxLatest' = [auxLatest EXCEPT ![a] = Larger(@, t)]
        /\ heard' = [heard EXCEPT ![a] = @ \cup {t}]
        /\ evicted' = [evicted EXCEPT ![a] = @ \cup (Elems(app) \ Elems(buf))]
        /\ Merge(primary, auxBuf', auxLatest') /\ lastImu' = lastImu
    BY DEF ProcessAux, FlushAfterAux
  <1>2. /\ auxBuf \in [Aux -> Seq(Stamps)] /\ auxLatest \in [Aux -> 0 .. MaxStamp]
        /\ heard \in [Aux -> SUBSET Stamps] /\ evicted \in [Aux -> SUBSET Stamps]
        /\ primary \in Seq(Stamps) /\ merged \subseteq Merged /\ lastPoints \in 0 .. MaxStamp
        /\ Len(primary) <= BufferSize /\ BufferSize \in Nat
        /\ MaxStamp \in Nat /\ Threshold \in Nat
    BY SizeAssumption, BoundAssumption DEF ConcatInv
  <1>3. /\ buf \in Seq(Stamps) /\ Len(buf) <= BufferSize
        /\ Elems(app) = Elems(auxBuf[a]) \cup {t} /\ Elems(app) \subseteq Stamps
    <2>1. auxBuf[a] \in Seq(Stamps)
      BY <1>2
    <2>2. QED
      BY <2>1, BufferedFound, Typed
  <1> HIDE DEF buf, app
  <1>4. /\ auxBuf' \in [Aux -> Seq(Stamps)] /\ \A b \in Aux : Len(auxBuf'[b]) <= BufferSize
        /\ heard' \in [Aux -> SUBSET Stamps] /\ evicted' \in [Aux -> SUBSET Stamps]
    BY <1>1, <1>2, <1>3 DEF ConcatInv
  <1>5. t \in Int /\ t \in 0 .. MaxStamp
    BY BoundAssumption DEF Stamps
  <1>6. auxLatest' \in [Aux -> 0 .. MaxStamp] /\ \A b \in Aux : auxLatest[b] <= auxLatest'[b]
    <2>1. auxLatest[a] \in 0 .. MaxStamp
      BY <1>2
    <2>2. Larger(auxLatest[a], t) \in 0 .. MaxStamp /\ auxLatest[a] <= Larger(auxLatest[a], t)
      BY <1>2, <1>5, <2>1 DEF Larger
    <2>3. QED
      BY <1>1, <1>2, <2>2
  <1>7. t <= auxLatest'[a]
    <2>1. auxLatest'[a] = Larger(auxLatest[a], t) /\ auxLatest[a] \in 0 .. MaxStamp
      BY <1>1, <1>2
    <2>2. QED
      BY <1>2, <1>5, <2>1 DEF Larger
  <1>8. /\ primary' \in Seq(Stamps) /\ Len(primary') <= Len(primary)
        /\ primary' # <<>> => ~Covered(primary'[1], auxLatest')
        /\ merged' \subseteq Merged /\ merged \subseteq merged'
        /\ lastPoints' \in 0 .. MaxStamp
        /\ \A f \in merged' \ merged :
              Covered(f.stamp, auxLatest') /\ \A b \in Aux : f.aux[b] = Nearest(auxBuf'[b], f.stamp)
    <2>1. ASSUME NEW bufs \in [Aux -> Seq(Stamps)], NEW marks, Merge(primary, bufs, marks),
                 bufs = auxBuf', marks = auxLatest'
          PROVE  /\ primary' \in Seq(Stamps) /\ Len(primary') <= Len(primary)
                 /\ primary' # <<>> => ~Covered(primary'[1], marks)
                 /\ merged' \subseteq Merged /\ merged \subseteq merged'
                 /\ lastPoints' \in 0 .. MaxStamp
                 /\ \A f \in merged' \ merged :
                       Covered(f.stamp, marks) /\ \A b \in Aux : f.aux[b] = Nearest(bufs[b], f.stamp)
      <3>1. primary \in Seq(Stamps) /\ lastPoints \in 0 .. MaxStamp /\ merged \subseteq Merged
        BY <1>2
      <3>2. Merge(primary, bufs, marks)
        BY <2>1
      <3>3. QED
        BY <3>1, <3>2, MergeFound, Zenon
    <2>2. auxBuf' \in [Aux -> Seq(Stamps)] /\ Merge(primary, auxBuf', auxLatest')
      BY <1>1, <1>4
    <2>3. QED
      BY <2>1, <2>2, Zenon
  <1>9. Len(primary') <= BufferSize
    BY <1>2, <1>8
  <1>10. HeardKept'
    <2> SUFFICES ASSUME NEW b \in Aux, NEW u \in heard'[b]
                 PROVE  (u \in Elems(auxBuf'[b]) \/ u \in evicted'[b]) /\ u <= auxLatest'[b]
      BY DEF HeardKept
    <2>1. CASE u \in heard[b]
      <3>1. (u \in Elems(auxBuf[b]) \/ u \in evicted[b]) /\ u <= auxLatest[b]
        BY <2>1 DEF ConcatInv, HeardKept
      <3>2. u \in Int /\ auxLatest[b] \in Int /\ auxLatest'[b] \in Int
        BY <1>2, <1>6, <2>1, BoundAssumption DEF Stamps
      <3>3. u <= auxLatest'[b]
        BY <1>6, <3>1, <3>2
      <3>4. u \in Elems(auxBuf'[b]) \/ u \in evicted'[b]
        BY <1>1, <1>2, <1>3, <3>1
      <3>5. QED
        BY <3>3, <3>4
    <2>2. CASE u \notin heard[b]
      <3>1. b = a /\ u = t
        BY <1>1, <1>2, <2>2
      <3>2. t \in Elems(auxBuf'[a]) \/ t \in evicted'[a]
        BY <1>1, <1>2, <1>3
      <3>3. QED
        BY <1>7, <3>1, <3>2
    <2>3. QED
      BY <2>1, <2>2
  <1>11. MergedCovered'
    <2> SUFFICES ASSUME NEW f \in merged' PROVE Covered(f.stamp, auxLatest')
      BY DEF MergedCovered
    <2>1. CASE f \in merged
      <3>1. Covered(f.stamp, auxLatest)
        BY <2>1 DEF ConcatInv, MergedCovered
      <3>2. f.stamp + Threshold \in Int
        BY <1>2, <2>1, BoundAssumption DEF Merged, Stamps
      <3>3. ASSUME NEW b \in Aux PROVE f.stamp + Threshold <= auxLatest'[b]
        <4>1. /\ f.stamp + Threshold <= auxLatest[b] /\ auxLatest[b] <= auxLatest'[b]
              /\ auxLatest[b] \in Int /\ auxLatest'[b] \in Int
          BY <1>2, <1>6, <3>1 DEF Covered
        <4>2. QED
          BY <3>2, <4>1
      <3>4. QED
        BY <3>3 DEF Covered
    <2>2. CASE f \notin merged
      BY <1>8, <2>2
    <2>3. QED
      BY <2>1, <2>2
  <1>12. HeldForAux'
    BY <1>8 DEF HeldForAux
  <1>13. {lastImu, lastPoints}' \subseteq 0 .. MaxStamp
    BY <1>1, <1>8 DEF ConcatInv
  <1>14. ConcatInv'
    BY <1>4, <1>6, <1>8, <1>9, <1>10, <1>11, <1>12, <1>13 DEF ConcatInv
  <1>15. NearestStep
    <2> SUFFICES ASSUME NEW f \in merged', NEW b \in Aux, NEW u \in heard'[b],
                        f \notin merged \/ u \notin heard[b], Nearer(u, f, b)
                 PROVE  u \in evicted'[b] \/ (f \in merged /\ u <= auxLatest[b])
      BY DEF NearestStep
    <2>1. CASE f \notin merged
      <3>1. f \in Merged /\ \A c \in Aux : f.aux[c] = Nearest(auxBuf'[c], f.stamp)
        BY <1>8, <2>1
      <3>2. QED
        BY <1>4, <1>10, <3>1, NearestNow
    <2>2. CASE f \in merged
      <3>1. b = a /\ u = t
        BY <1>1, <1>2, <2>2
      <3>2. f.stamp \in Int /\ f.stamp + Threshold <= auxLatest[a] /\ auxLatest[a] \in Int
        BY <1>2, <2>2, BoundAssumption DEF ConcatInv, MergedCovered, Covered, Merged, Stamps
      <3>3. Abs(t - f.stamp) <= Threshold
        BY <3>1 DEF Nearer
      <3>4. t <= f.stamp + Threshold
        BY <1>2, <1>5, <3>2, <3>3 DEF Abs
      <3>5. t <= auxLatest[a]
        BY <1>2, <1>5, <3>2, <3>4
      <3>6. QED
        BY <2>2, <3>1, <3>5
    <2>3. QED
      BY <2>1, <2>2
  <1>16. QED
    BY <1>14, <1>15

-----------------------------------------------------------------------------
(* The queue.                                                              *)

QueueInv ==
  /\ queue \subseteq Events /\ seq \in 0 .. MaxMsgs
  /\ stage \in {"run", "stop", "ended"}
  /\ {latest, released, forced} \subseteq 0 .. MaxStamp
  /\ late \subseteq 1 .. MaxMsgs /\ inverted \subseteq Events
  /\ Excused /\ ReleasedOld /\ InOrderWithinWindow

LEMMA EnqueueKeeps ==
  ASSUME QueueInv, Enqueue
  PROVE  QueueInv'
  <1>1. PICK s \in Streams, t \in Stamps :
          /\ queue' = queue \cup {[stream |-> s, stamp |-> t, seq |-> seq + 1]}
          /\ seq' = seq + 1 /\ latest' = Larger(latest, t)
          /\ late' = IF t < latest - Window THEN late \cup {seq + 1} ELSE late
    BY DEF Enqueue
  <1>2. /\ stage = "run" /\ seq < MaxMsgs
        /\ UNCHANGED <<released, forced, inverted, stage>>
    BY DEF Enqueue
  <1>3. /\ MaxStamp \in Nat /\ MaxMsgs \in Nat /\ Window \in Nat
        /\ seq \in Nat /\ latest \in 0 .. MaxStamp /\ released \in 0 .. MaxStamp
        /\ forced \in 0 .. MaxStamp /\ t \in 0 .. MaxStamp
    BY BoundAssumption, SizeAssumption DEF QueueInv, Stamps
  <1> DEFINE new == [stream |-> s, stamp |-> t, seq |-> seq + 1]
  <1>4. new \in Events
    <2>1. seq + 1 \in 1 .. MaxMsgs
      BY <1>2, <1>3
    <2>2. QED
      BY <2>1 DEF Events
  <1>5. /\ latest' \in 0 .. MaxStamp /\ latest <= latest' /\ seq' \in 0 .. MaxMsgs
        /\ late' \subseteq 1 .. MaxMsgs /\ late \subseteq late'
    BY <1>1, <1>2, <1>3 DEF Larger, QueueInv
  <1>6. Excused'
    <2>1. ASSUME t < released PROVE seq + 1 \in late' \/ t < forced
      <3>1. released <= forced \/ released <= latest - Window
        BY <1>2 DEF QueueInv, ReleasedOld
      <3>2. CASE released <= forced
        BY <1>3, <2>1, <3>2
      <3>3. CASE released <= latest - Window
        <4>1. t < latest - Window
          BY <1>3, <2>1, <3>3
        <4>2. QED
          BY <1>1, <4>1
      <3>4. QED
        BY <3>1, <3>2, <3>3
    <2>2. new.stamp = t /\ new.seq = seq + 1 /\ queue' = queue \cup {new}
      BY <1>1
    <2>3. \A e \in queue : e.stamp < released => e.seq \in late' \/ e.stamp < forced
      BY <1>5 DEF QueueInv, Excused
    <2> HIDE DEF new
    <2>4. QED
      BY <1>2, <2>1, <2>2, <2>3 DEF Excused
  <1>7. ReleasedOld'
    <2>1. released <= forced \/ released <= latest - Window
      BY <1>2 DEF QueueInv, ReleasedOld
    <2>2. released <= forced \/ released <= latest' - Window
      <3>1. /\ latest \in Int /\ latest' \in Int /\ Window \in Int /\ released \in Int
            /\ forced \in Int /\ latest <= latest'
        BY <1>3, <1>5
      <3>2. \A x, y, w, r \in Int : r <= x - w /\ x <= y => r <= y - w
        OBVIOUS
      <3>3. released <= latest - Window => released <= latest' - Window
        BY <3>1, <3>2
      <3>4. QED
        BY <2>1, <3>3
    <2>3. QED
      BY <1>2, <2>2 DEF ReleasedOld
  <1>8. InOrderWithinWindow'
    BY <1>2, <1>5 DEF QueueInv, InOrderWithinWindow
  <1>9. queue' \subseteq Events
    BY <1>1, <1>4 DEF QueueInv
  <1>10. QED
    BY <1>2, <1>5, <1>6, <1>7, <1>8, <1>9 DEF QueueInv

\* The steps of pop_live_input, whatever the message does afterwards.
LEMMA ReleaseKeepsQueue ==
  ASSUME QueueInv, Release
  PROVE  QueueInv'
  <1> DEFINE e == Oldest(queue)
  <1>1. /\ queue # {} /\ stage # "ended" /\ ReadyToGo(e)
        /\ queue' = queue \ {e}
        /\ released' = Larger(released, e.stamp)
        /\ forced' = IF Pressure THEN Larger(forced, e.stamp) ELSE forced
        /\ inverted' = IF e.stamp < released THEN inverted \cup {e} ELSE inverted
        /\ UNCHANGED <<seq, latest, late, stage>>
    BY DEF Release
  <1>2. e \in queue /\ \A f \in queue : e.stamp <= f.stamp
    BY <1>1, OldestFound DEF QueueInv
  <1> HIDE DEF e
  <1>3. \A f \in queue : f \in Events /\ f.stamp \in Int
    BY EventTyped DEF QueueInv
  <1>4. /\ MaxStamp \in Nat /\ Window \in Nat
        /\ latest \in 0 .. MaxStamp /\ released \in 0 .. MaxStamp
        /\ forced \in 0 .. MaxStamp /\ e.stamp \in 0 .. MaxStamp
    BY <1>2, <1>3, EventTyped, BoundAssumption, SizeAssumption DEF QueueInv, Stamps
  <1>5. /\ released' \in 0 .. MaxStamp /\ forced' \in 0 .. MaxStamp
        /\ forced <= forced' /\ released' \in {released, e.stamp}
    BY <1>1, <1>4 DEF Larger
  <1>6. Excused'
    <2> SUFFICES ASSUME NEW f \in queue', f.stamp < released'
                 PROVE  f.seq \in late' \/ f.stamp < forced'
      BY DEF Excused
    <2>1. f \in queue /\ e.stamp <= f.stamp /\ f.stamp \in Int
      BY <1>1, <1>2, <1>3
    <2>2. f.stamp < released
      BY <1>4, <1>5, <2>1
    <2>3. f.seq \in late \/ f.stamp < forced
      BY <2>1, <2>2 DEF QueueInv, Excused
    <2>4. f.stamp < forced => f.stamp < forced'
      BY <1>4, <1>5, <2>1
    <2>5. QED
      BY <1>1, <2>3, <2>4
  <1>7. ReleasedOld'
    <2> SUFFICES ASSUME stage = "run"
                 PROVE  released' <= forced' \/ released' <= latest - Window
      BY <1>1 DEF ReleasedOld
    <2>1. released <= forced \/ released <= latest - Window
      BY DEF QueueInv, ReleasedOld
    <2>2. CASE Pressure
      <3>1. e.stamp <= forced'
        BY <1>1, <1>4, <2>2 DEF Larger
      <3>2. QED
        BY <1>4, <1>5, <2>1, <3>1
    <2>3. CASE ~Pressure
      <3>1. e.stamp <= latest - Window
        BY <1>1, <2>3 DEF ReadyToGo
      <3>2. QED
        BY <1>4, <1>5, <2>1, <3>1
    <2>4. QED
      BY <2>2, <2>3
  <1>8. InOrderWithinWindow'
    <2> SUFFICES ASSUME NEW f \in inverted' PROVE f.seq \in late \/ f.stamp < forced'
      BY <1>1 DEF InOrderWithinWindow
    <2>1. f \in Events /\ f.stamp \in Int
      BY <1>1, <1>2, <1>3, EventTyped DEF QueueInv
    <2>2. f.seq \in late \/ f.stamp < forced
      BY <1>1, <1>2 DEF QueueInv, InOrderWithinWindow, Excused
    <2>3. QED
      BY <1>4, <1>5, <2>1, <2>2
  <1>9. inverted' \subseteq Events /\ queue' \subseteq Events
    BY <1>1, <1>2 DEF QueueInv
  <1>10. QED
    BY <1>1, <1>5, <1>6, <1>7, <1>8, <1>9 DEF QueueInv

-----------------------------------------------------------------------------
LEMMA ReleaseKeepsConcat ==
  ASSUME QueueInv, ConcatInv, Release
  PROVE  ConcatInv' /\ NearestStep
  <1> DEFINE e == Oldest(queue)
  <1>1. e \in queue
    BY OldestFound DEF Release, QueueInv
  <1>2. (CASE e.stream = "imu" -> ProcessImu(e.stamp)
          [] e.stream = "points" -> ProcessPoints(e.stamp)
          [] OTHER -> ProcessAux(e.stream, e.stamp))
    BY DEF Release
  <1> HIDE DEF e
  <1>3. e.stream \in {"imu", "points"} \cup Aux /\ e.stamp \in Stamps
    BY <1>1, EventTyped DEF QueueInv, Streams
  <1>4. CASE e.stream = "imu"
    BY <1>2, <1>3, <1>4, ProcessImuKeeps
  <1>5. CASE e.stream = "points"
    BY <1>2, <1>3, <1>5, ProcessPointsKeeps
  <1>6. CASE e.stream \notin {"imu", "points"}
    <2>1. e.stream \in Aux /\ ProcessAux(e.stream, e.stamp)
      BY <1>2, <1>3, <1>6
    <2>2. QED
      BY <1>3, <2>1, ProcessAuxKeeps
  <1>7. QED
    BY <1>4, <1>5, <1>6

\* A step that leaves the clouds alone.
LEMMA ConcatUnchanged ==
  ASSUME ConcatInv, UNCHANGED <<concatVars, keeperVars>>
  PROVE  ConcatInv' /\ NearestStep
  BY DEF ConcatInv, HeldForAux, HeardKept, MergedCovered, Covered, NearestStep, concatVars, keeperVars

LEMMA InputInvariant == Spec => [](QueueInv /\ ConcatInv)
  <1>1. Init => QueueInv /\ ConcatInv
    <2> SUFFICES ASSUME Init PROVE QueueInv /\ ConcatInv
      OBVIOUS
    <2>1. MaxStamp \in Nat /\ MaxMsgs \in Nat /\ BufferSize \in Nat
      BY BoundAssumption, SizeAssumption
    <2>2. <<>> \in Seq(Stamps) /\ Len(<<>>) = 0
      OBVIOUS
    <2>3. QueueInv
      BY <2>1 DEF Init, QueueInv, Excused, ReleasedOld, InOrderWithinWindow, None
    <2>4. /\ auxBuf \in [Aux -> Seq(Stamps)] /\ \A a \in Aux : Len(auxBuf[a]) <= BufferSize
          /\ primary \in Seq(Stamps) /\ Len(primary) <= BufferSize
      BY <2>1, <2>2 DEF Init
    <2>5. /\ auxLatest \in [Aux -> 0 .. MaxStamp] /\ {lastImu, lastPoints} \subseteq 0 .. MaxStamp
          /\ heard \in [Aux -> SUBSET Stamps] /\ evicted \in [Aux -> SUBSET Stamps]
      BY <2>1 DEF Init, None
    <2>6. HeldForAux /\ HeardKept /\ MergedCovered /\ merged = {}
      BY DEF Init, HeldForAux, HeardKept, MergedCovered
    <2>7. QED
      BY <2>3, <2>4, <2>5, <2>6 DEF ConcatInv
  <1>2. QueueInv /\ ConcatInv /\ [Next]_vars => (QueueInv /\ ConcatInv)'
    <2> SUFFICES ASSUME QueueInv, ConcatInv, [Next]_vars PROVE (QueueInv /\ ConcatInv)'
      OBVIOUS
    <2>1. CASE Enqueue
      BY <2>1, EnqueueKeeps, ConcatUnchanged DEF Enqueue
    <2>2. CASE Release
      BY <2>2, ReleaseKeepsQueue, ReleaseKeepsConcat
    <2>3. CASE Stop \/ LoopEnds \/ UNCHANGED vars
      <3>1. UNCHANGED <<queueVars, concatVars, keeperVars>> /\ (stage' = "run" => stage = "run")
            /\ stage' \in {"run", "stop", "ended"}
        BY <2>3 DEF Stop, LoopEnds, vars, QueueInv
      <3>2. QueueInv'
        BY <3>1 DEF QueueInv, Excused, ReleasedOld, InOrderWithinWindow, queueVars
      <3>3. QED
        BY <3>1, <3>2, ConcatUnchanged
    <2>4. QED
      BY <2>1, <2>2, <2>3 DEF Next
  <1>3. QED
    BY <1>1, <1>2, PTL DEF Spec

\* In every state every variable of the live input has its type.
THEOREM InputTypeOK == Spec => []TypeOK
  <1>1. QueueInv /\ ConcatInv => TypeOK
    BY DEF QueueInv, ConcatInv, TypeOK, Merged
  <1>2. QED
    BY <1>1, InputInvariant, PTL

\* Messages leave the queue in stamp order but for the two reasons.
THEOREM AlwaysInOrder == Spec => []InOrderWithinWindow
  <1>1. QueueInv => InOrderWithinWindow
    BY DEF QueueInv
  <1>2. QED
    BY <1>1, InputInvariant, PTL

\* The oldest primary cloud held lacks the watermark of some lidar.
THEOREM AlwaysHeldForAux == Spec => []HeldForAux
  <1>1. ConcatInv => HeldForAux
    BY DEF ConcatInv
  <1>2. QED
    BY <1>1, InputInvariant, PTL

\* A primary cloud gets the nearest cloud each lidar ever delivers in order.
THEOREM NearestAlwaysMerged == Spec => NearestIsMerged
  <1>1. QueueInv /\ ConcatInv /\ [Next]_vars => [NearestStep]_vars
    <2> SUFFICES ASSUME QueueInv, ConcatInv, Next PROVE NearestStep
      OBVIOUS
    <2>1. CASE Release
      BY <2>1, ReleaseKeepsConcat
    <2>2. CASE Enqueue \/ Stop \/ LoopEnds
      BY <2>2, ConcatUnchanged DEF Enqueue, Stop, LoopEnds
    <2>3. QED
      BY <2>1, <2>2 DEF Next
  <1>2. QED
    BY <1>1, InputInvariant, PTL DEF Spec, NearestIsMerged, NearestStep
=============================================================================
