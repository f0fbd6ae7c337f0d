--------------------------- MODULE TimedInputProofs ---------------------------
(***************************************************************************)
(* Proofs about the two components that put data from outside on the time  *)
(* line: GtBuffer, which looks poses up by their stamp, and Adapter, which *)
(* gives messages their stamps.                                            *)
(*                                                                         *)
(* GtBuffer, for every buffer size and every bound.  The buffer is a       *)
(* sequence of samples, strictly increasing in stamp, and never longer     *)
(* than its size: the three facts are inductive together.  What            *)
(* getGtPoseAt answers follows from them and from what std::lower_bound    *)
(* returns, which the well-ordering of the naturals gives.                 *)
(*                                                                         *)
(* Adapter, for every set of lags and gaps, every bin size, look-ahead and *)
(* bound.  AdapterInv is inductive: a bin keeps poses of its own interval, *)
(* none newer than the newest pose, so that this pose is in the last bin   *)
(* and mapped by its lag, and the odometry's stamps increase; what waits   *)
(* on the arrival path has the stamp it came with, so that its stamps      *)
(* never go back, and the sampled periods are bounded.  Retime and         *)
(* PublishImu recur over a queue: IterationExists gives the function they  *)
(* choose, IntervalInduction what it keeps.                                *)
(***************************************************************************)
EXTENDS GtBuffer, Adapter, WellFoundedInduction, SequenceTheorems, FiniteSetTheorems, TLAPS

Increasing(buf) == \A i \in 1 .. Len(buf) - 1 : buf[i].stamp < buf[i + 1].stamp

BufferInv == /\ gt_odom_buffer \in Seq(Samples)
             /\ BufferMonotone
             /\ BufferBounded

\* Pushing a sample newer than the last one keeps the order.
LEMMA AppendIncreasing ==
  ASSUME NEW buf \in Seq(Samples), NEW s \in Samples, Increasing(buf),
         buf # <<>> => s.stamp > buf[Len(buf)].stamp
  PROVE  /\ Append(buf, s) \in Seq(Samples)
         /\ Len(Append(buf, s)) = Len(buf) + 1
         /\ Increasing(Append(buf, s))
  <1>1. Append(buf, s) \in Seq(Samples) /\ Len(Append(buf, s)) = Len(buf) + 1
    OBVIOUS
  <1> DEFINE new == Append(buf, s)
  <1>2. \A i \in 1 .. Len(buf) : new[i] = buf[i]
    OBVIOUS
  <1>3. new[Len(buf) + 1] = s
    OBVIOUS
  <1>4. ASSUME NEW i \in 1 .. Len(buf)
        PROVE  new[i].stamp < new[i + 1].stamp
    <2>1. CASE i = Len(buf)
      <3>1. buf # <<>>
        BY <2>1
      <3>2. s.stamp > buf[i].stamp
        <4>1. s.stamp > buf[Len(buf)].stamp
          BY <3>1
        <4>2. QED
          BY <2>1, <4>1
      <3>3. s.stamp \in Int /\ buf[i].stamp \in Int
        <4>1. buf[i] \in Samples /\ LastStamp \in Nat
          BY BufferAssumption
        <4>2. QED
          BY <4>1 DEF Samples, Stamps
      <3>4. new[i] = buf[i] /\ new[i + 1] = s
        BY <1>2, <1>3, <2>1
      <3>5. QED
        BY <3>2, <3>3, <3>4
    <2>2. CASE i # Len(buf)
      <3>1. i \in 1 .. Len(buf) - 1 /\ i + 1 \in 1 .. Len(buf)
        BY <2>2
      <3>2. QED
        BY <1>2, <3>1 DEF Increasing
    <2>3. QED
      BY <2>1, <2>2
  <1>5. QED
    BY <1>1, <1>4 DEF Increasing

\* Evicting the oldest sample keeps the order.
LEMMA TailIncreasing ==
  ASSUME NEW buf \in Seq(Samples), buf # <<>>, Increasing(buf)
  PROVE  /\ Tail(buf) \in Seq(Samples)
         /\ Len(Tail(buf)) = Len(buf) - 1
         /\ Increasing(Tail(buf))
  <1>1. Tail(buf) \in Seq(Samples) /\ Len(Tail(buf)) = Len(buf) - 1
    OBVIOUS
  <1>2. \A i \in 1 .. Len(buf) - 1 : Tail(buf)[i] = buf[i + 1]
    OBVIOUS
  <1>3. ASSUME NEW i \in 1 .. Len(Tail(buf)) - 1
        PROVE  Tail(buf)[i].stamp < Tail(buf)[i + 1].stamp
    <2>1. /\ i \in 1 .. Len(buf) - 1 /\ i + 1 \in 1 .. Len(buf) - 1
      BY <1>1
    <2>2. buf[i + 1].stamp < buf[i + 2].stamp
      BY <2>1 DEF Increasing
    <2>3. QED
      BY <1>2, <2>1, <2>2
  <1>4. QED
    BY <1>1, <1>3 DEF Increasing

\* A pushed sample leaves the buffer ordered, bounded and not empty.
LEMMA PushKeepsBuffer ==
  ASSUME BufferInv, NEW s \in Samples, PushGt(s)
  PROVE  BufferInv'
  <1> DEFINE new == Append(gt_odom_buffer, s)
  <1>1. /\ gt_odom_buffer \in Seq(Samples)
        /\ Increasing(gt_odom_buffer)
        /\ Len(gt_odom_buffer) <= BufferSize
    BY DEF BufferInv, BufferMonotone, BufferBounded, Increasing
  <1>2. /\ new \in Seq(Samples)
        /\ Len(new) = Len(gt_odom_buffer) + 1
        /\ Increasing(new)
    BY <1>1, AppendIncreasing DEF PushGt, Newest
  <1>3. gt_odom_buffer' = Trimmed(new)
    BY DEF PushGt
  <1> HIDE DEF new
  <1>4. BufferSize \in Nat \ {0}
    BY BufferAssumption
  <1>5. CASE Len(new) > BufferSize
    <2>1. gt_odom_buffer' = Tail(new)
      BY <1>3, <1>5 DEF Trimmed
    <2>2. new # <<>>
      BY <1>2, <1>4, <1>5
    <2>3. /\ Tail(new) \in Seq(Samples)
          /\ Len(Tail(new)) = Len(new) - 1
          /\ Increasing(Tail(new))
      BY <1>2, <2>2, TailIncreasing
    <2>4. Len(gt_odom_buffer') <= BufferSize /\ Len(gt_odom_buffer') > 0
      BY <1>1, <1>2, <1>4, <1>5, <2>1, <2>3
    <2>5. gt_odom_buffer' \in Seq(Samples) /\ Increasing(gt_odom_buffer')
      BY <2>1, <2>3
    <2>6. gt_odom_buffer' # <<>>
      BY <2>4, <2>5
    <2>7. QED
      BY <2>4, <2>5, <2>6 DEF BufferInv, BufferMonotone, BufferBounded, Increasing
  <1>6. CASE ~(Len(new) > BufferSize)
    <2>1. gt_odom_buffer' = new
      BY <1>3, <1>6 DEF Trimmed
    <2>2. Len(gt_odom_buffer') <= BufferSize /\ Len(gt_odom_buffer') > 0
      BY <1>1, <1>2, <1>4, <1>6, <2>1
    <2>3. QED
      BY <1>2, <2>1, <2>2 DEF BufferInv, BufferMonotone, BufferBounded, Increasing
  <1>7. QED
    BY <1>5, <1>6

\* Types, order and bound are inductive together.
LEMMA BufferInvariant == Spec => []BufferInv
  <1>1. Init => BufferInv
    <2> SUFFICES ASSUME Init PROVE BufferInv
      OBVIOUS
    <2>1. gt_odom_buffer = <<>> /\ gt_odom_received = FALSE
      BY DEF Init
    <2>2. gt_odom_buffer \in Seq(Samples) /\ Len(gt_odom_buffer) = 0
      BY <2>1
    <2>3. QED
      BY <2>1, <2>2, BufferAssumption DEF BufferInv, BufferMonotone, BufferBounded
  <1>2. BufferInv /\ [Next]_vars => BufferInv'
    <2> SUFFICES ASSUME BufferInv, [Next]_vars PROVE BufferInv'
      OBVIOUS
    <2>1. CASE \E s \in Samples : PushGt(s)
      BY <2>1, PushKeepsBuffer
    <2>2. CASE UNCHANGED <<gt_odom_buffer, gt_odom_received>>
      BY <2>2 DEF BufferInv, BufferMonotone, BufferBounded
    <2>3. QED
      BY <2>1, <2>2 DEF Next, AcceptScan, RejectScan, vars
  <1>3. QED
    BY <1>1, <1>2, PTL DEF Spec

\* std::lower_bound in getGtPoseAt always searches an ordered buffer, however
\* the ground-truth callbacks were scheduled.
THEOREM BufferAlwaysMonotone == Spec => []BufferMonotone
  <1>1. BufferInv => BufferMonotone
    BY DEF BufferInv
  <1>2. QED
    BY <1>1, BufferInvariant, PTL

\* The buffer never outgrows buffer_size, and once gt_odom_received_ is set it
\* is never empty again.
THEOREM BufferAlwaysBounded == Spec => []BufferBounded
  <1>1. BufferInv => BufferBounded
    BY DEF BufferInv
  <1>2. QED
    BY <1>1, BufferInvariant, PTL

-----------------------------------------------------------------------------
(* Least and greatest numbers: they stand in for inductions over a         *)
(* sequence, the first index at which something fails.                     *)

\* Every nonempty set of naturals has a least element.
LEMMA LeastNatural ==
  ASSUME NEW T, T \subseteq Nat, T # {}
  PROVE  \E m \in T : \A n \in T : m <= n
  <1> DEFINE R == OpToRel(<, Nat)
  <1>1. \A n, m \in Nat : n < m => <<n, m>> \in R
    BY DEF OpToRel
  <1>2. IsWellFoundedOn(R, Nat)
    BY ONLY NatLessThanWellFounded, Zenon
  <1> HIDE DEF R
  <1>3. PICK m \in T : \A n \in T : ~(<<n, m>> \in R)
    BY <1>2, WFMin
  <1>4. \A n \in T : ~(n < m)
    BY <1>1, <1>3
  <1>5. QED
    BY <1>4

-----------------------------------------------------------------------------
(* The answers of getGtPoseAt.                                             *)

\* What a buffer is made of.
LEMMA BufferTyped ==
  ASSUME NEW buf \in Seq(Samples)
  PROVE  /\ Len(buf) \in Nat
         /\ \A k \in 1 .. Len(buf) : /\ buf[k].stamp \in Nat /\ buf[k].stamp \in Int
                                    /\ buf[k].var \in 0 .. WorstVar
         /\ \A stamp \in Stamps : stamp \in Int /\ stamp \in Nat
  <1>1. LastStamp \in Nat
    BY BufferAssumption
  <1>2. \A s \in Samples : s.stamp \in Nat /\ s.stamp \in Int /\ s.var \in 0 .. WorstVar
    BY <1>1 DEF Samples, Stamps
  <1>3. Len(buf) \in Nat /\ \A k \in 1 .. Len(buf) : buf[k] \in Samples
    OBVIOUS
  <1>4. \A stamp \in Stamps : stamp \in Int /\ stamp \in Nat
    BY <1>1 DEF Stamps
  <1>5. QED
    BY <1>2, <1>3, <1>4

\* n samples of the buffer are older than the stamp.
IsOlder(buf, stamp, n) ==
  /\ \A i \in 1 .. n : buf[i].stamp < stamp
  /\ n < Len(buf) => buf[n + 1].stamp >= stamp

\* The point std::lower_bound looks for exists, and it is the only one.
LEMMA OlderFound ==
  ASSUME NEW buf \in Seq(Samples), NEW stamp \in Stamps
  PROVE  /\ Older(buf, stamp) \in 0 .. Len(buf)
         /\ IsOlder(buf, stamp, Older(buf, stamp))
         /\ \A n \in 0 .. Len(buf) : IsOlder(buf, stamp, n) => n = Older(buf, stamp)
  <1> DEFINE T == {n \in 0 .. Len(buf) : n < Len(buf) => buf[n + 1].stamp >= stamp}
  <1>0. /\ Len(buf) \in Nat /\ stamp \in Int
        /\ \A i \in 1 .. Len(buf) : buf[i].stamp \in Int
    BY BufferTyped
  <1>1. T \subseteq Nat /\ Len(buf) \in T
    BY <1>0
  <1>2. PICK m \in T : \A n \in T : m <= n
    BY <1>1, LeastNatural
  <1>3. ASSUME NEW i \in 1 .. m
        PROVE  buf[i].stamp < stamp
    <2>1. i - 1 \in 0 .. Len(buf) /\ i - 1 < Len(buf) /\ (i - 1) + 1 = i
      BY <1>0
    <2>2. i - 1 \notin T
      BY <1>2, <2>1
    <2>3. QED
      BY <1>0, <2>1, <2>2
  <1>4. m \in 0 .. Len(buf) /\ IsOlder(buf, stamp, m)
    BY <1>3 DEF IsOlder
  <1>5. /\ Older(buf, stamp) \in 0 .. Len(buf)
        /\ IsOlder(buf, stamp, Older(buf, stamp))
    BY <1>4 DEF Older, IsOlder
  <1>6. ASSUME NEW n \in 0 .. Len(buf), NEW k \in 0 .. Len(buf),
               IsOlder(buf, stamp, n), IsOlder(buf, stamp, k), n < k
        PROVE  FALSE
    <2>1. n + 1 \in 1 .. k /\ n < Len(buf) /\ n + 1 \in 1 .. Len(buf)
      BY <1>0, <1>6
    <2>2. buf[n + 1].stamp < stamp /\ buf[n + 1].stamp >= stamp
      BY <1>6, <2>1 DEF IsOlder
    <2>3. QED
      BY <1>0, <2>1, <2>2
  <1>7. ASSUME NEW n \in 0 .. Len(buf), IsOlder(buf, stamp, n)
        PROVE  n = Older(buf, stamp)
    <2>1. ~(n < Older(buf, stamp)) /\ ~(Older(buf, stamp) < n)
      BY <1>5, <1>6, <1>7
    <2>2. QED
      BY <1>0, <1>5, <2>1
  <1>8. QED
    BY <1>5, <1>7

\* Neighbours in order are all in order.
LEMMA AllOrdered ==
  ASSUME NEW buf \in Seq(Samples), Increasing(buf),
         NEW i \in 1 .. Len(buf), NEW j \in 1 .. Len(buf), i < j
  PROVE  buf[i].stamp < buf[j].stamp
  <1>0. Len(buf) \in Nat /\ \A k \in 1 .. Len(buf) : buf[k].stamp \in Int
    BY BufferTyped
  <1> DEFINE T == {k \in 1 .. Len(buf) : i < k /\ ~(buf[i].stamp < buf[k].stamp)}
  <1>1. SUFFICES ASSUME T # {} PROVE FALSE
    OBVIOUS
  <1>2. T \subseteq Nat
    BY <1>0
  <1>3. PICK m \in T : \A k \in T : m <= k
    BY <1>1, <1>2, LeastNatural
  <1>4. /\ m - 1 \in 1 .. Len(buf) - 1 /\ (m - 1) + 1 = m /\ m - 1 \in 1 .. Len(buf)
        /\ m - 1 >= i /\ m \in 1 .. Len(buf)
    BY <1>0
  <1>5. buf[m - 1].stamp < buf[m].stamp
    BY <1>4 DEF Increasing
  <1>6. buf[i].stamp = buf[m - 1].stamp \/ buf[i].stamp < buf[m - 1].stamp
    <2>1. CASE m - 1 = i
      BY <2>1
    <2>2. CASE m - 1 # i
      <3>1. m - 1 \notin T /\ i < m - 1
        BY <1>0, <1>3, <1>4, <2>2
      <3>2. QED
        BY <1>4, <3>1
    <2>3. QED
      BY <2>1, <2>2
  <1>7. buf[i].stamp < buf[m].stamp
    BY <1>0, <1>4, <1>5, <1>6
  <1>8. QED
    BY <1>7

\* The three places the stamp can be in, with what is known in each.
Before(buf, stamp) ==
  /\ \A i \in 1 .. Len(buf) : buf[i].stamp >= stamp /\ buf[1].stamp <= buf[i].stamp
  /\ \A i \in 1 .. Len(buf) : i # 1 => buf[1].stamp < buf[i].stamp
  /\ GetGtPoseAt(buf, stamp) = Endpoint(buf[1], stamp)

After(buf, stamp) ==
  /\ \A i \in 1 .. Len(buf) : buf[i].stamp < stamp /\ buf[i].stamp <= buf[Len(buf)].stamp
  /\ \A i \in 1 .. Len(buf) : i # Len(buf) => buf[i].stamp < buf[Len(buf)].stamp
  /\ GetGtPoseAt(buf, stamp) = Endpoint(buf[Len(buf)], stamp)

Between(buf, stamp, n) ==
  /\ buf[n].stamp < stamp /\ stamp <= buf[n + 1].stamp
  /\ \A i \in 1 .. Len(buf) : \/ i = n \/ buf[i].stamp < buf[n].stamp
                             \/ i = n + 1 \/ buf[n + 1].stamp < buf[i].stamp
  /\ GetGtPoseAt(buf, stamp) = Bracket(buf[n], buf[n + 1], stamp)

\* getGtPoseAt has three cases: before the buffer, after it, or inside.
LEMMA LookupCases ==
  ASSUME NEW buf \in Seq(Samples), Increasing(buf), buf # <<>>, NEW stamp \in Stamps
  PROVE  \/ Before(buf, stamp)
         \/ After(buf, stamp)
         \/ \E n \in 1 .. Len(buf) - 1 : Between(buf, stamp, n)
  <1> DEFINE n == Older(buf, stamp)
  <1>1. n \in 0 .. Len(buf) /\ IsOlder(buf, stamp, n)
    BY OlderFound
  <1>2. GetGtPoseAt(buf, stamp) =
          CASE n = 0        -> Endpoint(buf[1], stamp)
            [] n = Len(buf) -> Endpoint(buf[n], stamp)
            [] OTHER        -> Bracket(buf[n], buf[n + 1], stamp)
    BY DEF GetGtPoseAt
  <1> HIDE DEF n
  <1>3. /\ Len(buf) \in Nat /\ Len(buf) > 0 /\ stamp \in Int
        /\ \A k \in 1 .. Len(buf) : buf[k].stamp \in Int
    BY BufferTyped
  <1>4. \A i, j \in 1 .. Len(buf) : i < j => buf[i].stamp < buf[j].stamp
    BY AllOrdered
  <1>5. CASE n = 0
    <2>1. GetGtPoseAt(buf, stamp) = Endpoint(buf[1], stamp)
      BY <1>2, <1>5
    <2>2. buf[1].stamp >= stamp /\ 1 \in 1 .. Len(buf)
      BY <1>1, <1>3, <1>5 DEF IsOlder
    <2>3. \A i \in 1 .. Len(buf) : i # 1 => buf[1].stamp < buf[i].stamp
      BY <1>3, <1>4, <2>2
    <2>4. QED
      BY <1>3, <2>1, <2>2, <2>3 DEF Before
  <1>6. CASE n = Len(buf)
    <2>0. n # 0
      BY <1>3, <1>6
    <2>1. GetGtPoseAt(buf, stamp) = Endpoint(buf[Len(buf)], stamp)
      BY <1>2, <1>6, <2>0
    <2>2. Len(buf) \in 1 .. Len(buf) /\ \A i \in 1 .. Len(buf) : buf[i].stamp < stamp
      BY <1>1, <1>3, <1>6 DEF IsOlder
    <2>3. \A i \in 1 .. Len(buf) : i # Len(buf) => buf[i].stamp < buf[Len(buf)].stamp
      BY <1>3, <1>4, <2>2
    <2>4. QED
      BY <1>3, <2>1, <2>2, <2>3, SMTT(40) DEF After
  <1>7. CASE n # 0 /\ n # Len(buf)
    <2>1. GetGtPoseAt(buf, stamp) = Bracket(buf[n], buf[n + 1], stamp)
      BY <1>2, <1>7
    <2>2. n \in 1 .. Len(buf) - 1 /\ n \in 1 .. Len(buf) /\ n + 1 \in 1 .. Len(buf)
      BY <1>1, <1>3, <1>7
    <2>3. buf[n].stamp < stamp /\ stamp <= buf[n + 1].stamp
      BY <1>1, <1>3, <2>2 DEF IsOlder
    <2>4. ASSUME NEW i \in 1 .. Len(buf)
          PROVE  \/ i = n \/ buf[i].stamp < buf[n].stamp
                 \/ i = n + 1 \/ buf[n + 1].stamp < buf[i].stamp
      BY <1>3, <1>4, <2>2
    <2>5. Between(buf, stamp, n)
      BY <2>1, <2>3, <2>4 DEF Between
    <2>6. QED
      BY <2>2, <2>5
  <1>8. QED
    BY <1>5, <1>6, <1>7

\* The interpolated position is the stamp itself, over the denominator.
LEMMA Interpolation ==
  ASSUME NEW a \in Nat, NEW b \in Nat, NEW t \in Nat, a < t, t <= b
  PROVE  /\ (b - t) * a + (t - a) * b = t * (b - a)
         /\ (b - t) * a + (t - a) * b \in Nat
         /\ b - a \in Nat \ {0}
  <1>1. (b - t) * a + (t - a) * b = t * (b - a)
    OBVIOUS
  <1>2. b - t \in Nat /\ t - a \in Nat /\ b - a \in Nat \ {0}
    OBVIOUS
  <1>3. \A x, y \in Nat : x * y \in Nat
    OBVIOUS
  <1>4. QED
    BY <1>1, <1>2, <1>3

Poses == [found : BOOLEAN, num : Nat, den : Nat \ {0}, var : 0 .. WorstVar]

\* Any answer is a pose.
LEMMA LookupTyped ==
  ASSUME NEW buf \in Seq(Samples), Increasing(buf), NEW stamp \in Stamps
  PROVE  GetGtPoseAt(buf, stamp) \in Poses
  <1>0. WorstVar \in Nat
    BY BufferAssumption
  <1>1. /\ Len(buf) \in Nat /\ stamp \in Nat
        /\ \A k \in 1 .. Len(buf) : buf[k].stamp \in Nat /\ buf[k].var \in 0 .. WorstVar
    BY BufferTyped
  <1>2. NotFound \in Poses
    BY <1>0 DEF NotFound, Poses
  <1>3. ASSUME NEW k \in 1 .. Len(buf)
        PROVE  Endpoint(buf[k], stamp) \in Poses
    <2>1. Found(buf[k].stamp, 1, buf[k].var) \in Poses
      BY <1>1 DEF Found, Poses
    <2>2. QED
      BY <1>2, <2>1 DEF Endpoint
  <1>4. CASE buf = <<>>
    BY <1>2, <1>4 DEF GetGtPoseAt
  <1>5. CASE buf # <<>>
    <2>1. 1 \in 1 .. Len(buf) /\ Len(buf) \in 1 .. Len(buf)
      BY <1>1, <1>5
    <2>2. CASE Before(buf, stamp)
      BY <1>3, <2>1, <2>2 DEF Before
    <2>3. CASE After(buf, stamp)
      BY <1>3, <2>1, <2>3 DEF After
    <2>4. ASSUME NEW n \in 1 .. Len(buf) - 1, Between(buf, stamp, n)
          PROVE  GetGtPoseAt(buf, stamp) \in Poses
      <3> DEFINE a == buf[n].stamp
                 b == buf[n + 1].stamp
                 v == BracketVar(buf[n], buf[n + 1])
      <3>1. n \in 1 .. Len(buf) /\ n + 1 \in 1 .. Len(buf)
        BY <1>1
      <3>2. a \in Nat /\ b \in Nat /\ a < stamp /\ stamp <= b
        BY <1>1, <2>4, <3>1 DEF Between
      <3>3. v \in 0 .. WorstVar
        BY <1>1, <3>1 DEF BracketVar, Larger
      <3>4. GetGtPoseAt(buf, stamp) = Bracket(buf[n], buf[n + 1], stamp)
        BY <2>4 DEF Between
      <3>5. GetGtPoseAt(buf, stamp)
              \in {NotFound, Found((b - stamp) * a + (stamp - a) * b, b - a, v)}
        BY <3>4 DEF Bracket
      <3> HIDE DEF a, b, v
      <3>6. /\ (b - stamp) * a + (stamp - a) * b \in Nat
            /\ b - a \in Nat \ {0}
        BY <1>1, <3>2, Interpolation
      <3>7. Found((b - stamp) * a + (stamp - a) * b, b - a, v) \in Poses
        BY <3>3, <3>6 DEF Found, Poses
      <3>8. QED
        BY <1>2, <3>5, <3>7
    <2>5. QED
      BY <1>5, <2>2, <2>3, <2>4, LookupCases
  <1>6. QED
    BY <1>4, <1>5

\* In every state the buffer and the recovered pose have their types.
THEOREM GtTypeOK == Spec => []TypeOK
  <1>1. Init => TypeOK
    <2> SUFFICES ASSUME Init PROVE TypeOK
      OBVIOUS
    <2>1. NotFound \in Poses
      BY BufferAssumption DEF NotFound, Poses
    <2>2. <<>> \in Seq(Samples)
      OBVIOUS
    <2>3. QED
      BY <2>1, <2>2 DEF Init, TypeOK, Poses
  <1>2. BufferInv /\ TypeOK /\ BufferInv' /\ [Next]_vars => TypeOK'
    <2> SUFFICES ASSUME BufferInv, TypeOK, BufferInv', [Next]_vars PROVE TypeOK'
      OBVIOUS
    <2>0. gt_odom_buffer' \in Seq(Samples)
      BY DEF BufferInv
    <2>1. CASE \E s \in Samples : PushGt(s)
      BY <2>0, <2>1 DEF PushGt, TypeOK
    <2>2. CASE AcceptScan
      BY <2>2 DEF AcceptScan, TypeOK
    <2>3. ASSUME NEW stamp \in Stamps, RejectScan(stamp) PROVE TypeOK'
      <3>1. GetGtPoseAt(gt_odom_buffer, stamp) \in Poses
        BY LookupTyped DEF BufferInv, BufferMonotone, Increasing
      <3>2. snap' \in Poses
        BY <2>3, <3>1 DEF RejectScan, TypeOK, Poses
      <3>3. consecutive_failures' \in Nat
        BY <2>3 DEF RejectScan, TypeOK
      <3>4. gt_odom_buffer' = gt_odom_buffer /\ gt_odom_received' = gt_odom_received
        BY <2>3 DEF RejectScan
      <3>5. QED
        BY <3>2, <3>3, <3>4 DEF TypeOK, Poses
    <2>4. CASE UNCHANGED vars
      BY <2>4 DEF vars, TypeOK
    <2>5. QED
      BY <2>1, <2>2, <2>3, <2>4 DEF Next
  <1>3. QED
    BY <1>1, <1>2, BufferInvariant, PTL DEF Spec

\* One answer is right: it is found when a sample is near, and where it should be.
LEMMA AnswerCorrect ==
  ASSUME NEW buf \in Seq(Samples), Increasing(buf), buf # <<>>, NEW stamp \in Stamps
  PROVE  LET out == GetGtPoseAt(buf, stamp)
         IN  /\ out.found <=> \E i \in 1 .. Len(buf) : Dist(buf[i].stamp, stamp) <= MaxDt
             /\ out.found => Dist(out.num, stamp * out.den) <= MaxDt * out.den
             /\ out.found /\ buf[1].stamp <= stamp /\ stamp <= buf[Len(buf)].stamp
                  => out.num = stamp * out.den
  <1> DEFINE out == GetGtPoseAt(buf, stamp)
             near == \E i \in 1 .. Len(buf) : Dist(buf[i].stamp, stamp) <= MaxDt
  <1>1. /\ Len(buf) \in Nat /\ Len(buf) > 0 /\ stamp \in Nat /\ MaxDt \in Nat
        /\ \A k \in 1 .. Len(buf) : buf[k].stamp \in Nat
    BY BufferTyped, BufferAssumption
  <1>2. 1 \in 1 .. Len(buf) /\ Len(buf) \in 1 .. Len(buf)
    BY <1>1
  <1>3. ASSUME NEW k \in 1 .. Len(buf), out = Endpoint(buf[k], stamp)
        PROVE  /\ out.found <=> Dist(buf[k].stamp, stamp) <= MaxDt
               /\ out.found => out.num = buf[k].stamp /\ out.den = 1
    BY <1>3 DEF Endpoint, Found, NotFound
  <1>4. CASE Before(buf, stamp)
    <2>1. out = Endpoint(buf[1], stamp)
      BY <1>4 DEF Before
    <2>2. /\ out.found <=> Dist(buf[1].stamp, stamp) <= MaxDt
          /\ out.found => out.num = buf[1].stamp /\ out.den = 1
      BY <1>2, <1>3, <2>1
    <2>3. \A i \in 1 .. Len(buf) : buf[1].stamp <= buf[i].stamp /\ buf[1].stamp >= stamp
      BY <1>2, <1>4 DEF Before
    <2>4. near <=> Dist(buf[1].stamp, stamp) <= MaxDt
      BY <1>1, <1>2, <2>3 DEF Dist
    <2> HIDE DEF out, near
    <2>5. out.found => Dist(out.num, stamp * out.den) <= MaxDt * out.den
      BY <1>1, <1>2, <2>2
    <2>6. out.found /\ buf[1].stamp <= stamp => out.num = stamp * out.den
      BY <1>1, <1>2, <2>2, <2>3
    <2>7. QED
      BY <2>2, <2>4, <2>5, <2>6 DEF out, near
  <1>5. CASE After(buf, stamp)
    <2> DEFINE last == buf[Len(buf)].stamp
    <2>1. out = Endpoint(buf[Len(buf)], stamp)
      BY <1>5 DEF After
    <2>2. /\ out.found <=> Dist(last, stamp) <= MaxDt
          /\ out.found => out.num = last /\ out.den = 1
      BY <1>2, <1>3, <2>1
    <2>3. last < stamp /\ \A i \in 1 .. Len(buf) : buf[i].stamp <= last
      BY <1>2, <1>5 DEF After
    <2>4. last \in Nat
      BY <1>1, <1>2
    <2>5. near <=> Dist(last, stamp) <= MaxDt
      BY <1>1, <1>2, <2>3 DEF Dist
    <2> HIDE DEF out, near
    <2>6. out.found => Dist(out.num, stamp * out.den) <= MaxDt * out.den
      <3> HIDE DEF last
      <3>1. QED
        BY <1>1, <2>2, <2>4
    <2>7. ~(stamp <= last)
      BY <1>1, <2>3, <2>4
    <2>8. QED
      BY <2>2, <2>5, <2>6, <2>7 DEF out, near
  <1>6. ASSUME NEW n \in 1 .. Len(buf) - 1, Between(buf, stamp, n)
        PROVE  /\ out.found <=> near
               /\ out.found => out.num = stamp * out.den /\ out.den \in Nat
    <2> DEFINE a == buf[n].stamp
               b == buf[n + 1].stamp
               v == BracketVar(buf[n], buf[n + 1])
    <2>1. n \in 1 .. Len(buf) /\ n + 1 \in 1 .. Len(buf)
      BY <1>1
    <2>2. a \in Nat /\ b \in Nat /\ a < stamp /\ stamp <= b
      BY <1>1, <1>6, <2>1 DEF Between
    <2>3. \A i \in 1 .. Len(buf) : i = n \/ buf[i].stamp < a \/ i = n + 1 \/ b < buf[i].stamp
      BY <1>6 DEF Between
    <2>4. near <=> (stamp - a <= MaxDt \/ b - stamp <= MaxDt)
      <3>1. Dist(a, stamp) = stamp - a /\ Dist(b, stamp) = b - stamp
        BY <1>1, <2>2 DEF Dist
      <3>2. ASSUME NEW i \in 1 .. Len(buf), Dist(buf[i].stamp, stamp) <= MaxDt
            PROVE  stamp - a <= MaxDt \/ b - stamp <= MaxDt
        <4>1. CASE i = n \/ i = n + 1
          BY <3>1, <3>2, <4>1
        <4>2. CASE buf[i].stamp < a
          BY <1>1, <2>2, <3>2, <4>2 DEF Dist
        <4>3. CASE b < buf[i].stamp
          BY <1>1, <2>2, <3>2, <4>3 DEF Dist
        <4>4. QED
          BY <2>3, <4>1, <4>2, <4>3
      <3>3. QED
        BY <2>1, <3>1, <3>2
    <2>5. out = IF b - a <= 0 \/ Smaller(stamp - a, b - stamp) > MaxDt THEN NotFound
                ELSE Found((b - stamp) * a + (stamp - a) * b, b - a, v)
      BY <1>6 DEF Between, Bracket
    <2> HIDE DEF out, near, a, b, v
    <2>6. /\ (b - stamp) * a + (stamp - a) * b = stamp * (b - a)
          /\ b - a \in Nat \ {0}
      BY <1>1, <2>2, Interpolation
    <2>7. b - a <= 0 \/ Smaller(stamp - a, b - stamp) > MaxDt
            <=> ~(stamp - a <= MaxDt \/ b - stamp <= MaxDt)
      BY <1>1, <2>2 DEF Smaller
    <2>8. CASE near
      <3>1. out = Found(stamp * (b - a), b - a, v)
        BY <2>4, <2>5, <2>6, <2>7, <2>8
      <3>2. QED
        BY <2>6, <2>8, <3>1 DEF Found
    <2>9. CASE ~near
      BY <2>4, <2>5, <2>7, <2>9 DEF NotFound
    <2>10. QED
      BY <2>8, <2>9
  <1>7. ASSUME out.den \in Nat, out.num = stamp * out.den
        PROVE  Dist(out.num, stamp * out.den) <= MaxDt * out.den
    <2> HIDE DEF out
    <2>1. \A x, y \in Nat : x * y \in Nat
      OBVIOUS
    <2>2. \A x \in Nat : Dist(x, x) = 0
      BY DEF Dist
    <2>3. stamp * out.den \in Nat /\ MaxDt * out.den \in Nat
      BY <1>1, <1>7, <2>1
    <2>4. Dist(out.num, stamp * out.den) = 0
      BY <1>7, <2>2, <2>3
    <2>5. QED
      BY <2>3, <2>4
  <1>8. QED
    BY <1>4, <1>5, <1>6, <1>7, LookupCases

\* A pose is found exactly when a sample is near, inside the buffer it is the
\* true one, at the ends it is off by at most max_dt.
THEOREM LookupAlwaysCorrect == Spec => []LookupCorrect
  <1>1. BufferInv => LookupCorrect
    <2> SUFFICES ASSUME BufferInv, NEW stamp \in Stamps
                 PROVE  LET out == GetGtPoseAt(gt_odom_buffer, stamp)
                            n   == Len(gt_odom_buffer)
                        IN  /\ out.found <=> Near(stamp)
                            /\ out.found => Dist(out.num, stamp * out.den) <= MaxDt * out.den
                            /\ /\ out.found
                               /\ gt_odom_buffer[1].stamp <= stamp
                               /\ stamp <= gt_odom_buffer[n].stamp
                               => out.num = stamp * out.den
      BY DEF LookupCorrect
    <2>1. gt_odom_buffer \in Seq(Samples) /\ Increasing(gt_odom_buffer)
      BY DEF BufferInv, BufferMonotone, Increasing
    <2>2. CASE gt_odom_buffer = <<>>
      <3>1. GetGtPoseAt(gt_odom_buffer, stamp).found = FALSE
        BY <2>2 DEF GetGtPoseAt, NotFound
      <3>2. ~Near(stamp)
        BY <2>2 DEF Near
      <3>3. QED
        BY <3>1, <3>2
    <2>3. CASE gt_odom_buffer # <<>>
      BY <2>1, <2>3, AnswerCorrect DEF Near
    <2>4. QED
      BY <2>2, <2>3
  <1>2. QED
    BY <1>1, BufferInvariant, PTL

\* A pose passes the RTK gate only if every sample it is made of does.
THEOREM GateAlwaysConservative == Spec => []GateConservative
  <1> DEFINE buf == gt_odom_buffer
  <1>1. ASSUME BufferInv, NEW stamp \in Stamps, NEW i \in 1 .. Len(buf),
               GetGtPoseAt(buf, stamp).found,
               GtSampleIsRtkFixed(GetGtPoseAt(buf, stamp)),
               Neighbour(i, stamp)
        PROVE  GtSampleIsRtkFixed(buf[i])
    <2> DEFINE out == GetGtPoseAt(buf, stamp)
    <2>1. buf \in Seq(Samples) /\ Increasing(buf)
      BY <1>1 DEF BufferInv, BufferMonotone, Increasing
    <2>2. /\ Len(buf) \in Nat /\ stamp \in Nat /\ MaxVar \in Nat /\ WorstVar \in Nat
          /\ \A k \in 1 .. Len(buf) : buf[k].stamp \in Nat /\ buf[k].var \in 0 .. WorstVar
      BY <2>1, BufferTyped, BufferAssumption
    <2>3. buf # <<>> /\ 1 \in 1 .. Len(buf) /\ Len(buf) \in 1 .. Len(buf)
      BY <2>1, <2>2
    <2>4. \A j \in 1 .. Len(buf) :
            ~((buf[i].stamp < buf[j].stamp /\ buf[j].stamp <= stamp)
               \/ (stamp <= buf[j].stamp /\ buf[j].stamp < buf[i].stamp))
      BY <1>1 DEF Neighbour
    <2>5. ASSUME NEW k \in 1 .. Len(buf), out = Endpoint(buf[k], stamp)
          PROVE  GtSampleIsRtkFixed(buf[k])
      BY <1>1, <2>5 DEF Endpoint, Found, NotFound, GtSampleIsRtkFixed
    <2>6. CASE Before(buf, stamp)
      <3>1. i = 1
        BY <2>2, <2>3, <2>4, <2>6 DEF Before
      <3>2. QED
        BY <2>3, <2>5, <2>6, <3>1 DEF Before
    <2>7. CASE After(buf, stamp)
      <3>1. i = Len(buf)
        BY <2>2, <2>3, <2>4, <2>7 DEF After
      <3>2. QED
        BY <2>3, <2>5, <2>7, <3>1 DEF After
    <2>8. ASSUME NEW n \in 1 .. Len(buf) - 1, Between(buf, stamp, n)
          PROVE  GtSampleIsRtkFixed(buf[i])
      <3>1. n \in 1 .. Len(buf) /\ n + 1 \in 1 .. Len(buf)
        BY <2>2
      <3>2. i = n \/ i = n + 1
        BY <2>2, <2>4, <2>8, <3>1 DEF Between
      <3>3. out.var = BracketVar(buf[n], buf[n + 1])
        BY <1>1, <2>8 DEF Between, Bracket, Found, NotFound
      <3>4. GateEnabled => BracketVar(buf[n], buf[n + 1]) <= MaxVar
        BY <1>1, <3>3 DEF GtSampleIsRtkFixed
      <3>5. GateEnabled => buf[n].var <= MaxVar /\ buf[n + 1].var <= MaxVar
        BY <2>2, <3>1, <3>4 DEF BracketVar, Larger
      <3>6. QED
        BY <3>2, <3>5 DEF GtSampleIsRtkFixed
    <2>9. QED
      BY <2>1, <2>3, <2>6, <2>7, <2>8, LookupCases
  <1>2. BufferInv => GateConservative
    BY <1>1 DEF GateConservative
  <1>3. QED
    BY <1>2, BufferInvariant, PTL

\* A pushed sample, with the oldest one evicted or not, keeps the answers
\* between the oldest sample left and the newest one there was.
LEMMA PushKeepsAnswers ==
  ASSUME BufferInv, NEW s \in Samples, PushGt(s), NEW stamp \in Stamps,
         gt_odom_buffer # <<>>,
         stamp <= gt_odom_buffer[Len(gt_odom_buffer)].stamp,
         stamp > gt_odom_buffer'[1].stamp
  PROVE  GetGtPoseAt(gt_odom_buffer', stamp) = GetGtPoseAt(gt_odom_buffer, stamp)
  <1> DEFINE buf == gt_odom_buffer
             new == Append(buf, s)
             m   == Len(buf)
             n   == Older(buf, stamp)
  <1>1. buf \in Seq(Samples) /\ Increasing(buf)
    BY DEF BufferInv, BufferMonotone, Increasing
  <1>2. /\ m \in Nat /\ m > 0 /\ stamp \in Int
        /\ \A k \in 1 .. m : buf[k].stamp \in Int
    BY <1>1, BufferTyped
  <1>3. n \in 0 .. m /\ IsOlder(buf, stamp, n)
    BY <1>1, OlderFound
  <1>4. s.stamp \in Int /\ buf[m].stamp < s.stamp
    <2>1. s.stamp \in Int
      BY BufferAssumption DEF Samples, Stamps
    <2>2. QED
      BY <1>2, <2>1 DEF PushGt, Newest
  <1>5. /\ new \in Seq(Samples) /\ Len(new) = m + 1 /\ new[m + 1] = s
        /\ \A i \in 1 .. m : new[i] = buf[i]
    BY <1>1
  <1>6. buf' = Trimmed(new)
    BY DEF PushGt
  <1> HIDE DEF new, n
  <1>7. n < m
    BY <1>2, <1>3 DEF IsOlder
  <1>8. buf[n + 1].stamp >= stamp /\ \A i \in 1 .. n : buf[i].stamp < stamp
    BY <1>3, <1>7 DEF IsOlder
  <1>9. CASE ~(Len(new) > BufferSize)
    <2>1. buf' = new
      BY <1>6, <1>9 DEF Trimmed
    <2>2. new[1] = buf[1] /\ buf[1].stamp < stamp
      BY <1>2, <1>5, <2>1
    <2>3. n > 0
      BY <1>2, <1>3, <1>8, <2>2
    <2>4. IsOlder(new, stamp, n) /\ n \in 0 .. Len(new)
      <3>1. new[n + 1] = buf[n + 1] /\ \A i \in 1 .. n : new[i] = buf[i]
        BY <1>2, <1>3, <1>5, <1>7
      <3>2. QED
        BY <1>2, <1>3, <1>5, <1>8, <3>1 DEF IsOlder
    <2>5. Older(new, stamp) = n
      BY <1>5, <2>4, OlderFound
    <2>6. /\ new[n] = buf[n] /\ new[n + 1] = buf[n + 1] /\ new # <<>>
          /\ n # 0 /\ n # Len(buf) /\ n # Len(new)
      BY <1>2, <1>3, <1>5, <1>7, <2>3
    <2>7. GetGtPoseAt(new, stamp) = Bracket(new[n], new[n + 1], stamp)
      BY <2>5, <2>6 DEF GetGtPoseAt
    <2>8. GetGtPoseAt(buf, stamp) = Bracket(buf[n], buf[n + 1], stamp)
      BY <2>6 DEF GetGtPoseAt, n
    <2>9. QED
      BY <2>1, <2>6, <2>7, <2>8
  <1>10. CASE Len(new) > BufferSize
    <2> DEFINE rest == Tail(new)
    <2>1. buf' = rest
      BY <1>6, <1>10 DEF Trimmed
    <2>2. /\ rest \in Seq(Samples) /\ Len(rest) = m
          /\ \A i \in 1 .. m : rest[i] = new[i + 1]
      BY <1>2, <1>5
    <2> HIDE DEF rest
    <2>3. m > 1 /\ rest[1] = buf[2] /\ buf[2].stamp < stamp
      <3>1. rest[1] = new[2] /\ new[2].stamp < stamp
        <4>1. rest[1] = new[2]
          BY <1>2, <2>2
        <4>2. rest[1].stamp \in Int
          BY <1>2, <2>2, BufferTyped
        <4>3. QED
          BY <1>2, <2>1, <4>1, <4>2
      <3>2. CASE m = 1
        <4>1. new[2] = s /\ stamp <= buf[1].stamp /\ buf[1].stamp < s.stamp
          BY <1>4, <1>5, <3>2
        <4>2. QED
          BY <1>2, <1>4, <3>1, <3>2, <4>1
      <3>3. CASE m # 1
        <4>1. m > 1 /\ 2 \in 1 .. m
          <5>1. m \in Nat /\ m > 0 /\ m # 1
            BY <1>2, <3>3
          <5> HIDE DEF m
          <5>2. QED
            BY <5>1
        <4>2. new[2] = buf[2]
          BY <1>5, <4>1
        <4>3. QED
          BY <3>1, <4>1, <4>2
      <3>4. QED
        BY <3>2, <3>3
    <2>4. n > 1
      <3>1. buf[1].stamp < buf[2].stamp
        BY <1>1, <1>2, <2>3 DEF Increasing
      <3>2. ~(buf[1].stamp >= stamp) /\ ~(buf[2].stamp >= stamp)
        BY <1>2, <2>3, <3>1
      <3>3. n # 0
        <4>1. SUFFICES ASSUME n = 0 PROVE FALSE
          OBVIOUS
        <4>2. n + 1 = 1
          BY <4>1
        <4>3. QED
          BY <1>8, <3>2, <4>2
      <3>4. n # 1
        <4>1. SUFFICES ASSUME n = 1 PROVE FALSE
          OBVIOUS
        <4>2. n + 1 = 2
          BY <4>1
        <4>3. QED
          BY <1>8, <3>2, <4>2
      <3>5. QED
        BY <1>2, <1>3, <3>3, <3>4
    <2>5. \A i \in 1 .. m - 1 : rest[i] = buf[i + 1]
      BY <1>2, <1>5, <2>2
    <2>6. IsOlder(rest, stamp, n - 1) /\ n - 1 \in 0 .. Len(rest)
      <3>1. rest[(n - 1) + 1] = buf[n + 1]
        BY <1>2, <1>3, <1>7, <2>4, <2>5
      <3>2. \A i \in 1 .. n - 1 : rest[i] = buf[i + 1] /\ i + 1 \in 1 .. n
        BY <1>2, <1>3, <1>7, <2>5
      <3>3. \A i \in 1 .. n - 1 : rest[i].stamp < stamp
        BY <1>8, <3>2
      <3>4. rest[(n - 1) + 1].stamp >= stamp
        BY <1>8, <3>1
      <3>5. n - 1 \in 0 .. Len(rest)
        BY <1>2, <1>3, <1>7, <2>2, <2>4
      <3>6. QED
        BY <3>3, <3>4, <3>5 DEF IsOlder
    <2>7. Older(rest, stamp) = n - 1
      BY <2>2, <2>6, OlderFound
    <2>8. /\ rest[n - 1] = buf[n] /\ rest[(n - 1) + 1] = buf[n + 1] /\ rest # <<>>
          /\ n # 0 /\ n # Len(buf) /\ n - 1 # 0 /\ n - 1 # Len(rest)
      BY <1>2, <1>3, <1>7, <2>2, <2>4, <2>5
    <2>9. GetGtPoseAt(rest, stamp) = Bracket(rest[n - 1], rest[(n - 1) + 1], stamp)
      BY <2>7, <2>8 DEF GetGtPoseAt
    <2>10. GetGtPoseAt(buf, stamp) = Bracket(buf[n], buf[n + 1], stamp)
      BY <2>8 DEF GetGtPoseAt, n
    <2>11. QED
      BY <2>1, <2>8, <2>9, <2>10
  <1>11. QED
    BY <1>9, <1>10

\* Ground truth that arrives late changes no answer about the past.
THEOREM PastAlwaysSettled == Spec => PastIsSettled
  <1> DEFINE Settled ==
        \A stamp \in Stamps :
          LET out == GetGtPoseAt(gt_odom_buffer, stamp)
          IN  /\ out.found
              /\ stamp <= gt_odom_buffer[Len(gt_odom_buffer)].stamp
              /\ stamp > gt_odom_buffer'[1].stamp
              => GetGtPoseAt(gt_odom_buffer', stamp) = out
  <1>1. BufferInv /\ [Next]_vars => [Settled]_gt_odom_buffer
    <2> SUFFICES ASSUME BufferInv, [Next]_vars, gt_odom_buffer' # gt_odom_buffer
                 PROVE  Settled
      OBVIOUS
    <2>1. PICK s \in Samples : PushGt(s)
      BY DEF Next, AcceptScan, RejectScan, vars
    <2>2. ASSUME NEW stamp \in Stamps, GetGtPoseAt(gt_odom_buffer, stamp).found
          PROVE  gt_odom_buffer # <<>>
      BY <2>2 DEF GetGtPoseAt, NotFound
    <2>3. QED
      BY <2>1, <2>2, PushKeepsAnswers
  <1>2. QED
    BY <1>1, BufferInvariant, PTL DEF Spec, PastIsSettled

-----------------------------------------------------------------------------
(* Arithmetic.                                                             *)

\* Multiplying by a natural number keeps the order.
LEMMA TimesMonotone ==
  ASSUME NEW a \in Int, NEW b \in Int, NEW c \in Nat, a <= b
  PROVE  c * a <= c * b
  OBVIOUS

\* What integer division promises.
LEMMA DivBounds ==
  ASSUME NEW x \in Int, NEW c \in Nat \ {0}
  PROVE  x \div c \in Int /\ c * (x \div c) <= x /\ x < c * (x \div c) + c
  OBVIOUS

\* What lies between two multiples has its quotient between their factors.
LEMMA DivBetween ==
  ASSUME NEW x \in Int, NEW c \in Nat \ {0}, NEW lo \in Int, NEW hi \in Int,
         c * lo <= x, x < c * hi
  PROVE  x \div c \in Int /\ lo <= x \div c /\ x \div c < hi
  BY DivBounds

\* Dividing a multiple gives the factor.
LEMMA DivExact ==
  ASSUME NEW x \in Int, NEW c \in Nat \ {0}
  PROVE  (x * c) \div c = x
  BY DivBounds

-----------------------------------------------------------------------------
(* Recursion over an interval.                                             *)

\* Induction over an interval, for a set.
LEMMA IntervalInduction ==
  ASSUME NEW n \in Nat, NEW T, 0 \in T, \A i \in 1 .. n : i - 1 \in T => i \in T
  PROVE  \A i \in 0 .. n : i \in T
  <1> DEFINE D == {i \in 0 .. n : i \notin T}
  <1>1. SUFFICES ASSUME D # {} PROVE FALSE
    OBVIOUS
  <1>2. PICK m \in D : \A k \in D : m <= k
    <2>1. D \subseteq Nat
      OBVIOUS
    <2> HIDE DEF D
    <2>2. QED
      BY <1>1, <2>1, LeastNatural
  <1>3. m \in 1 .. n /\ m - 1 \in 0 .. n /\ m - 1 \notin D
    BY <1>2
  <1>4. QED
    BY <1>2, <1>3

\* From a first value and one map per step there is a function that runs
\* through them.
LEMMA IterationExists ==
  ASSUME NEW n \in Nat, NEW F \in [1 .. n -> [Int -> Int]], NEW x \in Int
  PROVE  \E f \in [0 .. n -> Int] : f[0] = x /\ \A i \in 1 .. n : f[i] = F[i][f[i - 1]]
  <1> DEFINE Good(m) == \E f \in [0 .. m -> Int] :
                          f[0] = x /\ \A i \in 1 .. m : f[i] = F[i][f[i - 1]]
             T == {m \in 0 .. n : ~Good(m)}
  <1>1. SUFFICES ASSUME T # {} PROVE FALSE
    <2>1. n \in 0 .. n
      OBVIOUS
    <2> HIDE DEF Good
    <2>2. Good(n)
      BY <2>1
    <2>3. QED
      BY <2>2 DEF Good
  <1>2. PICK m \in T : \A k \in T : m <= k
    <2>1. T \subseteq Nat
      OBVIOUS
    <2> HIDE DEF T
    <2>2. QED
      BY <1>1, <2>1, LeastNatural
  <1>3. m # 0
    <2>1. Good(0)
      <3> DEFINE f == [i \in 0 .. 0 |-> x]
      <3>1. f \in [0 .. 0 -> Int] /\ f[0] = x /\ \A i \in 1 .. 0 : f[i] = F[i][f[i - 1]]
        OBVIOUS
      <3>2. QED
        BY <3>1
    <2>2. QED
      BY <2>1
  <1>4. m - 1 \in 0 .. n /\ Good(m - 1) /\ m \in 1 .. n
    <2> HIDE DEF Good
    <2>1. QED
      BY <1>2, <1>3
  <1>5. PICK f \in [0 .. m - 1 -> Int] : f[0] = x /\ \A i \in 1 .. m - 1 : f[i] = F[i][f[i - 1]]
    BY <1>4
  <1> DEFINE y == F[m][f[m - 1]]
             g == [i \in 0 .. m |-> IF i = m THEN y ELSE f[i]]
  <1>6. y \in Int
    <2>1. f[m - 1] \in Int
      BY <1>4, <1>5
    <2>2. F[m] \in [Int -> Int]
      BY <1>4
    <2>3. QED
      BY <2>1, <2>2
  <1> HIDE DEF y
  <1>7. g \in [0 .. m -> Int] /\ g[m] = y /\ \A i \in 0 .. m - 1 : g[i] = f[i]
    <2>1. m \in Nat /\ \A i \in 0 .. m : i # m => i \in 0 .. m - 1
      BY <1>4
    <2>2. \A i \in 0 .. m - 1 : f[i] \in Int
      BY <1>5
    <2>3. g \in [0 .. m -> Int]
      BY <1>6, <2>1, <2>2
    <2>4. m \in 0 .. m /\ \A i \in 0 .. m - 1 : i \in 0 .. m /\ i # m
      BY <2>1
    <2>5. QED
      BY <2>3, <2>4
  <1> HIDE DEF g
  <1>8. g[0] = x
    BY <1>4, <1>5, <1>7
  <1>9. ASSUME NEW i \in 1 .. m PROVE g[i] = F[i][g[i - 1]]
    <2>1. i - 1 \in 0 .. m - 1 /\ g[i - 1] = f[i - 1]
      BY <1>4, <1>7
    <2>2. CASE i = m
      BY <1>7, <2>1, <2>2 DEF y
    <2>3. CASE i # m
      <3>1. i \in 1 .. m - 1 /\ i \in 0 .. m - 1
        BY <1>4, <2>3
      <3>2. QED
        BY <1>5, <1>7, <2>1, <3>1
    <2>4. QED
      BY <2>2, <2>3
  <1>10. QED
    BY <1>2, <1>7, <1>8, <1>9

\* A typed function on 1 .. n is a sequence.
LEMMA FunctionIsSeq ==
  ASSUME NEW S, NEW n \in Nat, NEW f \in [1 .. n -> S]
  PROVE  f \in Seq(S) /\ Len(f) = n /\ DOMAIN f = 1 .. n
  <1>1. f \in Seq(S)
    BY SeqDef
  <1>2. DOMAIN f = 1 .. n /\ Len(f) \in Nat /\ DOMAIN f = 1 .. Len(f)
    BY <1>1, LenProperties
  <1>3. QED
    BY <1>1, <1>2

-----------------------------------------------------------------------------
(* The upper median.                                                       *)

\* Of a finite, not empty family of naturals it is a member.
LEMMA UpperMedianIsElement ==
  ASSUME NEW D, IsFiniteSet(D), D # {}, NEW s \in [D -> Nat]
  PROVE  UpperMedian(s) \in Elems(s)
  <1> DEFINE mid == Cardinality(D) \div 2
             AtMost(v) == {i \in D : s[i] <= v}
             c(v) == Cardinality(AtMost(v))
             W == {v \in Elems(s) : mid < c(v)}
  <1>1. Cardinality(D) \in Nat \ {0} /\ mid \in Nat /\ mid < Cardinality(D)
    <2>1. Cardinality(D) \in Nat /\ Cardinality(D) # 0
      BY FS_CardinalityType, FS_EmptySet
    <2>2. QED
      BY <2>1
  <1>2. Elems(s) \subseteq Nat /\ \A i \in D : s[i] \in Elems(s)
    BY DEF Elems
  <1>3. ASSUME NEW v PROVE c(v) \in Nat /\ c(v) <= Cardinality(D)
    <2>1. AtMost(v) \in SUBSET D
      OBVIOUS
    <2> HIDE DEF AtMost
    <2>2. IsFiniteSet(AtMost(v)) /\ Cardinality(AtMost(v)) <= Cardinality(D)
      BY <2>1, FS_Subset
    <2>3. QED
      BY <2>2, FS_CardinalityType
  \* A larger value that occurs has more elements up to it.
  <1>4. ASSUME NEW u \in Nat, NEW v \in Elems(s), u < v PROVE c(u) < c(v)
    <2>1. AtMost(u) \in SUBSET AtMost(v) /\ AtMost(v) \in SUBSET D /\ AtMost(u) # AtMost(v)
      <3>1. PICK i \in D : s[i] = v
        BY DEF Elems
      <3>2. i \in AtMost(v) /\ i \notin AtMost(u)
        BY <1>2, <1>4, <3>1
      <3>3. \A j \in D : s[j] \in Nat
        OBVIOUS
      <3>4. QED
        BY <1>2, <1>4, <3>2, <3>3
    <2> HIDE DEF AtMost
    <2>2. IsFiniteSet(AtMost(v))
      BY <2>1, FS_Subset
    <2>3. Cardinality(AtMost(u)) <= Cardinality(AtMost(v))
          /\ Cardinality(AtMost(u)) # Cardinality(AtMost(v))
      BY <2>1, <2>2, FS_Subset
    <2>4. QED
      BY <1>3, <2>3
  <1> HIDE DEF mid
  \* Among the values below a bound one has the most elements up to it.
  <1>5. ASSUME NEW V \in SUBSET Elems(s), V # {}
        PROVE  \E u \in V : \A w \in V : w <= u
    <2> DEFINE T == {Cardinality(D) - c(v) : v \in V}
    <2> HIDE DEF c
    <2>1. T \subseteq Nat /\ T # {}
      BY <1>1, <1>3, <1>5
    <2>2. PICK t \in T : \A r \in T : t <= r
      <3> HIDE DEF T
      <3>1. QED
        BY <2>1, LeastNatural
    <2>3. PICK u \in V : t = Cardinality(D) - c(u)
      BY <2>2
    <2>4. ASSUME NEW w \in V, u < w PROVE FALSE
      <3>1. u \in Nat /\ w \in Elems(s)
        BY <1>2, <1>5
      <3>2. c(u) < c(w)
        BY <1>4, <2>4, <3>1
      <3>3. t <= Cardinality(D) - c(w)
        BY <2>2
      <3>4. QED
        BY <1>1, <1>3, <2>3, <3>2, <3>3
    <2>5. \A w \in V : ~(u < w) => w <= u
      BY <1>2, <1>5
    <2>6. QED
      BY <2>4, <2>5
  <1>6. W # {}
    <2>1. Elems(s) # {}
      BY <1>2
    <2>2. PICK u \in Elems(s) : \A w \in Elems(s) : w <= u
      BY <1>5, <2>1
    <2>3. AtMost(u) = D
      BY <1>2, <2>2
    <2>4. QED
      BY <1>1, <2>2, <2>3
  <1>7. PICK v \in W : \A w \in W : v <= w
    <2>1. W \subseteq Nat
      BY <1>2
    <2> HIDE DEF W
    <2>2. QED
      BY <1>6, <2>1, LeastNatural
  <1>8. Cardinality({i \in D : s[i] < v}) <= mid
    <2> DEFINE V == {w \in Elems(s) : w < v}
    <2>1. CASE V = {}
      <3>1. {i \in D : s[i] < v} = {}
        BY <1>2, <2>1
      <3>2. QED
        BY <1>1, <3>1, FS_EmptySet
    <2>2. CASE V # {}
      <3>1. PICK u \in V : \A w \in V : w <= u
        <4>1. V \in SUBSET Elems(s)
          OBVIOUS
        <4> HIDE DEF V
        <4>2. QED
          BY <1>5, <2>2, <4>1
      <3>2. \A i \in D : s[i] < v <=> s[i] <= u
        <4>1. \A i \in D : s[i] < v => s[i] <= u
          BY <1>2, <3>1
        <4>2. \A i \in D : s[i] <= u => s[i] < v
          BY <1>2, <1>7, <3>1
        <4>3. QED
          BY <4>1, <4>2
      <3>3. {i \in D : s[i] < v} = AtMost(u)
        BY <3>2
      <3>4. u \notin W
        BY <1>2, <1>7, <3>1
      <3>5. ~(mid < c(u))
        BY <3>1, <3>4
      <3>6. QED
        BY <1>1, <1>3, <3>3, <3>5
    <2>3. QED
      BY <2>1, <2>2
  <1>9. mid < Cardinality({i \in D : s[i] <= v}) /\ v \in Elems(s)
    BY <1>7
  <1>10. DOMAIN s = D
    OBVIOUS
  <1>11. QED
    BY <1>8, <1>9, <1>10 DEF UpperMedian, mid

-----------------------------------------------------------------------------
(* The clock mapping.                                                      *)

\* A bin keeps poses of its own interval, none of them newer than p1.
Span(b, first) == first + BinSize * b.index

GoodBin(b, first, p1) ==
  /\ b.count * Span(b, first) <= b.sum
  /\ b.sum < b.count * (Span(b, first) + BinSize)
  /\ b.sum <= b.count * p1

GoodBins(bs, first, p1) ==
  /\ IsFiniteSet(bs) /\ bs \subseteq Bins
  /\ \A a, b \in bs : a.index = b.index => a = b
  /\ \A b \in bs : GoodBin(b, first, p1)

\* The fields of a bin
LEMMA BinTyped ==
  ASSUME NEW b \in Bins
  PROVE  /\ b.index \in Nat /\ b.count \in Nat \ {0} /\ b.sum \in Nat /\ b.lag \in Nat
         /\ b.lag \in Lags
  <1>1. b.index \in Nat /\ b.count \in 1 .. MaxPose /\ b.sum \in Nat /\ b.lag \in Lags
    BY DEF Bins
  <1>2. MaxPose \in Nat /\ Lags \subseteq Nat
    BY InputAssumption
  <1>3. \A c \in 1 .. MaxPose : c \in Nat \ {0}
    BY <1>2
  <1>4. b.count \in Nat \ {0}
    BY ONLY <1>1, <1>3
  <1>5. QED
    BY ONLY <1>1, <1>2, <1>4

\* A bin's interval starts at a natural number.
LEMMA SpanTyped ==
  ASSUME NEW b \in Bins, NEW first \in Nat
  PROVE  Span(b, first) \in Nat
  BY BinTyped, TimeAssumption DEF Span

\* The interval of a bin of good poses holds its centre, and does not start
\* after the newest pose.
LEMMA CenterBetween ==
  ASSUME NEW b \in Bins, NEW first \in Nat, NEW p1 \in Nat, GoodBin(b, first, p1)
  PROVE  /\ Center(b) \in Int
         /\ Unit * Span(b, first) <= Center(b)
         /\ Center(b) < Unit * (Span(b, first) + BinSize)
         /\ Center(b) <= Unit * p1
         /\ Span(b, first) <= p1
  <1> DEFINE lo == Span(b, first)
             c == b.count
             m == b.sum
             U == Unit
             w == BinSize
  <1>1. lo \in Nat /\ c \in Nat \ {0} /\ m \in Nat /\ U \in Nat \ {0} /\ w \in Nat \ {0}
    BY BinTyped, SpanTyped, TimeAssumption
  <1>2. c * lo <= m /\ m < c * (lo + w) /\ m <= c * p1
    BY DEF GoodBin
  <1>3. Center(b) = (U * m) \div c
    BY DEF Center
  <1> HIDE DEF lo, c, m, U, w
  <1>4. c * (U * lo) <= U * m
    <2>1. U * (c * lo) <= U * m
      BY <1>1, <1>2
    <2>2. U * (c * lo) = c * (U * lo)
      BY <1>1
    <2>3. QED
      BY <2>1, <2>2
  <1>5. U * m < c * (U * (lo + w))
    <2>1. U * m < U * (c * (lo + w))
      BY <1>1, <1>2
    <2>2. U * (c * (lo + w)) = c * (U * (lo + w))
      BY <1>1
    <2>3. QED
      BY <2>1, <2>2
  <1>6. U * m < c * (U * p1 + 1)
    <2>1. U * m <= U * (c * p1)
      BY <1>1, <1>2
    <2>2. U * (c * p1) = c * (U * p1)
      BY <1>1
    <2>3. c * (U * p1 + 1) = c * (U * p1) + c
      BY <1>1
    <2>4. U * m \in Int /\ c * (U * p1) \in Int
      BY <1>1
    <2>5. QED
      BY <1>1, <2>1, <2>2, <2>3, <2>4
  <1>7. U * lo \in Int /\ U * (lo + w) \in Int /\ U * p1 + 1 \in Int /\ U * p1 \in Int /\ U * m \in Int
    BY <1>1
  <1>8. (U * m) \div c \in Int /\ U * lo <= (U * m) \div c /\ (U * m) \div c < U * (lo + w)
    BY <1>1, <1>4, <1>5, <1>7, DivBetween
  <1>9. (U * m) \div c < U * p1 + 1
    BY <1>1, <1>4, <1>6, <1>7, DivBetween
  <1>10. (U * m) \div c <= U * p1
    BY <1>7, <1>8, <1>9
  <1>11. lo <= p1
    <2>1. c * lo <= c * p1
      BY <1>1, <1>2
    <2>2. QED
      BY <1>1, <2>1
  <1>12. QED
    BY <1>3, <1>8, <1>10, <1>11 DEF lo, U, w

\* Bins do not overlap: their centres are ordered as they are.
LEMMA CentersOrdered ==
  ASSUME NEW a \in Bins, NEW b \in Bins, NEW first \in Nat, NEW p1 \in Nat,
         GoodBin(a, first, p1), GoodBin(b, first, p1), a.index < b.index
  PROVE  Center(a) < Center(b) /\ Span(a, first) + BinSize <= Span(b, first)
  <1> DEFINE x == Span(a, first) + BinSize
             y == Span(b, first)
  <1>1. x \in Nat /\ y \in Nat /\ Unit \in Nat
    BY SpanTyped, TimeAssumption
  <1>2. x <= y
    <2>1. a.index + 1 <= b.index /\ a.index + 1 \in Nat /\ b.index \in Nat /\ BinSize \in Nat
      BY BinTyped, TimeAssumption
    <2>2. BinSize * (a.index + 1) <= BinSize * b.index
      BY <2>1, TimesMonotone
    <2>3. BinSize * (a.index + 1) = BinSize * a.index + BinSize
      BY <2>1, BinTyped
    <2>4. BinSize * a.index \in Nat /\ BinSize * b.index \in Nat
      BY <2>1, BinTyped
    <2>5. QED
      BY <2>1, <2>2, <2>3, <2>4 DEF Span
  <1> HIDE DEF x, y
  <1>3. Unit * x <= Unit * y /\ Unit * x \in Int /\ Unit * y \in Int
    BY <1>1, <1>2
  <1>4. Center(a) \in Int /\ Center(a) < Unit * x
    BY CenterBetween DEF x
  <1>5. Center(b) \in Int /\ Unit * y <= Center(b)
    BY CenterBetween DEF y
  <1>6. QED
    BY <1>2, <1>3, <1>4, <1>5 DEF x, y

\* Among bins of good poses there is a first one, and a last one.
LEMMA FirstBin ==
  ASSUME NEW bs \in SUBSET Bins, bs # {}
  PROVE  \E b \in bs : \A c \in bs : b.index <= c.index
  <1> DEFINE T == {b.index : b \in bs}
  <1>1. T \subseteq Nat /\ T # {}
    BY BinTyped
  <1>2. PICK m \in T : \A n \in T : m <= n
    <2> HIDE DEF T
    <2>1. QED
      BY <1>1, LeastNatural
  <1>3. QED
    BY <1>2

\* Of any bins, one is the last.
LEMMA LastBin ==
  ASSUME NEW first \in Nat, NEW p1 \in Nat, NEW bs, GoodBins(bs, first, p1),
         NEW cs \in SUBSET bs, cs # {}
  PROVE  \E b \in cs : \A c \in cs : c.index <= b.index
  <1>1. \A b \in cs : b.index \in Nat /\ b.index <= p1
    <2> TAKE b \in cs
    <2>1. b \in Bins /\ GoodBin(b, first, p1)
      BY DEF GoodBins
    <2>2. Span(b, first) <= p1
      BY <2>1, CenterBetween
    <2>3. b.index \in Nat /\ BinSize \in Nat \ {0}
      BY <2>1, BinTyped, TimeAssumption
    <2>4. 1 * b.index <= BinSize * b.index
      BY <2>3
    <2>5. BinSize * b.index \in Nat
      BY <2>3
    <2>6. QED
      BY <2>2, <2>3, <2>4, <2>5 DEF Span
  <1> DEFINE T == {p1 - b.index : b \in cs}
  <1>2. T \subseteq Nat /\ T # {}
    BY <1>1
  <1>3. PICK m \in T : \A n \in T : m <= n
    <2> HIDE DEF T
    <2>1. QED
      BY <1>2, LeastNatural
  <1>4. PICK b \in cs : m = p1 - b.index
    BY <1>3
  <1>5. ASSUME NEW c \in cs PROVE c.index <= b.index
    <2>1. m <= p1 - c.index
      BY <1>3
    <2>2. QED
      BY <1>1, <1>4, <2>1
  <1>6. QED
    BY <1>5

\* Without drift the offset is the lag of one of the bins.
LEMMA MedianLag ==
  ASSUME NEW bs \in SUBSET Bins, IsFiniteSet(bs), bs # {}
  PROVE  \E b \in bs : UpperMedian([d \in bs |-> d.lag]) = b.lag
  <1> DEFINE s == [d \in bs |-> d.lag]
  <1>1. s \in [bs -> Nat]
    BY BinTyped
  <1>2. DOMAIN s = bs /\ \A b \in bs : s[b] = b.lag
    OBVIOUS
  <1> HIDE DEF s
  <1>3. UpperMedian(s) \in Elems(s)
    BY <1>1, UpperMedianIsElement
  <1>4. PICK b \in bs : UpperMedian(s) = s[b]
    BY <1>2, <1>3 DEF Elems
  <1>5. QED
    BY <1>2, <1>4 DEF s

\* The ROS time of any P1 time is defined.
LEMMA ToRosTyped ==
  ASSUME NEW first \in Nat, NEW newest \in Nat, NEW bs, GoodBins(bs, first, newest),
         NEW p1 \in Nat
  PROVE  ToRos(bs, p1) \in Int
  <1> DEFINE t == Unit * p1
             after == {b \in bs : t <= Center(b)}
             next == CHOOSE b \in after : \A c \in after : b.index <= c.index
             before == {b \in bs : b.index < next.index}
             prev == CHOOSE b \in before : \A c \in before : c.index <= b.index
             last == CHOOSE b \in bs : \A c \in bs : c.index <= b.index
  <1>0. /\ bs \in SUBSET Bins /\ IsFiniteSet(bs) /\ after \in SUBSET Bins
        /\ before \in SUBSET bs /\ Unit \in Nat /\ t \in Int
    BY TimeAssumption DEF GoodBins
  <1>1. CASE bs = {}
    BY <1>0, <1>1 DEF ToRos
  <1>2. CASE bs # {} /\ NoDrift(bs)
    <2>1. PICK b \in bs : UpperMedian([d \in bs |-> d.lag]) = b.lag
      BY <1>0, <1>2, MedianLag
    <2>2. b.lag \in Nat
      BY <1>0, BinTyped
    <2>3. ToRos(bs, p1) = t + Unit * b.lag
      BY <1>2, <2>1 DEF ToRos
    <2>4. QED
      BY <1>0, <2>2, <2>3
  <1>3. CASE bs # {} /\ ~NoDrift(bs) /\ after = {}
    <2>1. last \in bs
      BY <1>3, LastBin
    <2>2. last.lag \in Nat
      BY <1>0, <2>1, BinTyped
    <2>3. ToRos(bs, p1) = t + Unit * last.lag
      BY <1>3 DEF ToRos
    <2> HIDE DEF last, t
    <2>4. QED
      BY <1>0, <2>2, <2>3
  <1>4. CASE bs # {} /\ ~NoDrift(bs) /\ after # {}
    <2>1. next \in after
      BY <1>0, <1>4, FirstBin
    <2>2. next \in Bins /\ GoodBin(next, first, newest)
      BY <1>0, <2>1 DEF GoodBins
    <2>3. next.lag \in Nat
      BY <2>2, BinTyped
    <2>4. CASE before = {}
      <3>1. ToRos(bs, p1) = t + Unit * next.lag
        BY <1>4, <2>4 DEF ToRos
      <3> HIDE DEF next, t
      <3>2. QED
        BY <1>0, <2>3, <3>1
    <2>5. CASE before # {}
      <3>1. prev \in before
        BY <1>0, <2>5, LastBin
      <3>2. prev \in Bins /\ GoodBin(prev, first, newest) /\ prev.index < next.index
        BY <1>0, <3>1 DEF GoodBins
      <3> DEFINE y == next.lag  x == prev.lag  c1 == Center(next)  c0 == Center(prev)
      <3>3. x \in Nat /\ y \in Nat
        BY <2>3, <3>2, BinTyped
      <3>4. ToRos(bs, p1) = t + Unit * x + (Unit * (y - x) * (t - c0)) \div (c1 - c0)
        BY <1>4, <2>5 DEF ToRos
      <3> HIDE DEF next, prev
      <3>5. c0 \in Int /\ c1 \in Int /\ c0 < c1
        BY <2>2, <3>2, CenterBetween, CentersOrdered
      <3> HIDE DEF t, x, y, c0, c1
      <3>6. c1 - c0 \in Nat \ {0} /\ Unit * (y - x) * (t - c0) \in Int
        BY <1>0, <3>3, <3>5
      <3>7. (Unit * (y - x) * (t - c0)) \div (c1 - c0) \in Int
        BY <3>6, DivBounds
      <3>8. Unit * x \in Int
        BY <1>0, <3>3
      <3>9. QED
        BY <1>0, <3>4, <3>7, <3>8
    <2>6. QED
      BY <2>4, <2>5
  <1>5. QED
    BY <1>1, <1>2, <1>3, <1>4

\* A pose is mapped to at least its P1 time, and past its bin's lag by no more
\* than the drift that is ignored.
LEMMA ToRosOfNewest ==
  ASSUME NEW first \in Nat, NEW p1 \in Nat, NEW bs, GoodBins(bs, first, p1),
         NEW n \in bs, \A c \in bs : c.index <= n.index
  PROVE  /\ Unit * p1 <= ToRos(bs, p1)
         /\ ToRos(bs, p1) < Unit * p1 + Unit * n.lag + DriftTol + 1
  <1> DEFINE t == Unit * p1
             after == {b \in bs : t <= Center(b)}
             next == CHOOSE b \in after : \A c \in after : b.index <= c.index
             before == {b \in bs : b.index < next.index}
             prev == CHOOSE b \in before : \A c \in before : c.index <= b.index
             last == CHOOSE b \in bs : \A c \in bs : c.index <= b.index
  <1>0. /\ bs \in SUBSET Bins /\ IsFiniteSet(bs) /\ bs # {}
        /\ before \in SUBSET bs /\ Unit \in Nat \ {0} /\ DriftTol \in Nat /\ t \in Nat
        /\ n \in Bins /\ n.lag \in Nat /\ GoodBin(n, first, p1)
        /\ \A a, b \in bs : a.index = b.index => a = b
    BY TimeAssumption, BinTyped DEF GoodBins
  <1>1. SUFFICES ASSUME ~NoDrift(bs) PROVE ToRos(bs, p1) = t + Unit * n.lag
    <2>1. CASE NoDrift(bs)
      <3>1. PICK b \in bs : UpperMedian([d \in bs |-> d.lag]) = b.lag
        BY <1>0, MedianLag
      <3>2. b.lag \in Nat
        BY <1>0, BinTyped
      <3>3. ToRos(bs, p1) = t + Unit * b.lag
        BY <1>0, <2>1, <3>1 DEF ToRos
      <3>4. Unit * (b.lag - n.lag) < DriftTol
        BY <2>1 DEF NoDrift
      <3> HIDE DEF t
      <3>5. Unit * (b.lag - n.lag) = Unit * b.lag - Unit * n.lag
            /\ Unit * b.lag \in Nat /\ Unit * n.lag \in Nat
        BY <1>0, <3>2
      <3>6. QED
        BY <1>0, <3>3, <3>4, <3>5 DEF t
    <2>2. CASE ~NoDrift(bs)
      <3>1. Unit * n.lag \in Nat
        BY <1>0
      <3>2. ToRos(bs, p1) = t + Unit * n.lag => t <= ToRos(bs, p1)
                /\ ToRos(bs, p1) < t + Unit * n.lag + DriftTol + 1
        BY <1>0, <3>1
      <3>3. QED
        BY <2>2, <3>2
    <2>3. QED
      BY <2>1, <2>2
  \* Only the newest bin can have its centre at the pose or after it.
  <1>2. ASSUME NEW b \in after PROVE b = n
    <2>1. CASE b.index = n.index
      BY <1>0, <2>1
    <2>2. CASE b.index # n.index
      <3>1. b \in Bins /\ GoodBin(b, first, p1) /\ b.index < n.index
        <4>1. b \in bs /\ b.index <= n.index
          OBVIOUS
        <4>2. b.index \in Nat /\ n.index \in Nat
          BY <1>0, <4>1, BinTyped
        <4>3. QED
          BY <2>2, <4>1, <4>2 DEF GoodBins
      <3>2. Center(b) < Center(n)
        BY <1>0, <3>1, CentersOrdered
      <3>3. Center(n) <= t /\ Center(n) \in Int /\ Center(b) \in Int
        BY <1>0, <3>1, CenterBetween
      <3>4. t <= Center(b)
        OBVIOUS
      <3> HIDE DEF t
      <3>5. QED
        BY <1>0, <3>2, <3>3, <3>4
    <2>3. QED
      BY <2>1, <2>2
  <1>3. CASE after = {}
    <2>1. last \in bs /\ \A c \in bs : c.index <= last.index
      BY <1>0, LastBin
    <2>2. last.index \in Nat /\ n.index \in Nat /\ last.index <= n.index /\ n.index <= last.index
      BY <1>0, <2>1, BinTyped
    <2>3. last.index = n.index
      BY <2>2
    <2>4. last = n
      BY <1>0, <2>1, <2>3
    <2>5. QED
      BY <1>0, <1>1, <1>3, <2>4 DEF ToRos
  <1>4. CASE after # {}
    <2>1. next \in after
      BY <1>0, <1>4, FirstBin
    <2>2. next = n /\ t <= Center(n)
      BY <1>2, <2>1
    <2>3. t = Center(n)
      <3>1. Center(n) \in Int /\ Center(n) <= t
        BY <1>0, CenterBetween
      <3>2. QED
        BY <1>0, <2>2, <3>1
    <2>4. CASE before = {}
      BY <1>0, <1>1, <1>4, <2>2, <2>4 DEF ToRos
    <2>5. CASE before # {}
      <3>1. prev \in before
        BY <1>0, <2>5, LastBin
      <3>2. prev \in Bins /\ GoodBin(prev, first, p1) /\ prev.index < n.index
        BY <1>0, <2>2, <3>1 DEF GoodBins
      <3> DEFINE y == n.lag  x == prev.lag  c1 == Center(n)  c0 == Center(prev)
      <3>3. x \in Nat /\ y \in Nat
        BY <1>0, <3>2, BinTyped
      <3>4. ToRos(bs, p1) = t + Unit * x + (Unit * (y - x) * (t - c0)) \div (c1 - c0)
        <4>1. ToRos(bs, p1) = t + Unit * prev.lag
                 + (Unit * (next.lag - prev.lag) * (t - Center(prev))) \div (Center(next) - Center(prev))
          BY <1>0, <1>1, <1>4, <2>5 DEF ToRos
        <4> HIDE DEF next, prev, before, after, t
        <4>2. QED
          BY <2>2, <4>1
      <3> HIDE DEF next, prev, before, after
      <3>5. c0 \in Int /\ c1 \in Int /\ c0 < c1
        BY <1>0, <3>2, CenterBetween, CentersOrdered
      <3>6. t = c1
        BY <2>3
      <3> HIDE DEF t, x, y, c0, c1
      <3>7. c1 - c0 \in Nat \ {0} /\ Unit * (y - x) \in Int
        BY <1>0, <3>3, <3>5
      <3>8. ((Unit * (y - x)) * (c1 - c0)) \div (c1 - c0) = Unit * (y - x)
        BY <3>7, DivExact
      <3>9. ToRos(bs, p1) = t + Unit * x + Unit * (y - x)
        BY <3>4, <3>6, <3>8
      <3>10. Unit * (y - x) = Unit * y - Unit * x /\ Unit * x \in Int /\ Unit * y \in Int
        BY <1>0, <3>3
      <3>11. QED
        BY <1>0, <3>9, <3>10 DEF y
    <2>6. QED
      BY <2>4, <2>5
  <1>5. QED
    BY <1>3, <1>4

\* A pose newer than all others goes into the last bin.
LEMMA PoseAdded ==
  ASSUME NEW first \in Nat, NEW p \in Nat, NEW p1 \in Nat, NEW bs, GoodBins(bs, first, p),
         p <= p1, first <= p1, NEW arrival \in Int, arrival - p1 \in Lags,
         NEW k \in Nat, k < MaxPose, \A b \in bs : b.count <= k
  PROVE  LET cs == AddPosePair(bs, first, arrival, p1) IN
         /\ GoodBins(cs, first, p1)
         /\ \A b \in cs : b.count <= k + 1
         /\ \E n \in cs : n.lag <= arrival - p1 /\ \A c \in cs : c.index <= n.index
  <1> DEFINE index == (p1 - first) \div BinSize
             old == {b \in bs : b.index = index}
             lag == arrival - p1
             lo == first + BinSize * index
  <1>0. /\ bs \subseteq Bins /\ IsFiniteSet(bs)
        /\ \A a, b \in bs : a.index = b.index => a = b
        /\ \A b \in bs : GoodBin(b, first, p)
        /\ BinSize \in Nat \ {0} /\ MaxPose \in Nat /\ lag \in Lags /\ lag \in Nat
    BY TimeAssumption, InputAssumption DEF GoodBins
  <1>1. /\ index \in Nat /\ BinSize * index \in Nat
        /\ lo <= p1 /\ p1 < lo + BinSize /\ lo \in Nat
    <2>1. p1 - first \in Nat
      OBVIOUS
    <2>2. /\ index \in Int /\ BinSize * index <= p1 - first
          /\ p1 - first < BinSize * index + BinSize
      BY <1>0, <2>1, DivBounds
    <2>3. 0 <= index
      <3>1. BinSize * 0 <= p1 - first
        BY <1>0, <2>1
      <3>2. p1 - first < BinSize * (p1 - first + 1)
        <4>1. 1 * (p1 - first + 1) <= BinSize * (p1 - first + 1)
          BY <1>0, <2>1
        <4>2. QED
          BY <1>0, <2>1, <4>1
      <3>3. QED
        BY <1>0, <2>1, <3>1, <3>2, DivBetween
    <2> HIDE DEF index
    <2>4. index \in Nat /\ BinSize * index \in Nat
      BY <1>0, <2>2, <2>3
    <2>5. \A x \in Nat : x <= p1 - first /\ p1 - first < x + BinSize
                        => first + x <= p1 /\ p1 < (first + x) + BinSize /\ first + x \in Nat
      BY <1>0
    <2>6. QED
      BY ONLY <2>2, <2>4, <2>5
  <1> HIDE DEF index
  <1>2. ASSUME NEW b \in bs
        PROVE  b.index <= index /\ GoodBin(b, first, p1)
    <2>1. b \in Bins /\ GoodBin(b, first, p) /\ b.index \in Nat /\ b.count \in Nat /\ b.sum \in Nat
      BY <1>0, BinTyped
    <2>2. Span(b, first) <= p
      BY <2>1, CenterBetween
    <2>3. BinSize * b.index \in Nat /\ BinSize * b.index < BinSize * index + BinSize
      BY <1>0, <1>1, <2>1, <2>2 DEF Span
    <2>4. b.index < index + 1
      <3>1. BinSize * (index + 1) = BinSize * index + BinSize
        BY <1>0, <1>1
      <3>2. SUFFICES ASSUME index + 1 <= b.index PROVE FALSE
        BY <1>1, <2>1
      <3>3. BinSize * (index + 1) <= BinSize * b.index
        <4>1. index + 1 \in Int /\ b.index \in Int /\ BinSize \in Nat
          BY <1>0, <1>1, <2>1
        <4>2. QED
          BY <3>2, <4>1, TimesMonotone
      <3>4. QED
        BY <1>0, <1>1, <2>3, <3>1, <3>3
    <2>5. b.count * p <= b.count * p1 /\ b.count * p \in Int /\ b.count * p1 \in Int
      BY <2>1
    <2>6. b.sum <= b.count * p1
      BY <2>1, <2>5 DEF GoodBin
    <2>7. QED
      BY <1>1, <2>1, <2>4, <2>6 DEF GoodBin
  <1> DEFINE cs == AddPosePair(bs, first, arrival, p1)
  <1>3. ASSUME NEW n, NEW rest \in SUBSET bs, cs = rest \cup {n},
               \A b \in rest : b.index # index,
               n.index = index, n.lag <= lag, n \in Bins, GoodBin(n, first, p1), n.count <= k + 1
        PROVE  /\ GoodBins(cs, first, p1)
               /\ \A b \in cs : b.count <= k + 1
               /\ \E m \in cs : m.lag <= arrival - p1 /\ \A c \in cs : c.index <= m.index
    <2> HIDE DEF cs
    <2>1. IsFiniteSet(cs)
      <3>1. IsFiniteSet(rest)
        BY <1>0, FS_Subset
      <3>2. QED
        BY <1>3, <3>1, FS_AddElement
    <2>2. \A a, b \in cs : a.index = b.index => a = b
      BY <1>0, <1>3
    <2>3. \A b \in cs : b \in Bins /\ GoodBin(b, first, p1)
      BY <1>0, <1>2, <1>3
    <2>4. \A b \in cs : b.count <= k + 1
      <3> TAKE b \in cs
      <3>1. CASE b = n
        BY <1>3, <3>1
      <3>2. CASE b \in rest
        <4>1. b.count \in Nat /\ b.count <= k
          BY <1>0, <3>2, BinTyped
        <4>2. QED
          BY <4>1
      <3>3. QED
        BY <1>3, <3>1, <3>2
    <2>5. \A c \in cs : c.index <= n.index
      <3>1. index <= index
        BY <1>1
      <3>2. QED
        BY <1>2, <1>3, <3>1
    <2>6. QED
      BY <1>3, <2>1, <2>2, <2>3, <2>4, <2>5 DEF GoodBins
  <1>4. ~(p1 < first)
    OBVIOUS
  <1>5. CASE old = {}
    <2> DEFINE n == [index |-> index, count |-> 1, sum |-> p1, lag |-> lag]
    <2>1. cs = bs \cup {n}
      BY <1>4, <1>5 DEF AddPosePair, index
    <2>2. n.index = index /\ n.count = 1 /\ n.sum = p1 /\ n.lag = lag
      OBVIOUS
    <2>3. n \in Bins
      BY <1>0, <1>1 DEF Bins
    <2> HIDE DEF n
    <2>4. GoodBin(n, first, p1)
      <3>1. Span(n, first) = lo
        BY <2>2 DEF Span
      <3> HIDE DEF lo
      <3>2. QED
        BY <1>0, <1>1, <2>2, <3>1 DEF GoodBin
    <2>5. \A b \in bs : b.index # index
      BY <1>5
    <2>6. n.lag <= lag /\ n.count <= k + 1
      BY <1>0, <2>2
    <2> HIDE DEF cs, lag
    <2>7. QED
      BY <1>3, <2>1, <2>2, <2>3, <2>4, <2>5, <2>6 DEF cs
  <1>6. CASE old # {}
    <2>1. PICK o \in bs : o.index = index
      BY <1>6
    <2>2. old = {o}
      BY <1>0, <2>1
    <2> DEFINE n == [index |-> o.index, count |-> o.count + 1, sum |-> o.sum + p1,
                     lag |-> Lesser(o.lag, lag)]
    <2>3. cs = (bs \ {o}) \cup {n}
      <3>1. cs = (bs \ old) \cup {[index |-> b.index, count |-> b.count + 1, sum |-> b.sum + p1,
                                   lag |-> Lesser(b.lag, lag)] : b \in old}
        BY <1>4, <1>6 DEF AddPosePair, index
      <3> HIDE DEF cs, old, lag
      <3>2. QED
        BY <2>2, <3>1
    <2>4. /\ n.index = index /\ n.count = o.count + 1 /\ n.sum = o.sum + p1
          /\ n.lag = Lesser(o.lag, lag)
      BY <2>1
    <2>5. /\ o.count \in Nat \ {0} /\ o.count <= k /\ o.sum \in Nat /\ o.lag \in Nat
          /\ o.lag \in Lags /\ o \in Bins
      BY <1>0, BinTyped
    <2>6. n \in Bins
      <3>1. n.count \in 1 .. MaxPose
        BY <1>0, <2>4, <2>5
      <3>2. n.lag \in Lags
        BY <1>0, <2>4, <2>5 DEF Lesser
      <3>3. o.count + 1 \in 1 .. MaxPose /\ Lesser(o.lag, lag) \in Lags
            /\ o.index \in Nat /\ o.sum + p1 \in Nat
        BY <1>1, <2>1, <2>4, <2>5, <3>1, <3>2
      <3>4. QED
        BY <3>3 DEF Bins
    <2>7. n.lag <= lag
      BY <1>0, <2>4, <2>5 DEF Lesser
    <2> HIDE DEF n
    <2>8. GoodBin(n, first, p1)
      <3> DEFINE c == o.count  m == o.sum
      <3>1. Span(n, first) = lo /\ Span(o, first) = lo
        BY <2>1, <2>4 DEF Span
      <3>2. c * lo <= m /\ m < c * (lo + BinSize) /\ m <= c * p1
        BY <1>2, <3>1 DEF GoodBin
      <3> HIDE DEF lo, c, m
      <3>3. /\ (c + 1) * lo = c * lo + lo /\ c * lo \in Int
            /\ (c + 1) * (lo + BinSize) = c * (lo + BinSize) + (lo + BinSize)
            /\ c * (lo + BinSize) \in Int
            /\ (c + 1) * p1 = c * p1 + p1 /\ c * p1 \in Int /\ m \in Int
        BY <1>0, <1>1, <2>5 DEF c, m
      <3>4. (c + 1) * lo <= m + p1 /\ m + p1 < (c + 1) * (lo + BinSize)
            /\ m + p1 <= (c + 1) * p1
        BY <1>0, <1>1, <3>2, <3>3
      <3>5. QED
        BY <2>4, <3>1, <3>4 DEF GoodBin, c, m
    <2>9. \A b \in bs \ {o} : b.index # index
      BY <1>0, <2>1
    <2>10. n.count <= k + 1
      BY <2>4, <2>5
    <2> HIDE DEF cs, lag
    <2>11. QED
      BY <1>3, <2>3, <2>4, <2>6, <2>7, <2>8, <2>9, <2>10 DEF cs
  <1>7. QED
    BY <1>5, <1>6

\* The centre of a bin lies in the bin.
LEMMA CenterInBin ==
  ASSUME NEW first \in Nat, NEW p1 \in Nat, NEW b \in Bins, GoodBin(b, first, p1)
  PROVE  ((b.sum \div b.count) - first) \div BinSize = b.index
  <1> DEFINE lo == Span(b, first)
             q == b.sum \div b.count
             i == b.index
  <1>1. /\ lo \in Nat /\ BinSize \in Nat \ {0} /\ b.count \in Nat \ {0} /\ b.sum \in Nat
        /\ i \in Nat
    BY SpanTyped, BinTyped, TimeAssumption
  <1>2. b.count * lo <= b.sum /\ b.sum < b.count * (lo + BinSize) /\ lo + BinSize \in Int
    BY <1>1 DEF GoodBin
  <1>3. q \in Int /\ lo <= q /\ q < lo + BinSize
    <2> DEFINE c == b.count  m == b.sum  hi == lo + BinSize
    <2>1. /\ m \in Int /\ c \in Nat \ {0} /\ lo \in Int /\ hi \in Int
          /\ c * lo <= m /\ m < c * hi
      BY <1>1, <1>2
    <2> HIDE DEF lo, c, m, hi
    <2>2. m \div c \in Int /\ lo <= m \div c /\ m \div c < hi
      BY ONLY <2>1, DivBetween
    <2>3. QED
      BY ONLY <2>2 DEF c, m, hi
  <1>4. lo = first + BinSize * i /\ BinSize * i \in Nat
    BY <1>1 DEF Span
  <1> HIDE DEF lo, q, i
  <1>5. BinSize * (i + 1) = BinSize * i + BinSize
    BY <1>1
  <1>6. BinSize * i <= q - first /\ q - first < BinSize * (i + 1) /\ q - first \in Int
    BY <1>1, <1>3, <1>4, <1>5
  <1>7. /\ (q - first) \div BinSize \in Int /\ i <= (q - first) \div BinSize
        /\ (q - first) \div BinSize < i + 1
    <2> DEFINE m == q - first  hi == i + 1
    <2>1. /\ m \in Int /\ BinSize \in Nat \ {0} /\ i \in Int /\ hi \in Int
          /\ BinSize * i <= m /\ m < BinSize * hi
      BY <1>1, <1>6
    <2> HIDE DEF m, hi
    <2>2. m \div BinSize \in Int /\ i <= m \div BinSize /\ m \div BinSize < hi
      BY ONLY <2>1, DivBetween
    <2>3. QED
      BY ONLY <2>2 DEF m, hi
  <1>8. (q - first) \div BinSize = i
    BY <1>1, <1>7
  <1>9. QED
    BY <1>8 DEF q, i

-----------------------------------------------------------------------------
(* Retiming a burst.                                                       *)

\* The recursive function of Retime exists: f[k] is the stamp with k messages
\* behind it.
RetimedBy(f, queue, n, period) ==
  /\ f \in [0 .. n - 1 -> Int] /\ f[0] = Unit * queue[n].arrival
  /\ \A k \in 1 .. n - 1 : f[k] = Lesser(Unit * queue[n - k].arrival, f[k - 1] - period)

\* Retime chooses the function its recursion describes, which exists, and
\* takes its last value.
LEMMA RetimeIs ==
  ASSUME NEW queue \in Seq(ArrivalMessages), NEW n \in Nat \ {0}, Len(queue) = n,
         NEW period \in Nat
  PROVE  \E f : RetimedBy(f, queue, n, period) /\ Retime(queue, period) = f[n - 1]
  <1> DEFINE a(k) == Unit * queue[n - k].arrival
             F == [k \in 1 .. n - 1 |-> [x \in Int |-> Lesser(a(k), x - period)]]
             Eq(h) == [k \in 0 .. n - 1 |->
                         LET arrival == Unit * queue[n - k].arrival IN
                         IF k = 0 THEN arrival ELSE Lesser(arrival, h[k - 1] - period)]
             f == CHOOSE h : h = Eq(h)
  <1>1. \A k \in 0 .. n - 1 : a(k) \in Int
    <2> TAKE k \in 0 .. n - 1
    <2>1. n - k \in 1 .. Len(queue)
      OBVIOUS
    <2>2. queue[n - k] \in ArrivalMessages
      BY <2>1, ElementOfSeq
    <2>3. queue[n - k].arrival \in Nat /\ Unit \in Nat
      BY <2>2, TimeAssumption DEF ArrivalMessages
    <2>4. QED
      BY <2>3
  <1>2. Retime(queue, period) = f[n - 1]
    BY DEF Retime
  <1>3. \A h : \A k \in 0 .. n - 1 :
          Eq(h)[k] = IF k = 0 THEN a(k) ELSE Lesser(a(k), h[k - 1] - period)
    OBVIOUS
  <1>4. \A h : DOMAIN Eq(h) = 0 .. n - 1 /\ Eq(h) = [k \in 0 .. n - 1 |-> Eq(h)[k]]
    OBVIOUS
  <1>5. f = Eq(f)
    <2>0. n - 1 \in Nat
      OBVIOUS
    <2>1. F \in [1 .. n - 1 -> [Int -> Int]] /\ a(0) \in Int
      <3>1. \A k \in 1 .. n - 1 : a(k) \in Int
        BY <1>1
      <3>2. 0 \in 0 .. n - 1
        OBVIOUS
      <3> HIDE DEF a
      <3>3. F \in [1 .. n - 1 -> [Int -> Int]]
        BY <3>1 DEF Lesser
      <3>4. a(0) \in Int
        BY <1>1, <3>2
      <3>5. QED
        BY <3>3, <3>4
    <2> DEFINE x == a(0)
    <2>x. x \in Int
      BY <2>1
    <2> HIDE DEF F, x, a
    <2>2. PICK g \in [0 .. n - 1 -> Int] : g[0] = x /\ \A k \in 1 .. n - 1 : g[k] = F[k][g[k - 1]]
      BY ONLY <2>0, <2>1, <2>x, IterationExists
    <2>3. ASSUME NEW k \in 0 .. n - 1
          PROVE  g[k] = IF k = 0 THEN a(k) ELSE Lesser(a(k), g[k - 1] - period)
      <3>1. CASE k = 0
        BY <2>2, <3>1 DEF x
      <3>2. CASE k # 0
        <4>1. k \in 1 .. n - 1 /\ k - 1 \in 0 .. n - 1
          BY <3>2
        <4>2. g[k - 1] \in Int
          BY <2>2, <4>1
        <4> HIDE DEF a
        <4>3. F[k][g[k - 1]] = Lesser(a(k), g[k - 1] - period)
          BY <4>1, <4>2 DEF F
        <4>4. QED
          BY <2>2, <3>2, <4>1, <4>3
      <3>3. QED
        BY <3>1, <3>2
    <2> HIDE DEF a, Eq
    <2>4. g = [k \in 0 .. n - 1 |-> g[k]]
      BY <2>2
    <2>5. \A k \in 0 .. n - 1 : g[k] = Eq(g)[k]
      BY <1>3, <2>3
    <2>6. g = Eq(g)
      BY <1>4, <2>4, <2>5
    <2>7. QED
      BY <2>6
  <1> HIDE DEF f, Eq
  <1>6. \A k \in 0 .. n - 1 : f[k] = IF k = 0 THEN a(k) ELSE Lesser(a(k), f[k - 1] - period)
    BY <1>3, <1>5
  <1>7. \A k \in 0 .. n - 1 : f[k] \in Int
    <2> DEFINE T == {k \in 0 .. n - 1 : f[k] \in Int}
    <2>1. 0 \in T
      <3>1. 0 \in 0 .. n - 1
        OBVIOUS
      <3> HIDE DEF a
      <3>2. f[0] = a(0) /\ a(0) \in Int
        BY <1>1, <1>6, <3>1
      <3>3. QED
        BY <3>1, <3>2
    <2>2. ASSUME NEW k \in 1 .. n - 1, k - 1 \in T PROVE k \in T
      <3>1. k \in 0 .. n - 1 /\ k # 0 /\ f[k - 1] \in Int /\ a(k) \in Int
        BY <1>1, <2>2
      <3> HIDE DEF a
      <3>2. f[k] \in Int
        BY <1>6, <3>1 DEF Lesser
      <3>3. QED
        BY <3>1, <3>2
    <2>3. n - 1 \in Nat
      OBVIOUS
    <2> HIDE DEF T
    <2>4. \A k \in 0 .. n - 1 : k \in T
      BY <2>1, <2>2, <2>3, IntervalInduction
    <2>5. QED
      BY <2>4 DEF T
  <1>8. f \in [0 .. n - 1 -> Int]
    BY <1>4, <1>5, <1>7
  <1>9. f[0] = Unit * queue[n].arrival
    BY <1>6
  <1>10. \A k \in 1 .. n - 1 : f[k] = Lesser(Unit * queue[n - k].arrival, f[k - 1] - period)
    BY <1>6
  <1>11. QED
    BY <1>2, <1>8, <1>9, <1>10 DEF RetimedBy

\* The stamp of the front is not after its arrival, and before it by at most
\* a period for each message behind it.
LEMMA RetimeBounds ==
  ASSUME NEW queue \in Seq(ArrivalMessages), NEW n \in Nat \ {0}, Len(queue) = n,
         NEW period \in Nat, \A j \in 1 .. n : queue[1].arrival <= queue[j].arrival
  PROVE  /\ Retime(queue, period) \in Int
         /\ Retime(queue, period) <= Unit * queue[1].arrival
         /\ Unit * queue[1].arrival - Retime(queue, period) <= (n - 1) * period
  <1>1. PICK f : RetimedBy(f, queue, n, period) /\ Retime(queue, period) = f[n - 1]
    BY RetimeIs
  <1> DEFINE a(j) == Unit * queue[j].arrival
  <1>2. \A j \in 1 .. n : a(j) \in Int /\ a(1) <= a(j)
    <2> TAKE j \in 1 .. n
    <2>1. 1 \in 1 .. Len(queue) /\ j \in 1 .. Len(queue)
      OBVIOUS
    <2>2. queue[1] \in ArrivalMessages /\ queue[j] \in ArrivalMessages
      BY <2>1, ElementOfSeq
    <2>3. queue[1].arrival \in Nat /\ queue[j].arrival \in Nat /\ Unit \in Nat
      BY <2>2, TimeAssumption DEF ArrivalMessages
    <2>4. QED
      BY <2>3, TimesMonotone
  <1>3. /\ f \in [0 .. n - 1 -> Int] /\ f[0] = a(n)
        /\ \A k \in 1 .. n - 1 : f[k] = Lesser(a(n - k), f[k - 1] - period)
    BY <1>1 DEF RetimedBy
  <1> HIDE DEF a
  <1>4. \A k \in 0 .. n - 1 : a(1) - f[k] <= k * period
    <2> DEFINE T == {k \in 0 .. n - 1 : a(1) - f[k] <= k * period}
    <2>1. 0 \in T
      <3>1. n \in 1 .. n /\ 0 \in 0 .. n - 1 /\ 0 * period = 0
        OBVIOUS
      <3>2. QED
        BY <1>2, <1>3, <3>1
    <2>2. ASSUME NEW k \in 1 .. n - 1, k - 1 \in T PROVE k \in T
      <3>1. k - 1 \in 0 .. n - 1 /\ k \in 0 .. n - 1 /\ n - k \in 1 .. n /\ 1 \in 1 .. n
        OBVIOUS
      <3>2. f[k - 1] \in Int /\ a(n - k) \in Int /\ a(1) \in Int /\ a(1) <= a(n - k)
        BY <1>2, <1>3, <3>1
      <3>3. a(1) - f[k - 1] <= (k - 1) * period
        BY <2>2
      <3>4. (k - 1) * period = k * period - period /\ k * period \in Nat
        OBVIOUS
      <3>5. f[k] = a(n - k) \/ f[k] = f[k - 1] - period
        BY <1>3, <3>2 DEF Lesser
      <3>6. a(1) - f[k] <= k * period
        BY <3>2, <3>3, <3>4, <3>5
      <3>7. QED
        BY <3>1, <3>6
    <2>3. n - 1 \in Nat
      OBVIOUS
    <2> HIDE DEF T
    <2>4. \A k \in 0 .. n - 1 : k \in T
      BY <2>1, <2>2, <2>3, IntervalInduction
    <2>5. QED
      BY <2>4 DEF T
  <1>5. f[n - 1] \in Int /\ f[n - 1] <= a(1)
    <2>1. n - 1 \in 0 .. n - 1 /\ f[n - 1] \in Int /\ a(1) \in Int
      BY <1>2, <1>3
    <2>2. CASE n = 1
      BY <1>3, <2>1, <2>2
    <2>3. CASE n # 1
      <3>1. n - 1 \in 1 .. n - 1 /\ n - (n - 1) = 1 /\ n - 1 - 1 \in 0 .. n - 1
        BY <2>3
      <3>2. f[n - 1] = Lesser(a(1), f[n - 1 - 1] - period) /\ f[n - 1 - 1] \in Int
        BY <1>3, <3>1
      <3>3. QED
        BY <2>1, <3>2 DEF Lesser
    <2>4. QED
      BY <2>2, <2>3
  <1>6. a(1) - f[n - 1] <= (n - 1) * period
    <2>1. n - 1 \in 0 .. n - 1
      OBVIOUS
    <2>2. QED
      BY <1>4, <2>1
  <1>7. QED
    BY <1>1, <1>5, <1>6 DEF a

-----------------------------------------------------------------------------
(* The clock and the odometry.                                             *)

ClockTypes ==
  /\ firstP1 \in Nat /\ lastPose \in [p1 : Nat, arrival : Nat] /\ firstP1 <= lastPose.p1
  /\ GoodBins(bins, firstP1, lastPose.p1) /\ \A b \in bins : b.count <= Len(odomOut)
  /\ firstP1 = None => bins = {}
  /\ odomOut \in Seq([stamp : Int, arrival : Nat]) /\ Len(odomOut) <= MaxPose
  /\ rtkOut \in Seq([stamp : Int, of : 1 .. Len(odomOut)])

\* Stamps of the odometry increase, and no arrival is newer than the newest pose's.
OdomOrder ==
  /\ \A i \in 1 .. Len(odomOut) :
       odomOut[i].stamp > 0 /\ odomOut[i].arrival <= lastPose.arrival
  /\ \A i, j \in 1 .. Len(odomOut) : i < j => odomOut[i].stamp < odomOut[j].stamp

ClockInv == ClockTypes /\ OdomOrder /\ OdomNotEarly /\ RtkSharesStamp

\* The clock's part of the invariant holds before the first pose.
LEMMA ClockInit ==
  ASSUME AdapterInit
  PROVE  ClockInv
  <1> USE DEF AdapterInit
  <1>1. GoodBins({}, 0, 0)
    BY FS_EmptySet DEF GoodBins
  <1>2. ClockTypes
    BY <1>1, InputAssumption DEF ClockTypes, None
  <1>3. OdomOrder /\ OdomNotEarly /\ RtkSharesStamp
    BY DEF OdomOrder, OdomNotEarly, RtkSharesStamp
  <1>4. QED
    BY <1>2, <1>3 DEF ClockInv

\* What a pose does to the clock and to the two odometry topics.
LEMMA PoseOnClock ==
  ASSUME ClockInv, PoseCallback
  PROVE  ClockInv'
  <1>1. PICK gap \in PoseGaps, posLag \in Lags, fixed \in BOOLEAN :
          LET p1 == lastPose.p1 + gap
              arrival == p1 + posLag
              first == IF firstP1 = None THEN p1 ELSE firstP1
              bs == AddPosePair(bins, first, arrival, p1)
              stamp == OdomStamp(odomOut, ToRos(bs, p1))
          IN /\ arrival >= lastPose.arrival
             /\ bins' = bs /\ firstP1' = first /\ lastPose' = [p1 |-> p1, arrival |-> arrival]
             /\ odomOut' = Append(odomOut, [stamp |-> stamp, arrival |-> arrival])
             /\ rtkOut' = IF fixed
                          THEN Append(rtkOut, [stamp |-> Monotonic(LastStampOf(rtkOut), stamp),
                                               of |-> Len(odomOut) + 1])
                          ELSE rtkOut
    BY DEF PoseCallback
  <1> DEFINE p1 == lastPose.p1 + gap
             arrival == p1 + posLag
             first == IF firstP1 = None THEN p1 ELSE firstP1
             bs == AddPosePair(bins, first, arrival, p1)
             ros == ToRos(bs, p1)
             last == LastStampOf(odomOut)
             stamp == Monotonic(last, ros)
             k == Len(odomOut)
             rstamp == Monotonic(LastStampOf(rtkOut), stamp)
  <1>2. /\ arrival >= lastPose.arrival
        /\ bins' = bs /\ firstP1' = first /\ lastPose' = [p1 |-> p1, arrival |-> arrival]
        /\ odomOut' = Append(odomOut, [stamp |-> stamp, arrival |-> arrival])
        /\ rtkOut' = Append(rtkOut, [stamp |-> rstamp, of |-> k + 1]) \/ rtkOut' = rtkOut
    BY <1>1 DEF OdomStamp
  <1>3. /\ firstP1 \in Nat /\ lastPose.p1 \in Nat /\ lastPose.arrival \in Nat
        /\ firstP1 <= lastPose.p1 /\ gap \in Nat \ {0} /\ posLag \in Nat /\ k \in Nat
        /\ k < MaxPose /\ MaxPose \in Nat /\ Unit \in Nat \ {0} /\ DriftTol \in Nat
        /\ odomOut \in Seq([stamp : Int, arrival : Nat])
        /\ rtkOut \in Seq([stamp : Int, of : 1 .. k])
    BY InputAssumption, TimeAssumption DEF ClockInv, ClockTypes, PoseCallback
  <1>3a. /\ firstP1 \in Nat /\ lastPose.p1 \in Nat /\ firstP1 <= lastPose.p1
         /\ gap \in Nat \ {0} /\ posLag \in Nat
    BY <1>3
  <1>3b. /\ Unit \in Nat \ {0} /\ DriftTol \in Nat /\ k \in Nat /\ lastPose.arrival \in Nat
    BY <1>3
  <1>4. /\ p1 \in Nat \ {0} /\ arrival \in Nat /\ first \in Nat /\ first <= p1
        /\ lastPose.p1 <= p1 /\ arrival - p1 = posLag
    <2>1. p1 \in Nat \ {0} /\ arrival \in Nat /\ arrival - p1 = posLag /\ lastPose.p1 <= p1
      BY ONLY <1>3a
    <2>2. first \in Nat /\ first <= p1
      <3>1. CASE firstP1 = None
        BY <2>1, <3>1
      <3>2. CASE firstP1 # None
        BY ONLY <1>3a, <3>2
      <3>3. QED
        BY <3>1, <3>2
    <2>3. QED
      BY <2>1, <2>2
  <1>5. GoodBins(bins, first, lastPose.p1)
    <2>1. CASE firstP1 = None
      <3>1. bins = {}
        BY <2>1 DEF ClockInv, ClockTypes
      <3>2. QED
        BY <3>1, FS_EmptySet DEF GoodBins
    <2>2. CASE firstP1 # None
      BY <2>2 DEF ClockInv, ClockTypes
    <2>3. QED
      BY <2>1, <2>2
  <1> HIDE DEF p1, arrival, first, ros
  <1>6. /\ GoodBins(bs, first, p1)
        /\ \A b \in bs : b.count <= k + 1
        /\ \E n \in bs : n.lag <= arrival - p1 /\ \A c \in bs : c.index <= n.index
    <2>1. arrival - p1 \in Lags /\ arrival \in Int /\ p1 \in Nat
      BY <1>4
    <2>2. \A b \in bins : b.count <= k
      BY DEF ClockInv, ClockTypes
    <2>3. QED
      BY <1>3, <1>4, <1>5, <2>1, <2>2, PoseAdded
  <1>7. PICK n \in bs : n.lag <= arrival - p1 /\ \A c \in bs : c.index <= n.index
    BY <1>6
  <1> HIDE DEF bs, stamp
  <1>8. Unit * p1 <= ros /\ ros < Unit * p1 + Unit * n.lag + DriftTol + 1
    BY <1>4, <1>6, <1>7, ToRosOfNewest DEF ros
  <1>9. ros \in Int /\ 0 < ros /\ ros < Unit * arrival + DriftTol + 1
    <2>1. ros \in Int
      BY <1>4, <1>6, ToRosTyped DEF ros
    <2>2. n.lag \in Nat
      BY <1>6, <1>7, BinTyped DEF GoodBins
    <2> DEFINE x == n.lag  y == arrival - p1
    <2>3. /\ Unit \in Nat \ {0} /\ p1 \in Nat \ {0} /\ arrival \in Nat /\ x \in Nat
          /\ x <= arrival - p1 /\ DriftTol \in Nat
          /\ Unit * p1 <= ros /\ ros < Unit * p1 + Unit * x + DriftTol + 1
      BY <1>3b, <1>4, <1>7, <1>8, <2>2
    <2> HIDE DEF x
    <2>4. /\ Unit * p1 \in Nat \ {0} /\ Unit * arrival \in Nat /\ Unit * x \in Nat
          /\ Unit * (arrival - p1) = Unit * arrival - Unit * p1
      BY ONLY <2>3
    <2>5. Unit * x <= Unit * (arrival - p1)
      <3>1. arrival - p1 \in Int /\ x \in Int /\ Unit \in Nat
        BY ONLY <2>3
      <3>2. QED
        BY ONLY <2>3, <3>1, TimesMonotone
    <2>6. QED
      BY ONLY <2>1, <2>3, <2>4, <2>5
  <1>10. /\ odomOut' \in Seq([stamp : Int, arrival : Nat]) /\ Len(odomOut') = k + 1
         /\ \A i \in 1 .. k : odomOut'[i] = odomOut[i]
         /\ odomOut'[k + 1] = [stamp |-> stamp, arrival |-> arrival]
         /\ stamp \in Int /\ 0 < stamp /\ stamp < Unit * arrival + DriftTol + (k + 1)
         /\ \A i \in 1 .. k : odomOut[i].stamp \in Int /\ odomOut[i].stamp < stamp
    <2>1. \A i \in 1 .. k : /\ odomOut[i].stamp \in Int /\ odomOut[i].arrival \in Nat
                            /\ 0 < odomOut[i].stamp /\ odomOut[i].arrival <= lastPose.arrival
      <3> TAKE i \in 1 .. k
      <3>1. odomOut[i] \in [stamp : Int, arrival : Nat]
        BY <1>3, ElementOfSeq
      <3>2. odomOut[i].stamp > 0 /\ odomOut[i].arrival <= lastPose.arrival
        BY DEF ClockInv, OdomOrder
      <3>3. QED
        BY <3>1, <3>2
    <2>2. /\ stamp \in Int /\ 0 < stamp /\ stamp < Unit * arrival + DriftTol + (k + 1)
          /\ \A i \in 1 .. k : odomOut[i].stamp < stamp
      <3>1. CASE k = 0
        <4>1. last = 0
          BY <1>3, <3>1, EmptySeq DEF LastStampOf, None
        <4>2. stamp = ros
          BY <4>1 DEF stamp, Monotonic
        <4>3. QED
          BY <1>3, <1>9, <3>1, <4>2
      <3>2. CASE k # 0
        <4>1. k \in 1 .. k /\ odomOut # <<>>
          BY <1>3, <3>2
        <4>2. last = odomOut[k].stamp
          BY <4>1 DEF LastStampOf
        <4> DEFINE old == odomOut[k].arrival
        <4>3. last \in Int /\ 0 < last /\ old \in Nat /\ old <= arrival
          <5>1. /\ odomOut[k].stamp \in Int /\ old \in Nat
                /\ 0 < odomOut[k].stamp /\ old <= lastPose.arrival
            BY <2>1, <4>1
          <5> HIDE DEF old
          <5>2. lastPose.arrival <= arrival /\ lastPose.arrival \in Nat /\ arrival \in Nat
            BY <1>2, <1>3b, <1>4
          <5>3. old <= arrival
            BY ONLY <5>1, <5>2
          <5>4. QED
            BY <4>2, <5>1, <5>3
        <4>4. last < Unit * odomOut[k].arrival + DriftTol + k
          <5>1. k \in DOMAIN odomOut
            BY <1>3, <4>1
          <5>2. QED
            BY <4>2, <5>1 DEF ClockInv, OdomNotEarly
        <4>4a. last < Unit * old + DriftTol + k
          BY <4>4
        <4> HIDE DEF old
        <4>5. Unit * old <= Unit * arrival /\ Unit * arrival \in Nat /\ Unit * old \in Nat
          <5>1. Unit \in Nat /\ old \in Int /\ arrival \in Int /\ old <= arrival
            BY <1>3b, <1>4, <4>3
          <5>2. Unit * old <= Unit * arrival
            BY ONLY <5>1, TimesMonotone
          <5>3. QED
            BY ONLY <1>3b, <1>4, <4>3, <5>2
        <4>6. \A i \in 1 .. k : odomOut[i].stamp <= last
          <5> TAKE i \in 1 .. k
          <5>1. CASE i = k
            BY <2>1, <4>2, <5>1
          <5>2. CASE i # k
            <6>1. i < k
              BY <1>3, <5>2
            <6>2. odomOut[i].stamp < odomOut[k].stamp
              BY <4>1, <6>1 DEF ClockInv, OdomOrder
            <6>3. QED
              BY <2>1, <4>1, <4>2, <6>2
          <5>3. QED
            BY <5>1, <5>2
        <4> HIDE DEF last, k
        <4>7. stamp \in Int /\ last < stamp /\ (stamp = ros \/ stamp = last + 1)
          BY <1>9, <4>3 DEF stamp, Monotonic
        <4>8. stamp < Unit * arrival + DriftTol + (k + 1)
          BY ONLY <1>3b, <1>9, <4>3, <4>4a, <4>5, <4>7
        <4>9. \A i \in 1 .. k : odomOut[i].stamp < stamp
          BY <2>1, <4>3, <4>6, <4>7
        <4>10. 0 < stamp
          BY <4>3, <4>7
        <4>11. QED
          BY <4>7, <4>8, <4>9, <4>10
      <3>3. QED
        BY <3>1, <3>2
    <2>3. [stamp |-> stamp, arrival |-> arrival] \in [stamp : Int, arrival : Nat]
      BY <1>4, <2>2
    <2> HIDE DEF k
    <2>4. /\ odomOut' \in Seq([stamp : Int, arrival : Nat]) /\ Len(odomOut') = k + 1
          /\ \A i \in 1 .. k : odomOut'[i] = odomOut[i]
          /\ odomOut'[k + 1] = [stamp |-> stamp, arrival |-> arrival]
      BY <1>2, <1>3, <2>3, AppendProperties DEF k
    <2>5. QED
      BY <2>1, <2>2, <2>4
  <1>11. rstamp = stamp /\ stamp \in Int
    <2>1. CASE rtkOut = <<>>
      BY <1>10, <2>1 DEF LastStampOf, Monotonic, None
    <2>2. CASE rtkOut # <<>>
      <3> DEFINE m == Len(rtkOut)
      <3>1. m \in 1 .. m /\ m \in DOMAIN rtkOut
        <4>1. rtkOut \in Seq([stamp : Int, of : 1 .. k])
          BY <1>3
        <4> HIDE DEF k
        <4>2. m \in Nat \ {0} /\ DOMAIN rtkOut = 1 .. m
          BY ONLY <2>2, <4>1, EmptySeq, LenProperties
        <4>3. QED
          BY ONLY <4>2
      <3>2. rtkOut[m] \in [stamp : Int, of : 1 .. k]
        BY <1>3, <3>1, ElementOfSeq
      <3>3. rtkOut[m].stamp = odomOut[rtkOut[m].of].stamp
        BY <3>1 DEF ClockInv, RtkSharesStamp
      <3>4. LastStampOf(rtkOut) \in Int /\ LastStampOf(rtkOut) < stamp
        BY <1>10, <2>2, <3>2, <3>3 DEF LastStampOf
      <3>5. QED
        BY <1>10, <3>4 DEF Monotonic
    <2>3. QED
      BY <2>1, <2>2
  <1> HIDE DEF rstamp
  <1>12. /\ rtkOut' \in Seq([stamp : Int, of : 1 .. k + 1])
         /\ \A i \in 1 .. Len(rtkOut') : rtkOut'[i].stamp = odomOut'[rtkOut'[i].of].stamp
    <2> DEFINE m == Len(rtkOut)  S == [stamp : Int, of : 1 .. k + 1]
               e == [stamp |-> rstamp, of |-> k + 1]
    <2>1. ASSUME NEW i \in 1 .. m
          PROVE  rtkOut[i] \in S /\ rtkOut[i].stamp = odomOut'[rtkOut[i].of].stamp
      <3>1. rtkOut[i] \in [stamp : Int, of : 1 .. k]
        BY <1>3, ElementOfSeq
      <3>2. rtkOut[i].stamp = odomOut[rtkOut[i].of].stamp
        <4>1. i \in DOMAIN rtkOut
          BY <1>3
        <4>2. QED
          BY <4>1 DEF ClockInv, RtkSharesStamp
      <3>3. \A x \in 1 .. k : x \in 1 .. k + 1
        BY <1>3
      <3>4. QED
        BY <1>10, <3>1, <3>2, <3>3
    <2>2. m \in Nat /\ rtkOut \in [1 .. m -> S]
      <3>1. m \in Nat /\ rtkOut \in [1 .. m -> [stamp : Int, of : 1 .. k]]
        BY <1>3, LenProperties
      <3>2. QED
        BY <2>1, <3>1
    <2>3. rtkOut \in Seq(S)
      BY <2>2, FunctionIsSeq
    <2>4. e \in S /\ e.stamp = odomOut'[e.of].stamp
      BY <1>3, <1>10, <1>11
    <2> HIDE DEF S, e
    <2>5. CASE rtkOut' = rtkOut
      BY <2>1, <2>3, <2>5 DEF S
    <2>6. CASE rtkOut' = Append(rtkOut, e)
      <3>1. /\ rtkOut' \in Seq(S) /\ Len(rtkOut') = m + 1
            /\ \A i \in 1 .. m : rtkOut'[i] = rtkOut[i]
            /\ rtkOut'[m + 1] = e
        BY <2>3, <2>4, <2>6, AppendProperties
      <3>2. \A i \in 1 .. m + 1 : i = m + 1 \/ i \in 1 .. m
        BY <2>2
      <3>3. QED
        BY <2>1, <2>4, <3>1, <3>2 DEF S
    <2>7. QED
      BY <1>2, <2>5, <2>6 DEF e
  <1> HIDE DEF k
  <1>13. ClockTypes'
    <2>1. firstP1' \in Nat /\ lastPose' \in [p1 : Nat, arrival : Nat] /\ firstP1' <= lastPose'.p1
          /\ lastPose'.p1 = p1 /\ lastPose'.arrival = arrival
      BY <1>2, <1>4
    <2>2. GoodBins(bins', firstP1', lastPose'.p1)
      BY <1>2, <1>6, <2>1
    <2>3. \A b \in bins' : b.count <= Len(odomOut')
      BY <1>2, <1>6, <1>10
    <2>4. firstP1' # None
      BY <1>2, <1>4 DEF first, None
    <2>5. Len(odomOut') <= MaxPose
      BY <1>3, <1>10
    <2>6. rtkOut' \in Seq([stamp : Int, of : 1 .. Len(odomOut')])
      BY <1>10, <1>12
    <2>7. QED
      BY <1>10, <2>1, <2>2, <2>3, <2>4, <2>5, <2>6 DEF ClockTypes, GoodBins, GoodBin, Span
  <1>14. OdomOrder' /\ OdomNotEarly'
    <2>1. \A i \in 1 .. Len(odomOut') : i = k + 1 \/ i \in 1 .. k
      BY <1>3, <1>10
    <2>2. lastPose'.arrival = arrival
      BY <1>2
    <2>3. \A i \in 1 .. k : /\ odomOut[i].stamp > 0 /\ odomOut[i].arrival <= arrival
                            /\ odomOut[i].stamp < Unit * odomOut[i].arrival + DriftTol + i
      <3> TAKE i \in 1 .. k
      <3>1. i \in DOMAIN odomOut /\ odomOut[i] \in [stamp : Int, arrival : Nat]
        <4>1. i \in 1 .. Len(odomOut) /\ odomOut \in Seq([stamp : Int, arrival : Nat])
          BY <1>3 DEF k
        <4>2. odomOut[i] \in [stamp : Int, arrival : Nat]
          BY ONLY <4>1, ElementOfSeq
        <4>3. DOMAIN odomOut = 1 .. Len(odomOut)
          BY ONLY <4>1, LenProperties
        <4>4. QED
          BY ONLY <4>1, <4>2, <4>3
      <3>2. odomOut[i].stamp > 0 /\ odomOut[i].arrival <= lastPose.arrival
        BY DEF ClockInv, OdomOrder, k
      <3>3. odomOut[i].stamp < Unit * odomOut[i].arrival + DriftTol + i
        BY <3>1 DEF ClockInv, OdomNotEarly
      <3>4. odomOut[i].arrival <= arrival
        BY <1>2, <1>3, <1>4, <3>1, <3>2, SMTT(40)
      <3>5. QED
        BY <3>2, <3>3, <3>4
    <2>4. ASSUME NEW i \in 1 .. Len(odomOut')
          PROVE  /\ odomOut'[i].stamp > 0 /\ odomOut'[i].arrival <= lastPose'.arrival
                 /\ odomOut'[i].stamp < Unit * odomOut'[i].arrival + DriftTol + i
      <3>1. CASE i = k + 1
        <4>1. odomOut'[i].stamp = stamp /\ odomOut'[i].arrival = arrival
          BY <1>10, <3>1
        <4>2. QED
          BY <1>4, <1>10, <2>2, <3>1, <4>1
      <3>2. CASE i \in 1 .. k
        BY <1>10, <2>2, <2>3, <3>2
      <3>3. QED
        BY <2>1, <3>1, <3>2
    <2>5. ASSUME NEW i \in 1 .. Len(odomOut'), NEW j \in 1 .. Len(odomOut'), i < j
          PROVE  odomOut'[i].stamp < odomOut'[j].stamp
      <3>1. i \in 1 .. k
        BY <1>3, <1>10, <2>5
      <3>2. CASE j = k + 1
        <4>1. odomOut'[j].stamp = stamp
          BY <1>10, <3>2
        <4>2. QED
          BY <1>10, <3>1, <4>1
      <3>3. CASE j \in 1 .. k
        <4>1. odomOut[i].stamp < odomOut[j].stamp
          BY <2>5, <3>1, <3>3 DEF ClockInv, OdomOrder, k
        <4>2. QED
          BY <1>10, <3>1, <3>3, <4>1
      <3>4. QED
        BY <2>1, <3>2, <3>3
    <2>6. DOMAIN odomOut' = 1 .. Len(odomOut')
      BY <1>10, LenProperties
    <2>7. OdomOrder'
      BY <2>4, <2>5 DEF OdomOrder
    <2>8. OdomNotEarly'
      BY <2>4, <2>6 DEF OdomNotEarly
    <2>9. QED
      BY <2>7, <2>8
  <1>15. RtkSharesStamp'
    <2>1. DOMAIN rtkOut' = 1 .. Len(rtkOut')
      BY <1>12, LenProperties
    <2>2. QED
      BY <1>12, <2>1 DEF RtkSharesStamp
  <1>16. QED
    BY <1>13, <1>14, <1>15 DEF ClockInv

-----------------------------------------------------------------------------
(* Publishing.                                                             *)

\* The stamp of the message before the i-th.
StampBefore(out, i) == IF i = 1 THEN None ELSE out[i - 1].stamp

\* next is out with these messages behind it, restamped.
PublishedBy(out, next, msgs) ==
  /\ next \in Seq(OutMessages) /\ Len(next) = Len(out) + Len(msgs)
  /\ \A i \in 1 .. Len(out) : next[i] = out[i]
  /\ \A i \in 1 .. Len(msgs) :
       /\ next[Len(out) + i].id = msgs[i].id /\ next[Len(out) + i].path = msgs[i].path
       /\ next[Len(out) + i].stamp = Monotonic(StampBefore(next, Len(out) + i), msgs[i].stamp)

\* monotonicStamp gives a stamp.
LEMMA MonotonicTyped ==
  ASSUME NEW last \in Int, NEW stamp \in Int
  PROVE  Monotonic(last, stamp) \in Int
  BY DEF Monotonic

\* A topic's newest stamp is the one before the next message's.
LEMMA LastStampTyped ==
  ASSUME NEW out \in Seq(OutMessages)
  PROVE  LastStampOf(out) \in Int /\ LastStampOf(out) = StampBefore(out, Len(out) + 1)
  <1>1. CASE out = <<>>
    BY <1>1 DEF LastStampOf, StampBefore, None
  <1>2. CASE out # <<>>
    <2>1. Len(out) \in Nat /\ Len(out) # 0 /\ Len(out) \in 1 .. Len(out)
      BY <1>2, EmptySeq, LenProperties
    <2>2. out[Len(out)] \in OutMessages
      BY <2>1, ElementOfSeq
    <2>3. out[Len(out)].stamp \in Int
      BY <2>2 DEF OutMessages
    <2>4. QED
      BY <1>2, <2>1, <2>3 DEF LastStampOf, StampBefore
  <1>3. QED
    BY <1>1, <1>2

\* The stamps PublishImu chooses are those of monotonicStamp, message after
\* message.
LEMMA Restamped ==
  ASSUME NEW out \in Seq(OutMessages), NEW msgs \in Seq(OutMessages), NEW next,
         next = out \o
           LET stamp[i \in 0 .. Len(msgs)] ==
                 IF i = 0 THEN LastStampOf(out) ELSE Monotonic(stamp[i - 1], msgs[i].stamp)
           IN [i \in 1 .. Len(msgs) |-> [msgs[i] EXCEPT !.stamp = stamp[i]]]
  PROVE  PublishedBy(out, next, msgs)
  <1> DEFINE m == Len(msgs)
             x == LastStampOf(out)
             F == [i \in 1 .. m |-> [y \in Int |-> Monotonic(y, msgs[i].stamp)]]
             Eq(h) == [i \in 0 .. Len(msgs) |->
                         IF i = 0 THEN LastStampOf(out)
                         ELSE Monotonic(h[i - 1], msgs[i].stamp)]
             f == CHOOSE h : h = Eq(h)
             e == [i \in 1 .. Len(msgs) |-> [msgs[i] EXCEPT !.stamp = f[i]]]
             k == Len(out)
  <1>1. next = out \o e
    OBVIOUS
  <1>2. m \in Nat /\ k \in Nat /\ x \in Int
    BY LenProperties, LastStampTyped
  <1>3. \A i \in 1 .. m : msgs[i] \in OutMessages
    BY ElementOfSeq
  <1>4. \A i \in 1 .. m : msgs[i].stamp \in Int
    BY <1>3 DEF OutMessages
  <1>5. \A h : /\ DOMAIN Eq(h) = 0 .. m /\ Eq(h) = [i \in 0 .. m |-> Eq(h)[i]]
             /\ \A i \in 0 .. m :
                  Eq(h)[i] = IF i = 0 THEN x ELSE Monotonic(h[i - 1], msgs[i].stamp)
    OBVIOUS
  <1>6. f = Eq(f)
    <2>1. F \in [1 .. m -> [Int -> Int]]
      <3> HIDE DEF m
      <3>1. QED
        BY <1>4, MonotonicTyped
    <2> HIDE DEF F, x, m, Eq
    <2>2. PICK g \in [0 .. m -> Int] : g[0] = x /\ \A i \in 1 .. m : g[i] = F[i][g[i - 1]]
      BY ONLY <1>2, <2>1, IterationExists
    <2>3. ASSUME NEW i \in 0 .. m PROVE g[i] = Eq(g)[i]
      <3>1. CASE i = 0
        BY <1>5, <2>2, <3>1
      <3>2. CASE i # 0
        <4>1. i \in 1 .. m /\ i - 1 \in 0 .. m
          BY <1>2, <3>2
        <4>2. g[i - 1] \in Int
          BY <2>2, <4>1
        <4>3. F[i][g[i - 1]] = Monotonic(g[i - 1], msgs[i].stamp)
          BY <4>1, <4>2 DEF F
        <4>4. QED
          BY <1>5, <2>2, <3>2, <4>1, <4>3
      <3>3. QED
        BY <3>1, <3>2
    <2>4. g = [i \in 0 .. m |-> g[i]]
      BY <2>2
    <2>5. g = Eq(g)
      BY <1>5, <2>3, <2>4
    <2>6. QED
      BY <2>5
  <1> HIDE DEF f, Eq, F, x
  <1>7. f[0] = x /\ \A i \in 1 .. m : f[i] = Monotonic(f[i - 1], msgs[i].stamp)
    <2> HIDE DEF m
    <2>1. 0 \in 0 .. m /\ \A i \in 1 .. m : i \in 0 .. m /\ i # 0
      BY <1>2
    <2>2. QED
      BY <1>5, <1>6, <2>1
  <1>8. \A i \in 0 .. m : f[i] \in Int
    <2> DEFINE T == {i \in 0 .. m : f[i] \in Int}
    <2> HIDE DEF m
    <2>1. 0 \in T
      BY <1>2, <1>7
    <2>2. ASSUME NEW i \in 1 .. m, i - 1 \in T PROVE i \in T
      <3>1. i \in 0 .. m /\ f[i - 1] \in Int /\ msgs[i].stamp \in Int
        BY <1>2, <1>4, <2>2
      <3>2. f[i] \in Int
        BY <1>7, <3>1, MonotonicTyped
      <3>3. QED
        BY <3>1, <3>2
    <2> HIDE DEF T
    <2>3. \A i \in 0 .. m : i \in T
      BY <1>2, <2>1, <2>2, IntervalInduction
    <2>4. QED
      BY <2>3 DEF T
  <1>9. /\ e \in Seq(OutMessages) /\ Len(e) = m
        /\ \A i \in 1 .. m : e[i].id = msgs[i].id /\ e[i].path = msgs[i].path /\ e[i].stamp = f[i]
    <2>1. \A i \in 1 .. m : f[i] \in Int
      BY <1>8
    <2>2. \A i \in 1 .. m : /\ [msgs[i] EXCEPT !.stamp = f[i]] \in OutMessages
                            /\ [msgs[i] EXCEPT !.stamp = f[i]].id = msgs[i].id
                            /\ [msgs[i] EXCEPT !.stamp = f[i]].path = msgs[i].path
                            /\ [msgs[i] EXCEPT !.stamp = f[i]].stamp = f[i]
      BY <1>3, <2>1 DEF OutMessages
    <2>3. e \in [1 .. m -> OutMessages]
      BY <2>2
    <2>4. \A i \in 1 .. m : e[i] = [msgs[i] EXCEPT !.stamp = f[i]]
      OBVIOUS
    <2> HIDE DEF e, m
    <2>5. e \in Seq(OutMessages) /\ Len(e) = m
      BY <1>2, <2>3, FunctionIsSeq
    <2>6. QED
      BY <2>2, <2>4, <2>5
  <1> HIDE DEF e
  <1>10. /\ next \in Seq(OutMessages) /\ Len(next) = k + m
         /\ \A i \in 1 .. k : next[i] = out[i]
         /\ \A i \in 1 .. m : next[k + i] = e[i]
    <2>1. /\ out \o e \in Seq(OutMessages) /\ Len(out \o e) = k + m
          /\ \A i \in 1 .. k + m : (out \o e)[i] = IF i <= k THEN out[i] ELSE e[i - k]
      <3> HIDE DEF m
      <3>1. e \in Seq(OutMessages) /\ Len(e) = m
        BY <1>9
      <3>2. /\ out \o e \in Seq(OutMessages) /\ Len(out \o e) = k + Len(e)
            /\ \A i \in 1 .. k + Len(e) : (out \o e)[i] = IF i <= k THEN out[i] ELSE e[i - k]
        BY <3>1, ConcatProperties
      <3>3. QED
        BY ONLY <3>1, <3>2
    <2>2. \A i \in 1 .. k : i \in 1 .. k + m /\ i <= k
      BY <1>2
    <2>3. \A i \in 1 .. m : k + i \in 1 .. k + m /\ ~(k + i <= k) /\ k + i - k = i
      BY <1>2
    <2> HIDE DEF k, m
    <2>4. \A i \in 1 .. k : (out \o e)[i] = out[i]
      BY <2>1, <2>2
    <2>5. ASSUME NEW i \in 1 .. m PROVE (out \o e)[k + i] = e[i]
      <3> DEFINE j == k + i
      <3>0. k \in Nat /\ m \in Nat
        BY <1>2
      <3>1. j \in 1 .. k + m /\ ~(j <= k) /\ j - k = i
        BY ONLY <3>0
      <3> HIDE DEF j
      <3>2. (out \o e)[j] = e[j - k]
        BY <2>1, <3>1
      <3>3. (out \o e)[j] = e[i]
        BY ONLY <3>1, <3>2
      <3>4. QED
        BY <3>3 DEF j
    <2>6. QED
      BY ONLY <1>1, <2>1, <2>4, <2>5
  <1> HIDE DEF m, k
  <1>11. ASSUME NEW i \in 1 .. m PROVE f[i - 1] = StampBefore(next, k + i)
    <2> HIDE DEF f
    <2>1. CASE i = 1
      <3>1. f[i - 1] = LastStampOf(out)
        BY <1>7, <2>1 DEF x
      <3>2. LastStampOf(out) = StampBefore(out, k + 1)
        BY LastStampTyped DEF k
      <3>3. k # 0 => k \in 1 .. k /\ k + 1 # 1 /\ k + 1 - 1 = k
        BY <1>2
      <3>4. StampBefore(out, k + 1) = StampBefore(next, k + 1)
        <4>1. CASE k = 0
          BY <4>1 DEF StampBefore
        <4>2. CASE k # 0
          <5>1. next[k] = out[k]
            BY <1>10, <3>3, <4>2
          <5> DEFINE j == k + 1
          <5>2. j # 1 /\ j - 1 = k
            BY <3>3, <4>2
          <5> HIDE DEF j
          <5>3. StampBefore(out, j) = out[j - 1].stamp /\ StampBefore(next, j) = next[j - 1].stamp
            BY ONLY <5>2 DEF StampBefore
          <5>4. StampBefore(out, j) = StampBefore(next, j)
            BY ONLY <5>1, <5>2, <5>3
          <5>5. QED
            BY <5>4 DEF j
        <4>3. QED
          BY <4>1, <4>2
      <3>5. k + i = k + 1
        BY <2>1
      <3>6. QED
        BY ONLY <3>1, <3>2, <3>4, <3>5
    <2>2. CASE i # 1
      <3>1. i - 1 \in 1 .. m /\ k + i # 1 /\ k + i - 1 = k + (i - 1)
        BY <1>2, <2>2
      <3>2. next[k + (i - 1)].stamp = f[i - 1]
        BY <1>9, <1>10, <3>1
      <3> DEFINE j == k + i  b == StampBefore(next, j)
      <3>3. j # 1
        BY <3>1
      <3>4. b = next[j - 1].stamp
        <4> HIDE DEF j
        <4>1. QED
          BY ONLY <3>3 DEF StampBefore
      <3>5. j - 1 = k + (i - 1)
        <4>1. k \in Nat /\ i \in Nat
          BY <1>2
        <4>2. QED
          BY ONLY <4>1
      <3> HIDE DEF j
      <3>6. b = next[k + (i - 1)].stamp
        BY ONLY <3>4, <3>5
      <3> HIDE DEF b
      <3>7. b = f[i - 1]
        BY ONLY <3>2, <3>6
      <3>8. QED
        BY <3>7 DEF b, j
    <2>3. QED
      BY <2>1, <2>2
  <1>12. ASSUME NEW i \in 1 .. m
         PROVE  /\ next[k + i].id = msgs[i].id /\ next[k + i].path = msgs[i].path
                /\ next[k + i].stamp = Monotonic(StampBefore(next, k + i), msgs[i].stamp)
    <2>1. next[k + i] = e[i]
      BY <1>10
    <2>2. e[i].id = msgs[i].id /\ e[i].path = msgs[i].path /\ e[i].stamp = f[i]
      BY <1>9
    <2>3. f[i] = Monotonic(StampBefore(next, k + i), msgs[i].stamp)
      BY <1>7, <1>11
    <2>4. QED
      BY ONLY <2>1, <2>2, <2>3
  <1>13. QED
    BY <1>10, <1>12 DEF PublishedBy, k, m

\* The same for the topic itself.
LEMMA Published ==
  ASSUME imuOut \in Seq(OutMessages), NEW msgs \in Seq(OutMessages), PublishImu(msgs)
  PROVE  PublishedBy(imuOut, imuOut', msgs)
  BY Restamped DEF PublishImu

\* What the P1 path publishes of a queue.
LEMMA FlushedIs ==
  ASSUME NEW first \in Nat, NEW newest \in Nat, NEW bs, GoodBins(bs, first, newest),
         NEW queue \in Seq(P1Messages)
  PROVE  /\ FlushedP1(bs, queue) \in Seq(OutMessages)
         /\ Len(FlushedP1(bs, queue)) = IF Ready(bs) THEN Len(queue) ELSE 0
         /\ \A i \in 1 .. Len(FlushedP1(bs, queue)) :
              FlushedP1(bs, queue)[i].id = queue[i].id /\ FlushedP1(bs, queue)[i].path = "p1"
  <1>1. CASE ~Ready(bs)
    BY <1>1 DEF FlushedP1
  <1>2. CASE Ready(bs)
    <2> DEFINE n == Len(queue)
               e == [i \in 1 .. Len(queue) |->
                       [id |-> queue[i].id, path |-> "p1", stamp |-> ToRos(bs, queue[i].p1)]]
    <2>1. FlushedP1(bs, queue) = e
      BY <1>2 DEF FlushedP1
    <2>2. ASSUME NEW i \in 1 .. n
          PROVE  e[i] \in OutMessages /\ e[i].id = queue[i].id /\ e[i].path = "p1"
      <3>1. queue[i] \in P1Messages
        BY ElementOfSeq
      <3>2. queue[i].id \in Nat /\ queue[i].p1 \in Nat
        BY <3>1 DEF P1Messages
      <3>3. ToRos(bs, queue[i].p1) \in Int
        BY <3>2, ToRosTyped
      <3>4. e[i] = [id |-> queue[i].id, path |-> "p1", stamp |-> ToRos(bs, queue[i].p1)]
        OBVIOUS
      <3>5. QED
        BY <3>2, <3>3, <3>4 DEF OutMessages
    <2>3. n \in Nat /\ e \in [1 .. n -> OutMessages]
      BY <2>2, LenProperties
    <2> HIDE DEF e, n
    <2>4. e \in Seq(OutMessages) /\ Len(e) = n
      BY <2>3, FunctionIsSeq
    <2>5. QED
      BY <1>2, <2>1, <2>2, <2>4 DEF n
  <1>3. QED
    BY <1>1, <1>2

\* What the arrival path publishes of a queue until n messages are left.
LEMMA FrontsAre ==
  ASSUME NEW queue \in Seq(ArrivalMessages), NEW period \in Nat,
         NEW n \in 0 .. Len(queue),
         \A i, j \in 1 .. Len(queue) : i <= j => queue[i].arrival <= queue[j].arrival
  PROVE  LET out == Fronts(queue, period, n) IN
         /\ out \in Seq(OutMessages) /\ Len(out) = Len(queue) - n
         /\ \A i \in 1 .. Len(out) :
              /\ out[i].id = queue[i].id /\ out[i].path = "arrival"
              /\ out[i].stamp <= Unit * queue[i].arrival
              /\ Unit * queue[i].arrival - out[i].stamp <= (Len(queue) - i) * period
  <1> DEFINE l == Len(queue)
             r(i) == Retime(SubSeq(queue, i, Len(queue)), period)
             e == [i \in 1 .. Len(queue) - n |->
                     [id |-> queue[i].id, path |-> "arrival",
                      stamp |-> Retime(SubSeq(queue, i, Len(queue)), period)]]
  <1>1. Fronts(queue, period, n) = e
    BY DEF Fronts
  <1>2. l \in Nat /\ l - n \in Nat /\ \A i \in 1 .. l - n : i \in 1 .. l
    BY LenProperties
  <1>3. ASSUME NEW i \in 1 .. l
        PROVE  /\ r(i) \in Int /\ r(i) <= Unit * queue[i].arrival
               /\ Unit * queue[i].arrival - r(i) <= (l - i) * period
    <2> DEFINE q == SubSeq(queue, i, l)  m == l - i + 1
    <2>1. /\ q \in Seq(ArrivalMessages) /\ Len(q) = m
          /\ \A j \in 1 .. m : q[j] = queue[i + j - 1]
      BY <1>2, SubSeqProperties
    <2>2. m \in Nat \ {0} /\ m - 1 = l - i /\ 1 \in 1 .. m /\ i + 1 - 1 = i
      BY <1>2
    <2>3. \A j \in 1 .. m : i + j - 1 \in 1 .. l /\ i <= i + j - 1
      BY <1>2
    <2> HIDE DEF q, m, l
    <2>4. q[1] = queue[i]
      BY <2>1, <2>2
    <2>5. \A j \in 1 .. m : q[1].arrival <= q[j].arrival
      BY <2>1, <2>3, <2>4 DEF l
    <2>6. /\ Retime(q, period) \in Int
          /\ Retime(q, period) <= Unit * q[1].arrival
          /\ Unit * q[1].arrival - Retime(q, period) <= (m - 1) * period
      BY ONLY <2>1, <2>2, <2>5, RetimeBounds, period \in Nat
    <2>7. r(i) = Retime(q, period)
      BY DEF q, l
    <2>8. QED
      BY <2>2, <2>4, <2>6, <2>7
  <1>4. ASSUME NEW i \in 1 .. l - n
        PROVE  /\ e[i] \in OutMessages /\ e[i].id = queue[i].id /\ e[i].path = "arrival"
               /\ e[i].stamp = r(i)
    <2>1. e[i] = [id |-> queue[i].id, path |-> "arrival", stamp |-> r(i)]
      OBVIOUS
    <2>2. i \in 1 .. l /\ queue[i] \in ArrivalMessages
      BY <1>2, ElementOfSeq
    <2>3. queue[i].id \in Nat /\ r(i) \in Int
      BY <1>3, <2>2 DEF ArrivalMessages
    <2> HIDE DEF e, r
    <2>4. QED
      BY <2>1, <2>3 DEF OutMessages
  <1>5. e \in [1 .. l - n -> OutMessages]
    BY <1>4
  <1> HIDE DEF e, r, l
  <1>6. e \in Seq(OutMessages) /\ Len(e) = l - n
    BY <1>2, <1>5, FunctionIsSeq
  <1>7. \A i \in 1 .. Len(e) :
              /\ e[i].id = queue[i].id /\ e[i].path = "arrival"
              /\ e[i].stamp <= Unit * queue[i].arrival
              /\ Unit * queue[i].arrival - e[i].stamp <= (l - i) * period
    BY <1>2, <1>3, <1>4, <1>6
  <1>8. QED
    BY <1>1, <1>6, <1>7 DEF l

-----------------------------------------------------------------------------
(* Each message once.                                                      *)

\* EachOnce, with the queue of one path, and the queue of the other.
Tidy(out, queue, other, path, n) ==
  /\ Ids(out) \cup Ids(queue) \cup Ids(other) = 1 .. n
  /\ Ids(out) \cap (Ids(queue) \cup Ids(other)) = {}
  /\ Ids(queue) \cap Ids(other) = {}
  /\ \A i, j \in DOMAIN out : i < j =>
       /\ out[i].id # out[j].id
       /\ out[i].path = out[j].path => out[i].id < out[j].id
  /\ InOrder(queue) /\ InOrder(other)
  /\ \A i \in DOMAIN out :
       \A m \in Ids(IF out[i].path = path THEN queue ELSE other) : out[i].id < m

\* Tidy with the P1 path first, spelled out.
LEMMA TidyP1 ==
  ASSUME NEW out, NEW p, NEW a, NEW n
  PROVE  Tidy(out, p, a, "p1", n) <=>
           /\ Ids(out) \cup Ids(p) \cup Ids(a) = 1 .. n
           /\ Ids(out) \cap (Ids(p) \cup Ids(a)) = {}
           /\ Ids(p) \cap Ids(a) = {}
           /\ \A i, j \in DOMAIN out : i < j =>
                /\ out[i].id # out[j].id
                /\ out[i].path = out[j].path => out[i].id < out[j].id
           /\ InOrder(p) /\ InOrder(a)
           /\ \A i \in DOMAIN out :
                LET queue == IF out[i].path = "p1" THEN p ELSE a
                IN \A m \in Ids(queue) : out[i].id < m
  BY DEF Tidy

\* Tidy is the same from either path.
LEMMA TidyArrival ==
  ASSUME NEW out \in Seq(OutMessages), NEW p, NEW a, NEW n
  PROVE  Tidy(out, p, a, "p1", n) <=> Tidy(out, a, p, "arrival", n)
  <1>1. \A i \in DOMAIN out : out[i].path \in {"p1", "arrival"}
    <2> TAKE i \in DOMAIN out
    <2>1. out[i] \in OutMessages
      BY ElementOfSeq
    <2>2. QED
      BY <2>1 DEF OutMessages
  <1>2. \A i \in DOMAIN out : (IF out[i].path = "p1" THEN p ELSE a)
                              = (IF out[i].path = "arrival" THEN a ELSE p)
    BY <1>1
  <1>3. (\A i \in DOMAIN out :
           \A m \in Ids(IF out[i].path = "p1" THEN p ELSE a) : out[i].id < m)
        <=> (\A i \in DOMAIN out :
               \A m \in Ids(IF out[i].path = "arrival" THEN a ELSE p) : out[i].id < m)
    BY <1>2
  <1>4. Ids(p) \cup Ids(a) = Ids(a) \cup Ids(p) /\ Ids(p) \cap Ids(a) = Ids(a) \cap Ids(p)
        /\ Ids(out) \cup Ids(p) \cup Ids(a) = Ids(out) \cup Ids(a) \cup Ids(p)
    OBVIOUS
  <1>5. QED
    BY <1>3, <1>4, Zenon DEF Tidy

\* A message received joins the end of a queue.
LEMMA Joined ==
  ASSUME NEW S, NEW queue \in Seq(S), NEW e \in S, NEW n \in Nat, e.id = n + 1,
         NEW out, NEW other, NEW path, Tidy(out, queue, other, path, n)
  PROVE  Tidy(out, Append(queue, e), other, path, n + 1)
  <1> DEFINE q == Append(queue, e)  l == Len(queue)
  <1>1. /\ l \in Nat /\ DOMAIN queue = 1 .. l /\ DOMAIN q = 1 .. l + 1
        /\ \A i \in 1 .. l : q[i] = queue[i]
        /\ q[l + 1] = e
    <2>1. q \in Seq(S) /\ Len(q) = l + 1
      BY AppendProperties
    <2> HIDE DEF q
    <2>2. DOMAIN q = 1 .. l + 1
      BY <2>1, LenProperties
    <2>3. QED
      BY <2>2, LenProperties, AppendProperties DEF q
  <1> HIDE DEF q, l
  <1>2. Ids(q) = Ids(queue) \cup {n + 1}
    <2>1. l + 1 \in 1 .. l + 1 /\ \A i \in 1 .. l + 1 : i \in 1 .. l \/ i = l + 1
      BY <1>1
    <2>2. \A i \in 1 .. l : i \in 1 .. l + 1
      BY <1>1
    <2>3. QED
      BY <1>1, <2>1, <2>2 DEF Ids
  <1>3. \A m \in Ids(out) \cup Ids(queue) \cup Ids(other) : m \in 1 .. n
    BY DEF Tidy
  <1>4. ~(n + 1 \in 1 .. n) /\ 1 .. n + 1 = (1 .. n) \cup {n + 1}
    OBVIOUS
  <1>5. /\ Ids(out) \cup Ids(q) \cup Ids(other) = 1 .. n + 1
        /\ Ids(out) \cap (Ids(q) \cup Ids(other)) = {}
        /\ Ids(q) \cap Ids(other) = {}
    BY <1>2, <1>3, <1>4 DEF Tidy
  <1>6. InOrder(q)
    <2>1. ASSUME NEW i \in 1 .. l + 1, NEW j \in 1 .. l + 1, i < j PROVE q[i].id < q[j].id
      <3>1. i \in 1 .. l
        BY <1>1, <2>1
      <3>2. CASE j \in 1 .. l
        <4>1. queue[i].id < queue[j].id
          BY <1>1, <2>1, <3>1, <3>2 DEF Tidy, InOrder
        <4>2. QED
          BY <1>1, <3>1, <3>2, <4>1
      <3>3. CASE j = l + 1
        <4>1. queue[i].id \in 1 .. n
          BY <1>1, <1>3, <3>1 DEF Ids
        <4>2. q[i].id = queue[i].id /\ q[j].id = n + 1
          BY <1>1, <3>1, <3>3
        <4>3. QED
          BY <4>1, <4>2
      <3>4. QED
        BY <1>1, <3>2, <3>3
    <2>2. QED
      BY <1>1, <2>1 DEF InOrder
  <1>7. ASSUME NEW i \in DOMAIN out, NEW m \in Ids(IF out[i].path = path THEN q ELSE other)
        PROVE  out[i].id < m
    <2>1. CASE m \in Ids(IF out[i].path = path THEN queue ELSE other)
      BY <2>1 DEF Tidy
    <2>2. CASE m = n + 1
      <3>1. out[i].id \in 1 .. n
        BY <1>3 DEF Ids
      <3>2. QED
        BY <2>2, <3>1
    <2>3. QED
      BY <1>2, <1>7, <2>1, <2>2
  <1>8. InOrder(other) /\ \A i, j \in DOMAIN out : i < j =>
          /\ out[i].id # out[j].id
          /\ out[i].path = out[j].path => out[i].id < out[j].id
    BY DEF Tidy
  <1>9. QED
    BY <1>5, <1>6, <1>7, <1>8, Zenon DEF Tidy, q

\* The first k messages of a queue leave it.
LEMMA Moved ==
  ASSUME NEW S, NEW queue \in Seq(S), NEW rest \in Seq(S), NEW other,
         NEW out \in Seq(OutMessages), NEW next \in Seq(OutMessages), NEW path, NEW n \in Nat,
         NEW k \in Nat, k <= Len(queue), Len(rest) = Len(queue) - k,
         \A i \in 1 .. Len(rest) : rest[i] = queue[k + i],
         Len(next) = Len(out) + k, \A i \in 1 .. Len(out) : next[i] = out[i],
         \A i \in 1 .. k : next[Len(out) + i].id = queue[i].id /\ next[Len(out) + i].path = path,
         Tidy(out, queue, other, path, n)
  PROVE  Tidy(next, rest, other, path, n)
  <1> DEFINE l == Len(out)  m == Len(queue)
  <1>1. /\ l \in Nat /\ m \in Nat /\ DOMAIN queue = 1 .. m /\ DOMAIN rest = 1 .. m - k
        /\ DOMAIN out = 1 .. l /\ DOMAIN next = 1 .. l + k
    BY LenProperties
  <1>2. /\ \A i \in 1 .. m - k : rest[i] = queue[k + i]
        /\ \A i \in 1 .. l : next[i] = out[i]
        /\ \A i \in 1 .. k : next[l + i].id = queue[i].id /\ next[l + i].path = path
        /\ k <= m
    OBVIOUS
  <1> HIDE DEF l, m
  <1>3. /\ \A i \in 1 .. k : i \in 1 .. m /\ l + i \in 1 .. l + k
        /\ \A i \in 1 .. m - k : k + i \in 1 .. m
        /\ \A i \in 1 .. l : i \in 1 .. l + k
        /\ \A i \in 1 .. l + k : i \in 1 .. l \/ (i - l \in 1 .. k /\ i = l + (i - l))
        /\ \A i \in 1 .. m : i \in 1 .. k \/ (i - k \in 1 .. m - k /\ i = k + (i - k))
    BY <1>1, <1>2
  <1> DEFINE gone == {queue[i].id : i \in 1 .. k}
  <1>4. Ids(next) = Ids(out) \cup gone
    <2>1. ASSUME NEW i \in 1 .. l + k PROVE next[i].id \in Ids(out) \cup gone
      <3>1. CASE i \in 1 .. l
        BY <1>1, <1>2, <3>1 DEF Ids
      <3>2. CASE i - l \in 1 .. k /\ i = l + (i - l)
        BY <1>2, <3>2
      <3>3. QED
        BY <1>3, <3>1, <3>2
    <2>2. \A i \in 1 .. l : out[i].id \in Ids(next)
      BY <1>1, <1>2, <1>3 DEF Ids
    <2>3. \A i \in 1 .. k : queue[i].id \in Ids(next)
      BY <1>1, <1>2, <1>3 DEF Ids
    <2>4. ASSUME NEW x \in Ids(next) PROVE x \in Ids(out) \cup gone
      <3> HIDE DEF gone
      <3>1. PICK i \in 1 .. l + k : x = next[i].id
        BY <1>1 DEF Ids
      <3>2. QED
        BY <2>1, <3>1
    <2>5. Ids(out) \subseteq Ids(next)
      <3>1. Ids(out) = {out[i].id : i \in 1 .. l}
        BY <1>1 DEF Ids
      <3>2. QED
        BY <2>2, <3>1
    <2>6. QED
      BY <2>3, <2>4, <2>5
  <1>5. Ids(queue) = gone \cup Ids(rest)
    <2>1. ASSUME NEW i \in 1 .. m PROVE queue[i].id \in gone \cup Ids(rest)
      <3>1. CASE i \in 1 .. k
        BY <3>1
      <3>2. CASE i - k \in 1 .. m - k /\ i = k + (i - k)
        BY <1>1, <1>2, <3>2 DEF Ids
      <3>3. QED
        BY <1>3, <3>1, <3>2
    <2>2. \A i \in 1 .. k : queue[i].id \in Ids(queue)
      BY <1>1, <1>3 DEF Ids
    <2>3. \A i \in 1 .. m - k : rest[i].id \in Ids(queue)
      BY <1>1, <1>2, <1>3 DEF Ids
    <2>4. Ids(queue) = {queue[i].id : i \in 1 .. m} /\ Ids(rest) = {rest[i].id : i \in 1 .. m - k}
      BY <1>1 DEF Ids
    <2>5. ASSUME NEW x \in gone \cup Ids(rest) PROVE x \in Ids(queue)
      BY <2>2, <2>3, <2>4
    <2>6. ASSUME NEW x \in Ids(queue) PROVE x \in gone \cup Ids(rest)
      <3> HIDE DEF gone
      <3>1. PICK i \in 1 .. m : x = queue[i].id
        BY <2>4
      <3>2. QED
        BY <2>1, <3>1
    <2>7. QED
      BY <2>5, <2>6
  <1>6. \A x \in Ids(out) \cup Ids(queue) \cup Ids(other) : x \in Nat
    BY DEF Tidy
  <1>7. \A i, j \in 1 .. m : i < j => queue[i].id < queue[j].id
    BY <1>1 DEF Tidy, InOrder
  <1>8. ASSUME NEW x \in gone, NEW y \in Ids(rest) PROVE x < y
    <2>1. PICK i \in 1 .. k : x = queue[i].id
      OBVIOUS
    <2>2. PICK j \in 1 .. m - k : y = rest[j].id
      BY <1>1 DEF Ids
    <2>3. i \in 1 .. m /\ k + j \in 1 .. m /\ i < k + j
      BY <1>1, <1>3
    <2>4. QED
      BY <1>2, <1>7, <2>1, <2>2, <2>3
  <1>9. gone \cap Ids(rest) = {}
    <2>1. \A x \in gone : x \in Nat
      BY <1>5, <1>6
    <2> HIDE DEF gone
    <2>2. QED
      BY <1>8, <2>1
  <1> HIDE DEF gone
  <1>10. /\ Ids(next) \cup Ids(rest) \cup Ids(other) = 1 .. n
         /\ Ids(next) \cap (Ids(rest) \cup Ids(other)) = {}
         /\ Ids(rest) \cap Ids(other) = {}
    BY <1>4, <1>5, <1>9 DEF Tidy
  <1>11. InOrder(rest)
    <2>1. ASSUME NEW i \in 1 .. m - k, NEW j \in 1 .. m - k, i < j PROVE rest[i].id < rest[j].id
      <3>1. k + i \in 1 .. m /\ k + j \in 1 .. m /\ k + i < k + j
        BY <1>1, <1>3, <2>1
      <3>2. QED
        BY <1>2, <1>7, <3>1
    <2>2. QED
      BY <1>1, <2>1 DEF InOrder
  \* What left before is older than what leaves now, on this path.
  <1>12. ASSUME NEW i \in 1 .. l, NEW j \in 1 .. k
         PROVE  /\ out[i].id # queue[j].id
                /\ out[i].path = path => out[i].id < queue[j].id
    <2>1. i \in DOMAIN out /\ queue[j].id \in Ids(queue) /\ out[i].id \in Ids(out)
      BY <1>1, <1>3 DEF Ids
    <2>2. out[i].id # queue[j].id
      BY <2>1 DEF Tidy
    <2>3. out[i].path = path => out[i].id < queue[j].id
      BY <2>1 DEF Tidy
    <2>4. QED
      BY <2>2, <2>3
  <1>13. ASSUME NEW i \in 1 .. l + k, NEW j \in 1 .. l + k, i < j
         PROVE  /\ next[i].id # next[j].id
                /\ next[i].path = next[j].path => next[i].id < next[j].id
    <2>1. CASE j \in 1 .. l
      <3>1. i \in 1 .. l
        BY <1>1, <1>13, <2>1
      <3>2. /\ out[i].id # out[j].id
            /\ out[i].path = out[j].path => out[i].id < out[j].id
        BY <1>1, <1>13, <2>1, <3>1 DEF Tidy
      <3>3. QED
        BY <1>2, <2>1, <3>1, <3>2
    <2>2. CASE i \in 1 .. l /\ j - l \in 1 .. k /\ j = l + (j - l)
      <3>1. /\ next[i] = out[i] /\ next[j].id = queue[j - l].id /\ next[j].path = path
        BY <1>2, <2>2
      <3>2. QED
        BY <1>12, <2>2, <3>1
    <2>3. CASE i - l \in 1 .. k /\ i = l + (i - l) /\ j - l \in 1 .. k /\ j = l + (j - l)
      <3>1. /\ next[i].id = queue[i - l].id /\ next[j].id = queue[j - l].id
        BY <1>2, <2>3
      <3>2. i - l \in 1 .. m /\ j - l \in 1 .. m /\ i - l < j - l
        BY <1>1, <1>3, <1>13, <2>3
      <3>3. queue[i - l].id < queue[j - l].id
        BY <1>7, <3>2
      <3>4. queue[i - l].id \in Nat /\ queue[j - l].id \in Nat
        BY <1>1, <1>6, <3>2 DEF Ids
      <3>5. QED
        BY <3>1, <3>3, <3>4
    <2>4. QED
      BY <1>1, <1>3, <1>13, <2>1, <2>2, <2>3
  <1>14. ASSUME NEW i \in 1 .. l + k, NEW x \in Ids(IF next[i].path = path THEN rest ELSE other)
         PROVE  next[i].id < x
    <2>1. CASE i \in 1 .. l
      <3>1. x \in Ids(IF out[i].path = path THEN queue ELSE other)
        BY <1>2, <1>5, <1>14, <2>1
      <3>2. i \in DOMAIN out
        BY <1>1, <2>1
      <3>3. QED
        BY <1>2, <2>1, <3>1, <3>2 DEF Tidy
    <2>2. CASE i - l \in 1 .. k /\ i = l + (i - l)
      <3>1. next[i].id \in gone /\ next[i].path = path
        BY <1>2, <2>2 DEF gone
      <3>2. QED
        BY <1>8, <1>14, <3>1
    <2>3. QED
      BY <1>3, <2>1, <2>2
  <1>15. InOrder(other)
    BY DEF Tidy
  <1>16. /\ \A i, j \in DOMAIN next : i < j =>
              /\ next[i].id # next[j].id
              /\ next[i].path = next[j].path => next[i].id < next[j].id
         /\ \A i \in DOMAIN next :
              \A x \in Ids(IF next[i].path = path THEN rest ELSE other) : next[i].id < x
    BY <1>1, <1>13, <1>14
  <1>17. QED
    BY <1>10, <1>11, <1>15, <1>16, Zenon DEF Tidy

-----------------------------------------------------------------------------
(* The two queues.                                                         *)

InputTypes ==
  /\ imuIn \in Seq(Nat) /\ Len(imuIn) <= MaxImu
  /\ \A i, j \in 1 .. Len(imuIn) : i <= j => imuIn[i] <= imuIn[j]

PeriodTypes ==
  /\ periods \in Seq(Nat) /\ Len(periods) <= Len(imuIn) /\ lastArrival \in Nat
  /\ \A i \in 1 .. Len(periods) : 2 * periods[i] < 3 * Period

StreamTypes ==
  /\ stream \in Streams /\ quiet \in BOOLEAN
  /\ cursor \in 1 .. Len(stream.sidecar) + 1

QueueTypes ==
  /\ p1Queue \in Seq(P1Messages) /\ (Ready(bins) => p1Queue = <<>>)
  /\ arrivalQueue \in Seq(ArrivalMessages) /\ Len(arrivalQueue) <= Lookahead
  /\ imuOut \in Seq(OutMessages)
  /\ Len(imuOut) + Len(p1Queue) + Len(arrivalQueue) = Len(imuIn)

\* What waits on the arrival path keeps the stamp it came with.
Arrivals == \A i \in 1 .. Len(arrivalQueue) : arrivalQueue[i].arrival = imuIn[arrivalQueue[i].id]

QueueInv ==
  /\ InputTypes /\ PeriodTypes /\ StreamTypes /\ QueueTypes
  /\ EachOnce /\ Arrivals /\ BurstBounded

\* Only arrivals have been published before this message, and it.
OnlyArrivals(out, i) == \A j \in 1 .. i : out[j].path = "arrival"

BurstAt(out, in, i) ==
  /\ out[i].stamp <= Unit * in[out[i].id] + out[i].id
  /\ 2 * (Unit * in[out[i].id] - out[i].stamp) <= 3 * Unit * Period * Lookahead

\* BurstBounded, message by message.
LEMMA BurstIs ==
  ASSUME imuOut \in Seq(OutMessages)
  PROVE  BurstBounded <=>
           \A i \in 1 .. Len(imuOut) : OnlyArrivals(imuOut, i) => BurstAt(imuOut, imuIn, i)
  <1>1. DOMAIN imuOut = 1 .. Len(imuOut)
    BY LenProperties
  <1>2. QED
    BY <1>1 DEF BurstBounded, OnlyArrivals, BurstAt

\* EachOnce, seen from either path.
LEMMA OnceIs ==
  ASSUME imuOut \in Seq(OutMessages)
  PROVE  /\ EachOnce <=> Tidy(imuOut, p1Queue, arrivalQueue, "p1", Len(imuIn))
         /\ EachOnce <=> Tidy(imuOut, arrivalQueue, p1Queue, "arrival", Len(imuIn))
  <1>1. EachOnce <=> Tidy(imuOut, p1Queue, arrivalQueue, "p1", Len(imuIn))
    BY TidyP1, Zenon DEF EachOnce
  <1>2. QED
    BY <1>1, TidyArrival

\* The period is at most half as long again as the nominal one.
LEMMA PeriodBound ==
  ASSUME NEW ps \in Seq(Nat), \A i \in 1 .. Len(ps) : 2 * ps[i] < 3 * Period
  PROVE  ImuPeriod(ps) \in Nat /\ 2 * ImuPeriod(ps) <= 3 * (Unit * Period)
  <1>1. Unit \in Nat /\ Period \in Nat
    BY TimeAssumption
  <1>2. CASE ps = <<>>
    <2> DEFINE x == Unit * Period
    <2>1. x \in Nat
      BY <1>1
    <2>2. ImuPeriod(ps) = x
      BY <1>2 DEF ImuPeriod
    <2> HIDE DEF x
    <2>3. 2 * x <= 3 * x
      BY <2>1
    <2>4. QED
      BY <2>1, <2>2, <2>3 DEF x
  <1>3. CASE ps # <<>>
    <2>1. /\ Len(ps) \in Nat \ {0} /\ ps \in [1 .. Len(ps) -> Nat] /\ DOMAIN ps = 1 .. Len(ps)
      BY <1>3, EmptySeq, LenProperties
    <2>2. IsFiniteSet(1 .. Len(ps)) /\ 1 .. Len(ps) # {}
      <3> DEFINE x == Len(ps)
      <3>1. x \in Int /\ 1 \in Int /\ x > 0
        BY <2>1
      <3> HIDE DEF x
      <3>2. IsFiniteSet(1 .. x)
        BY <3>1, FS_Interval
      <3>3. 1 \in 1 .. x
        BY <3>1
      <3>4. QED
        BY <3>2, <3>3 DEF x
    <2>3. UpperMedian(ps) \in Elems(ps)
      BY <2>1, <2>2, UpperMedianIsElement
    <2>4. PICK i \in 1 .. Len(ps) : UpperMedian(ps) = ps[i]
      BY <2>1, <2>3 DEF Elems
    <2> DEFINE y == UpperMedian(ps)
    <2>5. y \in Nat /\ 2 * y < 3 * Period
      BY <2>1, <2>4
    <2>6. ImuPeriod(ps) = Unit * y
      BY <1>3 DEF ImuPeriod
    <2> HIDE DEF y
    <2>7. Unit * (2 * y) <= Unit * (3 * Period)
      BY <1>1, <2>5, TimesMonotone
    <2>8. Unit * (2 * y) = 2 * (Unit * y) /\ Unit * (3 * Period) = 3 * (Unit * Period)
          /\ Unit * y \in Nat
      BY <1>1, <2>5
    <2>9. QED
      BY <2>6, <2>7, <2>8
  <1>4. QED
    BY <1>2, <1>3

\* A message received by no means changes what an earlier one came with.
Extends(in, next) ==
  /\ in \in Seq(Nat) /\ next \in Seq(Nat) /\ Len(in) <= Len(next)
  /\ \A i \in 1 .. Len(in) : next[i] = in[i]
  /\ \A i, j \in 1 .. Len(next) : i <= j => next[i] <= next[j]

\* What has been published stays within its bounds.
LEMMA OldBurst ==
  ASSUME NEW out \in Seq(OutMessages), NEW next \in Seq(OutMessages), NEW in, NEW now,
         Extends(in, now), Ids(out) \subseteq 1 .. Len(in), Len(out) <= Len(next),
         \A i \in 1 .. Len(out) : next[i] = out[i],
         \A i \in 1 .. Len(out) : OnlyArrivals(out, i) => BurstAt(out, in, i)
  PROVE  \A i \in 1 .. Len(out) : OnlyArrivals(next, i) => BurstAt(next, now, i)
  <1> SUFFICES ASSUME NEW i \in 1 .. Len(out), OnlyArrivals(next, i) PROVE BurstAt(next, now, i)
    OBVIOUS
  <1>1. \A j \in 1 .. i : j \in 1 .. Len(out)
    OBVIOUS
  <1>2. OnlyArrivals(out, i)
    BY <1>1 DEF OnlyArrivals
  <1>3. out[i].id \in 1 .. Len(in)
    <2>1. i \in DOMAIN out
      BY LenProperties
    <2>2. QED
      BY <2>1 DEF Ids
  <1>4. now[out[i].id] = in[out[i].id]
    BY <1>3 DEF Extends
  <1>5. BurstAt(out, in, i)
    BY <1>2
  <1>6. next[i] = out[i]
    OBVIOUS
  <1>7. QED
    BY ONLY <1>4, <1>5, <1>6 DEF BurstAt

\* A queue of the P1 path goes when the clock is ready.
LEMMA P1Leaves ==
  ASSUME NEW first \in Nat, NEW newest \in Nat, NEW bs, GoodBins(bs, first, newest),
         imuOut \in Seq(OutMessages), NEW queue \in Seq(P1Messages), Ids(imuOut) \subseteq 1 .. Len(imuIn),
         NEW n \in Nat, Tidy(imuOut, queue, arrivalQueue, "p1", n),
         BurstBounded, Extends(imuIn, imuIn'), arrivalQueue' = arrivalQueue, Len(imuIn') = n,
         p1Queue' = LeftP1(bs, queue), PublishImu(FlushedP1(bs, queue))
  PROVE  /\ EachOnce' /\ BurstBounded'
         /\ imuOut' \in Seq(OutMessages) /\ p1Queue' \in Seq(P1Messages)
         /\ Ready(bs) => p1Queue' = <<>>
         /\ Len(imuOut') + Len(p1Queue') = Len(imuOut) + Len(queue)
  <1> DEFINE msgs == FlushedP1(bs, queue)  k == Len(FlushedP1(bs, queue))  m == Len(queue)
             l == Len(imuOut)
  <1>1. /\ msgs \in Seq(OutMessages) /\ k = IF Ready(bs) THEN m ELSE 0
        /\ \A i \in 1 .. k : msgs[i].id = queue[i].id /\ msgs[i].path = "p1"
    BY FlushedIs
  <1>2. PublishedBy(imuOut, imuOut', msgs)
    BY <1>1, Published
  <1>3. k \in Nat /\ m \in Nat /\ k <= m /\ l \in Nat
    BY <1>1, LenProperties
  <1>4. /\ p1Queue' \in Seq(P1Messages) /\ Len(p1Queue') = m - k
        /\ \A i \in 1 .. m - k : p1Queue'[i] = queue[k + i]
    <2> DEFINE q == SubSeq(queue, k + 1, m)
    <2>1. \A i \in k + 1 .. m : queue[i] \in P1Messages
      <3>1. \A i \in k + 1 .. m : i \in 1 .. Len(queue)
        BY <1>3
      <3>2. QED
        BY <3>1, ElementOfSeq
    <2> HIDE DEF k, m
    <2>2. /\ q \in Seq(P1Messages)
          /\ Len(q) = IF k + 1 <= m THEN m - (k + 1) + 1 ELSE 0
          /\ \A i \in 1 .. m - (k + 1) + 1 : q[i] = queue[k + 1 + i - 1]
      BY <1>3, <2>1, SubSeqProperties
    <2>3. Len(q) = m - k
      BY <1>3, <2>2
    <2>4. m - (k + 1) + 1 = m - k /\ \A i \in 1 .. m - k : k + 1 + i - 1 = k + i
      BY <1>3
    <2>5. \A i \in 1 .. m - k : q[i] = queue[k + i]
      BY <2>2, <2>4
    <2>6. p1Queue' = q
      BY DEF LeftP1, k, m
    <2> HIDE DEF q
    <2>7. QED
      BY <2>2, <2>3, <2>5, <2>6
  <1>5. Ready(bs) => p1Queue' = <<>>
    <2> SUFFICES ASSUME Ready(bs) PROVE p1Queue' = <<>>
      OBVIOUS
    <2>1. Len(p1Queue') = 0
      BY <1>1, <1>3, <1>4
    <2>2. QED
      BY <1>4, <2>1, EmptySeq
  <1>6. /\ imuOut' \in Seq(OutMessages) /\ Len(imuOut') = l + k
        /\ \A i \in 1 .. l : imuOut'[i] = imuOut[i]
        /\ \A i \in 1 .. k : imuOut'[l + i].id = msgs[i].id /\ imuOut'[l + i].path = msgs[i].path
    BY <1>2 DEF PublishedBy
  <1>7. \A i \in 1 .. k : imuOut'[l + i].id = queue[i].id /\ imuOut'[l + i].path = "p1"
    BY <1>1, <1>6
  <1> DEFINE next == imuOut'  rest == p1Queue'
  <1> HIDE DEF msgs, k, m, l
  <1>8. Tidy(next, rest, arrivalQueue, "p1", n)
    <2>1. k <= Len(queue) /\ Len(rest) = Len(queue) - k /\ Len(next) = Len(imuOut) + k
      BY <1>3, <1>4, <1>6 DEF m, l
    <2>2. \A i \in 1 .. Len(rest) : rest[i] = queue[k + i]
      BY <1>4
    <2>3. \A i \in 1 .. Len(imuOut) : next[i] = imuOut[i]
      BY <1>6 DEF l
    <2>4. \A i \in 1 .. k : next[Len(imuOut) + i].id = queue[i].id /\ next[Len(imuOut) + i].path = "p1"
      BY <1>7 DEF l
    <2>5. next \in Seq(OutMessages) /\ rest \in Seq(P1Messages) /\ k \in Nat
      BY <1>3, <1>4, <1>6
    <2> HIDE DEF next, rest
    <2>6. QED
      BY <2>1, <2>2, <2>3, <2>4, <2>5, Moved
  <1>9. EachOnce'
    <2>1. (imuOut \in Seq(OutMessages))' => (EachOnce <=> Tidy(imuOut, p1Queue, arrivalQueue, "p1", Len(imuIn)))'
      BY OnceIs, PTL
    <2>2. Tidy(imuOut', p1Queue', arrivalQueue', "p1", Len(imuIn'))
      BY <1>8
    <2>3. QED
      BY <1>6, <2>1, <2>2
  <1>10. BurstBounded'
    <2>1. (imuOut \in Seq(OutMessages))' => (BurstBounded <=>
             \A i \in 1 .. Len(imuOut) : OnlyArrivals(imuOut, i) => BurstAt(imuOut, imuIn, i))'
      BY BurstIs, PTL
    <2>2. \A i \in 1 .. l : OnlyArrivals(imuOut', i) => BurstAt(imuOut', imuIn', i)
      <3>1. \A i \in 1 .. Len(imuOut) : OnlyArrivals(imuOut, i) => BurstAt(imuOut, imuIn, i)
        BY BurstIs
      <3>2. Len(imuOut) <= Len(imuOut') /\ \A i \in 1 .. Len(imuOut) : imuOut'[i] = imuOut[i]
        BY <1>3, <1>6 DEF l
      <3>3. QED
        BY <1>6, <3>1, <3>2, OldBurst DEF l
    <2>3. ASSUME NEW i \in 1 .. l + k, OnlyArrivals(imuOut', i) PROVE i \in 1 .. l
      <3>1. CASE i \in 1 .. l
        BY <3>1
      <3>2. CASE i \notin 1 .. l
        <4>1. i - l \in 1 .. k /\ l + (i - l) = i /\ i \in 1 .. i
          BY <1>3, <3>2
        <4>2. imuOut'[l + (i - l)].path = "p1"
          BY <1>7, <4>1
        <4>3. imuOut'[i].path = "arrival"
          BY <2>3, <4>1 DEF OnlyArrivals
        <4>4. QED
          BY <4>1, <4>2, <4>3
      <3>3. QED
        BY <3>1, <3>2
    <2>4. \A i \in 1 .. Len(imuOut') : OnlyArrivals(imuOut', i) => BurstAt(imuOut', imuIn', i)
      BY <1>6, <2>2, <2>3
    <2>5. QED
      BY <1>6, <2>1, <2>4
  <1>11. Len(imuOut') + Len(p1Queue') = l + m
    BY <1>3, <1>4, <1>6
  <1>12. QED
    BY <1>4, <1>5, <1>6, <1>9, <1>10, <1>11 DEF l, m

\* The stamp of a message that follows only arrivals, from the stamp before it.
LEMMA BurstStep ==
  ASSUME NEW r \in Int, NEW a \in Nat, NEW id \in Nat, NEW last \in Int,
         NEW j \in Nat, j <= Lookahead, NEW period \in Nat, 2 * period <= 3 * (Unit * Period),
         r <= Unit * a, Unit * a - r <= j * period,
         last <= 0 \/ last < Unit * a + id
  PROVE  /\ Monotonic(last, r) <= Unit * a + id
         /\ 2 * (Unit * a - Monotonic(last, r)) <= 3 * Unit * Period * Lookahead
  <1> DEFINE t == Unit * a  up == Unit * Period  s == Monotonic(last, r)
             bound == 3 * up * Lookahead
  <1>1. t \in Nat /\ up \in Nat /\ Lookahead \in Nat
    BY TimeAssumption
  <1>2. r <= s /\ s \in Int /\ (s = r \/ (last > 0 /\ s = last + 1))
    BY DEF Monotonic
  <1>3. 3 * Unit * Period * Lookahead = bound
    BY TimeAssumption
  <1>4. r <= t /\ t - r <= j * period /\ (last <= 0 \/ last < t + id) /\ 2 * period <= 3 * up
    OBVIOUS
  <1> HIDE DEF t, up, s
  <1>5. 2 * (j * period) <= bound
    <2>1. period * j <= period * Lookahead
      BY <1>1, TimesMonotone
    <2>2. Lookahead * (2 * period) <= Lookahead * (3 * up)
      <3>1. 2 * period \in Int /\ 3 * up \in Int
        BY <1>1
      <3>2. QED
        BY <1>1, <1>4, <3>1, TimesMonotone
    <2>3. /\ Lookahead * (2 * period) = 2 * (period * Lookahead)
          /\ Lookahead * (3 * up) = bound /\ period * Lookahead \in Int
          /\ period * j = j * period /\ period * j \in Int /\ bound \in Int
      BY <1>1
    <2>4. QED
      BY <2>1, <2>2, <2>3
  <1>6. bound \in Int /\ j * period \in Int
    BY <1>1
  <1> HIDE DEF bound
  <1>7. s <= t + id
    BY <1>1, <1>2, <1>4
  <1>8. 2 * (t - s) <= bound
    BY <1>1, <1>2, <1>4, <1>5, <1>6
  <1>9. QED
    BY <1>3, <1>7, <1>8 DEF t, s

\* A queue of the arrival path goes, up to the last n messages.
LEMMA ArrivalsLeave ==
  ASSUME imuOut \in Seq(OutMessages), NEW queue \in Seq(ArrivalMessages),
         Len(queue) <= Lookahead + 1, NEW n \in 0 .. Len(queue),
         NEW period \in Nat, 2 * period <= 3 * (Unit * Period),
         Ids(imuOut) \subseteq 1 .. Len(imuIn),
         NEW c \in Nat, Tidy(imuOut, queue, p1Queue, "arrival", c),
         \A i \in 1 .. Len(queue) : queue[i].arrival = imuIn'[queue[i].id],
         BurstBounded, Extends(imuIn, imuIn'), p1Queue' = p1Queue, Len(imuIn') = c,
         arrivalQueue' = Remaining(queue, n), PublishImu(Fronts(queue, period, n))
  PROVE  /\ EachOnce' /\ BurstBounded' /\ Arrivals'
         /\ imuOut' \in Seq(OutMessages) /\ arrivalQueue' \in Seq(ArrivalMessages)
         /\ Len(arrivalQueue') = n
         /\ Len(imuOut') + n = Len(imuOut) + Len(queue)
  <1> DEFINE msgs == Fronts(queue, period, n)  m == Len(queue)  k == Len(queue) - n
             l == Len(imuOut)  now == imuIn'  next == imuOut'  rest == arrivalQueue'
  <1>1. /\ k \in Nat /\ m \in Nat /\ k <= m /\ l \in Nat /\ n \in Nat /\ m - k = n /\ k + n = m
        /\ m <= Lookahead + 1 /\ Lookahead \in Nat /\ Unit \in Nat
    BY LenProperties, TimeAssumption
  <1>2. /\ now \in Seq(Nat) /\ Len(now) = c /\ \A i \in 1 .. c : now[i] \in Nat
        /\ \A i, j \in 1 .. c : i <= j => now[i] <= now[j]
    <2>1. now \in Seq(Nat) /\ Len(now) = c /\ \A i, j \in 1 .. c : i <= j => now[i] <= now[j]
      BY DEF Extends
    <2>2. \A i \in 1 .. c : now[i] \in Nat
      BY <2>1, ElementOfSeq
    <2>3. QED
      BY <2>1, <2>2
  <1>3. \A i \in 1 .. m : queue[i].id \in 1 .. c /\ queue[i].arrival = now[queue[i].id]
    <2>1. DOMAIN queue = 1 .. m
      BY LenProperties
    <2>2. QED
      BY <2>1 DEF Tidy, Ids
  <1>4. \A i, j \in 1 .. m : i <= j => queue[i].arrival <= queue[j].arrival
    <2> SUFFICES ASSUME NEW i \in 1 .. m, NEW j \in 1 .. m, i <= j
                 PROVE  queue[i].arrival <= queue[j].arrival
      OBVIOUS
    <2>1. queue[i].id <= queue[j].id
      <3>1. CASE i = j
        BY <1>3, <3>1
      <3>2. CASE i # j
        <4>1. i < j /\ i \in DOMAIN queue /\ j \in DOMAIN queue
          BY <3>2, LenProperties
        <4>2. queue[i].id < queue[j].id
          BY <4>1 DEF Tidy, InOrder
        <4>3. QED
          BY <1>3, <4>2
      <3>3. QED
        BY <3>1, <3>2
    <2>2. QED
      BY <1>2, <1>3, <2>1
  <1>5. /\ msgs \in Seq(OutMessages) /\ Len(msgs) = k
        /\ \A i \in 1 .. k :
             /\ msgs[i].id = queue[i].id /\ msgs[i].path = "arrival"
             /\ msgs[i].stamp <= Unit * queue[i].arrival
             /\ Unit * queue[i].arrival - msgs[i].stamp <= (m - i) * period
    BY <1>4, FrontsAre
  <1>6. PublishedBy(imuOut, next, msgs)
    BY <1>5, Published
  <1>7. /\ rest \in Seq(ArrivalMessages) /\ Len(rest) = n
        /\ \A i \in 1 .. n : rest[i] = queue[k + i]
    <2> DEFINE q == SubSeq(queue, k + 1, m)
    <2>1. rest = q
      BY DEF Remaining
    <2>2. \A i \in k + 1 .. m : queue[i] \in ArrivalMessages
      <3>1. \A i \in k + 1 .. m : i \in 1 .. Len(queue)
        BY <1>1
      <3>2. QED
        BY <3>1, ElementOfSeq
    <2> HIDE DEF k, m, rest
    <2>3. /\ q \in Seq(ArrivalMessages)
          /\ Len(q) = IF k + 1 <= m THEN m - (k + 1) + 1 ELSE 0
          /\ \A i \in 1 .. m - (k + 1) + 1 : q[i] = queue[k + 1 + i - 1]
      BY <1>1, <2>2, SubSeqProperties
    <2>4. Len(q) = n
      BY <1>1, <2>3
    <2>5. m - (k + 1) + 1 = n /\ \A i \in 1 .. n : k + 1 + i - 1 = k + i
      BY <1>1
    <2>6. \A i \in 1 .. n : q[i] = queue[k + i]
      BY <2>3, <2>5
    <2> HIDE DEF q
    <2>7. QED
      BY <2>1, <2>3, <2>4, <2>6
  <1> HIDE DEF msgs, k, m, l, now, next, rest
  <1>8. /\ next \in Seq(OutMessages) /\ Len(next) = l + k
        /\ \A i \in 1 .. l : next[i] = imuOut[i]
        /\ \A i \in 1 .. k :
             /\ next[l + i].id = queue[i].id /\ next[l + i].path = "arrival"
             /\ next[l + i].stamp = Monotonic(StampBefore(next, l + i), msgs[i].stamp)
    BY <1>5, <1>6 DEF PublishedBy, l
  <1>9. Tidy(next, rest, p1Queue, "arrival", c)
    <2>1. k <= Len(queue) /\ Len(rest) = Len(queue) - k /\ Len(next) = Len(imuOut) + k
      BY <1>1, <1>7, <1>8 DEF m, l
    <2>2. \A i \in 1 .. Len(rest) : rest[i] = queue[k + i]
      BY <1>7
    <2>3. \A i \in 1 .. Len(imuOut) : next[i] = imuOut[i]
      BY <1>8 DEF l
    <2>4. \A i \in 1 .. k : next[Len(imuOut) + i].id = queue[i].id
                            /\ next[Len(imuOut) + i].path = "arrival"
      BY <1>8 DEF l
    <2>5. QED
      BY <1>1, <1>7, <1>8, <2>1, <2>2, <2>3, <2>4, Moved
  <1>10. EachOnce'
    <2>1. (imuOut \in Seq(OutMessages))'
            => (EachOnce <=> Tidy(imuOut, arrivalQueue, p1Queue, "arrival", Len(imuIn)))'
      BY OnceIs, PTL
    <2>2. Tidy(imuOut', arrivalQueue', p1Queue', "arrival", Len(imuIn'))
      BY <1>9 DEF next, rest
    <2>3. QED
      BY <1>8, <2>1, <2>2 DEF next
  <1> DEFINE Good(i) == OnlyArrivals(next, i) => BurstAt(next, now, i)
  <1>11. \A i \in 1 .. l : Good(i)
    <2>1. \A i \in 1 .. Len(imuOut) : OnlyArrivals(imuOut, i) => BurstAt(imuOut, imuIn, i)
      BY BurstIs
    <2>2. Len(imuOut) <= Len(next) /\ \A i \in 1 .. Len(imuOut) : next[i] = imuOut[i]
      BY <1>1, <1>8 DEF l
    <2>3. Extends(imuIn, now)
      BY DEF now
    <2>4. QED
      BY <1>8, <2>1, <2>2, <2>3, OldBurst DEF l
  <1>12. ASSUME NEW i \in 1 .. l + k, i = 1 \/ Good(i - 1) PROVE Good(i)
    <2>1. CASE i \in 1 .. l
      BY <1>11, <2>1
    <2>2. CASE i \notin 1 .. l
      <3> SUFFICES ASSUME OnlyArrivals(next, i) PROVE BurstAt(next, now, i)
        OBVIOUS
      <3> DEFINE j == i - l  id == next[i].id  r == msgs[j].stamp  last == StampBefore(next, i)
                 a == now[id]
      <3>1. j \in 1 .. k /\ l + j = i /\ j \in 1 .. m /\ m - j \in Nat /\ m - j <= Lookahead
        BY <1>1, <2>2
      <3>2. next[i].id = queue[j].id /\ next[i].stamp = Monotonic(last, r)
        <4>1. next[l + j].id = queue[j].id /\ next[l + j].stamp = Monotonic(StampBefore(next, l + j), msgs[j].stamp)
          BY <1>8, <3>1
        <4>2. QED
          BY <3>1, <4>1
      <3>3. id \in 1 .. c /\ queue[j].arrival = a /\ a \in Nat /\ id \in Nat
        <4>1. queue[j].id \in 1 .. c /\ queue[j].arrival = now[queue[j].id]
          BY <1>3, <3>1
        <4>2. QED
          BY <1>2, <3>2, <4>1
      <3>4. r \in Int /\ r <= Unit * a /\ Unit * a - r <= (m - j) * period
        <4>1. msgs[j] \in OutMessages
          BY <1>5, <3>1, ElementOfSeq
        <4>2. r \in Int
          BY <4>1 DEF OutMessages
        <4>3. QED
          BY <1>5, <3>1, <3>3, <4>2
      <3>5. last \in Int /\ (last <= 0 \/ last < Unit * a + id)
        <4>1. CASE i = 1
          BY <4>1 DEF StampBefore, None
        <4>2. CASE i # 1
          <5> DEFINE h == i - 1  old == next[h].id
          <5>1. h \in 1 .. l + k /\ i \in 1 .. l + k /\ h < i /\ h \in 1 .. i /\ i \in 1 .. i
                /\ \A g \in 1 .. h : g \in 1 .. i
            BY <1>1, <4>2
          <5>2. last = next[h].stamp
            BY <4>2 DEF StampBefore
          <5> HIDE DEF h
          <5>3. next[h].path = next[i].path /\ OnlyArrivals(next, h)
            BY <5>1 DEF OnlyArrivals
          <5>4. BurstAt(next, now, h)
            BY <1>12, <4>2, <5>3 DEF h
          <5>5. DOMAIN next = 1 .. l + k
            BY <1>8, LenProperties
          <5>6. old < id
            BY <1>9, <5>1, <5>3, <5>5 DEF Tidy
          <5>7. old \in 1 .. c
            BY <1>9, <5>1, <5>5 DEF Tidy, Ids
          <5>8. now[old] \in Nat /\ now[old] <= a
            <6>1. old \in 1 .. c /\ id \in 1 .. c /\ old <= id
              BY <3>3, <5>6, <5>7
            <6> HIDE DEF old, id
            <6>2. now[old] \in Nat /\ now[old] <= now[id]
              BY ONLY <1>2, <6>1
            <6>3. QED
              BY <6>2 DEF id
          <5>9. last <= Unit * now[old] + old
            BY <5>2, <5>4 DEF BurstAt
          <5>10. last \in Int
            <6>1. next[h] \in OutMessages
              BY <1>8, <5>1, ElementOfSeq
            <6>2. QED
              BY <5>2, <6>1 DEF OutMessages
          <5> DEFINE b == now[old]
          <5> HIDE DEF old, b, a, id, last
          <5>11. Unit * b <= Unit * a /\ Unit * b \in Int /\ Unit * a \in Int
            <6>1. b \in Int /\ a \in Int /\ b <= a
              BY <3>3, <5>8 DEF b
            <6>2. QED
              BY <1>1, <6>1, TimesMonotone
          <5>12. old \in Int /\ id \in Int /\ old < id /\ last <= Unit * b + old
            BY <3>3, <5>6, <5>7, <5>9 DEF b, id
          <5>13. QED
            BY <5>10, <5>11, <5>12
        <4>3. QED
          BY <4>1, <4>2
      <3> DEFINE w == m - j
      <3>6. w \in Nat /\ w <= Lookahead /\ Unit * a - r <= w * period
        BY <3>1, <3>4
      <3> HIDE DEF j, id, r, last, a, w
      <3>7. /\ Monotonic(last, r) <= Unit * a + id
            /\ 2 * (Unit * a - Monotonic(last, r)) <= 3 * Unit * Period * Lookahead
        BY ONLY <3>3, <3>4, <3>5, <3>6, BurstStep, period \in Nat, 2 * period <= 3 * (Unit * Period)
      <3>8. QED
        BY <3>2, <3>7 DEF BurstAt, a, id
    <2>3. QED
      BY <2>1, <2>2
  <1>13. \A i \in 1 .. l + k : Good(i)
    <2> DEFINE T == {i \in 0 .. l + k : i = 0 \/ Good(i)}
    <2> HIDE DEF Good
    <2>1. l + k \in Nat /\ 0 \in T
      BY <1>1
    <2>2. ASSUME NEW i \in 1 .. l + k, i - 1 \in T PROVE i \in T
      <3>1. i = 1 \/ Good(i - 1)
        BY <1>1, <2>2
      <3>2. Good(i)
        BY <1>12, <3>1
      <3>3. QED
        BY <1>1, <3>2
    <2>3. \A i \in 1 .. l + k : i \in 0 .. l + k /\ i # 0
      BY <1>1
    <2>4. \A i \in 0 .. l + k : i \in T
      <3> HIDE DEF T
      <3>1. QED
        BY <2>1, <2>2, IntervalInduction
    <2>5. QED
      BY <2>3, <2>4
  <1>14. BurstBounded'
    <2>1. (imuOut \in Seq(OutMessages))' => (BurstBounded <=>
             \A i \in 1 .. Len(imuOut) : OnlyArrivals(imuOut, i) => BurstAt(imuOut, imuIn, i))'
      BY BurstIs, PTL
    <2>2. \A i \in 1 .. Len(imuOut') : OnlyArrivals(imuOut', i) => BurstAt(imuOut', imuIn', i)
      BY <1>8, <1>13 DEF next, now
    <2>3. QED
      BY <1>8, <2>1, <2>2 DEF next
  <1>15. Arrivals'
    <2>1. ASSUME NEW i \in 1 .. n PROVE rest[i].arrival = now[rest[i].id]
      <3>1. k + i \in 1 .. m /\ rest[i] = queue[k + i]
        BY <1>1, <1>7
      <3>2. QED
        BY <1>3, <3>1
    <2>2. QED
      BY <1>7, <2>1 DEF Arrivals, rest, now
  <1>16. Len(next) + n = l + m
    BY <1>1, <1>8
  <1>17. QED
    BY <1>7, <1>8, <1>10, <1>14, <1>15, <1>16 DEF next, rest, l, m

-----------------------------------------------------------------------------
(* The sidecar's cursor.                                                   *)

\* The sidecar's samples have their types.
LEMMA SidecarTyped ==
  ASSUME stream \in Streams
  PROVE  /\ stream.sidecar \in Seq([capture : Nat, p1 : Nat])
         /\ Len(stream.sidecar) \in Nat /\ DOMAIN stream.sidecar = 1 .. Len(stream.sidecar)
         /\ \A i \in 1 .. Len(stream.sidecar) :
              stream.sidecar[i].capture \in Nat /\ stream.sidecar[i].p1 \in Nat
  <1>1. stream.sidecar \in Seq([capture : Nat, p1 : Nat])
    BY StreamAssumption
  <1> DEFINE s == stream.sidecar
  <1>2. s \in Seq([capture : Nat, p1 : Nat])
    BY <1>1
  <1> HIDE DEF s
  <1>3. Len(s) \in Nat /\ DOMAIN s = 1 .. Len(s)
    BY <1>2, LenProperties
  <1>4. \A i \in 1 .. Len(s) : s[i] \in [capture : Nat, p1 : Nat]
    BY <1>2, ElementOfSeq
  <1>5. QED
    BY <1>2, <1>3, <1>4 DEF s

\* The cursor stops in the sidecar or just after it.
LEMMA SkippedTyped ==
  ASSUME StreamTypes, NEW capture \in Nat
  PROVE  Skipped(capture) \in 1 .. Len(stream.sidecar) + 1
  <1> DEFINE s == stream.sidecar
             n == Len(stream.sidecar)
             Old(i) == s[i].capture < capture - Tolerance
             T == {c \in cursor .. n + 1 : c = n + 1 \/ ~Old(c)}
             P(c) == /\ \A i \in cursor .. c - 1 : stream.sidecar[i].capture < capture - Tolerance
                     /\ c <= Len(stream.sidecar) => stream.sidecar[c].capture >= capture - Tolerance
  <1>1. /\ n \in Nat /\ cursor \in 1 .. n + 1 /\ capture - Tolerance \in Int
        /\ \A i \in 1 .. n : s[i].capture \in Nat
    BY SidecarTyped, TimeAssumption DEF StreamTypes
  <1>2. PICK c \in T : \A d \in T : c <= d
    <2>1. T \subseteq Nat /\ n + 1 \in T
      BY <1>1
    <2> HIDE DEF T
    <2>2. QED
      BY <2>1, LeastNatural
  <1>3. c \in cursor .. n + 1 /\ \A i \in cursor .. c - 1 : i \notin T /\ i \in cursor .. n + 1
    <2>1. c \in cursor .. n + 1
      OBVIOUS
    <2>2. \A i \in cursor .. c - 1 : i \in cursor .. n + 1 /\ ~(c <= i)
      BY <1>1, <2>1
    <2> HIDE DEF T
    <2>3. QED
      BY <1>2, <2>1, <2>2
  <1>4. P(c)
    <2>1. \A i \in cursor .. c - 1 : Old(i)
      BY <1>3
    <2>2. c <= n => s[c].capture >= capture - Tolerance
      <3> SUFFICES ASSUME c <= n PROVE s[c].capture >= capture - Tolerance
        OBVIOUS
      <3>1. c \in 1 .. n
        BY <1>1, <1>3
      <3>2. ~Old(c)
        BY <1>1, <3>1
      <3>3. QED
        BY <1>1, <3>1, <3>2
    <2>3. QED
      BY <2>1, <2>2
  <1>5. Skipped(capture) = CHOOSE d \in cursor .. n + 1 : P(d)
    BY DEF Skipped
  <1> HIDE DEF P
  <1>6. Skipped(capture) \in cursor .. n + 1
    BY <1>3, <1>4, <1>5
  <1> HIDE DEF n
  <1>7. QED
    BY <1>1, <1>6 DEF n

\* A candidate nearest to the capture exists: distances are well-ordered.
LEMMA NearestTyped ==
  ASSUME StreamTypes, NEW capture \in Nat, Candidates(capture) # {}
  PROVE  Nearest(capture) \in 1 .. Len(stream.sidecar)
  <1> DEFINE C == Candidates(capture)
             Away(i) == Abs(stream.sidecar[i].capture - capture)
             D == {Away(i) : i \in C}
             P(i) == \A j \in C : Away(i) < Away(j) \/ (Away(i) = Away(j) /\ i <= j)
  <1>1. C \subseteq 1 .. Len(stream.sidecar) /\ \A i \in C : i \in Nat /\ Away(i) \in Nat
    <2>1. C \subseteq 1 .. Len(stream.sidecar)
      BY SidecarTyped DEF Candidates, StreamTypes
    <2>2. ASSUME NEW i \in C PROVE i \in Nat /\ Away(i) \in Nat
      <3>1. i \in 1 .. Len(stream.sidecar)
        BY <2>1
      <3>2. stream.sidecar[i].capture \in Nat
        BY <3>1, SidecarTyped DEF StreamTypes
      <3>3. QED
        BY <3>1, <3>2 DEF Abs
    <2>3. QED
      BY <2>1, <2>2
  <1>2. Nearest(capture) = CHOOSE i \in C : P(i)
    BY DEF Nearest
  <1> HIDE DEF Away
  <1>3. PICK d \in D : \A e \in D : d <= e
    <2>1. D \subseteq Nat /\ D # {}
      BY <1>1
    <2> HIDE DEF D
    <2>2. QED
      BY <2>1, LeastNatural
  <1> DEFINE E == {i \in C : Away(i) = d}
  <1>4. PICK i \in E : \A j \in E : i <= j
    <2>1. E \subseteq Nat /\ E # {}
      BY <1>1
    <2> HIDE DEF E
    <2>2. QED
      BY <2>1, LeastNatural
  <1>5. i \in C /\ P(i)
    <2>1. ASSUME NEW j \in C PROVE Away(i) < Away(j) \/ (Away(i) = Away(j) /\ i <= j)
      <3>1. Away(i) = d /\ d <= Away(j) /\ d \in Nat /\ Away(j) \in Nat
        BY <1>1, <1>3, <1>4
      <3>2. Away(j) = d => i <= j
        BY <1>4
      <3>3. QED
        BY <3>1, <3>2
    <2>2. QED
      BY <2>1
  <1> HIDE DEF P, C
  <1>6. Nearest(capture) \in C
    BY <1>2, <1>5
  <1>7. QED
    BY <1>1, <1>6

-----------------------------------------------------------------------------
(* The actions.                                                            *)

\* The queues' part of the invariant holds before the first message.
LEMMA QueueInit ==
  ASSUME AdapterInit
  PROVE  QueueInv
  <1> USE DEF AdapterInit
  <1>1. InputTypes /\ PeriodTypes
    BY InputAssumption DEF InputTypes, PeriodTypes, None
  <1>2. StreamTypes
    <2> DEFINE n == Len(stream.sidecar)
    <2>1. stream \in Streams /\ n \in Nat
      BY SidecarTyped
    <2> HIDE DEF n
    <2>2. cursor \in 1 .. n + 1
      BY <2>1
    <2>3. QED
      BY <2>1, <2>2 DEF StreamTypes, n
  <1>3. QueueTypes
    BY TimeAssumption DEF QueueTypes, Ready
  <1>4. EachOnce
    <2>1. Ids(<<>>) = {} /\ InOrder(<<>>) /\ DOMAIN <<>> = {} /\ Len(<<>>) = 0 /\ 1 .. 0 = {}
      BY DEF Ids, InOrder
    <2>2. QED
      BY <2>1 DEF EachOnce
  <1>5. Arrivals /\ BurstBounded
    BY DEF Arrivals, BurstBounded
  <1>6. QED
    BY <1>1, <1>2, <1>3, <1>4, <1>5 DEF QueueInv

\* The stamps received go forward.
LEMMA InputStep ==
  ASSUME InputTypes, Len(imuIn) < MaxImu, NEW gap \in Gaps, NEW stamp,
         stamp = gap + (IF imuIn = <<>> THEN 1 ELSE imuIn[Len(imuIn)]), Received(stamp)
  PROVE  /\ InputTypes' /\ Extends(imuIn, imuIn') /\ stamp \in Nat
         /\ Len(imuIn') = Len(imuIn) + 1 /\ imuIn'[Len(imuIn) + 1] = stamp
  <1> DEFINE l == Len(imuIn)
  <1>1. l \in Nat /\ gap \in Nat /\ imuIn \in Seq(Nat) /\ MaxImu \in Nat /\ l < MaxImu
    BY InputAssumption, LenProperties DEF InputTypes
  <1>2. \A i \in 1 .. l : imuIn[i] \in Nat
    BY <1>1, ElementOfSeq
  <1>3. stamp \in Nat /\ \A i \in 1 .. l : imuIn[i] <= stamp
    <2>1. CASE imuIn = <<>>
      BY <1>1, <2>1
    <2>2. CASE imuIn # <<>>
      <3>1. l \in 1 .. l
        BY <1>1, <2>2, EmptySeq
      <3>2. \A i \in 1 .. l : i <= l /\ imuIn[i] <= imuIn[l]
        BY <3>1 DEF InputTypes
      <3>3. stamp = gap + imuIn[l]
        BY <2>2
      <3> HIDE DEF l
      <3>4. QED
        BY <1>1, <1>2, <3>1, <3>2, <3>3, SMTT(40)
    <2>3. QED
      BY <2>1, <2>2
  <1>4. /\ imuIn' \in Seq(Nat) /\ Len(imuIn') = l + 1 /\ imuIn'[l + 1] = stamp
        /\ \A i \in 1 .. l : imuIn'[i] = imuIn[i]
    BY <1>1, <1>3, AppendProperties DEF Received
  <1>5. ASSUME NEW i \in 1 .. l + 1, NEW j \in 1 .. l + 1, i <= j
        PROVE  imuIn'[i] <= imuIn'[j]
    <2>1. CASE j \in 1 .. l
      <3>1. i \in 1 .. l
        BY <1>1, <1>5, <2>1
      <3>2. imuIn[i] <= imuIn[j]
        BY <1>5, <2>1, <3>1 DEF InputTypes
      <3>3. QED
        BY <1>4, <2>1, <3>1, <3>2
    <2>2. CASE j = l + 1
      <3>1. i = l + 1 \/ i \in 1 .. l
        BY <1>1
      <3>2. QED
        BY <1>3, <1>4, <2>2, <3>1
    <2>3. QED
      BY <1>1, <2>1, <2>2
  <1> HIDE DEF l
  <1>6. InputTypes'
    <2>1. Len(imuIn') <= MaxImu
      BY <1>1, <1>4
    <2>2. QED
      BY <1>4, <1>5, <2>1 DEF InputTypes
  <1>7. Extends(imuIn, imuIn')
    <2>1. Len(imuIn) <= Len(imuIn')
      BY <1>1, <1>4 DEF l
    <2>2. QED
      BY <1>1, <1>4, <1>5, <2>1 DEF Extends, l
  <1>8. QED
    BY <1>3, <1>4, <1>6, <1>7 DEF l

\* Without a new IMU message the input stays what it is.
LEMMA SameInput ==
  ASSUME InputTypes, UNCHANGED imuIn
  PROVE  InputTypes' /\ Extends(imuIn, imuIn')
  <1>1. Len(imuIn) \in Nat
    BY LenProperties DEF InputTypes
  <1>2. QED
    BY <1>1 DEF InputTypes, Extends

\* Whatever waits or has left was received.
LEMMA OldIds ==
  ASSUME EachOnce
  PROVE  /\ Ids(imuOut) \subseteq 1 .. Len(imuIn)
         /\ \A i \in DOMAIN arrivalQueue : arrivalQueue[i].id \in 1 .. Len(imuIn)
  BY DEF EachOnce, Ids

\* What waits keeps its stamp when another is received.
LEMMA ArrivalsKept ==
  ASSUME EachOnce, Arrivals, arrivalQueue \in Seq(ArrivalMessages), Extends(imuIn, imuIn')
  PROVE  \A i \in 1 .. Len(arrivalQueue) : arrivalQueue[i].arrival = imuIn'[arrivalQueue[i].id]
  <1> TAKE i \in 1 .. Len(arrivalQueue)
  <1>1. i \in DOMAIN arrivalQueue
    BY LenProperties
  <1>2. arrivalQueue[i].id \in 1 .. Len(imuIn)
    BY <1>1, OldIds
  <1>3. arrivalQueue[i].arrival = imuIn[arrivalQueue[i].id]
    BY DEF Arrivals
  <1>4. QED
    BY <1>2, <1>3 DEF Extends

\* A message that has a P1 time.
LEMMA P1Received ==
  ASSUME ClockInv, QueueInv, NEW p1 \in Nat, QueueP1(p1), Extends(imuIn, imuIn'), InputTypes',
         Len(imuIn') = Len(imuIn) + 1, UNCHANGED <<arrivalQueue, lastArrival, periods, bins>>
  PROVE  QueueTypes' /\ EachOnce' /\ Arrivals' /\ BurstBounded' /\ PeriodTypes'
  <1> DEFINE l == Len(imuIn)
             e == [id |-> Len(imuIn) + 1, p1 |-> p1]
             queue == Append(p1Queue, e)
  <1>1. /\ p1Queue \in Seq(P1Messages) /\ imuOut \in Seq(OutMessages)
        /\ arrivalQueue \in Seq(ArrivalMessages) /\ EachOnce /\ BurstBounded /\ Arrivals
        /\ Len(arrivalQueue) <= Lookahead
        /\ Len(imuOut) + Len(p1Queue) + Len(arrivalQueue) = l
    BY DEF QueueInv, QueueTypes
  <1>2. l \in Nat /\ Len(p1Queue) \in Nat /\ Len(imuOut) \in Nat /\ Len(arrivalQueue) \in Nat
    BY <1>1, LenProperties DEF Extends
  <1>3. e \in P1Messages /\ e.id = l + 1
    BY <1>2 DEF P1Messages
  <1>4. p1Queue' = LeftP1(bins, queue) /\ PublishImu(FlushedP1(bins, queue))
    BY DEF QueueP1
  <1> HIDE DEF e
  <1>5. queue \in Seq(P1Messages) /\ Len(queue) = Len(p1Queue) + 1
    BY <1>1, <1>3, AppendProperties
  <1>6. Tidy(imuOut, queue, arrivalQueue, "p1", l + 1)
    <2>1. Tidy(imuOut, p1Queue, arrivalQueue, "p1", l)
      BY <1>1, OnceIs
    <2>2. QED
      BY <1>1, <1>2, <1>3, <2>1, Joined
  <1> HIDE DEF queue
  <1>7. Ids(imuOut) \subseteq 1 .. Len(imuIn)
    BY <1>1, OldIds
  <1>8. firstP1 \in Nat /\ lastPose.p1 \in Nat /\ GoodBins(bins, firstP1, lastPose.p1)
    BY DEF ClockInv, ClockTypes
  <1>9. Len(imuIn') = l + 1 /\ l + 1 \in Nat
    BY <1>2
  <1>10. /\ EachOnce' /\ BurstBounded'
         /\ imuOut' \in Seq(OutMessages) /\ p1Queue' \in Seq(P1Messages)
         /\ Ready(bins) => p1Queue' = <<>>
         /\ Len(imuOut') + Len(p1Queue') = Len(imuOut) + Len(queue)
    BY <1>1, <1>4, <1>5, <1>6, <1>7, <1>8, <1>9, P1Leaves
  <1>11. Arrivals'
    BY <1>1, ArrivalsKept DEF Arrivals
  <1>12. Len(imuOut') + Len(p1Queue') + Len(arrivalQueue') = Len(imuIn')
    <2>1. Len(arrivalQueue') = Len(arrivalQueue)
      OBVIOUS
    <2>2. Len(imuOut') \in Nat /\ Len(p1Queue') \in Nat
      BY <1>10, LenProperties
    <2> DEFINE o == Len(imuOut)  o2 == Len(imuOut')  w == Len(p1Queue)  w2 == Len(p1Queue')
               a == Len(arrivalQueue)  a2 == Len(arrivalQueue')  l2 == Len(imuIn')
               m == Len(queue)
    <2>3. /\ o \in Nat /\ o2 \in Nat /\ w \in Nat /\ w2 \in Nat /\ a \in Nat /\ l \in Nat
          /\ o + w + a = l /\ m = w + 1 /\ a2 = a /\ l2 = l + 1 /\ o2 + w2 = o + m
      BY <1>1, <1>2, <1>5, <1>9, <1>10, <2>1, <2>2
    <2> HIDE DEF l, a, o, o2, w, w2, a2, l2, m
    <2>4. o2 + w2 + a2 = l2
      BY ONLY <2>3
    <2>5. QED
      BY <2>4 DEF o2, w2, a2, l2
  <1>13. QueueTypes'
    BY <1>1, <1>10, <1>12 DEF QueueTypes
  <1>14. PeriodTypes'
    <2>1. Len(periods) <= Len(imuIn) /\ Len(periods) \in Nat
      BY LenProperties DEF QueueInv, PeriodTypes
    <2>2. Len(periods') <= Len(imuIn')
      BY <1>2, <1>9, <2>1
    <2>3. QED
      BY <2>2 DEF QueueInv, PeriodTypes
  <1>15. QED
    BY <1>10, <1>11, <1>13, <1>14

\* A message that has none.
LEMMA ArrivalReceived ==
  ASSUME QueueInv, NEW stamp \in Nat, ImuWithArrival(stamp), Extends(imuIn, imuIn'), InputTypes',
         Len(imuIn') = Len(imuIn) + 1, imuIn'[Len(imuIn) + 1] = stamp, UNCHANGED bins
  PROVE  QueueTypes' /\ EachOnce' /\ Arrivals' /\ BurstBounded' /\ PeriodTypes'
  <1> DEFINE l == Len(imuIn)  a == Len(arrivalQueue)
             e == [id |-> Len(imuIn) + 1, arrival |-> stamp]
             queue == Append(arrivalQueue, e)
             n == Lesser(Lookahead, Len(queue))
             period == ImuPeriod(periods')
             dt == stamp - lastArrival
  <1>1. /\ p1Queue \in Seq(P1Messages) /\ imuOut \in Seq(OutMessages)
        /\ arrivalQueue \in Seq(ArrivalMessages) /\ EachOnce /\ BurstBounded /\ Arrivals
        /\ a <= Lookahead /\ (Ready(bins) => p1Queue = <<>>)
        /\ Len(imuOut) + Len(p1Queue) + a = l /\ Lookahead \in Nat
    BY TimeAssumption DEF QueueInv, QueueTypes
  <1>2. l \in Nat /\ Len(p1Queue) \in Nat /\ Len(imuOut) \in Nat /\ a \in Nat
    BY <1>1, LenProperties DEF Extends
  <1>3. e \in ArrivalMessages /\ e.id = l + 1 /\ e.arrival = stamp
    BY <1>2 DEF ArrivalMessages
  <1>4. /\ arrivalQueue' = Remaining(queue, n) /\ PublishImu(Fronts(queue, period, n))
        /\ p1Queue' = p1Queue /\ periods' = PeriodSamples(stamp) /\ lastArrival' = stamp
    BY DEF ImuWithArrival
  <1> HIDE DEF e
  <1>5. /\ queue \in Seq(ArrivalMessages) /\ Len(queue) = a + 1
        /\ \A i \in 1 .. a : queue[i] = arrivalQueue[i]
        /\ queue[a + 1] = e
    BY <1>1, <1>3, AppendProperties
  <1>6. Tidy(imuOut, queue, p1Queue, "arrival", l + 1)
    <2>1. Tidy(imuOut, arrivalQueue, p1Queue, "arrival", l)
      BY <1>1, OnceIs
    <2>2. QED
      BY <1>1, <1>2, <1>3, <2>1, Joined
  <1> HIDE DEF queue
  <1>7. \A i \in 1 .. Len(queue) : queue[i].arrival = imuIn'[queue[i].id]
    <2>1. \A i \in 1 .. a : arrivalQueue[i].arrival = imuIn'[arrivalQueue[i].id]
      BY <1>1, ArrivalsKept
    <2>2. \A i \in 1 .. a + 1 : i \in 1 .. a \/ i = a + 1
      BY <1>2
    <2> HIDE DEF a
    <2>3. QED
      BY <1>3, <1>5, <2>1, <2>2
  <1>8. PeriodTypes'
    <2>1. /\ periods \in Seq(Nat) /\ Len(periods) <= l /\ lastArrival \in Nat
          /\ \A i \in 1 .. Len(periods) : 2 * periods[i] < 3 * Period
      BY DEF QueueInv, PeriodTypes
    <2>2. Len(periods) \in Nat /\ Len(imuIn') = l + 1
      BY <2>1, LenProperties
    <2>3. CASE periods' = periods
      <3>1. Len(periods') <= Len(imuIn')
        BY <1>2, <2>1, <2>2, <2>3
      <3>2. QED
        BY <1>4, <2>1, <2>3, <3>1 DEF PeriodTypes
    <2>4. CASE periods' = Append(periods, dt) /\ 2 * dt > Period /\ 2 * dt < 3 * Period
      <3>1. dt \in Nat
        BY <2>1, <2>4, TimeAssumption
      <3> DEFINE m == Len(periods)
      <3> HIDE DEF dt
      <3>2. /\ periods' \in Seq(Nat) /\ Len(periods') = m + 1
            /\ \A i \in 1 .. m : periods'[i] = periods[i]
            /\ periods'[m + 1] = dt
        BY <2>1, <2>4, <3>1, AppendProperties
      <3>3. \A i \in 1 .. m + 1 : i \in 1 .. m \/ i = m + 1
        BY <2>2
      <3>4. \A i \in 1 .. m + 1 : 2 * periods'[i] < 3 * Period
        BY <2>1, <2>4, <3>2, <3>3
      <3>5. Len(periods') <= Len(imuIn')
        BY <1>2, <2>1, <2>2, <3>2
      <3>6. QED
        BY <1>4, <3>2, <3>4, <3>5 DEF PeriodTypes
    <2>5. QED
      BY <1>4, <2>3, <2>4 DEF PeriodSamples
  <1>9. period \in Nat /\ 2 * period <= 3 * (Unit * Period)
    BY <1>8, PeriodBound DEF PeriodTypes
  <1> HIDE DEF period
  <1>10. n \in 0 .. Len(queue) /\ Len(queue) <= Lookahead + 1 /\ n <= Lookahead /\ n \in Nat
    BY <1>1, <1>2, <1>5 DEF Lesser
  <1> HIDE DEF n
  <1>11. Ids(imuOut) \subseteq 1 .. Len(imuIn)
    BY <1>1, OldIds
  <1>12. Len(imuIn') = l + 1 /\ l + 1 \in Nat
    BY <1>2
  <1>13. /\ EachOnce' /\ BurstBounded' /\ Arrivals'
         /\ imuOut' \in Seq(OutMessages) /\ arrivalQueue' \in Seq(ArrivalMessages)
         /\ Len(arrivalQueue') = n
         /\ Len(imuOut') + n = Len(imuOut) + Len(queue)
    BY <1>1, <1>4, <1>5, <1>6, <1>7, <1>9, <1>10, <1>11, <1>12, ArrivalsLeave
  <1>14. Len(imuOut') + Len(p1Queue') + Len(arrivalQueue') = Len(imuIn')
    <2>1. Len(p1Queue') = Len(p1Queue)
      BY <1>4
    <2>2. Len(imuOut') \in Nat
      BY <1>13, LenProperties
    <2> DEFINE o == Len(imuOut)  o2 == Len(imuOut')  w == Len(p1Queue)  w2 == Len(p1Queue')
               a2 == Len(arrivalQueue')  l2 == Len(imuIn')  m == Len(queue)
    <2>3. /\ o \in Nat /\ o2 \in Nat /\ w \in Nat /\ a \in Nat /\ l \in Nat /\ n \in Nat
          /\ o + w + a = l /\ m = a + 1 /\ a2 = n /\ w2 = w /\ l2 = l + 1 /\ o2 + n = o + m
      BY <1>1, <1>2, <1>5, <1>10, <1>12, <1>13, <2>1, <2>2
    <2> HIDE DEF l, a, o, o2, w, w2, a2, l2, m
    <2>4. o2 + w2 + a2 = l2
      BY ONLY <2>3
    <2>5. QED
      BY <2>4 DEF o2, w2, a2, l2
  <1>15. QueueTypes'
    BY <1>1, <1>4, <1>10, <1>13, <1>14 DEF QueueTypes
  <1>16. QED
    BY <1>8, <1>13, <1>15

\* imuCallback, on any of its three ways, keeps the queues' part.
LEMMA ImuOnQueues ==
  ASSUME ClockInv, QueueInv, ImuCallback
  PROVE  QueueInv'
  <1>1. PICK gap \in Gaps :
          LET stamp == gap + (IF imuIn = <<>> THEN 1 ELSE imuIn[Len(imuIn)]) IN
          /\ Received(stamp)
          /\ SidecarHit(stamp) \/ ImuWithP1(stamp) \/ ImuWithArrival(stamp)
    BY DEF ImuCallback
  <1> DEFINE stamp == gap + (IF imuIn = <<>> THEN 1 ELSE imuIn[Len(imuIn)])
  <1>2. Received(stamp) /\ (SidecarHit(stamp) \/ ImuWithP1(stamp) \/ ImuWithArrival(stamp))
    BY <1>1
  <1>3. InputTypes /\ StreamTypes /\ UNCHANGED <<stream, bins>> /\ Len(imuIn) < MaxImu
    BY DEF QueueInv, ImuCallback, clockVars
  <1>4. /\ InputTypes' /\ Extends(imuIn, imuIn') /\ stamp \in Nat
        /\ Len(imuIn') = Len(imuIn) + 1 /\ imuIn'[Len(imuIn) + 1] = stamp
    BY <1>2, <1>3, InputStep
  <1>5. quiet' = FALSE
    BY <1>2 DEF Received
  <1> HIDE DEF stamp
  <1> DEFINE n == Len(stream.sidecar)
  <1>6. n \in Nat /\ cursor \in 1 .. n + 1 /\ \A i \in 1 .. n : stream.sidecar[i].p1 \in Nat
    BY <1>3, SidecarTyped DEF StreamTypes
  <1>7. cursor' \in 1 .. n + 1 => StreamTypes'
    BY <1>3, <1>5 DEF StreamTypes
  <1>8. Misses(stamp) => StreamTypes'
    <2>1. Misses(stamp) => cursor' = cursor \/ cursor' = Skipped(stamp)
      BY DEF Misses
    <2>2. Skipped(stamp) \in 1 .. n + 1
      BY <1>3, <1>4, SkippedTyped
    <2>3. QED
      BY <1>6, <1>7, <2>1, <2>2
  <1>9. CASE SidecarHit(stamp)
    <2>1. Nearest(stamp) \in 1 .. n
      BY <1>3, <1>4, <1>9, NearestTyped DEF SidecarHit
    <2> DEFINE near == Nearest(stamp)
    <2>2. StreamTypes'
      <3>1. cursor' = near + 1
        BY <1>9 DEF SidecarHit
      <3> HIDE DEF near, n
      <3>2. near + 1 \in 1 .. n + 1
        BY <1>6, <2>1 DEF near
      <3>3. QED
        BY <1>7, <3>1, <3>2
    <2> DEFINE p1 == stream.sidecar[near].p1
    <2>3. p1 \in Nat /\ QueueP1(p1) /\ UNCHANGED <<arrivalQueue, lastArrival, periods, bins>>
      BY <1>3, <1>6, <1>9, <2>1 DEF SidecarHit
    <2> HIDE DEF p1
    <2>4. QueueTypes' /\ EachOnce' /\ Arrivals' /\ BurstBounded' /\ PeriodTypes'
      BY <1>4, <2>3, P1Received
    <2>5. QED
      BY <1>4, <2>2, <2>4 DEF QueueInv
  <1>10. CASE ImuWithP1(stamp)
    <2>1. /\ QueueP1(stamp) /\ UNCHANGED <<arrivalQueue, lastArrival, periods, bins>>
          /\ Misses(stamp)
      BY <1>3, <1>10 DEF ImuWithP1
    <2>2. QueueTypes' /\ EachOnce' /\ Arrivals' /\ BurstBounded' /\ PeriodTypes'
      BY <1>4, <2>1, P1Received
    <2>3. QED
      BY <1>4, <1>8, <2>1, <2>2 DEF QueueInv
  <1>11. CASE ImuWithArrival(stamp)
    <2>1. QueueTypes' /\ EachOnce' /\ Arrivals' /\ BurstBounded' /\ PeriodTypes'
      BY <1>3, <1>4, <1>11, ArrivalReceived
    <2>2. Misses(stamp)
      BY <1>11 DEF ImuWithArrival
    <2>3. QED
      BY <1>4, <1>8, <2>1, <2>2 DEF QueueInv
  <1>12. QED
    BY <1>2, <1>9, <1>10, <1>11

\* The clock's part says that the bins are good.
LEMMA BinsAreGood ==
  ClockTypes => firstP1 \in Nat /\ lastPose.p1 \in Nat /\ GoodBins(bins, firstP1, lastPose.p1)
  BY DEF ClockTypes

\* poseCallback flushes what waited for the clock, and keeps the queues' part.
LEMMA PoseOnQueues ==
  ASSUME ClockInv', QueueInv, PoseCallback
  PROVE  QueueInv'
  <1>1. /\ p1Queue \in Seq(P1Messages) /\ imuOut \in Seq(OutMessages)
        /\ arrivalQueue \in Seq(ArrivalMessages) /\ EachOnce /\ BurstBounded /\ Arrivals
        /\ Len(arrivalQueue) <= Lookahead /\ InputTypes
        /\ Len(imuOut) + Len(p1Queue) + Len(arrivalQueue) = Len(imuIn)
    BY DEF QueueInv, QueueTypes
  <1>2. UNCHANGED <<stream, cursor, lastArrival, periods, imuIn, arrivalQueue, quiet>>
    BY DEF PoseCallback, imuVars
  <1>3. p1Queue' = LeftP1(bins', p1Queue) /\ PublishImu(FlushedP1(bins', p1Queue))
    BY DEF PoseCallback
  <1>4. firstP1' \in Nat /\ lastPose'.p1 \in Nat /\ GoodBins(bins', firstP1', lastPose'.p1)
    <2>1. ClockTypes'
      BY DEF ClockInv
    <2>2. (ClockTypes => firstP1 \in Nat /\ lastPose.p1 \in Nat /\ GoodBins(bins, firstP1, lastPose.p1))'
      BY BinsAreGood, PTL
    <2>3. QED
      BY <2>1, <2>2 DEF GoodBins, GoodBin, Span
  <1>5. InputTypes' /\ Extends(imuIn, imuIn')
    BY <1>1, <1>2, SameInput
  <1>6. Ids(imuOut) \subseteq 1 .. Len(imuIn)
    BY <1>1, OldIds
  <1>7. Tidy(imuOut, p1Queue, arrivalQueue, "p1", Len(imuIn))
    BY <1>1, OnceIs
  <1>8. Len(imuIn) \in Nat
    BY LenProperties DEF QueueInv, InputTypes
  <1>9. /\ EachOnce' /\ BurstBounded'
        /\ imuOut' \in Seq(OutMessages) /\ p1Queue' \in Seq(P1Messages)
        /\ Ready(bins') => p1Queue' = <<>>
        /\ Len(imuOut') + Len(p1Queue') = Len(imuOut) + Len(p1Queue)
    BY <1>1, <1>2, <1>3, <1>4, <1>5, <1>6, <1>7, <1>8, P1Leaves
  <1>10. QueueTypes'
    <2>1. Len(imuOut') + Len(p1Queue') + Len(arrivalQueue') = Len(imuIn')
      BY <1>1, <1>2, <1>9
    <2>2. Ready(bins)' => p1Queue' = <<>>
      BY <1>9 DEF Ready
    <2>3. QED
      BY <1>1, <1>2, <1>9, <2>1, <2>2 DEF QueueTypes
  <1>11. PeriodTypes' /\ StreamTypes' /\ Arrivals'
    BY <1>1, <1>2 DEF QueueInv, PeriodTypes, StreamTypes, Arrivals
  <1>12. QED
    BY <1>5, <1>9, <1>10, <1>11 DEF QueueInv

\* flushTimerCallback, on both queues, keeps the queues' part.
LEMMA TimerOnQueues ==
  ASSUME ClockInv, QueueInv, FlushTimer
  PROVE  QueueInv'
  <1>1. /\ p1Queue \in Seq(P1Messages) /\ imuOut \in Seq(OutMessages)
        /\ arrivalQueue \in Seq(ArrivalMessages) /\ EachOnce /\ BurstBounded /\ Arrivals
        /\ Len(arrivalQueue) <= Lookahead /\ InputTypes /\ (Ready(bins) => p1Queue = <<>>)
        /\ Len(imuOut) + Len(p1Queue) + Len(arrivalQueue) = Len(imuIn)
    BY DEF QueueInv, QueueTypes
  <1>2. UNCHANGED <<stream, cursor, lastArrival, periods, imuIn, quiet, bins>>
    BY DEF FlushTimer, imuVars, clockVars
  <1> DEFINE a == Len(arrivalQueue)  period == ImuPeriod(periods)
  <1>3. a \in Nat /\ Len(imuIn) \in Nat /\ Len(p1Queue) \in Nat /\ Lookahead \in Nat
        /\ Len(imuOut) \in Nat
    BY <1>1, LenProperties, TimeAssumption DEF InputTypes
  \* The P1 queue has nothing that could go.
  <1>4. FlushedP1(bins, p1Queue) = <<>>
    <2>1. CASE Ready(bins)
      <3>1. p1Queue = <<>> /\ Len(p1Queue) = 0
        BY <1>1, <2>1
      <3>2. FlushedP1(bins, p1Queue) = [i \in 1 .. 0 |->
               [id |-> p1Queue[i].id, path |-> "p1", stamp |-> ToRos(bins, p1Queue[i].p1)]]
        BY <2>1, <3>1 DEF FlushedP1
      <3>3. QED
        BY <3>2
    <2>2. CASE ~Ready(bins)
      BY <2>2 DEF FlushedP1
    <2>3. QED
      BY <2>1, <2>2
  <1>5. p1Queue' = p1Queue
    <2>1. p1Queue' = SubSeq(p1Queue, 1, Len(p1Queue))
      BY <1>4 DEF FlushTimer, LeftP1
    <2>2. QED
      BY <1>1, <2>1
  <1>6. period \in Nat /\ 2 * period <= 3 * (Unit * Period)
    BY PeriodBound DEF QueueInv, PeriodTypes
  <1>7. \A i \in 1 .. a : arrivalQueue[i].arrival = imuIn'[arrivalQueue[i].id]
    BY <1>2 DEF QueueInv, Arrivals
  <1>8. InputTypes' /\ Extends(imuIn, imuIn')
    BY <1>1, <1>2, SameInput
  <1>9. Tidy(imuOut, arrivalQueue, p1Queue, "arrival", Len(imuIn))
    BY <1>1, OnceIs
  <1>10. PublishImu(Fronts(arrivalQueue, period, 0))
    <2>1. Fronts(arrivalQueue, period, 0) \in Seq(OutMessages)
      <3>1. \A i, j \in 1 .. a : i <= j => arrivalQueue[i].arrival <= arrivalQueue[j].arrival
        <4> SUFFICES ASSUME NEW i \in 1 .. a, NEW j \in 1 .. a, i <= j
                     PROVE  arrivalQueue[i].arrival <= arrivalQueue[j].arrival
          OBVIOUS
        <4>1. /\ i \in DOMAIN arrivalQueue /\ j \in DOMAIN arrivalQueue
              /\ arrivalQueue[i].id \in 1 .. Len(imuIn) /\ arrivalQueue[j].id \in 1 .. Len(imuIn)
          BY <1>1, OldIds, LenProperties
        <4>2. arrivalQueue[i].id <= arrivalQueue[j].id
          <5>1. CASE i = j
            BY <4>1, <5>1
          <5>2. CASE i # j
            <6>1. i < j
              BY <5>2
            <6>2. arrivalQueue[i].id < arrivalQueue[j].id
              BY <1>1, <4>1, <6>1 DEF EachOnce, InOrder
            <6>3. QED
              BY <4>1, <6>2
          <5>3. QED
            BY <5>1, <5>2
        <4>3. arrivalQueue[i].arrival = imuIn[arrivalQueue[i].id]
              /\ arrivalQueue[j].arrival = imuIn[arrivalQueue[j].id]
          BY <1>1 DEF Arrivals
        <4>4. QED
          BY <1>1, <4>1, <4>2, <4>3 DEF InputTypes
      <3>2. 0 \in 0 .. a
        BY <1>3
      <3> HIDE DEF period
      <3>3. QED
        BY <1>1, <1>6, <3>1, <3>2, FrontsAre
    <2>2. <<>> \o Fronts(arrivalQueue, period, 0) = Fronts(arrivalQueue, period, 0)
      BY <2>1, ConcatEmptySeq
    <2>3. QED
      BY <1>4, <2>2 DEF FlushTimer
  <1>11. arrivalQueue' = Remaining(arrivalQueue, 0)
    <2>1. Remaining(arrivalQueue, 0) = SubSeq(arrivalQueue, a + 1, a)
      BY <1>3 DEF Remaining
    <2> HIDE DEF a
    <2>2. SubSeq(arrivalQueue, a + 1, a) = <<>>
      BY <1>3, SubSeqEmpty
    <2>3. QED
      BY <2>1, <2>2 DEF FlushTimer
  <1>12. Ids(imuOut) \subseteq 1 .. Len(imuIn) /\ 0 \in 0 .. Len(arrivalQueue) /\ a <= Lookahead + 1
    BY <1>1, <1>3, OldIds
  <1> HIDE DEF period
  <1>13. /\ EachOnce' /\ BurstBounded' /\ Arrivals'
         /\ imuOut' \in Seq(OutMessages) /\ arrivalQueue' \in Seq(ArrivalMessages)
         /\ Len(arrivalQueue') = 0
         /\ Len(imuOut') + 0 = Len(imuOut) + a
    <2>1. Len(imuIn') = Len(imuIn)
      BY <1>2
    <2>2. QED
      BY <1>1, <1>3, <1>5, <1>6, <1>7, <1>8, <1>9, <1>10, <1>11, <1>12, <2>1, ArrivalsLeave
  <1>14. QueueTypes'
    <2>1. Len(imuOut') \in Nat
      BY <1>13, LenProperties
    <2>2. Len(imuOut') + Len(p1Queue') + Len(arrivalQueue') = Len(imuIn')
      <3>1. Len(p1Queue') = Len(p1Queue) /\ Len(imuIn') = Len(imuIn)
        BY <1>2, <1>5
      <3> DEFINE o == Len(imuOut)  o2 == Len(imuOut')  w == Len(p1Queue)  l == Len(imuIn)
                 w2 == Len(p1Queue')  a2 == Len(arrivalQueue')  l2 == Len(imuIn')
      <3>2. /\ o \in Nat /\ o2 \in Nat /\ w \in Nat /\ a \in Nat /\ l \in Nat
            /\ o + w + a = l /\ o2 + 0 = o + a /\ a2 = 0 /\ w2 = w /\ l2 = l
        BY <1>1, <1>3, <1>13, <2>1, <3>1
      <3> HIDE DEF o, o2, w, a, l, w2, a2, l2
      <3>3. o2 + w2 + a2 = l2
        BY ONLY <3>2
      <3>4. QED
        BY <3>3 DEF o2, w2, a2, l2
    <2>3. Len(arrivalQueue') <= Lookahead
      BY <1>3, <1>13
    <2>4. QED
      BY <1>1, <1>2, <1>5, <1>13, <2>2, <2>3 DEF QueueTypes
  <1>15. PeriodTypes' /\ StreamTypes'
    BY <1>2 DEF QueueInv, PeriodTypes, StreamTypes
  <1>16. QED
    BY <1>8, <1>13, <1>14, <1>15 DEF QueueInv

\* What no action of a part touches keeps its invariant.
LEMMA ClockKept ==
  ASSUME ClockInv, UNCHANGED clockVars
  PROVE  ClockInv'
  <1>1. ClockTypes'
    BY DEF ClockInv, ClockTypes, clockVars, GoodBins, GoodBin, Span
  <1>2. OdomOrder' /\ OdomNotEarly' /\ RtkSharesStamp'
    BY DEF ClockInv, OdomOrder, OdomNotEarly, RtkSharesStamp, clockVars
  <1>3. QED
    BY <1>1, <1>2 DEF ClockInv

\* The queues' part does not look at the timer.
LEMMA QueuesKept ==
  ASSUME QueueInv, quiet' \in BOOLEAN,
         UNCHANGED <<stream, bins, imuVars, p1Queue, arrivalQueue, imuOut>>
  PROVE  QueueInv'
  <1> USE DEF imuVars
  <1>1. InputTypes' /\ PeriodTypes' /\ StreamTypes' /\ QueueTypes'
    BY DEF QueueInv, InputTypes, PeriodTypes, StreamTypes, QueueTypes
  <1>2. EachOnce'
    BY DEF QueueInv, EachOnce
  <1>3. Arrivals' /\ BurstBounded'
    BY DEF QueueInv, Arrivals, BurstBounded
  <1>4. QED
    BY <1>1, <1>2, <1>3 DEF QueueInv

AdapterInv == ClockInv /\ QueueInv

\* The invariant of the adapter's callbacks is inductive: the clock's part,
\* which poseCallback changes, and the queues' part, which all of them change.
THEOREM AdapterInvariant == AdapterSpec => []AdapterInv
  <1>1. AdapterInit => AdapterInv
    BY ClockInit, QueueInit DEF AdapterInv
  <1>2. AdapterInv /\ [AdapterNext]_adapterVars => AdapterInv'
    <2> SUFFICES ASSUME ClockInv, QueueInv, [AdapterNext]_adapterVars
                 PROVE  ClockInv' /\ QueueInv'
      BY DEF AdapterInv
    <2>1. CASE ImuCallback
      <3>1. UNCHANGED clockVars
        BY <2>1 DEF ImuCallback
      <3>2. QED
        BY <2>1, <3>1, ClockKept, ImuOnQueues
    <2>2. CASE PoseCallback
      <3>1. ClockInv'
        BY <2>2, PoseOnClock
      <3>2. QED
        BY <2>2, <3>1, PoseOnQueues
    <2>3. CASE Silence
      <3>1. quiet' \in BOOLEAN /\ UNCHANGED <<stream, bins, imuVars, p1Queue, arrivalQueue, imuOut>>
            /\ UNCHANGED clockVars
        BY <2>3 DEF Silence, clockVars
      <3>2. QED
        BY <3>1, ClockKept, QueuesKept
    <2>4. CASE FlushTimer
      <3>1. UNCHANGED clockVars
        BY <2>4 DEF FlushTimer
      <3>2. QED
        BY <2>4, <3>1, ClockKept, TimerOnQueues
    <2>5. CASE UNCHANGED adapterVars
      <3>1. quiet' \in BOOLEAN /\ UNCHANGED <<stream, bins, imuVars, p1Queue, arrivalQueue, imuOut>>
            /\ UNCHANGED clockVars
        BY <2>5 DEF adapterVars, clockVars, QueueInv, StreamTypes
      <3>2. QED
        BY <3>1, ClockKept, QueuesKept
    <2>6. QED
      BY <2>1, <2>2, <2>3, <2>4, <2>5 DEF AdapterNext
  <1>3. QED
    BY <1>1, <1>2, PTL DEF AdapterSpec

\* Types in every state of the adapter node: no bin of P1ClockMapper overlaps
\* another, each has its centre inside, and the queues keep their bounds.
THEOREM AdapterTypeCorrect == AdapterSpec => []AdapterTypeOK
  <1>1. AdapterInv => AdapterTypeOK
    <2> SUFFICES ASSUME ClockInv, QueueInv PROVE AdapterTypeOK
      BY DEF AdapterInv
    <2>1. \A b \in bins : ((b.sum \div b.count) - firstP1) \div BinSize = b.index
      <3> TAKE b \in bins
      <3>1. b \in Bins /\ firstP1 \in Nat /\ lastPose.p1 \in Nat /\ GoodBin(b, firstP1, lastPose.p1)
        BY DEF ClockInv, ClockTypes, GoodBins
      <3>2. QED
        BY <3>1, CenterInBin
    <2>2. bins \subseteq Bins /\ \A a, b \in bins : a.index = b.index => a = b
      BY DEF ClockInv, ClockTypes, GoodBins
    <2>3. QED
      BY <2>1, <2>2 DEF AdapterTypeOK, ClockInv, ClockTypes, QueueInv, InputTypes, PeriodTypes,
                        StreamTypes, QueueTypes
  <1>2. QED
    BY <1>1, AdapterInvariant, PTL

\* imuCallback, poseCallback and flushTimerCallback together publish each IMU
\* message once, and in order on its path.
THEOREM PublishedOnce == AdapterSpec => []EachOnce
  <1>1. AdapterInv => EachOnce
    BY DEF AdapterInv, QueueInv
  <1>2. QED
    BY <1>1, AdapterInvariant, PTL

\* retimeArrivalStamps never pushes a stamp after its arrival nor further back
\* than the look-ahead's periods, whatever bursts and silences come.
THEOREM BurstStaysBounded == AdapterSpec => []BurstBounded
  <1>1. AdapterInv => BurstBounded
    BY DEF AdapterInv, QueueInv
  <1>2. QED
    BY <1>1, AdapterInvariant, PTL

\* toRos, in poseCallback, never stamps the odometry further after its arrival
\* than the drift it ignores.
THEOREM OdomNeverEarly == AdapterSpec => []OdomNotEarly
  <1>1. AdapterInv => OdomNotEarly
    BY DEF AdapterInv, ClockInv
  <1>2. QED
    BY <1>1, AdapterInvariant, PTL

\* monotonicStamp never moves the RTK-fixed odometry away from its original.
THEOREM RtkAlwaysShares == AdapterSpec => []RtkSharesStamp
  <1>1. AdapterInv => RtkSharesStamp
    BY DEF AdapterInv, ClockInv
  <1>2. QED
    BY <1>1, AdapterInvariant, PTL
=============================================================================
