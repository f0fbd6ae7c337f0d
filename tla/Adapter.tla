------------------------------ MODULE Adapter ------------------------------
(***************************************************************************)
(* The time path of the Atlas adapter: poses teach P1ClockMapper the lag   *)
(* between Point One time and ROS time, IMU messages with a P1 time (their *)
(* own or the sidecar's) wait for that clock, the others are retimed       *)
(* behind a look-ahead, and every output topic has monotonic stamps.       *)
(* core_mutex_ makes each callback one step.  A tick of the inputs is      *)
(* Unit time units, a monotonic bump (1e-6 s) is one.                      *)
(***************************************************************************)
EXTENDS Integers, Sequences, FiniteSets

CONSTANTS
  Streams,    \* the runs' inputs: [p1 |-> stamps are P1 times, sidecar |-> its samples]
  Gaps,       \* distances of consecutive IMU stamps
  PoseGaps,   \* distances of consecutive P1 pose times
  Lags,       \* arrival lags of poses
  Unit,       \* time units per tick
  Period,     \* nominal_imu_period_sec
  Lookahead,  \* imu_arrival_retime_lookahead
  Tolerance,  \* imu_p1_sidecar_match_tolerance_sec
  BinSize,    \* p1_clock_bin_seconds
  DriftTol,   \* toRos: 0.005
  MaxImu,     \* bound: IMU messages
  MaxPose     \* bound: poses

ASSUME StreamAssumption ==
  Streams \subseteq [p1 : BOOLEAN, sidecar : Seq([capture : Nat, p1 : Nat])]
ASSUME TimeAssumption ==
  /\ Unit \in Nat \ {0} /\ Period \in Nat \ {0} /\ BinSize \in Nat \ {0}
  /\ Lookahead \in Nat /\ Tolerance \in Nat /\ DriftTol \in Nat
ASSUME InputAssumption ==
  /\ Gaps \subseteq Nat /\ PoseGaps \subseteq Nat \ {0} /\ Lags \subseteq Nat
  /\ MaxImu \in Nat /\ MaxPose \in Nat

VARIABLES
  stream,       \* what this run is fed
  bins,         \* P1ClockMapper: bins_ with poses in them
  firstP1,      \* P1ClockMapper: first_p1_
  lastPose,     \* the newest pose: [p1, arrival]
  cursor,       \* imu_p1_sidecar_index_
  p1Queue,      \* p1_imu_queue_
  arrivalQueue, \* arrival_imu_queue_
  lastArrival,  \* last_imu_arrival_
  periods,      \* imu_period_samples_
  quiet,        \* imu_flush_timeout_sec_ has passed since the last IMU message
  imuIn,        \* stamps of the IMU messages received
  imuOut,       \* IMU messages published
  odomOut,      \* odometry published
  rtkOut        \* RTK-fixed odometry published

clockVars == <<bins, firstP1, lastPose, odomOut, rtkOut>>
imuVars == <<cursor, lastArrival, periods, imuIn>>
adapterVars == <<stream, clockVars, imuVars, p1Queue, arrivalQueue, quiet, imuOut>>

None == 0
Elems(s) == {s[i] : i \in DOMAIN s}
Lesser(a, b) == IF a < b THEN a ELSE b
Abs(n) == IF n < 0 THEN -n ELSE n

\* std::nth_element at size / 2: the upper median.
UpperMedian(s) ==
  LET mid == Cardinality(DOMAIN s) \div 2 IN
  CHOOSE v \in Elems(s) :
    /\ Cardinality({i \in DOMAIN s : s[i] < v}) <= mid
    /\ mid < Cardinality({i \in DOMAIN s : s[i] <= v})

AdapterInit ==
  /\ stream \in Streams
  /\ bins = {} /\ firstP1 = None /\ lastPose = [p1 |-> 0, arrival |-> 0]
  /\ cursor = 1 /\ p1Queue = <<>> /\ arrivalQueue = <<>>
  /\ lastArrival = None /\ periods = <<>> /\ quiet = FALSE /\ imuIn = <<>>
  /\ imuOut = <<>> /\ odomOut = <<>> /\ rtkOut = <<>>

-----------------------------------------------------------------------------
(* P1ClockMapper.  A bin is [index, count, sum, lag].                      *)

\* Mutant: a bin keeps its largest lag.
WithMaxLag(bs, first, arrival, p1) ==
  LET index == (p1 - first) \div BinSize
      old == {b \in bs : b.index = index}
      lag == arrival - p1
  IN IF old = {} THEN bs \cup {[index |-> index, count |-> 1, sum |-> p1, lag |-> lag]}
     ELSE (bs \ old) \cup {[index |-> b.index, count |-> b.count + 1, sum |-> b.sum + p1,
                            lag |-> IF b.lag < lag THEN lag ELSE b.lag] : b \in old}

\* addPosePair: a pose older than the first one is ignored.
AddPosePair(bs, first, arrival, p1) ==
  LET index == (p1 - first) \div BinSize
      old == {b \in bs : b.index = index}
      lag == arrival - p1
  IN IF p1 < first THEN bs
     ELSE IF old = {} THEN bs \cup {[index |-> index, count |-> 1, sum |-> p1, lag |-> lag]}
     ELSE (bs \ old) \cup {[index |-> b.index, count |-> b.count + 1, sum |-> b.sum + p1,
                            lag |-> Lesser(b.lag, lag)] : b \in old}

Ready(bs) == bs # {}

Center(b) == (Unit * b.sum) \div b.count

\* offsetDrift < 0.005
NoDrift(bs) == \A a, b \in bs : Unit * (a.lag - b.lag) < DriftTol

\* toRos, in time units: the median lag, or the lag between two bins.
ToRos(bs, p1) ==
  LET t == Unit * p1
      after == {b \in bs : t <= Center(b)}
      next == CHOOSE b \in after : \A c \in after : b.index <= c.index
      before == {b \in bs : b.index < next.index}
      prev == CHOOSE b \in before : \A c \in before : c.index <= b.index
      newest == CHOOSE b \in bs : \A c \in bs : c.index <= b.index
  IN IF bs = {} THEN t
     ELSE IF NoDrift(bs) THEN t + Unit * UpperMedian([b \in bs |-> b.lag])
     ELSE IF after = {} THEN t + Unit * newest.lag
     ELSE IF before = {} THEN t + Unit * next.lag
     ELSE t + Unit * prev.lag
            + (Unit * (next.lag - prev.lag) * (t - Center(prev)))
                \div (Center(next) - Center(prev))

-----------------------------------------------------------------------------
(* Stamps and publishing.                                                  *)

\* last_stamp_by_topic_: the stamp a topic's newest message has.
LastStampOf(out) == IF out = <<>> THEN None ELSE out[Len(out)].stamp

\* Mutant: the odometry takes the stamp it is given.
Unchecked(out, stamp) == stamp

\* monotonicStamp, after the stamp last
Monotonic(last, stamp) == IF last > 0 /\ stamp <= last THEN last + 1 ELSE stamp

\* The stamp of the odometry
OdomStamp(out, stamp) == Monotonic(LastStampOf(out), stamp)

\* publishImu for each of these messages, front first.
PublishImu(msgs) ==
  LET stamp[i \in 0 .. Len(msgs)] ==
        IF i = 0 THEN LastStampOf(imuOut) ELSE Monotonic(stamp[i - 1], msgs[i].stamp)
  IN imuOut' = imuOut \o [i \in 1 .. Len(msgs) |-> [msgs[i] EXCEPT !.stamp = stamp[i]]]

\* Mutant: nothing is ever flushed.
NothingFlushed(bs, queue) == <<>>

\* What flushP1ImuQueue publishes of a queue: nothing before the first pose.
FlushedP1(bs, queue) ==
  IF Ready(bs)
  THEN [i \in 1 .. Len(queue) |->
          [id |-> queue[i].id, path |-> "p1", stamp |-> ToRos(bs, queue[i].p1)]]
  ELSE <<>>

LeftP1(bs, queue) == SubSeq(queue, Len(FlushedP1(bs, queue)) + 1, Len(queue))

-----------------------------------------------------------------------------
(* The arrival path.                                                       *)

ImuPeriod(ps) == IF ps = <<>> THEN Unit * Period ELSE Unit * UpperMedian(ps)

\* updateImuPeriod
PeriodSamples(arrival) ==
  LET dt == arrival - lastArrival
  IN IF lastArrival > 0 /\ 2 * dt > Period /\ 2 * dt < 3 * Period
     THEN Append(periods, dt) ELSE periods

\* Mutant: stamps pushed forward, each a period after the one before it.
RetimeForward(queue, period) ==
  LET stamp[i \in 1 .. Len(queue)] ==
        IF i = 1 THEN Unit * queue[1].arrival
        ELSE LET floor == stamp[i - 1] + period
             IN IF Unit * queue[i].arrival < floor THEN floor ELSE Unit * queue[i].arrival
  IN stamp[Len(queue)]

\* retimeArrivalStamps, the front's: it is a period before the next stamp at
\* the latest.
Retime(queue, period) ==
  LET stamp[k \in 0 .. Len(queue) - 1] ==   \* with k messages behind it
        LET arrival == Unit * queue[Len(queue) - k].arrival IN
        IF k = 0 THEN arrival ELSE Lesser(arrival, stamp[k - 1] - period)
  IN stamp[Len(queue) - 1]

\* publishFrontArrivalRetimedImu, repeated until n messages are left.
Fronts(queue, period, n) ==
  [i \in 1 .. Len(queue) - n |->
     [id |-> queue[i].id, path |-> "arrival",
      stamp |-> Retime(SubSeq(queue, i, Len(queue)), period)]]

\* Mutant: what was published stays queued.
AllOfThem(queue, n) == queue

\* What that loop leaves
Remaining(queue, n) == SubSeq(queue, Len(queue) - n + 1, Len(queue))

-----------------------------------------------------------------------------
(* imuCallback.                                                            *)

\* lookupSidecarP1: skip what is too old, then the nearest of the entries
\* around the cursor, the one before it included.
Skipped(capture) ==
  CHOOSE c \in cursor .. Len(stream.sidecar) + 1 :
    /\ \A i \in cursor .. c - 1 : stream.sidecar[i].capture < capture - Tolerance
    /\ c <= Len(stream.sidecar) => stream.sidecar[c].capture >= capture - Tolerance

Candidates(capture) ==
  {i \in DOMAIN stream.sidecar :
     /\ i >= Skipped(capture) - 1 /\ i <= Skipped(capture) + 2
     /\ Abs(stream.sidecar[i].capture - capture) <= Tolerance}

Nearest(capture) ==
  LET Dist(i) == Abs(stream.sidecar[i].capture - capture) IN
  CHOOSE i \in Candidates(capture) :
    \A j \in Candidates(capture) : Dist(i) < Dist(j) \/ (Dist(i) = Dist(j) /\ i <= j)

Received(stamp) == imuIn' = Append(imuIn, stamp) /\ quiet' = FALSE

QueueP1(p1) ==
  LET queue == Append(p1Queue, [id |-> Len(imuIn) + 1, p1 |-> p1])
  IN p1Queue' = LeftP1(bins, queue) /\ PublishImu(FlushedP1(bins, queue))

SidecarHit(stamp) ==
  /\ stream.sidecar # <<>> /\ Candidates(stamp) # {}
  /\ cursor' = Nearest(stamp) + 1
  /\ QueueP1(stream.sidecar[Nearest(stamp)].p1)
  /\ UNCHANGED <<arrivalQueue, lastArrival, periods>>

\* Without a match the cursor has still moved.
Misses(stamp) ==
  /\ stream.sidecar = <<>> \/ Candidates(stamp) = {}
  /\ cursor' = IF stream.sidecar = <<>> THEN cursor ELSE Skipped(stamp)

ImuWithP1(stamp) ==
  /\ Misses(stamp) /\ stream.p1
  /\ QueueP1(stamp)
  /\ UNCHANGED <<arrivalQueue, lastArrival, periods>>

ImuWithArrival(stamp) ==
  /\ Misses(stamp) /\ ~stream.p1
  /\ periods' = PeriodSamples(stamp) /\ lastArrival' = stamp
  /\ LET queue == Append(arrivalQueue, [id |-> Len(imuIn) + 1, arrival |-> stamp])
         n == Lesser(Lookahead, Len(queue))
     IN /\ arrivalQueue' = Remaining(queue, n)
        /\ PublishImu(Fronts(queue, ImuPeriod(periods'), n))
  /\ UNCHANGED p1Queue

\* The driver's stamps go forward, or repeat in a burst; messages get lost.
ImuCallback ==
  /\ Len(imuIn) < MaxImu
  /\ \E gap \in Gaps :
       LET stamp == gap + (IF imuIn = <<>> THEN 1 ELSE imuIn[Len(imuIn)]) IN
       /\ Received(stamp)
       /\ SidecarHit(stamp) \/ ImuWithP1(stamp) \/ ImuWithArrival(stamp)
  /\ UNCHANGED <<stream, clockVars>>

-----------------------------------------------------------------------------
(* poseCallback and flushTimerCallback.                                    *)

\* poseCallback: the odometry, its RTK-fixed copy if the pose passes the
\* gate, then the IMU messages that waited for the clock.
PoseCallback ==
  /\ Len(odomOut) < MaxPose
  /\ \E gap \in PoseGaps, lag \in Lags, fixed \in BOOLEAN :
       LET p1 == lastPose.p1 + gap
           arrival == p1 + lag
           first == IF firstP1 = None THEN p1 ELSE firstP1
           bs == AddPosePair(bins, first, arrival, p1)
           stamp == OdomStamp(odomOut, ToRos(bs, p1))
       IN
       /\ arrival >= lastPose.arrival
       /\ bins' = bs /\ firstP1' = first /\ lastPose' = [p1 |-> p1, arrival |-> arrival]
       /\ odomOut' = Append(odomOut, [stamp |-> stamp, arrival |-> arrival])
       /\ rtkOut' = IF fixed
                    THEN Append(rtkOut, [stamp |-> Monotonic(LastStampOf(rtkOut), stamp), of |-> Len(odomOut) + 1])
                    ELSE rtkOut
       /\ p1Queue' = LeftP1(bs, p1Queue) /\ PublishImu(FlushedP1(bs, p1Queue))
  /\ UNCHANGED <<stream, imuVars, arrivalQueue, quiet>>

\* Wall time without an IMU message, where it matters
Silence ==
  /\ ~quiet /\ arrivalQueue # <<>> /\ quiet' = TRUE
  /\ UNCHANGED <<stream, clockVars, imuVars, p1Queue, arrivalQueue, imuOut>>

\* flushTimerCallback, once the silence is long enough: before, it only
\* flushes the P1 queue, which has nothing that could go.
FlushTimer ==
  /\ quiet
  /\ p1Queue' = LeftP1(bins, p1Queue) /\ arrivalQueue' = <<>>
  /\ PublishImu(FlushedP1(bins, p1Queue) \o Fronts(arrivalQueue, ImuPeriod(periods), 0))
  /\ UNCHANGED <<stream, clockVars, imuVars, quiet>>

AdapterNext == ImuCallback \/ PoseCallback \/ Silence \/ FlushTimer

\* The timer is periodic, and a stream that has stopped stays silent.
AdapterFairness == WF_adapterVars(Silence) /\ WF_adapterVars(FlushTimer)
AdapterSpec == AdapterInit /\ [][AdapterNext]_adapterVars /\ AdapterFairness

-----------------------------------------------------------------------------
(* Properties.                                                             *)

Bins == [index : Nat, count : 1 .. MaxPose, sum : Nat, lag : Lags]
P1Messages == [id : Nat, p1 : Nat]
ArrivalMessages == [id : Nat, arrival : Nat]
OutMessages == [id : Nat, path : {"p1", "arrival"}, stamp : Int]

\* Every variable has its type: bins do not overlap, a bin's centre lies in
\* it, at most Lookahead messages are held back, no IMU message waits for a
\* clock that is ready, and as many are received as wait or have left.
AdapterTypeOK ==
  /\ stream \in Streams /\ quiet \in BOOLEAN
  /\ bins \subseteq Bins /\ firstP1 \in Nat /\ lastPose \in [p1 : Nat, arrival : Nat]
  /\ \A a, b \in bins : a.index = b.index => a = b
  /\ \A b \in bins : ((b.sum \div b.count) - firstP1) \div BinSize = b.index
  /\ cursor \in 1 .. Len(stream.sidecar) + 1
  /\ p1Queue \in Seq(P1Messages) /\ (Ready(bins) => p1Queue = <<>>)
  /\ arrivalQueue \in Seq(ArrivalMessages) /\ Len(arrivalQueue) <= Lookahead
  /\ lastArrival \in Nat /\ periods \in Seq(Nat) /\ Len(periods) <= Len(imuIn)
  /\ imuIn \in Seq(Nat) /\ Len(imuIn) <= MaxImu
  /\ imuOut \in Seq(OutMessages)
  /\ Len(imuOut) + Len(p1Queue) + Len(arrivalQueue) = Len(imuIn)
  /\ odomOut \in Seq([stamp : Int, arrival : Nat]) /\ Len(odomOut) <= MaxPose
  /\ rtkOut \in Seq([stamp : Int, of : 1 .. Len(odomOut)])

Ids(queue) == {queue[i].id : i \in DOMAIN queue}
InOrder(queue) == \A i, j \in DOMAIN queue : i < j => queue[i].id < queue[j].id

\* What waits on a path and what left it are the messages received on it,
\* each once and in order; between the two paths the order may differ.
\* (imuCallback, flushP1ImuQueue, flushTimerCallback.)
EachOnce ==
  /\ Ids(imuOut) \cup Ids(p1Queue) \cup Ids(arrivalQueue) = 1 .. Len(imuIn)
  /\ Ids(imuOut) \cap (Ids(p1Queue) \cup Ids(arrivalQueue)) = {}
  /\ Ids(p1Queue) \cap Ids(arrivalQueue) = {}
  /\ \A i, j \in DOMAIN imuOut : i < j =>
       /\ imuOut[i].id # imuOut[j].id
       /\ imuOut[i].path = imuOut[j].path => imuOut[i].id < imuOut[j].id
  /\ InOrder(p1Queue) /\ InOrder(arrivalQueue)
  /\ \A i \in DOMAIN imuOut :
       LET queue == IF imuOut[i].path = "p1" THEN p1Queue ELSE arrivalQueue
       IN \A n \in Ids(queue) : imuOut[i].id < n

\* The burst retimer is bounded: a message that had only arrivals before it
\* gets a stamp at most Lookahead of the longest periods before its arrival
\* and, but for the bumps of monotonicStamp, never one after it.
BurstBounded ==
  \A i \in DOMAIN imuOut :
    (\A j \in 1 .. i : imuOut[j].path = "arrival") =>
      LET arrival == Unit * imuIn[imuOut[i].id] IN
      /\ imuOut[i].stamp <= arrival + imuOut[i].id
      /\ 2 * (arrival - imuOut[i].stamp) <= 3 * Unit * Period * Lookahead

\* Poses in P1 order never get a stamp later than their arrival by more than
\* the drift that toRos ignores, whatever bins and lags came before; a bump
\* counts for each of them.  (addPosePair, toRos, monotonicStamp.)
OdomNotEarly ==
  \A i \in DOMAIN odomOut : odomOut[i].stamp < Unit * odomOut[i].arrival + DriftTol + i

\* The RTK-fixed odometry has the stamp of the odometry it is a copy of:
\* its own monotonicStamp never moves it.  (poseCallback.)
RtkSharesStamp ==
  \A i \in DOMAIN rtkOut : rtkOut[i].stamp = odomOut[rtkOut[i].of].stamp

\* Once the stream stops and a first pose has come, as many IMU messages
\* have left as came: by EachOnce, all of them.  (flushTimerCallback,
\* poseCallback.)
AllPublished == []<>(Ready(bins) => Len(imuOut) = Len(imuIn))

=============================================================================
