----------------------------- MODULE GlimStages -----------------------------
(***************************************************************************)
(* GLIM's pipeline: the node that feeds it, the odometry thread of         *)
(* AsyncOdometryEstimation, the thread of AsyncSubMapping, and the         *)
(* shutdown sequence of GlimROS::wait.  IMU samples and frames are         *)
(* numbered in the order the node accepts them; frame f needs the IMU data *)
(* up to sample f.  A queue operation is one step (its mutex), a thread's  *)
(* work between two of them is one step.                                   *)
(***************************************************************************)
EXTENDS Integers, SequencesExt

CONSTANTS
  Feeder,       \* the thread that inserts the sensor data and later waits
  Pumps,        \* threads that run timer_callback: the feeder, and in the
                \* offline players also the live input thread
  Lag,          \* smoother_lag, in frames
  MaxKeyframes, \* max_num_keyframes of sub mapping
  MaxImu,       \* bound: IMU samples
  MaxFrames     \* bound: frames

ASSUME FeederAssumption == Feeder \in Pumps
ASSUME SizeAssumption == Lag \in Nat \ {0} /\ MaxKeyframes \in Nat \ {0}
ASSUME BoundAssumption == MaxImu \in Nat /\ MaxFrames \in Nat

VARIABLES
  phase,    \* how far the feeder has come in GlimROS::wait
  frames,   \* frames inserted so far
  skipped,  \* frames used up by the initial state estimation
  imu,      \* last IMU sample pushed, drained by the thread, and estimated
  frameQ,   \* odometry: input_frame_queue
  raw,      \* odometry: raw_frames
  ready,    \* odometry: init_estimation has finished
  active,   \* odometry: frames not yet marginalized
  outMarg,  \* odometry: output_marginalized_frames
  opc,      \* odometry thread
  hand,     \* per pump: marginalized frames taken and not yet inserted
  maps,     \* per pump: submaps taken and not yet inserted
  ppc,      \* per pump: where it stands in timer_callback
  subQ,     \* sub mapping: input_frame_queue
  subImu,   \* sub mapping: IMU data queued, and drained in this round
  batch,    \* sub mapping: odom_frames of this round
  delayed,  \* sub mapping: delayed_input_queue
  current,  \* sub mapping: frames of the submap under construction
  keys,     \* sub mapping: its number of keyframes
  built,    \* sub mapping: submap_queue
  outSub,   \* sub mapping: output_submap_queue
  spc,      \* sub mapping thread
  eos,      \* stages whose end_of_sequence is set
  delivered \* submaps inserted into global mapping

feedVars == <<phase, frames, skipped>>
odomVars == <<imu, frameQ, raw, ready, active, outMarg, opc>>
pumpVars == <<hand, maps, ppc>>
subVars == <<subQ, subImu, batch, delayed, current, keys, built, outSub, spc>>
vars == <<feedVars, odomVars, pumpVars, subVars, eos, delivered>>

Phases == {"feed", "stop", "join_odom", "join_sub", "done"}
OdomPlaces == {"imu", "frames", "test", "estimate", "ended"}
PumpPlaces == {"idle", "insert", "submaps", "deliver"}
SubPlaces == {"submaps", "imu", "frames", "test", "insert", "ended"}

Elems(s) == {s[i] : i \in DOMAIN s}

Init ==
  /\ phase = "feed" /\ frames = 0 /\ skipped = {}
  /\ imu = [pushed |-> 0, drained |-> 0, seen |-> 0]
  /\ frameQ = <<>> /\ raw = <<>> /\ ready = FALSE /\ active = <<>>
  /\ outMarg = <<>> /\ opc = "imu"
  /\ hand = [p \in Pumps |-> <<>>] /\ maps = [p \in Pumps |-> <<>>]
  /\ ppc = [p \in Pumps |-> "idle"]
  /\ subQ = <<>> /\ subImu = [queued |-> FALSE, drained |-> FALSE]
  /\ batch = <<>> /\ delayed = <<>> /\ current = <<>> /\ keys = 0
  /\ built = <<>> /\ outSub = <<>> /\ spc = "submaps"
  /\ eos = {} /\ delivered = <<>>

-----------------------------------------------------------------------------
(* The node: imu_callback, points_callback and timer_callback.             *)

Feeding == phase = "feed" /\ ppc[Feeder] = "idle"

InsertImu ==
  /\ Feeding /\ imu.pushed < MaxImu
  /\ imu' = [imu EXCEPT !.pushed = @ + 1]
  /\ subImu' = [subImu EXCEPT !.queued = TRUE]
  /\ UNCHANGED <<feedVars, frameQ, raw, ready, active, outMarg, opc, pumpVars,
                 subQ, batch, delayed, current, keys, built, outSub, spc, eos, delivered>>

InsertFrame ==
  /\ Feeding /\ frames < MaxFrames
  /\ frames' = frames + 1
  /\ frameQ' = Append(frameQ, frames + 1)
  /\ UNCHANGED <<phase, skipped, imu, raw, ready, active, outMarg, opc,
                 pumpVars, subVars, eos, delivered>>

\* odometry_estimation->get_results
TakeResults(p) ==
  /\ ppc[p] = "idle"
  /\ hand' = [hand EXCEPT ![p] = outMarg] /\ outMarg' = <<>>
  /\ ppc' = [ppc EXCEPT ![p] = "insert"]
  /\ UNCHANGED <<imu, frameQ, raw, ready, active, opc>>

\* sub_mapping->insert_frame, once per frame
InsertMarginalized(p) ==
  /\ ppc[p] = "insert"
  /\ IF hand[p] = <<>>
       THEN ppc' = [ppc EXCEPT ![p] = "submaps"] /\ UNCHANGED <<subQ, hand>>
       ELSE /\ subQ' = Append(subQ, Head(hand[p]))
            /\ hand' = [hand EXCEPT ![p] = Tail(@)] /\ UNCHANGED ppc
  /\ UNCHANGED <<feedVars, odomVars, maps, subImu, batch, delayed, current, keys,
                 built, outSub, spc, eos, delivered>>

\* sub_mapping->get_results
TakeSubmaps(p) ==
  /\ ppc[p] = "submaps"
  /\ maps' = [maps EXCEPT ![p] = outSub] /\ outSub' = <<>>
  /\ ppc' = [ppc EXCEPT ![p] = "deliver"]
  /\ UNCHANGED <<hand, subQ, subImu, batch, delayed, current, keys, built, spc>>

\* global_mapping->insert_submap, once per submap
DeliverSubmap(p) ==
  /\ ppc[p] = "deliver"
  /\ IF maps[p] = <<>>
       THEN ppc' = [ppc EXCEPT ![p] = "idle"] /\ UNCHANGED <<maps, delivered>>
       ELSE /\ delivered' = Append(delivered, Head(maps[p]))
            /\ maps' = [maps EXCEPT ![p] = Tail(@)] /\ UNCHANGED ppc
  /\ UNCHANGED <<feedVars, odomVars, hand, subVars, eos>>

TimerCallback(p) ==
  \/ /\ phase = "feed" /\ TakeResults(p)
     /\ UNCHANGED <<feedVars, maps, subVars, eos, delivered>>
  \/ InsertMarginalized(p)
  \/ /\ phase \in {"feed", "stop"} /\ TakeSubmaps(p)
     /\ UNCHANGED <<feedVars, odomVars, eos, delivered>>
  \/ DeliverSubmap(p)

-----------------------------------------------------------------------------
(* GlimROS::wait.                                                          *)

\* stop_live_input: the live input thread is told to stop and joined.
Stop ==
  /\ Feeding /\ phase' = "stop"
  /\ UNCHANGED <<frames, skipped, odomVars, pumpVars, subVars, eos, delivered>>

JoinOdometry ==
  /\ phase = "stop" /\ \A p \in Pumps : ppc[p] = "idle"
  /\ phase' = "join_odom" /\ eos' = eos \cup {"odom"}
  /\ UNCHANGED <<frames, skipped, odomVars, pumpVars, subVars, delivered>>

HandOverRemaining ==
  /\ phase = "join_odom" /\ opc = "ended" /\ TakeResults(Feeder)
  /\ UNCHANGED <<feedVars, maps, subVars, eos, delivered>>

JoinSubMapping ==
  /\ phase = "join_odom" /\ ppc[Feeder] = "submaps"
  /\ phase' = "join_sub" /\ eos' = eos \cup {"sub"}
  /\ UNCHANGED <<frames, skipped, odomVars, pumpVars, subVars, delivered>>

TakeLastSubmaps ==
  /\ phase = "join_sub" /\ spc = "ended" /\ TakeSubmaps(Feeder)
  /\ UNCHANGED <<feedVars, odomVars, eos, delivered>>

JoinGlobalMapping ==
  /\ phase = "join_sub" /\ spc = "ended" /\ ppc[Feeder] = "idle"
  /\ phase' = "done" /\ eos' = eos \cup {"global"}
  /\ UNCHANGED <<frames, skipped, odomVars, pumpVars, subVars, delivered>>

Wait ==
  JoinOdometry \/ HandOverRemaining \/ JoinSubMapping \/ TakeLastSubmaps \/ JoinGlobalMapping

-----------------------------------------------------------------------------
(* AsyncOdometryEstimation::run.                                           *)

DrainImu ==
  /\ opc = "imu" /\ opc' = "frames"
  /\ imu' = [imu EXCEPT !.drained = imu.pushed]
  /\ UNCHANGED <<feedVars, frameQ, raw, ready, active, outMarg, pumpVars,
                 subVars, eos, delivered>>

\* Mutant: a drain replaces what was waiting.
DrainReplaces ==
  /\ opc = "frames" /\ opc' = "test"
  /\ raw' = frameQ /\ frameQ' = <<>>
  /\ UNCHANGED <<feedVars, imu, ready, active, outMarg, pumpVars, subVars, eos,
                 delivered>>

DrainFrames ==
  /\ opc = "frames" /\ opc' = "test"
  /\ raw' = raw \o frameQ /\ frameQ' = <<>>
  /\ UNCHANGED <<feedVars, imu, ready, active, outMarg, pumpVars, subVars, eos,
                 delivered>>

\* Nothing drained and nothing held back: sleep, or at the end of the
\* sequence leave the loop and hand over the frames still in the smoother.
\* Otherwise the estimator gets the IMU data.
TestOdometry ==
  /\ opc = "test"
  /\ LET idle == imu.drained = imu.seen /\ raw = <<>> IN
     \/ /\ idle /\ "odom" \notin eos /\ opc' = "imu"
        /\ UNCHANGED <<imu, outMarg, active>>
     \/ /\ idle /\ "odom" \in eos /\ opc' = "ended"
        /\ outMarg' = outMarg \o active /\ active' = <<>>
        /\ UNCHANGED imu
     \/ /\ ~idle /\ opc' = "estimate"
        /\ imu' = [imu EXCEPT !.seen = imu.drained]
        /\ UNCHANGED <<outMarg, active>>
  /\ UNCHANGED <<feedVars, frameQ, raw, ready, pumpVars, subVars, eos, delivered>>

\* OdometryEstimationIMU::insert_frame: the initial state estimation may want
\* more frames; then the frames older than the lag are marginalized.
Estimate(f) ==
  \/ /\ ~ready /\ skipped' = skipped \cup {f}
     /\ UNCHANGED <<ready, active, outMarg>>
  \/ /\ ready' = TRUE /\ UNCHANGED skipped
     /\ LET all == Append(active, f)
            IsOld(i) == ready /\ f - all[i] >= Lag
        IN \E n \in 0 .. Len(active) :
             /\ (\A i \in 1 .. n : IsOld(i)) /\ ~IsOld(n + 1)
             /\ active' = SubSeq(all, n + 1, Len(all))
             /\ outMarg' = outMarg \o SubSeq(all, 1, n)

\* Mutant: off by one.
HeldForOneMore(f) == "odom" \notin eos /\ f >= imu.seen

\* Mutant: the end of the sequence releases nothing.
HeldAtTheEnd(f) == f > imu.seen

\* Before the end of the sequence a frame waits for the IMU data of its sweep.
Held(f) == "odom" \notin eos /\ f > imu.seen

\* One turn of the loop over raw_frames, which a frame held back ends.
InsertRawFrame ==
  /\ opc = "estimate"
  /\ IF raw = <<>> \/ Held(Head(raw))
       THEN opc' = "imu" /\ UNCHANGED <<raw, ready, active, outMarg, skipped>>
       ELSE LET f == Head(raw) IN
            /\ raw' = Tail(raw) /\ Estimate(f)
            /\ UNCHANGED opc
  /\ UNCHANGED <<phase, frames, imu, frameQ, pumpVars, subVars, eos, delivered>>

Odometry == DrainImu \/ DrainFrames \/ TestOdometry \/ InsertRawFrame

-----------------------------------------------------------------------------
(* AsyncSubMapping::run.                                                   *)

\* sub_mapping->get_submaps, then output_submap_queue.insert
PublishSubmaps ==
  /\ spc = "submaps" /\ spc' = "imu"
  /\ outSub' = outSub \o built /\ built' = <<>>
  /\ UNCHANGED <<feedVars, odomVars, pumpVars, subQ, subImu, batch, delayed, current,
                 keys, eos, delivered>>

DrainSubImu ==
  /\ spc = "imu" /\ spc' = "frames"
  /\ subImu' = [queued |-> FALSE, drained |-> subImu.queued]
  /\ UNCHANGED <<feedVars, odomVars, pumpVars, subQ, batch, delayed, current, keys,
                 built, outSub, eos, delivered>>

DrainSubFrames ==
  /\ spc = "frames" /\ spc' = "test"
  /\ batch' = subQ /\ subQ' = <<>>
  /\ UNCHANGED <<feedVars, odomVars, pumpVars, subImu, delayed, current, keys, built,
                 outSub, eos, delivered>>

\* Mutant: the submap in progress is not submitted.
NoLastSubmap == UNCHANGED outSub

\* submit_end_of_sequence makes a last submap of the frames collected, without
\* the frame in delayed_input_queue.
LastSubmap == outSub' = IF current = <<>> THEN outSub ELSE Append(outSub, current)

TestSubMapping ==
  /\ spc = "test"
  /\ LET idle == ~subImu.drained /\ batch = <<>> IN
     \/ idle /\ "sub" \notin eos /\ spc' = "submaps" /\ UNCHANGED outSub
     \/ idle /\ "sub" \in eos /\ spc' = "ended" /\ LastSubmap
     \/ ~idle /\ spc' = "insert" /\ UNCHANGED outSub
  /\ UNCHANGED <<feedVars, odomVars, pumpVars, subQ, subImu, batch, delayed, current,
                 keys, built, eos, delivered>>

\* SubMapping::insert_frame works on a frame when the next one has come; the
\* first frame of a submap is a keyframe, another may be.
Build(f) ==
  \E key \in BOOLEAN :
    /\ current = <<>> => key
    /\ LET n == keys + (IF key THEN 1 ELSE 0)
           whole == Append(current, f)
       IN IF n >= MaxKeyframes
            THEN current' = <<>> /\ keys' = 0 /\ built' = Append(built, whole)
            ELSE current' = whole /\ keys' = n /\ UNCHANGED built

\* Mutant: the frame stays in its batch.
InsertAndKeep ==
  /\ spc = "insert"
  /\ IF batch = <<>>
       THEN spc' = "submaps" /\ UNCHANGED <<batch, delayed, current, keys, built>>
       ELSE /\ batch' = Tail(batch) /\ delayed' = Append(delayed, Head(batch))
            /\ UNCHANGED spc
            /\ IF delayed = <<>> THEN UNCHANGED <<current, keys, built>>
                                 ELSE Build(Head(delayed))
  /\ UNCHANGED <<feedVars, odomVars, pumpVars, subQ, subImu, outSub, eos, delivered>>

InsertSubFrame ==
  /\ spc = "insert"
  /\ IF batch = <<>>
       THEN spc' = "submaps" /\ UNCHANGED <<batch, delayed, current, keys, built>>
       ELSE /\ batch' = Tail(batch) /\ UNCHANGED spc
            /\ delayed' = <<Head(batch)>>
            /\ IF delayed = <<>> THEN UNCHANGED <<current, keys, built>>
                                 ELSE Build(Head(delayed))
  /\ UNCHANGED <<feedVars, odomVars, pumpVars, subQ, subImu, outSub, eos, delivered>>

SubMapping == PublishSubmaps \/ DrainSubImu \/ DrainSubFrames \/ TestSubMapping \/ InsertSubFrame

-----------------------------------------------------------------------------
Next ==
  \/ InsertImu \/ InsertFrame \/ (\E p \in Pumps : TimerCallback(p))
  \/ Stop \/ Wait \/ Odometry \/ SubMapping

\* Every thread that has a step to take is scheduled; the sensors and the
\* user's stop need not come.
Fairness ==
  /\ WF_vars(Odometry) /\ WF_vars(SubMapping) /\ WF_vars(Wait)
  /\ \A p \in Pumps : WF_vars(TimerCallback(p))

Spec == Init /\ [][Next]_vars /\ Fairness

-----------------------------------------------------------------------------
Frames == 1 .. MaxFrames
Submaps == Seq(Frames)

TypeOK ==
  /\ phase \in Phases /\ frames \in 0 .. MaxFrames /\ skipped \subseteq Frames
  /\ imu \in [pushed : 0 .. MaxImu, drained : 0 .. MaxImu, seen : 0 .. MaxImu]
  /\ imu.seen <= imu.drained /\ imu.drained <= imu.pushed
  /\ {frameQ, raw, active, outMarg, subQ, batch, delayed, current} \subseteq Seq(Frames)
  /\ ready \in BOOLEAN /\ opc \in OdomPlaces
  /\ hand \in [Pumps -> Seq(Frames)] /\ maps \in [Pumps -> Seq(Submaps)]
  /\ ppc \in [Pumps -> PumpPlaces]
  /\ subImu \in [queued : BOOLEAN, drained : BOOLEAN]
  /\ Len(delayed) <= 1 /\ keys \in 0 .. MaxKeyframes - 1
  /\ {built, outSub, delivered} \subseteq Seq(Submaps) /\ spc \in SubPlaces
  /\ eos \subseteq {"odom", "sub", "global"}

\* The frames under way, from the farthest to the one inserted last.
UnderWay ==
  FlattenSeq(delivered \o maps[Feeder] \o outSub \o built)
    \o (IF spc = "ended" THEN <<>> ELSE current) \o delayed \o batch \o subQ
    \o hand[Feeder] \o outMarg \o active \o raw \o frameQ

(***************************************************************************)
(* Through five queues and three threads no frame is lost, none is         *)
(* duplicated and none overtakes another: the frames under way are all     *)
(* those the initial state estimation has not used up, in order.  (What    *)
(* the shutdown leaves behind stays where it was.)                         *)
(***************************************************************************)
ConservedInOrder ==
  Pumps = {Feeder} =>
    /\ \A i, j \in DOMAIN UnderWay : i < j => UnderWay[i] < UnderWay[j]
    /\ Elems(UnderWay) = (1 .. frames) \ skipped

(***************************************************************************)
(* When wait() returns, everything is in global mapping but what sits in   *)
(* the two input queues whose thread has stopped, and the last frame sub   *)
(* mapping saw: no frame is caught between two stages.                     *)
(***************************************************************************)
ShutdownHandsOver ==
  (phase = "done") =>
    /\ raw = <<>> /\ active = <<>> /\ outMarg = <<>> /\ batch = <<>>
    /\ built = <<>> /\ outSub = <<>>
    /\ \A p \in Pumps : hand[p] = <<>> /\ maps[p] = <<>>
    /\ current # <<>> => delivered # <<>> /\ Last(delivered) = current

(***************************************************************************)
(* A frame whose IMU data has come reaches the estimator, whatever the     *)
(* order in which the two were queued, unless the thread has ended.        *)
(***************************************************************************)
FrameIsEstimated ==
  \A f \in Frames :
    (f <= frames /\ f <= imu.pushed) ~> (f \notin Elems(frameQ \o raw) \/ opc = "ended")

(***************************************************************************)
(* wait() returns: the end of the sequence releases a frame held back for  *)
(* IMU data that will never come, and each thread then ends.               *)
(***************************************************************************)
WaitReturns == (phase # "feed") ~> (phase = "done")
=============================================================================
