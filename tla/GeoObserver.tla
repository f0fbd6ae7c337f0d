----------------------------- MODULE GeoObserver -----------------------------
(***************************************************************************)
(* The geometric observer of the localization node and the threads that    *)
(* share it.  The node runs under a multi-threaded executor: IMU callbacks *)
(* are in a reentrant group and may overlap each other; one scan callback  *)
(* and one initial-pose callback run beside them, and the first ground-    *)
(* truth message re-initialises the node from yet another thread.          *)
(*                                                                         *)
(* Poses and velocities are abstracted to their LINEAGE: the number of the *)
(* re-initialisation they descend from, of the oldest one when they were   *)
(* made of several.  The observer state also says which correction it      *)
(* contains and which IMU samples were integrated since.                   *)
(*                                                                         *)
(* A step ends where another thread can see or change shared data: at the  *)
(* acquisition of pose_mutex, mtx_imu and geo.mtx, and between the         *)
(* unlocked assignments of applyInitialPose and callbackPointCloud.        *)
(***************************************************************************)
EXTENDS Naturals, Sequences

CONSTANTS
  ImuThreads,     \* executor threads that may run callbackImu at once
  PoseSources,    \* callers of applyInitialPose: subset of {"initialpose", "gt_odom"}
  MinFailures,    \* gt_recovery/min_consecutive_failures
  MaxSample,      \* bound: IMU samples received
  MaxScan,        \* bound: scans received
  MaxReset        \* bound: calls of applyInitialPose after start-up

ASSUME ConstantsAssumption ==
  /\ PoseSources \subseteq {"initialpose", "gt_odom"}
  /\ MinFailures \in Nat
  /\ MaxSample \in Nat
  /\ MaxScan \in Nat
  /\ MaxReset \in Nat

None == [kind |-> "none", id |-> 0]
ScanStamp(n) == [kind |-> "scan", id |-> n]

PoseStamp(n) == [kind |-> "pose", id |-> n]

\* A zero velocity descends from no estimate: it is newer than all of them.
AtRest == MaxReset + 1

VARIABLES
  state,            \* state: [reset, fix, log], guarded by geo.mtx
  update_seq,       \* geo.update_seq
  first_opt_done,   \* geo.first_opt_done
  initialized,
  imu_meas,         \* newest IMU sample: [id, ok], ok: 0 < dt <= 1 s
  imu_calibrated,
  imu,              \* per thread: [pc, meas, read, seq] of callbackImu
  scan,             \* [pc, prior, dt, gt] of callbackPointCloud: T_prior, whether
                    \* observer_dt_ is usable, whether ground truth is near the scan
  reset,            \* per source: [pc, id] of applyInitialPose
  current_pose,     \* guarded by pose_mutex, but read without it by deskew
  basePose,         \* not guarded
  prev_vel,         \* velocity for the next integration; only scans touch it
  geo_prev_vel,     \* geo.prev_vel, guarded by geo.mtx
  scan_stamp, prev_scan_stamp, last_accepted_scan_stamp,
  consecutive_failures,
  samples,          \* history: how many IMU samples were received
  due,              \* history: those that have to count: with a usable dt, for a
                    \* seeded node, in a callback that overlaps no other
  scans,            \* history: how many scans were received
  resets,           \* history: how many re-initialisations were started
  overlapped,       \* history: some re-initialisation overlapped a callback
  crowded,          \* history: an IMU callback in progress has overlapped another
                    \* one or a re-initialisation
  old_vel           \* history: [kept, used, moved] of a velocity that an initial
                    \* pose left in prev_vel: whether it is still there, whether
                    \* T_prior was integrated from it, how many poses were

obsVars   == <<state, update_seq, first_opt_done>>
poseVars  == <<current_pose, basePose>>
stampVars == <<scan_stamp, prev_scan_stamp, last_accepted_scan_stamp>>
velVars   == <<prev_vel, geo_prev_vel>>
inVars    == <<imu_meas, samples, due>>
vars == <<obsVars, poseVars, stampVars, velVars, inVars, initialized, imu_calibrated,
          imu, scan, reset, consecutive_failures, scans, resets, overlapped, crowded,
          old_vel>>

Estimate(r, f, l) == [reset |-> r, fix |-> f, log |-> l]
IdleImu == [pc |-> "idle", meas |-> 0, read |-> Estimate(0, 0, <<>>), seq |-> 0]

\* performLocalization holds pose_mutex from alignment to the end of the snap.
PoseMutexFree == scan.pc \notin {"aligning", "accepted", "corrected", "rejected", "lost"}

Seeded == initialized /\ first_opt_done

Lesser(a, b) == IF a < b THEN a ELSE b

Resetting == \E s \in PoseSources : reset[s].pc # "idle"
ResettingTwice == \E s, r \in PoseSources : s # r /\ reset[s].pc # "idle" /\ reset[r].pc # "idle"
Propagating == \E t \in ImuThreads : imu[t].pc # "idle"
Crossing == \/ \E t, u \in ImuThreads : t # u /\ imu[t].pc # "idle" /\ imu[u].pc # "idle"
            \/ Propagating /\ Resetting
Working == scan.pc # "idle" \/ Propagating
Quiescent == ~Resetting /\ ~Working

\* History only: which callbacks have overlapped?
TrackOverlap ==
  /\ overlapped' = (overlapped \/ (Resetting' /\ (Working' \/ ResettingTwice')))
  /\ crowded' = (Propagating' /\ (crowded \/ Crossing'))

\* What each kind of callback leaves alone.
ImuKeeps == /\ UNCHANGED <<update_seq, first_opt_done, poseVars, stampVars, prev_vel,
                           initialized, scan, reset, consecutive_failures, scans, resets,
                           old_vel>>
            /\ TrackOverlap
ScanKeeps == /\ UNCHANGED <<inVars, initialized, imu_calibrated, imu, reset, resets>>
             /\ TrackOverlap
ResetKeeps == /\ UNCHANGED <<inVars, imu_calibrated, imu, scan, update_seq, prev_scan_stamp,
                             last_accepted_scan_stamp, prev_vel, consecutive_failures,
                             scans>>
              /\ TrackOverlap

-----------------------------------------------------------------------------
(* Start-up: the node is initialised by parameters, or waits for a pose.    *)

Init ==
  /\ state = Estimate(0, 0, <<>>)
  /\ update_seq = 0
  /\ first_opt_done = FALSE
  /\ initialized \in BOOLEAN
  /\ imu_meas = [id |-> 0, ok |-> FALSE]
  /\ imu_calibrated = FALSE
  /\ imu = [t \in ImuThreads |-> IdleImu]
  /\ scan = [pc |-> "idle", prior |-> 0, dt |-> FALSE, gt |-> FALSE]
  /\ reset = [s \in PoseSources |-> [pc |-> "idle", id |-> 0]]
  /\ current_pose = 0
  /\ basePose = 0
  /\ prev_vel = AtRest
  /\ geo_prev_vel = AtRest
  /\ scan_stamp = None
  /\ prev_scan_stamp = None
  /\ last_accepted_scan_stamp = None
  /\ consecutive_failures = 0
  /\ samples = 0
  /\ due = {}
  /\ scans = 0
  /\ resets = 0
  /\ overlapped = FALSE
  /\ crowded = FALSE
  /\ old_vel = [kept |-> FALSE, used |-> FALSE, moved |-> 0]

-----------------------------------------------------------------------------
(* callbackImu and propagateState *)

\* The sample enters the buffer and becomes imu_meas, under mtx_imu.
PushImu(t) ==
  /\ imu[t].pc = "idle"
  /\ samples < MaxSample
  /\ samples' = samples + 1
  /\ \E ok \in IF samples = 0 THEN {FALSE} ELSE BOOLEAN :
       /\ imu_meas' = [id |-> samples + 1, ok |-> ok]
       /\ due' = IF Propagating THEN due \ {samples}
                 ELSE IF ok /\ Seeded THEN due \cup {samples + 1} ELSE due
  /\ imu' = [imu EXCEPT ![t].pc = "pushed"]
  /\ UNCHANGED <<state, geo_prev_vel, imu_calibrated>>
  /\ ImuKeeps

\* tryRtkCalibrationStep completes: the state is seeded from ground truth.
\* update_seq is left alone.
ApplyRtkSeed(t) ==
  /\ imu[t].pc = "pushed"
  /\ ~imu_calibrated
  /\ imu_calibrated' = TRUE
  /\ state' = Estimate(resets, update_seq, <<>>)
  /\ geo_prev_vel' = resets
  /\ imu' = [imu EXCEPT ![t].pc = "gate"]
  /\ UNCHANGED inVars
  /\ ImuKeeps

\* The gate of callbackImu, then propagateState takes a copy of imu_meas:
\* the newest sample, whichever thread pushed it.
ReadMeas(t) ==
  /\ imu[t].pc \in {"pushed", "gate"}
  /\ imu' = [imu EXCEPT ![t] = IF Seeded /\ imu_meas.ok
                               THEN [@ EXCEPT !.pc = "meas", !.meas = imu_meas.id]
                               ELSE IdleImu]
  /\ UNCHANGED <<state, geo_prev_vel, inVars, imu_calibrated>>
  /\ ImuKeeps

\* The state and update_seq are copied under geo.mtx.
ReadState(t) ==
  /\ imu[t].pc = "meas"
  /\ imu' = [imu EXCEPT ![t].pc = "computing", ![t].read = state, ![t].seq = update_seq]
  /\ UNCHANGED <<state, geo_prev_vel, inVars, imu_calibrated>>
  /\ ImuKeeps

\* Mutants of the freshness test: no test; no write while a scan is processed.
AlwaysFresh(t) == TRUE
FreshUnlessScan(t) == update_seq = imu[t].seq /\ scan.pc = "idle"

Fresh(t) == update_seq = imu[t].seq

\* The propagated state is stored unless update_seq has moved since the copy.
WriteState(t) ==
  /\ imu[t].pc = "computing"
  /\ state' = IF Fresh(t) THEN [imu[t].read EXCEPT !.log = Append(@, imu[t].meas)]
              ELSE state
  /\ imu' = [imu EXCEPT ![t] = IdleImu]
  /\ UNCHANGED <<geo_prev_vel, inVars, imu_calibrated>>
  /\ ImuKeeps

-----------------------------------------------------------------------------
(* callbackPointCloud *)

\* A scan arrives: its stamp becomes scan_stamp, without pose_mutex.
ReceiveScan ==
  /\ scan.pc = "idle"
  /\ initialized
  /\ scans < MaxScan
  /\ scans' = scans + 1
  /\ scan' = [scan EXCEPT !.pc = "received"]
  /\ scan_stamp' = ScanStamp(scans + 1)
  /\ UNCHANGED <<obsVars, poseVars, prev_scan_stamp, last_accepted_scan_stamp, velVars,
                 consecutive_failures, old_vel>>
  /\ ScanKeeps

\* observer_dt_ is taken before deskewing moves prev_scan_stamp; the prior is
\* integrated from basePose with prev_vel, or falls back to current_pose when
\* there is no previous scan or not enough IMU history.  No lock is held.
Deskew ==
  /\ scan.pc = "received"
  /\ \E gap, history, near \in BOOLEAN :
       LET integrated == prev_scan_stamp # None /\ history IN
       /\ scan' = [pc    |-> "deskewed",
                   prior |-> IF integrated THEN Lesser(basePose, prev_vel) ELSE current_pose,
                   dt    |-> prev_scan_stamp # None /\ ~gap,
                   gt    |-> near]
       /\ old_vel' = [old_vel EXCEPT !.used = integrated /\ old_vel.kept]
  /\ prev_scan_stamp' = scan_stamp
  /\ UNCHANGED <<obsVars, poseVars, scan_stamp, last_accepted_scan_stamp, velVars,
                 consecutive_failures, scans>>
  /\ ScanKeeps

\* The callback returns: a scan without points or coordinates is dropped before
\* deskewing, one of which nothing survives preprocessing is dropped after it.
DropEmptyScan ==
  /\ scan.pc \in {"received", "deskewed"}
  /\ scan' = [scan EXCEPT !.pc = "idle"]
  /\ UNCHANGED <<obsVars, poseVars, stampVars, velVars, consecutive_failures, scans, old_vel>>
  /\ ScanKeeps

\* performLocalization takes pose_mutex and aligns, starting from the prior.
Align ==
  /\ scan.pc = "deskewed"
  /\ scan' = [scan EXCEPT !.pc = "aligning"]
  /\ UNCHANGED <<obsVars, poseVars, stampVars, velVars, consecutive_failures, scans, old_vel>>
  /\ ScanKeeps

\* History only: the prior becomes the pose.
PriorTaken == [old_vel EXCEPT !.moved = IF old_vel.used THEN @ + 1 ELSE @]

\* The candidate, a refinement of the prior, becomes the pose.
AcceptPose ==
  /\ scan.pc = "aligning"
  /\ current_pose' = scan.prior
  /\ basePose' = scan.prior
  /\ scan' = [scan EXCEPT !.pc = "accepted"]
  /\ old_vel' = PriorTaken
  /\ UNCHANGED <<obsVars, stampVars, velVars, consecutive_failures, scans>>
  /\ ScanKeeps

\* updateState, under geo.mtx: pulls the state toward basePose as it is now,
\* unless observer_dt_ is unusable.  A state pulled toward a pose of an older
\* lineage is contaminated by it, velocity included.
UpdateState ==
  IF scan.dt
  THEN /\ update_seq' = update_seq + 1
       /\ state' = Estimate(Lesser(state.reset, basePose), update_seq + 1, <<>>)
       /\ geo_prev_vel' = Lesser(state.reset, basePose)
  ELSE UNCHANGED <<state, update_seq, geo_prev_vel>>

\* The first accepted scan initialises the observer from the candidate.
InitObserver ==
  /\ state' = Estimate(scan.prior, update_seq, <<>>)
  /\ geo_prev_vel' = AtRest
  /\ UNCHANGED update_seq

CorrectObserver ==
  /\ scan.pc = "accepted"
  /\ IF first_opt_done THEN UpdateState ELSE InitObserver
  /\ first_opt_done' = TRUE
  /\ scan' = [scan EXCEPT !.pc = "corrected"]
  /\ UNCHANGED <<poseVars, stampVars, prev_vel, consecutive_failures, scans, old_vel>>
  /\ ScanKeeps

\* Mutant: the velocity stays as it is.
VelocityKept == prev_vel

\* Under geo.mtx: the velocity for the next integration.
NextVelocity == geo_prev_vel

FinishAccept ==
  /\ scan.pc = "corrected"
  /\ prev_vel' = NextVelocity
  /\ old_vel' = [old_vel EXCEPT !.kept = FALSE]
  /\ consecutive_failures' = 0
  /\ last_accepted_scan_stamp' = scan_stamp
  /\ scan' = [scan EXCEPT !.pc = "idle"]
  /\ UNCHANGED <<obsVars, poseVars, scan_stamp, prev_scan_stamp, geo_prev_vel, scans>>
  /\ ScanKeeps

\* Any other outcome holds the dead-reckoned prior, when it is finite.
Reject ==
  /\ scan.pc = "aligning"
  /\ \/ /\ current_pose' = scan.prior
        /\ basePose' = scan.prior
        /\ scan' = [scan EXCEPT !.pc = "rejected"]
        /\ old_vel' = PriorTaken
     \/ /\ scan' = [scan EXCEPT !.pc = "lost"]
        /\ UNCHANGED <<poseVars, old_vel>>
  /\ consecutive_failures' = consecutive_failures + 1
  /\ UNCHANGED <<obsVars, stampVars, velVars, scans>>
  /\ ScanKeeps

\* maybeSnapPoseToGT: a long enough streak and a ground-truth sample near the
\* scan replace pose, state and velocities outright.
SnapDue == consecutive_failures >= MinFailures /\ scan.gt

RecoverFromGT ==
  /\ current_pose' = resets
  /\ basePose' = resets
  /\ state' = Estimate(resets, update_seq + 1, <<>>)
  /\ update_seq' = update_seq + 1
  /\ geo_prev_vel' = resets
  /\ prev_vel' = resets
  /\ old_vel' = [kept |-> FALSE, used |-> FALSE, moved |-> 0]
  /\ consecutive_failures' = 0
  /\ last_accepted_scan_stamp' = scan_stamp
  /\ scan' = [scan EXCEPT !.pc = "idle"]
  /\ UNCHANGED <<first_opt_done, scan_stamp, prev_scan_stamp, scans>>
  /\ ScanKeeps

NotAccepted == scan.pc \in {"rejected", "lost"}

\* Mutant: the recovery takes pose_mutex again, which its caller holds.
SnapRelocking == NotAccepted /\ SnapDue /\ PoseMutexFree /\ RecoverFromGT

\* The caller, performLocalization, holds pose_mutex already.  What it stored in
\* prev_vel just before is overwritten.
SnapPoseToGT == NotAccepted /\ SnapDue /\ RecoverFromGT

\* No snap: prev_vel is taken with the prior, and stays when there was none.
DeferSnap ==
  /\ NotAccepted
  /\ ~SnapDue
  /\ prev_vel' = IF scan.pc = "rejected" THEN NextVelocity ELSE prev_vel
  /\ old_vel' = [old_vel EXCEPT !.kept = @ /\ scan.pc = "lost"]
  /\ scan' = [scan EXCEPT !.pc = "idle"]
  /\ UNCHANGED <<obsVars, poseVars, stampVars, geo_prev_vel, consecutive_failures, scans>>
  /\ ScanKeeps

-----------------------------------------------------------------------------
(* applyInitialPose, from callbackInitialPose or from the first message of  *)
(* callbackGtOdom.                                                          *)

\* Under pose_mutex: the pose, and the stamp when the message carries one.
ResetPose(s) ==
  /\ reset[s].pc = "idle"
  /\ s = "gt_odom" => reset[s].id = 0          \* use_odom_init_applied_
  /\ resets < MaxReset
  /\ PoseMutexFree
  /\ resets' = resets + 1
  /\ reset' = [reset EXCEPT ![s] = [pc |-> "posed", id |-> resets + 1]]
  /\ current_pose' = resets + 1
  /\ initialized' = TRUE
  /\ \E stamped \in BOOLEAN :
       scan_stamp' = IF stamped THEN PoseStamp(resets + 1) ELSE scan_stamp
  /\ old_vel' = [kept |-> prev_vel # AtRest, used |-> FALSE, moved |-> 0]
  /\ UNCHANGED <<state, first_opt_done, basePose, geo_prev_vel>>
  /\ ResetKeeps

\* Under geo.mtx: the observer state, at rest.  update_seq is left alone.
ResetState(s) ==
  /\ reset[s].pc = "posed"
  /\ reset' = [reset EXCEPT ![s].pc = "observed"]
  /\ state' = Estimate(reset[s].id, update_seq, <<>>)
  /\ geo_prev_vel' = AtRest
  /\ UNCHANGED <<first_opt_done, poseVars, scan_stamp, initialized, resets, old_vel>>
  /\ ResetKeeps

\* Under no lock: the anchor of the next integration.  Its velocity, prev_vel,
\* is left alone.
ResetBase(s) ==
  /\ reset[s].pc = "observed"
  /\ reset' = [reset EXCEPT ![s].pc = IF s = "gt_odom" THEN "based" ELSE "idle"]
  /\ basePose' = reset[s].id
  /\ UNCHANGED <<state, first_opt_done, current_pose, scan_stamp, geo_prev_vel,
                 initialized, resets, old_vel>>
  /\ ResetKeeps

\* Odom init lets the observer publish before any scan is accepted.
FinishOdomInit(s) ==
  /\ reset[s].pc = "based"
  /\ reset' = [reset EXCEPT ![s].pc = "idle"]
  /\ first_opt_done' = TRUE
  /\ UNCHANGED <<state, poseVars, scan_stamp, geo_prev_vel, initialized, resets, old_vel>>
  /\ ResetKeeps

-----------------------------------------------------------------------------

ImuStep(t) == \/ PushImu(t)
              \/ ApplyRtkSeed(t)
              \/ ReadMeas(t)
              \/ ReadState(t)
              \/ WriteState(t)

ScanStep == \/ Deskew
            \/ DropEmptyScan
            \/ Align
            \/ AcceptPose
            \/ CorrectObserver
            \/ FinishAccept
            \/ Reject
            \/ SnapPoseToGT
            \/ DeferSnap

ResetStep(s) == \/ ResetPose(s)
                \/ ResetState(s)
                \/ ResetBase(s)
                \/ FinishOdomInit(s)

Next == \/ ReceiveScan
        \/ ScanStep
        \/ \E t \in ImuThreads : ImuStep(t)
        \/ \E s \in PoseSources : ResetStep(s)

Spec == Init /\ [][Next]_vars

-----------------------------------------------------------------------------
(* Properties *)

Estimates == [reset : Nat, fix : Nat, log : Seq(Nat)]
Stamps == [kind : {"none", "scan", "pose"}, id : Nat]
ImuRecord == [pc : {"idle", "pushed", "gate", "meas", "computing"},
              meas : Nat, read : Estimates, seq : Nat]
ScanRecord == [pc : {"idle", "received", "deskewed", "aligning", "accepted", "corrected",
                     "rejected", "lost"},
               prior : Nat, dt : BOOLEAN, gt : BOOLEAN]
OldVelocities == [kept : BOOLEAN, used : BOOLEAN, moved : Nat]
ResetRecord == [pc : {"idle", "posed", "observed", "based"}, id : Nat]

TypeOK ==
  /\ state \in Estimates
  /\ update_seq \in Nat
  /\ first_opt_done \in BOOLEAN
  /\ initialized \in BOOLEAN
  /\ imu_meas \in [id : Nat, ok : BOOLEAN]
  /\ imu_calibrated \in BOOLEAN
  /\ imu \in [ImuThreads -> ImuRecord]
  /\ scan \in ScanRecord
  /\ reset \in [PoseSources -> ResetRecord]
  /\ current_pose \in Nat
  /\ basePose \in Nat
  /\ prev_vel \in Nat
  /\ geo_prev_vel \in Nat
  /\ scan_stamp \in Stamps
  /\ prev_scan_stamp \in Stamps
  /\ last_accepted_scan_stamp \in Stamps
  /\ consecutive_failures \in Nat
  /\ samples \in Nat
  /\ due \subseteq Nat
  /\ scans \in Nat
  /\ resets \in Nat
  /\ overlapped \in BOOLEAN
  /\ crowded \in BOOLEAN
  /\ old_vel \in OldVelocities

\* A correction made by updateState or by a ground-truth snap is never
\* overwritten by a propagation that was computed from the state before it:
\* the state always contains the latest correction.  This is what update_seq
\* is for, however IMU callbacks, scans and re-initialisations interleave.
CorrectionKept == state.fix = update_seq

\* A usable sample whose callback overlaps no other IMU callback counts exactly
\* once, whatever scans, re-initialisations and overlapping callbacks come
\* before, meanwhile and after: once the state holds samples from before or at it
\* and from it or after it, it holds that sample, and once.
NoSampleSkipped ==
  \A n \in due, i, j \in DOMAIN state.log :
    state.log[i] <= n /\ n <= state.log[j] =>
      \E k \in DOMAIN state.log :
        /\ state.log[k] = n
        /\ \A m \in DOMAIN state.log : state.log[m] = n => m = k

\* A re-initialisation that overlapped no callback took effect in the observer,
\* in the published pose and in the anchor of the next scan, and no later scan,
\* propagation or snap brings an older lineage back, but for the velocity that it
\* leaves in prev_vel: from that velocity at most one pose is predicted.
CleanResetHolds ==
  Quiescent /\ ~overlapped =>
    /\ old_vel.moved <= 1
    /\ old_vel.moved = 0 => /\ current_pose = resets
                            /\ basePose = resets
                            /\ state.reset = resets

\* A scan callback that has started is never stuck before its end: whatever the
\* outcome, the streak of failures and the ground truth, performLocalization does
\* not wait for the pose_mutex it holds.
ScanNeverStuck == scan.pc # "idle" => ENABLED ScanStep

\* An IMU callback that overlaps no other one and no re-initialisation is atomic,
\* although it holds no lock while it computes: its stored step applies one
\* sample to the estimate as it is, or is dropped.  Those that overlap mix what
\* they started from, but never with an estimate from before the last correction.
Atomic == INSTANCE AtomicObserver
            WITH Sample <- 1 .. MaxSample,
                 gen <- update_seq,
                 est <- [fix |-> state.fix, log |-> state.log]
ImplementsAtomic == Atomic!ASpec

\* What the documentation says and the code does not keep.

\* README "/initialpose ... always available as a manual override": when all
\* callbacks are done, the observer descends from the last initial pose, and so
\* does the anchor that later scans are predicted from.
OverrideReaches == Quiescent => state.reset = resets /\ basePose = resets

\* applyInitialPose: "Reset geometric observer state to prevent drift from previous
\* estimates".  After a re-initialisation that overlapped nothing, no pose
\* descends from the estimates before it.
NoDriftFromPrevious == Quiescent /\ ~overlapped => current_pose = resets
=============================================================================
