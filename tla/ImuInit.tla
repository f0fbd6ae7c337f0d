------------------------------- MODULE ImuInit -------------------------------
(***************************************************************************)
(* IMU bias calibration of the localization node: the phase machine inside *)
(* callbackImu, tryRtkCalibrationStep, and the callbacks that seed a pose  *)
(* beside it.  IMU callbacks are in a reentrant group and may overlap.     *)
(*                                                                         *)
(* Time is the stamp of the IMU samples.  Of the observer state the model  *)
(* keeps what calibration and seeding compete for: the SOURCE of the       *)
(* orientation and of the biases.                                          *)
(***************************************************************************)
EXTENDS Integers

CONSTANTS
  ImuThreads,     \* executor threads that may run callbackImu at once
  RtkInit,        \* localization/rtk_init/enable
  UseParam,       \* localization/initial_pose/use
  UseOdomInit,    \* localization/use_odom_init
  ImuOnly,        \* localization/imu_only
  Window,         \* localization/rtk_init/calib_window
  Fallback,       \* localization/rtk_init/fallback_timeout
  CalibTime,      \* dlio/imu/calibTime
  MaxGap,         \* bound: time between consecutive IMU stamps
  Stall,          \* bound: how far newer stamps run ahead of a callback in progress
  FirstStamp,     \* stamps are epoch times: later than any timeout
  LastStamp       \* bound: no IMU sample is stamped later

ASSUME InitAssumption ==
  /\ {RtkInit, UseParam, UseOdomInit, ImuOnly} \subseteq BOOLEAN
  /\ {Window, Fallback, CalibTime, Stall, FirstStamp, LastStamp} \subseteq Nat
  /\ MaxGap \in Nat \ {0}
  /\ FirstStamp > Fallback

Phases == {"WAITING", "RTK_CALIBRATING", "STATIONARY_CALIBRATING", "DONE"}
Unset == -1

VARIABLES
  init_phase,             \* init_phase_
  imu_calibrated,         \* imu_calibrated_
  first_imu_received, first_imu_stamp,
  imu_calib_start_stamp,
  rtk_calib_start_stamp,
  rtk_calib_count,
  prev_gt_stamp,          \* Unset until has_prev_gt_for_accel_
  pending_initial_pose,   \* the parameter pose is still to be applied
  initialized,
  first_opt_done,         \* geo.first_opt_done
  gt_extrinsics_cached, gt_odom_received,
  use_odom_init_applied,
  orientation,            \* source of state.q
  bias,                   \* source of state.b
  gt,                     \* callbackGtOdom: "idle", "received" or "seeded"
  clock,                  \* stamp of the newest IMU message
  imu                     \* per thread: [pc, stamp, phase, seeded, out] of callbackImu

calibVars == <<init_phase, imu_calibrated, imu_calib_start_stamp, rtk_calib_start_stamp,
               rtk_calib_count, prev_gt_stamp>>
firstVars == <<first_imu_received, first_imu_stamp>>
gtVars    == <<gt_extrinsics_cached, gt_odom_received, use_odom_init_applied, gt>>
seedVars  == <<pending_initial_pose, initialized, first_opt_done, gtVars>>
estimate  == <<orientation, bias>>
vars == <<calibVars, firstVars, seedVars, estimate, clock, imu>>

\* can_propagate_now: something stable to propagate from.
CanPropagate == initialized /\ (first_opt_done \/ ImuOnly)

Init ==
  /\ init_phase = "WAITING"
  /\ imu_calibrated = FALSE
  /\ first_imu_received = FALSE
  /\ first_imu_stamp = Unset
  /\ imu_calib_start_stamp = Unset
  /\ rtk_calib_start_stamp = Unset
  /\ rtk_calib_count = 0
  /\ prev_gt_stamp = Unset
  /\ pending_initial_pose = UseParam
  /\ initialized = FALSE
  /\ first_opt_done = FALSE
  /\ gt_extrinsics_cached = FALSE
  /\ gt_odom_received = FALSE
  /\ use_odom_init_applied = FALSE
  /\ orientation = "none"
  /\ bias = "zero"
  /\ gt = "idle"
  /\ clock = FirstStamp - 1
  /\ imu = [t \in ImuThreads |-> [pc |-> "idle", stamp |-> FirstStamp, phase |-> "WAITING",
                                  seeded |-> FALSE, out |-> "none"]]

-----------------------------------------------------------------------------
(* Start of callbackImu *)

\* A message is taken by a free thread; its sample is pushed to the buffer.
ReceiveImu(t) ==
  /\ imu[t].pc = "idle"
  /\ \E gap \in IF clock < FirstStamp THEN {1} ELSE 1 .. MaxGap :
       /\ clock + gap <= LastStamp
       /\ \A u \in ImuThreads : imu[u].pc # "idle" => clock + gap - imu[u].stamp <= Stall
       /\ clock' = clock + gap
       /\ imu' = [imu EXCEPT ![t] = [@ EXCEPT !.pc = "first", !.stamp = clock + gap,
                                              !.out = "none"]]
  /\ UNCHANGED <<calibVars, firstVars, seedVars, estimate>>

\* The flag is tested and set before the stamp is stored.
MarkFirst(t) ==
  /\ imu[t].pc = "first"
  /\ first_imu_received' = TRUE
  /\ imu' = [imu EXCEPT ![t].pc = IF first_imu_received THEN "gate" ELSE "stamping"]
  /\ UNCHANGED <<calibVars, first_imu_stamp, seedVars, estimate, clock>>

StampFirst(t) ==
  /\ imu[t].pc = "stamping"
  /\ first_imu_stamp' = imu[t].stamp
  /\ init_phase' = IF ~RtkInit /\ init_phase = "WAITING" THEN "STATIONARY_CALIBRATING"
                   ELSE init_phase
  /\ imu' = [imu EXCEPT ![t].pc = "gate"]
  /\ UNCHANGED <<imu_calibrated, imu_calib_start_stamp, rtk_calib_start_stamp,
                 rtk_calib_count, prev_gt_stamp, first_imu_received, seedVars, estimate, clock>>

\* While the biases are not calibrated the callback acts on a copy of the phase.
LoadPhase(t) ==
  /\ imu[t].pc = "gate"
  /\ imu' = [imu EXCEPT ![t] = [@ EXCEPT !.pc = IF imu_calibrated \/ init_phase = "DONE"
                                                THEN "propagate" ELSE "phase",
                                         !.phase = init_phase,
                                         !.seeded = CanPropagate]]
  /\ UNCHANGED <<calibVars, firstVars, seedVars, estimate, clock>>

InPhase(t, p) == imu[t].pc = "phase" /\ imu[t].phase = p

\* After a phase that did not finish: a seeded node goes on to propagateState,
\* an unseeded one returns without output.  The RTK phase looks at imu_calibrated_
\* once more: another callback may have finished the calibration.
Suppressed(t) == [imu[t] EXCEPT !.pc = "idle", !.out = "suppressed"]

\* Mutant: the output waits for the calibration, seeded or not.
WaitForBias(t) == Suppressed(t)

Unfinished(t) ==
  IF imu[t].seeded \/ (imu[t].phase = "RTK_CALIBRATING" /\ imu_calibrated)
  THEN [imu[t] EXCEPT !.pc = "propagate"]
  ELSE Suppressed(t)

-----------------------------------------------------------------------------
(* WAITING *)

StartRtk(t) ==
  /\ InPhase(t, "WAITING")
  /\ gt_odom_received
  /\ init_phase' = "RTK_CALIBRATING"
  /\ rtk_calib_start_stamp' = imu[t].stamp
  /\ imu' = [imu EXCEPT ![t].phase = "RTK_CALIBRATING"]
  /\ UNCHANGED <<imu_calibrated, imu_calib_start_stamp, rtk_calib_count, prev_gt_stamp,
                 firstVars, seedVars, estimate, clock>>

\* The switch to the stationary path, from whatever phase.
GoStationary(t) ==
  /\ init_phase' = "STATIONARY_CALIBRATING"
  /\ imu_calib_start_stamp' = imu[t].stamp
  /\ UNCHANGED <<imu_calibrated, rtk_calib_start_stamp, firstVars, seedVars, estimate, clock>>

WaitExpired(t) ==
  /\ InPhase(t, "WAITING")
  /\ ~gt_odom_received
  /\ imu[t].stamp - first_imu_stamp > Fallback
  /\ GoStationary(t)
  /\ imu' = [imu EXCEPT ![t].phase = "STATIONARY_CALIBRATING"]
  /\ UNCHANGED <<rtk_calib_count, prev_gt_stamp>>

KeepWaiting(t) ==
  /\ InPhase(t, "WAITING")
  /\ ~gt_odom_received
  /\ imu[t].stamp - first_imu_stamp <= Fallback
  /\ imu' = [imu EXCEPT ![t] = Unfinished(t)]
  /\ UNCHANGED <<calibVars, firstVars, seedVars, estimate, clock>>

-----------------------------------------------------------------------------
(* RTK_CALIBRATING: the budget, then tryRtkCalibrationStep *)

\* Mutant: no bound on the phase.
NeverOver(t) == FALSE

BudgetOver(t) == ~imu[t].seeded /\ imu[t].stamp - rtk_calib_start_stamp > Window + Fallback

RtkBudgetOver(t) ==
  /\ InPhase(t, "RTK_CALIBRATING")
  /\ BudgetOver(t)
  /\ GoStationary(t)
  /\ imu' = [imu EXCEPT ![t] = Suppressed(t)]
  /\ UNCHANGED <<rtk_calib_count, prev_gt_stamp>>

RtkStep(t) == InPhase(t, "RTK_CALIBRATING") /\ ~BudgetOver(t)

\* No RTK-FIXED ground truth at this stamp, or its extrinsic is not known, or
\* the stamp is too close to the last pairing.
RtkNoPairing(t) ==
  /\ RtkStep(t)
  /\ imu' = [imu EXCEPT ![t] = Unfinished(t)]
  /\ UNCHANGED <<calibVars, firstVars, seedVars, estimate, clock>>

\* The first pairing only starts the differentiation of the velocity.
RtkFirstPairing(t) ==
  /\ RtkStep(t)
  /\ gt_extrinsics_cached
  /\ prev_gt_stamp = Unset
  /\ prev_gt_stamp' = imu[t].stamp
  /\ imu' = [imu EXCEPT ![t] = Unfinished(t)]
  /\ UNCHANGED <<init_phase, imu_calibrated, imu_calib_start_stamp, rtk_calib_start_stamp,
                 rtk_calib_count, firstVars, seedVars, estimate, clock>>

\* A later pairing adds a residual.  The count is not guarded: a callback in
\* the same phase may lose the increment.
PairingCounted(t, n) ==
  /\ RtkStep(t)
  /\ gt_extrinsics_cached
  /\ prev_gt_stamp # Unset
  /\ imu[t].stamp > prev_gt_stamp
  /\ prev_gt_stamp' = imu[t].stamp
  /\ \/ n = rtk_calib_count + 1
     \/ n = rtk_calib_count /\ \E u \in ImuThreads \ {t} : InPhase(u, "RTK_CALIBRATING")

WindowFilled(t) == imu[t].stamp - rtk_calib_start_stamp >= Window

RtkAccumulate(t) ==
  /\ ~WindowFilled(t)
  /\ \E n \in {rtk_calib_count, rtk_calib_count + 1} :
       PairingCounted(t, n) /\ rtk_calib_count' = n
  /\ imu' = [imu EXCEPT ![t] = Unfinished(t)]
  /\ UNCHANGED <<init_phase, imu_calibrated, imu_calib_start_stamp, rtk_calib_start_stamp,
                 firstVars, seedVars, estimate, clock>>

\* The window is over with too few residuals.
RtkTooFew(t) ==
  /\ WindowFilled(t)
  /\ \E n \in {rtk_calib_count, rtk_calib_count + 1} :
       PairingCounted(t, n) /\ n < 2 /\ rtk_calib_count' = n
  /\ GoStationary(t)
  /\ imu' = [imu EXCEPT ![t] = Unfinished(t)]

\* The averaged biases are implausible.
RtkImplausible(t) ==
  /\ WindowFilled(t)
  /\ \E n \in {rtk_calib_count, rtk_calib_count + 1} : PairingCounted(t, n) /\ n >= 2
  /\ rtk_calib_count' = 0
  /\ GoStationary(t)
  /\ imu' = [imu EXCEPT ![t] = Unfinished(t)]

\* The biases are stored and the state is seeded from the latest pairing.
RtkComplete(t) ==
  /\ WindowFilled(t)
  /\ \E n \in {rtk_calib_count, rtk_calib_count + 1} :
       PairingCounted(t, n) /\ n >= 2 /\ rtk_calib_count' = n
  /\ bias' = "rtk"
  /\ orientation' = "rtk"
  /\ imu_calibrated' = TRUE
  /\ init_phase' = "DONE"
  /\ imu' = [imu EXCEPT ![t].pc = "propagate"]
  /\ UNCHANGED <<imu_calib_start_stamp, rtk_calib_start_stamp, firstVars, seedVars, clock>>

-----------------------------------------------------------------------------
(* STATIONARY_CALIBRATING *)

StationaryStart(t) == IF imu_calib_start_stamp = Unset THEN imu[t].stamp
                      ELSE imu_calib_start_stamp

StationaryAccumulate(t) ==
  /\ InPhase(t, "STATIONARY_CALIBRATING")
  /\ imu[t].stamp - StationaryStart(t) < CalibTime
  /\ imu_calib_start_stamp' = StationaryStart(t)
  /\ imu' = [imu EXCEPT ![t] = Unfinished(t)]
  /\ UNCHANGED <<init_phase, imu_calibrated, rtk_calib_start_stamp, rtk_calib_count,
                 prev_gt_stamp, firstVars, seedVars, estimate, clock>>

\* The averaged biases are stored; then the flags decide about the orientation.
StationaryBias(t) ==
  /\ InPhase(t, "STATIONARY_CALIBRATING")
  /\ imu[t].stamp - StationaryStart(t) >= CalibTime
  /\ imu_calib_start_stamp' = StationaryStart(t)
  /\ bias' = "stationary"
  /\ imu' = [imu EXCEPT ![t].pc = IF UseParam \/ use_odom_init_applied THEN "keeping"
                                  ELSE "adopting"]
  /\ UNCHANGED <<init_phase, imu_calibrated, rtk_calib_start_stamp, rtk_calib_count,
                 prev_gt_stamp, firstVars, seedVars, orientation, clock>>

\* The orientation derived from gravity is stored under geo.mtx.
StationaryDone(t) ==
  /\ imu[t].pc \in {"keeping", "adopting"}
  /\ orientation' = IF imu[t].pc = "adopting" THEN "gravity" ELSE orientation
  /\ imu_calibrated' = TRUE
  /\ init_phase' = "DONE"
  /\ imu' = [imu EXCEPT ![t].pc = "propagate"]
  /\ UNCHANGED <<imu_calib_start_stamp, rtk_calib_start_stamp, rtk_calib_count,
                 prev_gt_stamp, firstVars, seedVars, bias, clock>>

\* The end of callbackImu: propagateState publishes when there is a seed.
Propagate(t) ==
  /\ imu[t].pc = "propagate"
  /\ imu' = [imu EXCEPT ![t] = [@ EXCEPT !.pc = "idle",
                                         !.out = IF CanPropagate THEN "published"
                                                 ELSE "suppressed"]]
  /\ UNCHANGED <<calibVars, firstVars, seedVars, estimate, clock>>

-----------------------------------------------------------------------------
(* Seeding, from other threads *)

\* applyInitialPose and applyInitialPoseFromParams: pose set, biases cleared.
SeedFrom(source) ==
  /\ initialized' = TRUE
  /\ orientation' = source
  /\ bias' = "zero"
  /\ first_opt_done' = (first_opt_done \/ ImuOnly)
  /\ UNCHANGED <<calibVars, firstVars, clock, imu>>

\* Applied at start-up, or with the first scan when it needs the lidar extrinsic.
ParamPose ==
  /\ pending_initial_pose
  /\ pending_initial_pose' = FALSE
  /\ SeedFrom("param")
  /\ UNCHANGED gtVars

ManualPose ==
  /\ SeedFrom("manual")
  /\ UNCHANGED <<pending_initial_pose, gtVars>>

\* callbackGtOdom: the extrinsic of the ground truth may be known or not.
ReceiveGt ==
  /\ gt = "idle"
  /\ gt' = "received"
  /\ gt_extrinsics_cached' \in {gt_extrinsics_cached, TRUE}
  /\ UNCHANGED <<calibVars, firstVars, pending_initial_pose, initialized, first_opt_done,
                 gt_odom_received, use_odom_init_applied, estimate, clock, imu>>

OdomInitDue == UseOdomInit /\ ~use_odom_init_applied /\ gt_extrinsics_cached

\* The first message whose extrinsic is known seeds the pose.
OdomInit ==
  /\ gt = "received"
  /\ OdomInitDue
  /\ use_odom_init_applied' = TRUE
  /\ gt' = "seeded"
  /\ SeedFrom("odom")
  /\ UNCHANGED <<pending_initial_pose, gt_extrinsics_cached, gt_odom_received>>

\* It then lets the observer publish.  Every message is buffered.
BufferGt ==
  /\ gt = "seeded" \/ (gt = "received" /\ ~OdomInitDue)
  /\ first_opt_done' = (first_opt_done \/ gt = "seeded")
  /\ gt_odom_received' = TRUE
  /\ gt' = "idle"
  /\ UNCHANGED <<calibVars, firstVars, pending_initial_pose, initialized,
                 gt_extrinsics_cached, use_odom_init_applied, estimate, clock, imu>>

\* performLocalization: the first accepted scan initialises the observer.
\* Later ones correct an orientation, whose source stays.
FirstScan ==
  /\ initialized /\ ~ImuOnly /\ ~first_opt_done
  /\ orientation' = "scan"
  /\ bias' = "zero"
  /\ first_opt_done' = TRUE
  /\ UNCHANGED <<calibVars, firstVars, pending_initial_pose, initialized, gtVars, clock, imu>>

-----------------------------------------------------------------------------

RtkPhase(t) == \/ RtkBudgetOver(t)
               \/ RtkNoPairing(t)
               \/ RtkFirstPairing(t)
               \/ RtkAccumulate(t)
               \/ RtkTooFew(t)
               \/ RtkImplausible(t)
               \/ RtkComplete(t)

ImuStep(t) == \/ ReceiveImu(t)
              \/ MarkFirst(t)
              \/ StampFirst(t)
              \/ LoadPhase(t)
              \/ StartRtk(t)
              \/ WaitExpired(t)
              \/ KeepWaiting(t)
              \/ RtkPhase(t)
              \/ StationaryAccumulate(t)
              \/ StationaryBias(t)
              \/ StationaryDone(t)
              \/ Propagate(t)

SeedStep == \/ ParamPose
            \/ ManualPose
            \/ ReceiveGt
            \/ OdomInit
            \/ BufferGt
            \/ FirstScan

Next == SeedStep \/ \E t \in ImuThreads : ImuStep(t)

Spec == Init /\ [][Next]_vars

-----------------------------------------------------------------------------
(* Properties *)

ImuRecord == [pc     : {"idle", "first", "stamping", "gate", "phase", "keeping", "adopting",
                        "propagate"},
              stamp  : Nat,
              phase  : Phases,
              seeded : BOOLEAN,
              out    : {"none", "published", "suppressed"}]

TypeOK ==
  /\ init_phase \in Phases
  /\ imu_calibrated \in BOOLEAN
  /\ first_imu_received \in BOOLEAN
  /\ {first_imu_stamp, imu_calib_start_stamp, rtk_calib_start_stamp, prev_gt_stamp}
       \subseteq Nat \cup {Unset}
  /\ rtk_calib_count \in Nat
  /\ {pending_initial_pose, initialized, first_opt_done, gt_extrinsics_cached,
      gt_odom_received, use_odom_init_applied} \subseteq BOOLEAN
  /\ orientation \in {"none", "param", "manual", "odom", "scan", "rtk", "gravity"}
  /\ bias \in {"zero", "rtk", "stationary"}
  /\ gt \in {"idle", "received", "seeded"}
  /\ clock \in Int
  /\ imu \in [ImuThreads -> ImuRecord]

\* "Localization output must never stop": a callback that found a seed to
\* propagate from ends in propagateState, whatever phase the calibration is in
\* and whatever other callbacks do to it.
OutputContinues ==
  \A t \in ImuThreads : imu[t].out = "suppressed" => ~imu[t].seeded

\* However ground truth and calibration fail, and whatever stale copies of the
\* phase overlapping callbacks act on, a node that stays unseeded has its biases
\* within the two timeouts, the window and the stationary time, each overrun by
\* at most one sample and by the callbacks still in progress.
Deadline == Fallback + (Window + Fallback) + CalibTime + 3 * MaxGap + 5 * Stall

UnseededDeadline ==
  \A t \in ImuThreads :
    imu[t].out = "suppressed" /\ ~imu_calibrated => imu[t].stamp - FirstStamp <= Deadline
=============================================================================
