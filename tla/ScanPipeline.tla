---------------------------- MODULE ScanPipeline -----------------------------
(***************************************************************************)
(* Dead reckoning from scan to scan in the localization node: which        *)
(* interval of inertial data deskewPointcloud integrates onto which pose,  *)
(* and what performLocalization anchors the next interval to.              *)
(*                                                                         *)
(* The vehicle moves at constant speed along a line and the velocity       *)
(* estimate is right, so a position IS a time: the truth at time t is t,   *)
(* and integrating from a to b adds b - a.  Every error in a pose is then  *)
(* an interval that was left out or counted twice.                         *)
(*                                                                         *)
(* A sweep stamped s holds points taken from s to s + 2 * Half.  After     *)
(* deskewing scan_stamp and prev_scan_stamp are equal; prev_scan_stamp     *)
(* stands for both.  Zero is "no stamp yet".                               *)
(***************************************************************************)
EXTENDS Integers

CONSTANTS
  DeskewModes,    \* the values of dlio/deskew to consider
  RejectJumps,    \* gicp/rejectLargeJumps
  JumpLimit,      \* localization/debug/jump_trans_m
  JumpScale,      \* localization/jump/trans_speed_scale
  JumpClamp,      \* the scan_dt beyond which the jump gate stops growing (1 s)
  GtRecovery,     \* localization/gt_recovery/enable
  MinFailures,    \* localization/gt_recovery/min_consecutive_failures
  Half,           \* half the duration of a sweep
  Margin,         \* IMU history wanted before the previous scan (0.1 s)
  BufferSize,     \* dlio/imu/bufferSize
  ImuLate,        \* the values of dlio/deskew with which scans may precede all IMU samples
  ImuLag,         \* bound: the newest IMU sample is at most this much older than a scan
  MaxPeriod,      \* bound: time between consecutive scans
  MaxReset,       \* bound: initial poses received
  LastStamp       \* bound: no scan or IMU sample is stamped later

ASSUME PipelineAssumption ==
  /\ {RejectJumps, GtRecovery} \subseteq BOOLEAN
  /\ ImuLate \subseteq BOOLEAN /\ DeskewModes \subseteq BOOLEAN
  /\ {JumpLimit, JumpScale, JumpClamp, MinFailures, Half, Margin, ImuLag, MaxReset,
      LastStamp} \subseteq Nat
  /\ {BufferSize, MaxPeriod} \subseteq Nat \ {0}

VARIABLES
  deskew_,                \* dlio/deskew, read once at startup
  oldest, newest,         \* stamps at the two ends of imu_buffer
  phase,                  \* callbackPointCloud: "idle" or "prior", after deskewing
  prev_scan_stamp,
  T_prior,
  current_scan,           \* its points: in the "lidar" frame; in the world, moved as a
                          \* "rigid" sweep with T_prior; or "deskewed" to the world
  current_pose, basePose,
  last_gicp_pose, last_gicp_stamp,
  consecutive_failures,
  lost,                   \* history: scans since the last fix whose interval is not in basePose
  resets                  \* history: initial poses received

imuVars == <<oldest, newest>>
fixVars == <<last_gicp_pose, last_gicp_stamp, consecutive_failures, lost>>
vars == <<deskew_, imuVars, phase, prev_scan_stamp, T_prior, current_scan, current_pose,
          basePose, fixVars, resets>>

Smaller(a, b) == IF a < b THEN a ELSE b
Larger(a, b)  == IF a < b THEN b ELSE a
Dist(a, b)    == Larger(a, b) - Smaller(a, b)

\* The node is initialised: its pose is the truth at time 0.
Init ==
  /\ deskew_ \in DeskewModes
  /\ oldest = 0
  /\ newest = 0
  /\ phase = "idle"
  /\ prev_scan_stamp = 0
  /\ T_prior = 0
  /\ current_scan = "lidar"
  /\ current_pose = 0
  /\ basePose = 0
  /\ last_gicp_pose = 0
  /\ last_gicp_stamp = 0
  /\ consecutive_failures = 0
  /\ lost = 0
  /\ resets = 0

-----------------------------------------------------------------------------
\* callbackImu: a sample enters the circular buffer.  From deskewing to the end
\* of the scan callback nothing reads the buffer; samples come before or after.
ReceiveImu ==
  /\ phase = "idle"
  /\ newest < LastStamp
  /\ newest' \in IF newest = 0 THEN 1 .. LastStamp ELSE {newest + 1}
  /\ oldest' = IF newest = 0 THEN newest' ELSE Larger(oldest, newest' - BufferSize + 1)
  /\ UNCHANGED <<deskew_, phase, prev_scan_stamp, T_prior, current_scan, current_pose,
                 basePose, fixVars, resets>>

-----------------------------------------------------------------------------
(* deskewPointcloud *)

\* The time the prior is wanted for, before and after clamping to the buffer.
PriorTime(s) == IF deskew_ THEN s + Half ELSE s
Target(s) == Smaller(PriorTime(s), newest)

\* integrateImu succeeds: it has a sample from before the previous scan, and
\* the clamped times do not precede that scan.
Integrable(s) ==
  /\ newest > 0 /\ prev_scan_stamp > 0
  /\ oldest < prev_scan_stamp
  /\ deskew_ => oldest <= prev_scan_stamp - Margin
  /\ prev_scan_stamp <= Smaller(s, newest)

Prior(s) == IF Integrable(s) THEN basePose + (Target(s) - prev_scan_stamp) ELSE current_pose

\* Mutant: the previous stamp stays at the last accepted scan.
StampOfFix(s) == IF prev_scan_stamp = 0 THEN s ELSE last_gicp_stamp

NextPrevStamp(s) == s

ReceiveScan(s) ==
  /\ phase = "idle"
  /\ (newest = 0 /\ deskew_ \in ImuLate) \/ (newest > 0 /\ newest >= s - ImuLag)
  /\ phase' = "prior"
  /\ T_prior' = Prior(s)
  /\ current_scan' = CASE ~deskew_ \/ newest = 0 -> "lidar"
                       [] OTHER -> IF Integrable(s) THEN "deskewed" ELSE "rigid"
  /\ prev_scan_stamp' = NextPrevStamp(s)
  /\ lost' = IF Integrable(s) THEN lost ELSE lost + 1
  /\ UNCHANGED <<deskew_, imuVars, current_pose, basePose, last_gicp_pose, last_gicp_stamp,
                 consecutive_failures, resets>>

\* Nothing survives preprocessing: the prior is thrown away.
DropEmptyScan ==
  /\ phase = "prior"
  /\ phase' = "idle"
  /\ lost' = lost + 1
  /\ UNCHANGED <<deskew_, imuVars, prev_scan_stamp, T_prior, current_scan, current_pose,
                 basePose, last_gicp_pose, last_gicp_stamp, consecutive_failures, resets>>

-----------------------------------------------------------------------------
(* performLocalization *)

\* Where a good match puts the vehicle: a rigid sweep, somewhere within the
\* sweep; a deskewed one, where it was when T_prior was valid, or as late as
\* the median point when the prior was clamped.  The correction of a sweep
\* that was NOT deskewed, with deskewing on, is still applied to T_prior.
Sweep == prev_scan_stamp .. prev_scan_stamp + 2 * Half
Candidates ==
  CASE current_scan = "deskewed"         -> Target(prev_scan_stamp) .. prev_scan_stamp + Half
    [] current_scan = "lidar" /\ deskew_   -> {t + T_prior : t \in Sweep}
    [] OTHER                             -> Sweep

\* The jump gate compares the match with the prior; it widens with the time
\* since the last accepted scan.
ScanDt == IF last_gicp_stamp = 0 THEN 0
          ELSE Smaller(prev_scan_stamp - last_gicp_stamp, JumpClamp)
LargeJump(c) == Dist(c, T_prior) > JumpLimit + JumpScale * ScanDt

Accept(c) ==
  /\ phase = "prior"
  /\ ~(RejectJumps /\ LargeJump(c))
  /\ phase' = "idle"
  /\ current_pose' = c
  /\ basePose' = c
  /\ last_gicp_pose' = c
  /\ last_gicp_stamp' = prev_scan_stamp
  /\ consecutive_failures' = 0
  /\ lost' = 0
  /\ UNCHANGED <<deskew_, imuVars, prev_scan_stamp, T_prior, current_scan, resets>>

\* Mutant: the streak is counted, but the anchor stays at the last fix.
FrozenAnchor == basePose

HeldAnchor == T_prior

\* A scan that is not accepted, for whatever reason, holds the prior ...
Reject ==
  /\ phase = "prior"
  /\ phase' = "idle"
  /\ current_pose' = HeldAnchor
  /\ basePose' = HeldAnchor
  /\ consecutive_failures' = consecutive_failures + 1
  /\ UNCHANGED <<deskew_, imuVars, prev_scan_stamp, T_prior, current_scan, last_gicp_pose,
                 last_gicp_stamp, lost, resets>>

\* ... and when the streak is long enough, and a ground-truth sample is near,
\* the pose is replaced by the truth at the stamp of the scan.
RejectAndSnap ==
  /\ phase = "prior"
  /\ GtRecovery /\ consecutive_failures + 1 >= MinFailures
  /\ phase' = "idle"
  /\ current_pose' = prev_scan_stamp
  /\ basePose' = prev_scan_stamp
  /\ consecutive_failures' = 0
  /\ lost' = 0
  /\ UNCHANGED <<deskew_, imuVars, prev_scan_stamp, T_prior, current_scan, last_gicp_pose,
                 last_gicp_stamp, resets>>

\* applyInitialPose between two scans: the pose is the truth of its moment, and
\* prev_scan_stamp stays.
ResetPose(t) ==
  /\ phase = "idle"
  /\ resets < MaxReset
  /\ resets' = resets + 1
  /\ current_pose' = t
  /\ basePose' = t
  /\ UNCHANGED <<deskew_, imuVars, phase, prev_scan_stamp, T_prior, current_scan, fixVars>>

-----------------------------------------------------------------------------

\* Stamps that may follow the previous scan's; a sweep starts when the previous
\* one is over.
Soon == prev_scan_stamp + 1 .. Smaller(prev_scan_stamp + MaxPeriod, LastStamp)
AfterSweep == {s \in Soon : prev_scan_stamp > 0 => s >= prev_scan_stamp + 2 * Half}

Next == \/ ReceiveImu
        \/ \E s \in AfterSweep : ReceiveScan(s)
        \/ DropEmptyScan
        \/ \E c \in Candidates : Accept(c)
        \/ Reject
        \/ RejectAndSnap
        \/ \E t \in Soon : ResetPose(t)

Spec == Init /\ [][Next]_vars

-----------------------------------------------------------------------------
(* Properties *)

TypeOK ==
  /\ {oldest, newest, prev_scan_stamp, T_prior, current_pose, basePose, last_gicp_pose,
      last_gicp_stamp, consecutive_failures, lost, resets} \subseteq Nat
  /\ deskew_ \in BOOLEAN
  /\ phase \in {"idle", "prior"}
  /\ current_scan \in {"lidar", "rigid", "deskewed"}

\* Dead reckoning never leaves the vehicle far behind: each rejected scan costs
\* at most the lag of the IMU, and each scan whose interval could not be
\* integrated, or that was empty, costs at most one period.
NeverFarBehind ==
  phase = "idle" =>
    prev_scan_stamp - current_pose
      <= (consecutive_failures + 1) * ImuLag + lost * MaxPeriod

\* No interval is integrated twice, except half a sweep per rejected scan when
\* deskewing (the anchor is valid at the median, the next integration starts at
\* the stamp) and up to one period after an initial pose (prev_scan_stamp is
\* not moved to it).
Overlap == (IF deskew_ THEN (consecutive_failures + 2) * Half ELSE 2 * Half)
             + (IF resets = 0 THEN 0 ELSE MaxPeriod)

NeverFarAhead == phase = "idle" /\ prev_scan_stamp > 0 =>
                   current_pose - prev_scan_stamp <= Overlap

\* "This loosens the gate after a gap so a valid reacquisition is not
\* rejected": without deskewing, while no interval was lost and the lag of the
\* IMU over the streak is within the limit, a right match passes the jump gate
\* however long the gap.
ReacquisitionAdmitted ==
  phase = "prior" /\ ~deskew_ /\ lost = 0 /\ resets = 0
      /\ (consecutive_failures + 1) * ImuLag <= JumpLimit
    => \E c \in Candidates : ~(RejectJumps /\ LargeJump(c))
=============================================================================
