-------------------------- MODULE ScanPipelineProofs --------------------------
(***************************************************************************)
(* Proofs about ScanPipeline, for every period, lag, sweep and limit.      *)
(*                                                                         *)
(* The bounds on dead reckoning are inductive once they are also stated    *)
(* for the two poses there are between deskewing and the end of the scan   *)
(* callback: the prior, which a rejected scan makes the anchor, and the    *)
(* old anchor, which an empty scan keeps.                                  *)
(***************************************************************************)
EXTENDS ScanPipeline, TLAPS

\* The cost of k lags and l lost intervals.
Cost(k, l) == k * ImuLag + l * MaxPeriod

\* What k rejected scans may count twice, and what an initial pose may.
Twice(k) == IF deskew_ THEN (k + 2) * Half ELSE 2 * Half
Early == IF resets = 0 THEN 0 ELSE MaxPeriod

Typed ==
  /\ TypeOK
  /\ current_pose = basePose
  /\ last_gicp_stamp <= prev_scan_stamp
  /\ phase = "prior" => prev_scan_stamp > 0
  /\ phase = "prior" /\ current_scan = "deskewed" => newest >= prev_scan_stamp - ImuLag
  /\ deskew_ /\ deskew_ \notin ImuLate /\ phase = "prior" => current_scan # "lidar"
  /\ ~deskew_ => current_scan = "lidar"

Behind ==
  IF phase = "idle"
  THEN prev_scan_stamp - current_pose <= Cost(consecutive_failures + 1, lost)
  ELSE /\ prev_scan_stamp - T_prior <= Cost(consecutive_failures + 2, lost)
       /\ prev_scan_stamp - current_pose <= Cost(consecutive_failures + 1, lost + 1)

\* Without deskewing a fix is never behind, so one lag less is lost.
RigidBehind ==
  ~deskew_ /\ resets = 0 =>
    IF phase = "idle"
    THEN prev_scan_stamp - current_pose <= Cost(consecutive_failures, lost)
    ELSE /\ prev_scan_stamp - T_prior <= Cost(consecutive_failures + 1, lost)
         /\ prev_scan_stamp - current_pose <= Cost(consecutive_failures, lost + 1)

\* Scans that precede all IMU samples are matched in the wrong frame when
\* deskewing, so the bound is for runs without them.
Ahead ==
  deskew_ \notin ImuLate \/ ~deskew_ =>
    /\ prev_scan_stamp = 0 => current_pose <= Early
    /\ prev_scan_stamp > 0 =>
         current_pose - prev_scan_stamp <= Twice(consecutive_failures) + Early
    /\ phase = "prior" =>
         T_prior - prev_scan_stamp <= Twice(consecutive_failures + 1) + Early

PipeInv == Typed /\ Behind /\ RigidBehind /\ Ahead

-----------------------------------------------------------------------------
LEMMA Constants ==
  /\ JumpLimit \in Nat /\ JumpScale \in Nat /\ JumpClamp \in Nat /\ MinFailures \in Nat
  /\ Half \in Nat /\ Margin \in Nat /\ ImuLag \in Nat /\ MaxReset \in Nat /\ LastStamp \in Nat
  /\ MaxPeriod \in Nat /\ MaxPeriod > 0 /\ BufferSize \in Nat /\ BufferSize > 0
  BY PipelineAssumption

LEMMA Products ==
  \A x, y \in Nat : x * y \in Nat /\ (x + 1) * y = x * y + y
  OBVIOUS

LEMMA CostGrows ==
  ASSUME NEW k \in Nat, NEW l \in Nat
  PROVE  /\ Cost(k, l) \in Nat
         /\ Cost(k + 1, l) = Cost(k, l) + ImuLag
         /\ Cost(k, l + 1) = Cost(k, l) + MaxPeriod
         /\ Cost(0, 0) = 0
  <1>1. /\ k * ImuLag \in Nat /\ l * MaxPeriod \in Nat
        /\ (k + 1) * ImuLag = k * ImuLag + ImuLag
        /\ (l + 1) * MaxPeriod = l * MaxPeriod + MaxPeriod
    BY Constants, Products
  <1>2. 0 * ImuLag = 0 /\ 0 * MaxPeriod = 0
    BY Constants
  <1>3. QED
    BY <1>1, <1>2, Constants DEF Cost

LEMMA TwiceGrows ==
  ASSUME NEW k \in Nat, deskew_ \in BOOLEAN
  PROVE  /\ Twice(k) \in Nat /\ Twice(0) = 2 * Half
         /\ Twice(k + 1) = IF deskew_ THEN Twice(k) + Half ELSE Twice(k)
  <1>1. /\ (k + 2) * Half \in Nat /\ 2 * Half \in Nat
        /\ (k + 2 + 1) * Half = (k + 2) * Half + Half
    <2>1. k + 2 \in Nat /\ 2 \in Nat
      OBVIOUS
    <2>2. QED
      BY <2>1, Constants, Products
  <1>2. k + 2 + 1 = k + 1 + 2 /\ 0 + 2 = 2
    OBVIOUS
  <1>3. QED
    BY <1>1, <1>2 DEF Twice

\* What the variables are, and what a bound on the failures costs.
LEMMA Numbers ==
  ASSUME Typed
  PROVE  /\ oldest \in Nat /\ newest \in Nat /\ prev_scan_stamp \in Nat /\ T_prior \in Nat
         /\ current_pose \in Nat /\ last_gicp_pose \in Nat /\ last_gicp_stamp \in Nat
         /\ consecutive_failures \in Nat /\ lost \in Nat /\ resets \in Nat
         /\ deskew_ \in BOOLEAN /\ Early \in Nat
         /\ Cost(consecutive_failures + 1, lost) = Cost(consecutive_failures, lost) + ImuLag
         /\ Cost(consecutive_failures + 2, lost) = Cost(consecutive_failures, lost) + 2 * ImuLag
         /\ Cost(consecutive_failures, lost + 1) = Cost(consecutive_failures, lost) + MaxPeriod
         /\ Cost(consecutive_failures + 1, lost + 1) =
              Cost(consecutive_failures, lost) + ImuLag + MaxPeriod
         /\ Cost(consecutive_failures, lost) \in Nat
         /\ Twice(consecutive_failures) \in Nat
         /\ Twice(consecutive_failures + 1) =
              IF deskew_ THEN Twice(consecutive_failures) + Half ELSE Twice(consecutive_failures)
  <1>1. /\ oldest \in Nat /\ newest \in Nat /\ prev_scan_stamp \in Nat /\ T_prior \in Nat
        /\ current_pose \in Nat /\ last_gicp_pose \in Nat /\ last_gicp_stamp \in Nat
        /\ consecutive_failures \in Nat /\ lost \in Nat /\ resets \in Nat
        /\ deskew_ \in BOOLEAN
    BY DEF Typed, TypeOK
  <1> DEFINE k == consecutive_failures
  <1>2. k + 1 \in Nat /\ k + 2 = k + 1 + 1 /\ lost + 1 \in Nat
    BY <1>1
  <1>3. /\ Cost(k, lost) \in Nat
        /\ Cost(k + 1, lost) = Cost(k, lost) + ImuLag
        /\ Cost(k + 1 + 1, lost) = Cost(k + 1, lost) + ImuLag
        /\ Cost(k, lost + 1) = Cost(k, lost) + MaxPeriod
        /\ Cost(k + 1, lost + 1) = Cost(k + 1, lost) + MaxPeriod
    BY <1>1, <1>2, CostGrows
  <1>4. /\ Twice(k) \in Nat
        /\ Twice(k + 1) = IF deskew_ THEN Twice(k) + Half ELSE Twice(k)
    BY <1>1, TwiceGrows
  <1>5. Early \in Nat
    BY Constants DEF Early
  <1> HIDE DEF k
  <1>6. /\ Cost(k + 2, lost) = Cost(k, lost) + 2 * ImuLag
        /\ Cost(k + 1, lost + 1) = Cost(k, lost) + ImuLag + MaxPeriod
    BY <1>2, <1>3, Constants
  <1>7. QED
    BY <1>1, <1>3, <1>4, <1>5, <1>6 DEF k

-----------------------------------------------------------------------------
(* Each action preserves the invariant *)

LEMMA ImuStep ==
  ASSUME PipeInv, ReceiveImu
  PROVE  PipeInv'
  <1>1. oldest' \in Nat /\ newest' \in Nat
    <2>1. oldest \in Nat /\ newest \in Nat
      BY Numbers DEF PipeInv
    <2>2. newest' \in Nat
      BY <2>1, Constants DEF ReceiveImu
    <2>3. BufferSize \in Nat
      BY Constants
    <2>4. newest' - BufferSize + 1 \in Int
      BY <2>2, <2>3
    <2>5. oldest' = newest' \/ oldest' = oldest
            \/ (oldest' = newest' - BufferSize + 1 /\ oldest < newest' - BufferSize + 1)
      BY DEF ReceiveImu, Larger
    <2>6. QED
      BY <2>1, <2>2, <2>4, <2>5
  <1>2. Typed'
    BY <1>1 DEF PipeInv, Typed, TypeOK, ReceiveImu, fixVars
  <1>3. Behind' /\ RigidBehind' /\ Ahead'
    BY DEF PipeInv, Behind, RigidBehind, Ahead, ReceiveImu, fixVars, Cost, Twice, Early
  <1>4. QED
    BY <1>2, <1>3 DEF PipeInv

\* The prior of a scan is between the old anchor carried to the end of the
\* samples and the old anchor itself.
LEMMA ScanStep ==
  ASSUME PipeInv, NEW s \in AfterSweep, ReceiveScan(s)
  PROVE  PipeInv'
  <1> DEFINE k == consecutive_failures
             C == Cost(k, lost)
             W == Twice(k)
  <1> USE Numbers DEF PipeInv
  <1>1. /\ s \in Int /\ s >= prev_scan_stamp + 1 /\ s <= prev_scan_stamp + MaxPeriod
    BY Constants DEF AfterSweep, Soon, Smaller
  <1>2. /\ phase = "idle" /\ phase' = "prior" /\ T_prior' = Prior(s) /\ prev_scan_stamp' = s
        /\ lost' = IF Integrable(s) THEN lost ELSE lost + 1
        /\ current_pose' = current_pose /\ basePose' = basePose /\ newest' = newest
        /\ oldest' = oldest /\ deskew_' = deskew_ /\ resets' = resets
        /\ last_gicp_pose' = last_gicp_pose
        /\ consecutive_failures' = consecutive_failures /\ last_gicp_stamp' = last_gicp_stamp
    BY DEF ReceiveScan, NextPrevStamp, imuVars
  <1>3. \/ /\ lost' = lost
           /\ T_prior' \in Nat
           /\ T_prior' >= current_pose + (s - prev_scan_stamp) - ImuLag
           /\ T_prior' <= current_pose + (s - prev_scan_stamp) + IF deskew_ THEN Half ELSE 0
           /\ prev_scan_stamp > 0
        \/ lost' = lost + 1 /\ T_prior' = current_pose
    <2>1. CASE Integrable(s)
      <3>1. /\ Target(s) \in Int /\ Target(s) >= prev_scan_stamp
            /\ Target(s) <= (IF deskew_ THEN s + Half ELSE s)
            /\ Target(s) >= s - ImuLag /\ prev_scan_stamp > 0
        BY <1>1, <2>1, Constants
           DEF Integrable, Target, PriorTime, Smaller, ReceiveScan
      <3>2. T_prior' = current_pose + (Target(s) - prev_scan_stamp) /\ lost' = lost
        BY <1>2, <2>1 DEF Prior, Typed
      <3> HIDE DEF PipeInv
      <3>3. prev_scan_stamp \in Nat /\ current_pose \in Nat /\ Half \in Nat /\ ImuLag \in Nat
        BY Constants DEF PipeInv
      <3>4. QED
        BY <1>1, <3>1, <3>2, <3>3
    <2>2. CASE ~Integrable(s)
      BY <1>2, <2>2 DEF Prior
    <2>3. QED
      BY <2>1, <2>2
  <1>4. Behind' /\ RigidBehind'
    <2>1. prev_scan_stamp - current_pose <= C + ImuLag
      BY <1>2 DEF Behind
    <2>2. ~deskew_ /\ resets = 0 => prev_scan_stamp - current_pose <= C
      BY <1>2 DEF RigidBehind
    <2>3. /\ s - T_prior' <= Cost(k + 2, lost')
          /\ s - current_pose <= Cost(k + 1, lost' + 1)
          /\ ~deskew_ /\ resets = 0 => /\ s - T_prior' <= Cost(k + 1, lost')
                                       /\ s - current_pose <= Cost(k, lost' + 1)
      <3>1. /\ prev_scan_stamp \in Nat /\ current_pose \in Nat /\ T_prior' \in Nat
            /\ ImuLag \in Nat /\ MaxPeriod \in Nat /\ Half \in Nat /\ C \in Nat
            /\ k \in Nat /\ lost \in Nat /\ deskew_ \in BOOLEAN
        BY <1>3, Constants
      <3>2. /\ Cost(k + 1, lost) = C + ImuLag /\ Cost(k + 2, lost) = C + 2 * ImuLag
            /\ Cost(k, lost + 1) = C + MaxPeriod
            /\ Cost(k + 1, lost + 1) = C + ImuLag + MaxPeriod
        OBVIOUS
      <3>3. /\ Cost(k + 2, lost + 1) = C + 2 * ImuLag + MaxPeriod
            /\ Cost(k + 1, lost + 1 + 1) = C + ImuLag + 2 * MaxPeriod
            /\ Cost(k, lost + 1 + 1) = C + 2 * MaxPeriod
        <4>1. /\ Cost(k + 2, lost + 1) = Cost(k + 2, lost) + MaxPeriod
              /\ Cost(k + 1, lost + 1 + 1) = Cost(k + 1, lost + 1) + MaxPeriod
              /\ Cost(k, lost + 1 + 1) = Cost(k, lost + 1) + MaxPeriod
          <5>1. k + 2 \in Nat /\ k + 1 \in Nat /\ lost + 1 \in Nat
            BY <3>1
          <5> HIDE DEF PipeInv, k, C
          <5>2. QED
            BY <5>1, <3>1, CostGrows
        <4> HIDE DEF PipeInv, k, C
        <4>2. QED
          BY <3>1, <3>2, <4>1
      <3> HIDE DEF PipeInv, k, C
      <3>4. CASE lost' = lost /\ T_prior' >= current_pose + (s - prev_scan_stamp) - ImuLag
        BY <1>1, <2>1, <2>2, <3>1, <3>2, <3>4
      <3>5. CASE lost' = lost + 1 /\ T_prior' = current_pose
        BY <1>1, <2>1, <2>2, <3>1, <3>2, <3>3, <3>5
      <3>6. QED
        BY <1>3, <3>4, <3>5
    <2> HIDE DEF PipeInv
    <2>4. QED
      BY <1>2, <2>3 DEF Behind, RigidBehind
  <1>5. Ahead'
    <2> SUFFICES ASSUME deskew_ \notin ImuLate \/ ~deskew_
                 PROVE  /\ current_pose - s <= W + Early
                        /\ T_prior' - s <= Twice(k + 1) + Early
      BY <1>1, <1>2 DEF Ahead, Early, Twice
    <2>1. IF prev_scan_stamp = 0 THEN current_pose <= Early
          ELSE current_pose - prev_scan_stamp <= W + Early
      BY DEF Ahead
    <2>2. /\ prev_scan_stamp \in Nat /\ current_pose \in Nat /\ T_prior' \in Nat
          /\ Half \in Nat /\ W \in Nat /\ Early \in Nat /\ deskew_ \in BOOLEAN
          /\ Twice(k + 1) = IF deskew_ THEN W + Half ELSE W
      BY <1>3, Constants
    <2> HIDE DEF PipeInv, k, W
    <2>3. current_pose - s <= W + Early
      BY <1>1, <2>1, <2>2
    <2>4. CASE /\ T_prior' <= current_pose + (s - prev_scan_stamp) + IF deskew_ THEN Half ELSE 0
               /\ prev_scan_stamp > 0
      BY <1>1, <2>1, <2>2, <2>4
    <2>5. CASE T_prior' = current_pose
      <3>1. s \in Int /\ Twice(k + 1) \in Nat /\ Twice(k + 1) >= W
        BY <1>1, <2>2
      <3>2. \A a, b, w, d, e \in Int : a - b <= w + d /\ e >= w => a - b <= e + d
        OBVIOUS
      <3>3. T_prior' - s <= W + Early
        BY <2>3, <2>5
      <3>4. T_prior' \in Int /\ s \in Int /\ W \in Int /\ Early \in Int /\ Twice(k + 1) \in Int
        BY <2>2, <3>1
      <3>5. T_prior' - s <= Twice(k + 1) + Early
        BY <3>1, <3>2, <3>3, <3>4
      <3>6. QED
        BY <2>3, <3>5
    <2>6. QED
      BY <1>3, <2>3, <2>4, <2>5
  <1>6. Typed'
    <2>1. /\ T_prior' \in Nat /\ s \in Nat /\ s > 0 /\ lost' \in Nat
          /\ last_gicp_stamp <= s
      BY <1>1, <1>3 DEF Typed
    <2>2. CASE ~deskew_ \/ newest = 0
      <3>1. current_scan' = "lidar"
        BY <2>2 DEF ReceiveScan
      <3>2. ~(deskew_ /\ deskew_ \notin ImuLate)
        BY <2>2 DEF ReceiveScan
      <3>3. QED
        BY <1>2, <2>1, <3>1, <3>2 DEF Typed, TypeOK
    <2>3. CASE ~(~deskew_ \/ newest = 0)
      <3>1. current_scan' = IF Integrable(s) THEN "deskewed" ELSE "rigid"
        BY <2>3 DEF ReceiveScan
      <3>2. newest >= s - ImuLag
        BY <2>3 DEF ReceiveScan
      <3>3. current_scan' \in {"deskewed", "rigid"}
        BY <3>1
      <3>4. QED
        BY <1>2, <2>1, <2>3, <3>2, <3>3 DEF Typed, TypeOK
    <2>4. QED
      BY <2>2, <2>3
  <1>7. QED
    BY <1>4, <1>5, <1>6 DEF PipeInv

LEMMA DropStep ==
  ASSUME PipeInv, DropEmptyScan
  PROVE  PipeInv'
  <1> USE Numbers DEF PipeInv
  <1>1. /\ phase = "prior" /\ phase' = "idle" /\ lost' = lost + 1
        /\ UNCHANGED <<deskew_, oldest, newest, prev_scan_stamp, T_prior, current_scan,
                       current_pose, basePose, last_gicp_pose, last_gicp_stamp,
                       consecutive_failures, resets>>
    BY DEF DropEmptyScan, imuVars
  <1>2. Typed'
    BY <1>1 DEF Typed, TypeOK
  <1>3. Behind' /\ RigidBehind'
    BY <1>1 DEF Behind, RigidBehind
  <1>4. Ahead'
    BY <1>1 DEF Ahead, Typed, Early, Twice
  <1>5. QED
    BY <1>2, <1>3, <1>4

\* Where a match may put the vehicle.
LEMMA MatchBounds ==
  ASSUME PipeInv, phase = "prior", NEW c \in Candidates
  PROVE  /\ c \in Nat
         /\ c >= prev_scan_stamp - ImuLag
         /\ ~deskew_ => c >= prev_scan_stamp
         /\ deskew_ \notin ImuLate \/ ~deskew_ => c - prev_scan_stamp <= 2 * Half
  <1>1. /\ prev_scan_stamp \in Nat /\ newest \in Nat /\ T_prior \in Nat
        /\ deskew_ \in BOOLEAN /\ Half \in Nat /\ ImuLag \in Nat
    BY Numbers, Constants DEF PipeInv
  <1>2. CASE current_scan = "deskewed"
    <2>1. deskew_ /\ newest >= prev_scan_stamp - ImuLag
      BY <1>2, <1>1 DEF PipeInv, Typed
    <2>2. c \in Target(prev_scan_stamp) .. prev_scan_stamp + Half
      BY <1>2 DEF Candidates
    <2>3. Target(prev_scan_stamp) \in Nat
            /\ Target(prev_scan_stamp) >= prev_scan_stamp - ImuLag
      BY <1>1, <2>1 DEF Target, PriorTime, Smaller
    <2>4. c \in Nat /\ c >= prev_scan_stamp - ImuLag /\ c - prev_scan_stamp <= 2 * Half
      <3>1. Target(prev_scan_stamp) \in Int /\ prev_scan_stamp + Half \in Int
        BY <1>1, <2>3
      <3>2. c \in Int /\ c >= Target(prev_scan_stamp) /\ c <= prev_scan_stamp + Half
        BY <2>2, <3>1
      <3>3. QED
        BY <1>1, <2>3, <3>1, <3>2
    <2>5. QED
      BY <2>1, <2>4
  <1>3. CASE current_scan = "lidar" /\ deskew_
    <2>1. PICK t \in Sweep : c = t + T_prior
      BY <1>3 DEF Candidates
    <2>2. t \in Nat /\ t >= prev_scan_stamp
      BY <1>1, <2>1 DEF Sweep
    <2>3. ~(deskew_ \notin ImuLate \/ ~deskew_)
      BY <1>1, <1>3 DEF PipeInv, Typed
    <2>4. c \in Nat /\ c >= prev_scan_stamp - ImuLag
      BY <1>1, <2>1, <2>2
    <2>5. QED
      BY <1>3, <2>3, <2>4
  <1>4. CASE current_scan # "deskewed" /\ ~(current_scan = "lidar" /\ deskew_)
    <2>1. c \in Sweep
      BY <1>4 DEF Candidates
    <2>2. QED
      BY <1>1, <2>1 DEF Sweep
  <1>5. QED
    BY <1>2, <1>3, <1>4

LEMMA AcceptStep ==
  ASSUME PipeInv, NEW c \in Candidates, Accept(c)
  PROVE  PipeInv'
  <1>1. /\ phase = "prior" /\ phase' = "idle" /\ current_pose' = c /\ basePose' = c
        /\ last_gicp_pose' = c /\ last_gicp_stamp' = prev_scan_stamp
        /\ consecutive_failures' = 0 /\ lost' = 0
        /\ UNCHANGED <<deskew_, oldest, newest, prev_scan_stamp, T_prior, current_scan, resets>>
    BY DEF Accept, imuVars
  <1>2. /\ c \in Nat
        /\ c >= prev_scan_stamp - ImuLag
        /\ ~deskew_ => c >= prev_scan_stamp
        /\ deskew_ \notin ImuLate \/ ~deskew_ => c - prev_scan_stamp <= 2 * Half
    BY <1>1, MatchBounds
  <1>3. prev_scan_stamp \in Nat /\ prev_scan_stamp > 0 /\ Early \in Nat
    BY <1>1, Numbers DEF PipeInv, Typed
  <1>4. Typed'
    BY <1>1, <1>2, <1>3 DEF PipeInv, Typed, TypeOK
  <1>5. Cost(0, 0) = 0 /\ Cost(0 + 1, 0) = ImuLag /\ Twice(0) = 2 * Half
    BY CostGrows, TwiceGrows, Constants, Numbers DEF PipeInv
  <1>6. Behind' /\ RigidBehind'
    BY <1>1, <1>2, <1>3, <1>5, Constants DEF Behind, RigidBehind
  <1>7. Early' = Early /\ Twice(0)' = Twice(0)
    BY <1>1 DEF Early, Twice
  <1>8. Ahead'
    BY <1>1, <1>2, <1>3, <1>5, <1>7, Constants DEF Ahead
  <1>9. QED
    BY <1>4, <1>6, <1>8 DEF PipeInv

LEMMA RejectStep ==
  ASSUME PipeInv, Reject
  PROVE  PipeInv'
  <1> DEFINE k == consecutive_failures
  <1>1. /\ phase = "prior" /\ phase' = "idle" /\ current_pose' = T_prior
        /\ basePose' = T_prior /\ consecutive_failures' = k + 1
        /\ UNCHANGED <<deskew_, oldest, newest, prev_scan_stamp, T_prior, current_scan,
                       last_gicp_pose, last_gicp_stamp, lost, resets>>
    BY DEF Reject, HeldAnchor, imuVars
  <1>2. /\ k \in Nat /\ prev_scan_stamp \in Nat /\ prev_scan_stamp > 0 /\ T_prior \in Nat
    BY <1>1, Numbers DEF PipeInv, Typed
  <1>3. Typed'
    BY <1>1, <1>2 DEF PipeInv, Typed, TypeOK
  <1>4. k + 1 + 1 = k + 2 /\ k + 1 \in Nat
    BY <1>2
  <1>5. Behind' /\ RigidBehind'
    BY <1>1, <1>4 DEF PipeInv, Behind, RigidBehind
  <1>6. Ahead'
    <2> SUFFICES ASSUME deskew_ \notin ImuLate \/ ~deskew_
                 PROVE  T_prior - prev_scan_stamp <= Twice(k + 1) + Early
      BY <1>1, <1>2 DEF Ahead, Early, Twice
    <2>1. QED
      BY <1>1 DEF PipeInv, Ahead
  <1>7. QED
    BY <1>3, <1>5, <1>6 DEF PipeInv

LEMMA SnapStep ==
  ASSUME PipeInv, RejectAndSnap
  PROVE  PipeInv'
  <1>1. /\ phase = "prior" /\ phase' = "idle" /\ current_pose' = prev_scan_stamp
        /\ basePose' = prev_scan_stamp /\ consecutive_failures' = 0 /\ lost' = 0
        /\ UNCHANGED <<deskew_, oldest, newest, prev_scan_stamp, T_prior, current_scan,
                       last_gicp_pose, last_gicp_stamp, resets>>
    BY DEF RejectAndSnap, imuVars
  <1>2. prev_scan_stamp \in Nat /\ prev_scan_stamp > 0 /\ Early \in Nat
    BY <1>1, Numbers DEF PipeInv, Typed
  <1>3. Typed'
    BY <1>1, <1>2 DEF PipeInv, Typed, TypeOK
  <1>4. Cost(0, 0) = 0 /\ Cost(0 + 1, 0) = ImuLag /\ Twice(0) = 2 * Half
    BY CostGrows, TwiceGrows, Constants, Numbers DEF PipeInv
  <1>5. Behind' /\ RigidBehind'
    BY <1>1, <1>2, <1>4, Constants DEF Behind, RigidBehind
  <1>6. Early' = Early /\ Twice(0)' = Twice(0)
    BY <1>1 DEF Early, Twice
  <1>7. Ahead'
    BY <1>1, <1>2, <1>4, <1>6, Constants DEF Ahead
  <1>8. QED
    BY <1>3, <1>5, <1>7 DEF PipeInv

LEMMA ResetStep ==
  ASSUME PipeInv, NEW t \in Soon, ResetPose(t)
  PROVE  PipeInv'
  <1> DEFINE k == consecutive_failures
  <1>1. /\ phase = "idle" /\ resets' = resets + 1
        /\ current_pose' = t /\ basePose' = t
        /\ UNCHANGED <<deskew_, oldest, newest, phase, prev_scan_stamp, T_prior, current_scan,
                       last_gicp_pose, last_gicp_stamp, consecutive_failures, lost>>
    BY DEF ResetPose, imuVars, fixVars
  <1>2. prev_scan_stamp \in Nat /\ resets \in Nat /\ Twice(k) \in Nat
          /\ Cost(k + 1, lost) \in Nat
    BY Numbers, Constants DEF PipeInv
  <1>3. t \in Nat /\ t > prev_scan_stamp /\ t <= prev_scan_stamp + MaxPeriod
    BY <1>2, Constants DEF Soon, Smaller
  <1>4. Typed'
    BY <1>1, <1>2, <1>3 DEF PipeInv, Typed, TypeOK
  <1>5. resets' # 0 /\ Early' = MaxPeriod
    BY <1>1, <1>2 DEF Early
  <1>6. Behind'
    BY <1>1, <1>2, <1>3 DEF Behind
  <1>7. RigidBehind'
    BY <1>5 DEF RigidBehind
  <1>8. Ahead'
    <2>1. Twice(k)' = Twice(k)
      BY <1>1 DEF Twice
    <2>2. t - prev_scan_stamp <= Twice(k) + MaxPeriod
      BY <1>2, <1>3, Constants
    <2>3. prev_scan_stamp = 0 => t <= MaxPeriod
      BY <1>2, <1>3, Constants
    <2>4. QED
      BY <1>1, <1>5, <2>1, <2>2, <2>3 DEF Ahead
  <1>9. QED
    BY <1>4, <1>6, <1>7, <1>8 DEF PipeInv

LEMMA PipeStarts == Init => PipeInv
  <1> SUFFICES ASSUME Init
               PROVE  PipeInv
    OBVIOUS
  <1>1. Typed
    BY PipelineAssumption DEF Init, Typed, TypeOK
  <1>2. Cost(0, 0) \in Nat /\ Cost(0 + 1, 0) \in Nat
    BY CostGrows, Constants
  <1>3. Behind /\ RigidBehind
    BY <1>2 DEF Init, Behind, RigidBehind
  <1>4. Ahead
    BY DEF Init, Ahead, Early
  <1>5. QED
    BY <1>1, <1>3, <1>4 DEF PipeInv

LEMMA PipeContinues == PipeInv /\ [Next]_vars => PipeInv'
  <1> SUFFICES ASSUME PipeInv, [Next]_vars
               PROVE  PipeInv'
    OBVIOUS
  <1>1. CASE ReceiveImu
    BY <1>1, ImuStep
  <1>2. ASSUME NEW s \in AfterSweep, ReceiveScan(s)
        PROVE  PipeInv'
    BY <1>2, ScanStep
  <1>3. CASE DropEmptyScan
    BY <1>3, DropStep
  <1>4. ASSUME NEW c \in Candidates, Accept(c)
        PROVE  PipeInv'
    BY <1>4, AcceptStep
  <1>5. CASE Reject
    BY <1>5, RejectStep
  <1>6. CASE RejectAndSnap
    BY <1>6, SnapStep
  <1>7. ASSUME NEW t \in Soon, ResetPose(t)
        PROVE  PipeInv'
    BY <1>7, ResetStep
  <1>8. CASE UNCHANGED vars
    BY <1>8 DEF vars, imuVars, fixVars, PipeInv, Typed, TypeOK, Behind, RigidBehind, Ahead,
                Cost, Twice, Early
  <1>9. QED
    BY <1>1, <1>2, <1>3, <1>4, <1>5, <1>6, <1>7, <1>8 DEF Next

LEMMA PipeInvariant == Spec => []PipeInv
  BY PipeStarts, PipeContinues, PTL DEF Spec

-----------------------------------------------------------------------------
(* The properties *)

\* The poses, stamps and counters of dead reckoning never leave their types: no
\* prior is carried to before time 0.
THEOREM PipeTypeOK == Spec => []TypeOK
  <1>1. PipeInv => TypeOK
    BY DEF PipeInv, Typed
  <1>2. QED
    BY <1>1, PipeInvariant, PTL

\* Dead reckoning is behind by no more than a lag per rejected scan and a period
\* per lost interval, whatever the lag, the period, the limits and the modes.
THEOREM AlwaysNearlyCaughtUp == Spec => []NeverFarBehind
  <1>1. PipeInv => NeverFarBehind
    <2> SUFFICES ASSUME PipeInv, phase = "idle"
                 PROVE  prev_scan_stamp - current_pose
                          <= (consecutive_failures + 1) * ImuLag + lost * MaxPeriod
      BY DEF NeverFarBehind
    <2>1. QED
      BY DEF PipeInv, Behind, Cost
  <1>2. QED
    BY <1>1, PipeInvariant, PTL

\* Dead reckoning integrates no interval twice but half a sweep per rejected scan,
\* and the time to an initial pose, provided that no scan precedes all IMU samples
\* while deskewing is on: such a scan is matched in the wrong frame.
THEOREM AlwaysHardlyAhead ==
  ASSUME TRUE \notin ImuLate
  PROVE  Spec => []NeverFarAhead
  <1>1. PipeInv => NeverFarAhead
    <2> SUFFICES ASSUME PipeInv, phase = "idle", prev_scan_stamp > 0
                 PROVE  current_pose - prev_scan_stamp <= Overlap
      BY DEF NeverFarAhead
    <2>1. deskew_ \notin ImuLate \/ ~deskew_
      BY Numbers DEF PipeInv
    <2>2. current_pose - prev_scan_stamp <= Twice(consecutive_failures) + Early
      BY <2>1 DEF PipeInv, Ahead
    <2>3. QED
      BY <2>2 DEF Overlap, Twice, Early
  <1>2. QED
    BY <1>1, PipeInvariant, PTL

\* "This loosens the gate after a gap so a valid reacquisition is not rejected":
\* without deskewing a right match is within the jump limit of the prior after any
\* gap, whatever the scale of the gate.
THEOREM ReacquisitionAlwaysAdmitted == Spec => []ReacquisitionAdmitted
  <1>1. PipeInv => ReacquisitionAdmitted
    <2> DEFINE k == consecutive_failures
    <2> SUFFICES ASSUME PipeInv, phase = "prior", ~deskew_, lost = 0, resets = 0,
                        (k + 1) * ImuLag <= JumpLimit
                 PROVE  \E c \in Candidates : ~LargeJump(c)
      BY DEF ReacquisitionAdmitted
    <2>1. Candidates = Sweep
      BY DEF PipeInv, Typed, Candidates
    <2>2. /\ prev_scan_stamp \in Nat /\ T_prior \in Nat /\ k \in Nat /\ Half \in Nat
          /\ JumpLimit \in Nat /\ JumpScale \in Nat /\ JumpClamp \in Nat
          /\ last_gicp_stamp \in Nat /\ last_gicp_stamp <= prev_scan_stamp
      BY Numbers, Constants DEF PipeInv, Typed
    <2>3. prev_scan_stamp - T_prior <= JumpLimit
      <3>1. Cost(k + 1, 0) = (k + 1) * ImuLag
        BY <2>2, Constants DEF Cost
      <3>2. prev_scan_stamp - T_prior <= Cost(k + 1, 0)
        BY DEF PipeInv, RigidBehind
      <3>3. (k + 1) * ImuLag \in Int
        BY <2>2, Constants
      <3> HIDE DEF k
      <3>4. QED
        BY <2>2, <3>1, <3>2, <3>3
    <2>4. T_prior - prev_scan_stamp <= 2 * Half
      BY <2>2 DEF PipeInv, Ahead, Early, Twice
    <2>5. ScanDt \in Nat
      BY <2>2 DEF ScanDt, Smaller
    <2>6. JumpLimit + JumpScale * ScanDt >= JumpLimit /\ JumpLimit + JumpScale * ScanDt \in Nat
      BY <2>2, <2>5, Products
    <2>7. PICK c \in Sweep : Dist(c, T_prior) \in Int /\ Dist(c, T_prior) <= JumpLimit
      <3>1. CASE T_prior >= prev_scan_stamp
        <4>1. T_prior \in Sweep
          BY <2>2, <2>4, <3>1 DEF Sweep
        <4>2. Dist(T_prior, T_prior) = 0
          BY <2>2 DEF Dist, Larger, Smaller
        <4>3. QED
          BY <2>2, <4>1, <4>2
      <3>2. CASE T_prior < prev_scan_stamp
        <4>1. prev_scan_stamp \in Sweep
          BY <2>2 DEF Sweep
        <4>2. Dist(prev_scan_stamp, T_prior) = prev_scan_stamp - T_prior
          BY <2>2, <3>2 DEF Dist, Larger, Smaller
        <4>3. QED
          BY <2>2, <2>3, <4>1, <4>2
      <3>3. QED
        BY <2>2, <3>1, <3>2
    <2>8. ~LargeJump(c)
      <3>1. ~(Dist(c, T_prior) > JumpLimit + JumpScale * ScanDt)
        BY <2>2, <2>6, <2>7
      <3>2. QED
        BY <3>1 DEF LargeJump
    <2>9. QED
      BY <2>1, <2>7, <2>8
  <1>2. QED
    BY <1>1, PipeInvariant, PTL
=============================================================================
