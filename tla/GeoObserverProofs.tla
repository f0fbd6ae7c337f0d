-------------------------- MODULE GeoObserverProofs --------------------------
(***************************************************************************)
(* Proofs about GeoObserver, for any number of IMU threads and any bounds. *)
(*                                                                         *)
(* CorrectionKept is not inductive by itself: a thread may be computing    *)
(* from a copy of the state, and the step that stores its result is        *)
(* harmless only because the copy and the sequence number were taken       *)
(* together.  CopyMatchesSeq says so, and the conjunction is inductive.    *)
(*                                                                         *)
(* CleanResetHolds follows where each callback in progress stands between  *)
(* reading a lineage and storing it, and how long a velocity left over by  *)
(* an initial pose survives (CleanInv).  NoSampleSkipped follows which     *)
(* samples every log that may yet be stored is complete for (SampleInv),   *)
(* and the refinement of AtomicObserver what an undisturbed callback has   *)
(* copied (AtomicInv).                                                     *)
(***************************************************************************)
EXTENDS GeoObserver, TLAPS

\* A copy taken by propagateState contains the correction its sequence number
\* names, one of those made so far.
CopyMatchesSeq ==
  \A t \in ImuThreads : imu[t].pc = "computing" =>
    imu[t].read.fix = imu[t].seq /\ imu[t].seq <= update_seq

IInv == TypeOK /\ CorrectionKept /\ CopyMatchesSeq

-----------------------------------------------------------------------------
(* Small facts about the abstract values. *)

\* The estimate right after a correction or a re-initialisation.
LEMMA EstimateType ==
  ASSUME NEW r \in Nat, NEW f \in Nat
  PROVE  Estimate(r, f, <<>>) \in Estimates /\ Estimate(r, f, <<>>).fix = f
  <1>1. <<>> \in Seq(Nat)
    OBVIOUS
  <1>2. QED
    BY <1>1 DEF Estimate, Estimates

LEMMA LesserType ==
  ASSUME NEW a \in Nat, NEW b \in Nat
  PROVE  Lesser(a, b) \in Nat
BY DEF Lesser

LEMMA StampTypes ==
  /\ None \in Stamps
  /\ \A n \in Nat : ScanStamp(n) \in Stamps /\ PoseStamp(n) \in Stamps
BY DEF None, ScanStamp, PoseStamp, Stamps

LEMMA IdleType == IdleImu \in ImuRecord
  <1>1. Estimate(0, 0, <<>>) \in Estimates
    BY EstimateType
  <1>2. QED
    BY <1>1 DEF IdleImu, ImuRecord

\* Appending a sample to an estimate changes neither its type nor its fix.
LEMMA AppendType ==
  ASSUME NEW e \in Estimates, NEW m \in Nat
  PROVE  /\ [e EXCEPT !.log = Append(@, m)] \in Estimates
         /\ [e EXCEPT !.log = Append(@, m)].fix = e.fix
  <1>1. e.reset \in Nat /\ e.fix \in Nat /\ e.log \in Seq(Nat)
    BY DEF Estimates
  <1>2. Append(e.log, m) \in Seq(Nat)
    BY <1>1
  <1> DEFINE l == Append(e.log, m)
  <1>3. l \in Seq(Nat)
    BY <1>2
  <1> HIDE DEF l
  <1>4. [e EXCEPT !.log = l] \in Estimates /\ [e EXCEPT !.log = l].fix = e.fix
    BY <1>3 DEF Estimates
  <1>5. QED
    BY <1>4 DEF l

\* A copy of the state and of the sequence number is taken.
LEMMA CopyType ==
  ASSUME imu \in [ImuThreads -> ImuRecord], state \in Estimates, update_seq \in Nat,
         NEW t \in ImuThreads
  PROVE  [imu EXCEPT ![t].pc = "computing", ![t].read = state, ![t].seq = update_seq]
           \in [ImuThreads -> ImuRecord]
  <1>1. [imu[t] EXCEPT !.pc = "computing", !.read = state, !.seq = update_seq] \in ImuRecord
    BY DEF ImuRecord
  <1>2. [imu EXCEPT ![t].pc = "computing", ![t].read = state, ![t].seq = update_seq]
          = [imu EXCEPT ![t] = [imu[t] EXCEPT !.pc = "computing", !.read = state,
                                              !.seq = update_seq]]
    OBVIOUS
  <1>3. QED
    BY <1>1, <1>2

-----------------------------------------------------------------------------
(* Type correctness. *)

\* Every variable keeps its type: in particular update_seq and the lineages are
\* always natural numbers and each thread is at a step of its callback.
LEMMA InitType == Init => TypeOK
  <1> SUFFICES ASSUME Init PROVE TypeOK
    OBVIOUS
  <1>2. state \in Estimates
    BY EstimateType DEF Init
  <1>3. imu \in [ImuThreads -> ImuRecord]
    BY IdleType DEF Init
  <1>4. scan \in ScanRecord /\ reset \in [PoseSources -> ResetRecord]
    BY DEF Init, ScanRecord, ResetRecord
  <1>5. imu_meas \in [id : Nat, ok : BOOLEAN]
    BY DEF Init
  <1>6. prev_vel \in Nat /\ geo_prev_vel \in Nat /\ old_vel \in OldVelocities
    BY ConstantsAssumption DEF Init, AtRest, OldVelocities
  <1>7. QED
    BY <1>2, <1>3, <1>4, <1>5, <1>6, StampTypes DEF Init, TypeOK

\* The overlap histories are Boolean whatever happens.
LEMMA OverlapType ==
  ASSUME TrackOverlap, overlapped \in BOOLEAN, crowded \in BOOLEAN
  PROVE  overlapped' \in BOOLEAN /\ crowded' \in BOOLEAN
BY DEF TrackOverlap

LEMMA PriorTakenType ==
  ASSUME old_vel \in OldVelocities
  PROVE  PriorTaken \in OldVelocities
BY DEF PriorTaken, OldVelocities

\* A step of an IMU callback preserves types.
LEMMA ImuType ==
  ASSUME TypeOK, NEW t \in ImuThreads, ImuStep(t)
  PROVE  TypeOK'
  <1> USE DEF TypeOK, ImuKeeps, poseVars, stampVars, inVars
  <1>1. CASE PushImu(t)
    <2>1. samples' \in Nat
      BY <1>1 DEF PushImu
    <2>2. imu_meas' \in [id : Nat, ok : BOOLEAN] /\ due' \subseteq Nat
      <3>1. PICK ok \in BOOLEAN :
              /\ imu_meas' = [id |-> samples + 1, ok |-> ok]
              /\ due' = IF Propagating THEN due \ {samples}
                        ELSE IF ok /\ Seeded THEN due \cup {samples + 1} ELSE due
        BY <1>1 DEF PushImu
      <3>2. due' \subseteq Nat
        BY <3>1
      <3>3. imu_meas' \in [id : Nat, ok : BOOLEAN]
        BY <3>1
      <3>4. QED
        BY <3>2, <3>3
    <2>3. imu' \in [ImuThreads -> ImuRecord]
      BY <1>1 DEF PushImu, ImuRecord
    <2>4. UNCHANGED <<state, update_seq, first_opt_done, initialized, imu_calibrated,
                    scan, reset, current_pose, basePose, scan_stamp, prev_scan_stamp,
                    last_accepted_scan_stamp, consecutive_failures, scans, resets,
                    prev_vel, geo_prev_vel, old_vel>>
      BY <1>1 DEF PushImu
    <2>5. overlapped' \in BOOLEAN /\ crowded' \in BOOLEAN
      BY <1>1, OverlapType DEF PushImu
    <2>6. QED
      BY <2>1, <2>2, <2>3, <2>4, <2>5
  <1>2. CASE ApplyRtkSeed(t)
    <2>1. imu_calibrated' \in BOOLEAN /\ geo_prev_vel' \in Nat
      BY <1>2 DEF ApplyRtkSeed
    <2>2. state' \in Estimates
      BY <1>2, EstimateType DEF ApplyRtkSeed
    <2>3. imu' \in [ImuThreads -> ImuRecord]
      BY <1>2 DEF ApplyRtkSeed, ImuRecord
    <2>4. UNCHANGED <<update_seq, first_opt_done, initialized, imu_meas, scan, reset,
                    current_pose, basePose, scan_stamp, prev_scan_stamp,
                    last_accepted_scan_stamp, consecutive_failures, samples, due, scans,
                    resets, prev_vel, old_vel>>
      BY <1>2 DEF ApplyRtkSeed
    <2>5. overlapped' \in BOOLEAN /\ crowded' \in BOOLEAN
      BY <1>2, OverlapType DEF ApplyRtkSeed
    <2>6. QED
      BY <2>1, <2>2, <2>3, <2>4, <2>5
  <1>3. CASE ReadMeas(t)
    <2>1. imu' \in [ImuThreads -> ImuRecord]
      BY <1>3, IdleType DEF ReadMeas, ImuRecord
    <2>2. UNCHANGED <<state, update_seq, first_opt_done, initialized, imu_meas,
                    imu_calibrated, scan, reset, current_pose, basePose, scan_stamp,
                    prev_scan_stamp, last_accepted_scan_stamp, consecutive_failures,
                    samples, due, scans, resets, prev_vel, geo_prev_vel, old_vel>>
      BY <1>3 DEF ReadMeas
    <2>3. overlapped' \in BOOLEAN /\ crowded' \in BOOLEAN
      BY <1>3, OverlapType DEF ReadMeas
    <2>4. QED
      BY <2>1, <2>2, <2>3
  <1>4. CASE ReadState(t)
    <2>1. imu' \in [ImuThreads -> ImuRecord]
      BY <1>4, CopyType DEF ReadState
    <2>2. UNCHANGED <<state, update_seq, first_opt_done, initialized, imu_meas,
                    imu_calibrated, scan, reset, current_pose, basePose, scan_stamp,
                    prev_scan_stamp, last_accepted_scan_stamp, consecutive_failures,
                    samples, due, scans, resets, prev_vel, geo_prev_vel, old_vel>>
      BY <1>4 DEF ReadState
    <2>3. overlapped' \in BOOLEAN /\ crowded' \in BOOLEAN
      BY <1>4, OverlapType DEF ReadState
    <2>4. QED
      BY <2>1, <2>2, <2>3
  <1>5. CASE WriteState(t)
    <2>1. imu' \in [ImuThreads -> ImuRecord]
      BY <1>5, IdleType DEF WriteState
    <2>2. state' \in Estimates
      BY <1>5, AppendType DEF WriteState, ImuRecord
    <2>3. UNCHANGED <<update_seq, first_opt_done, initialized, imu_meas, imu_calibrated,
                    scan, reset, current_pose, basePose, scan_stamp, prev_scan_stamp,
                    last_accepted_scan_stamp, consecutive_failures, samples, due, scans,
                    resets, prev_vel, geo_prev_vel, old_vel>>
      BY <1>5 DEF WriteState
    <2>4. overlapped' \in BOOLEAN /\ crowded' \in BOOLEAN
      BY <1>5, OverlapType DEF WriteState
    <2>5. QED
      BY <2>1, <2>2, <2>3, <2>4
  <1>6. QED
    BY <1>1, <1>2, <1>3, <1>4, <1>5 DEF ImuStep

\* A step of the scan callback preserves types.
LEMMA ScanType ==
  ASSUME TypeOK, ReceiveScan \/ ScanStep
  PROVE  TypeOK'
  <1> USE DEF TypeOK, ScanKeeps, obsVars, poseVars, stampVars, velVars, inVars
  <1>1. CASE ReceiveScan
    <2>1. scans' \in Nat /\ scan_stamp' \in Stamps
      BY <1>1, StampTypes DEF ReceiveScan
    <2>2. scan' \in ScanRecord
      BY <1>1 DEF ReceiveScan, ScanRecord
    <2>3. UNCHANGED <<state, update_seq, first_opt_done, initialized, imu_meas,
                    imu_calibrated, imu, reset, current_pose, basePose, prev_scan_stamp,
                    last_accepted_scan_stamp, consecutive_failures, samples, due,
                    resets, prev_vel, geo_prev_vel, old_vel>>
      BY <1>1 DEF ReceiveScan
    <2>4. overlapped' \in BOOLEAN /\ crowded' \in BOOLEAN
      BY <1>1, OverlapType DEF ReceiveScan
    <2>5. QED
      BY <2>1, <2>2, <2>3, <2>4
  <1>2. CASE Deskew
    <2>1. prev_scan_stamp' \in Stamps
      BY <1>2 DEF Deskew
    <2>2. scan' \in ScanRecord /\ old_vel' \in OldVelocities
      <3>1. Lesser(basePose, prev_vel) \in Nat
        BY LesserType
      <3>2. scan' \in ScanRecord
        BY <1>2, <3>1 DEF Deskew, ScanRecord
      <3>3. old_vel' \in OldVelocities
        <4>1. PICK b \in BOOLEAN : old_vel' = [old_vel EXCEPT !.used = b /\ old_vel.kept]
          <5>1. \A history \in BOOLEAN : (prev_scan_stamp # None /\ history) \in BOOLEAN
            OBVIOUS
          <5>2. QED
            BY <1>2, <5>1 DEF Deskew
        <4>2. QED
          BY <4>1 DEF OldVelocities
      <3>4. QED
        BY <3>2, <3>3
    <2>3. UNCHANGED <<state, update_seq, first_opt_done, initialized, imu_meas,
                    imu_calibrated, imu, reset, current_pose, basePose, scan_stamp,
                    last_accepted_scan_stamp, consecutive_failures, samples, due, scans,
                    resets, prev_vel, geo_prev_vel>>
      BY <1>2 DEF Deskew
    <2>4. overlapped' \in BOOLEAN /\ crowded' \in BOOLEAN
      BY <1>2, OverlapType DEF Deskew
    <2>5. QED
      BY <2>1, <2>2, <2>3, <2>4
  <1>3. CASE DropEmptyScan
    <2>1. scan' \in ScanRecord
      BY <1>3 DEF DropEmptyScan, ScanRecord
    <2>2. UNCHANGED <<state, update_seq, first_opt_done, initialized, imu_meas,
                    imu_calibrated, imu, reset, current_pose, basePose, scan_stamp,
                    prev_scan_stamp, last_accepted_scan_stamp, consecutive_failures,
                    samples, due, scans, resets, prev_vel, geo_prev_vel, old_vel>>
      BY <1>3 DEF DropEmptyScan
    <2>3. overlapped' \in BOOLEAN /\ crowded' \in BOOLEAN
      BY <1>3, OverlapType DEF DropEmptyScan
    <2>4. QED
      BY <2>1, <2>2, <2>3
  <1>4. CASE Align
    <2>1. scan' \in ScanRecord
      BY <1>4 DEF Align, ScanRecord
    <2>2. UNCHANGED <<state, update_seq, first_opt_done, initialized, imu_meas,
                    imu_calibrated, imu, reset, current_pose, basePose, scan_stamp,
                    prev_scan_stamp, last_accepted_scan_stamp, consecutive_failures,
                    samples, due, scans, resets, prev_vel, geo_prev_vel, old_vel>>
      BY <1>4 DEF Align
    <2>3. overlapped' \in BOOLEAN /\ crowded' \in BOOLEAN
      BY <1>4, OverlapType DEF Align
    <2>4. QED
      BY <2>1, <2>2, <2>3
  <1>5. CASE AcceptPose
    <2>1. current_pose' \in Nat /\ basePose' \in Nat /\ old_vel' \in OldVelocities
      BY <1>5, PriorTakenType DEF AcceptPose, ScanRecord, OldVelocities
    <2>2. scan' \in ScanRecord
      BY <1>5 DEF AcceptPose, ScanRecord
    <2>3. UNCHANGED <<state, update_seq, first_opt_done, initialized, imu_meas,
                    imu_calibrated, imu, reset, scan_stamp, prev_scan_stamp,
                    last_accepted_scan_stamp, consecutive_failures, samples, due, scans,
                    resets, prev_vel, geo_prev_vel>>
      BY <1>5 DEF AcceptPose
    <2>4. overlapped' \in BOOLEAN /\ crowded' \in BOOLEAN
      BY <1>5, OverlapType DEF AcceptPose
    <2>5. QED
      BY <2>1, <2>2, <2>3, <2>4
  <1>6. CASE CorrectObserver
    <2>1. state' \in Estimates /\ update_seq' \in Nat /\ geo_prev_vel' \in Nat
      <3>1. update_seq + 1 \in Nat /\ scan.prior \in Nat /\ Lesser(state.reset, basePose) \in Nat
        <4>1. state.reset \in Nat /\ basePose \in Nat
          BY DEF Estimates
        <4>2. Lesser(state.reset, basePose) \in Nat
          BY <4>1, LesserType
        <4>3. QED
          BY <4>2 DEF ScanRecord
      <3>2. CASE first_opt_done
        <4>1. UpdateState
          BY <1>6, <3>2 DEF CorrectObserver
        <4>2. CASE scan.dt
          <5>1. Estimate(Lesser(state.reset, basePose), update_seq + 1, <<>>) \in Estimates
            BY <3>1, EstimateType
          <5>2. QED
            BY <4>1, <4>2, <3>1, <5>1 DEF UpdateState
        <4>3. CASE ~scan.dt
          BY <4>1, <4>3 DEF UpdateState
        <4>4. QED
          BY <4>2, <4>3
      <3>3. CASE ~first_opt_done
        <4>1. AtRest \in Nat
          BY ConstantsAssumption DEF AtRest
        <4>2. QED
          BY <1>6, <3>1, <3>3, <4>1, EstimateType DEF CorrectObserver, InitObserver
      <3>4. QED
        BY <3>2, <3>3
    <2>2. first_opt_done' \in BOOLEAN
      BY <1>6 DEF CorrectObserver
    <2>3. scan' \in ScanRecord
      BY <1>6 DEF CorrectObserver, ScanRecord
    <2>4. UNCHANGED <<initialized, imu_meas, imu_calibrated, imu, reset, current_pose,
                    basePose, scan_stamp, prev_scan_stamp, last_accepted_scan_stamp,
                    consecutive_failures, samples, due, scans, resets, prev_vel, old_vel>>
      BY <1>6 DEF CorrectObserver
    <2>5. overlapped' \in BOOLEAN /\ crowded' \in BOOLEAN
      BY <1>6, OverlapType DEF CorrectObserver
    <2>6. QED
      BY <2>1, <2>2, <2>3, <2>4, <2>5
  <1>7. CASE FinishAccept
    <2>1. prev_vel' \in Nat /\ old_vel' \in OldVelocities
      BY <1>7 DEF FinishAccept, NextVelocity, OldVelocities
    <2>2. consecutive_failures' \in Nat /\ last_accepted_scan_stamp' \in Stamps
      BY <1>7 DEF FinishAccept
    <2>3. scan' \in ScanRecord
      BY <1>7 DEF FinishAccept, ScanRecord
    <2>4. UNCHANGED <<state, update_seq, first_opt_done, initialized, imu_meas,
                    imu_calibrated, imu, reset, current_pose, basePose, scan_stamp,
                    prev_scan_stamp, samples, due, scans, resets, geo_prev_vel>>
      BY <1>7 DEF FinishAccept
    <2>5. overlapped' \in BOOLEAN /\ crowded' \in BOOLEAN
      BY <1>7, OverlapType DEF FinishAccept
    <2>6. QED
      BY <2>1, <2>2, <2>3, <2>4, <2>5
  <1>8. CASE Reject
    <2>1. current_pose' \in Nat /\ basePose' \in Nat /\ old_vel' \in OldVelocities
      BY <1>8, PriorTakenType DEF Reject, ScanRecord, OldVelocities
    <2>2. consecutive_failures' \in Nat
      BY <1>8 DEF Reject
    <2>3. scan' \in ScanRecord
      BY <1>8 DEF Reject, ScanRecord
    <2>4. UNCHANGED <<state, update_seq, first_opt_done, initialized, imu_meas,
                    imu_calibrated, imu, reset, scan_stamp, prev_scan_stamp,
                    last_accepted_scan_stamp, samples, due, scans, resets, prev_vel,
                    geo_prev_vel>>
      BY <1>8 DEF Reject
    <2>5. overlapped' \in BOOLEAN /\ crowded' \in BOOLEAN
      BY <1>8, OverlapType DEF Reject
    <2>6. QED
      BY <2>1, <2>2, <2>3, <2>4, <2>5
  <1>9. CASE SnapPoseToGT
    <2>1. state' \in Estimates /\ update_seq' \in Nat
      BY <1>9, EstimateType DEF SnapPoseToGT, RecoverFromGT
    <2>2. /\ current_pose' \in Nat /\ basePose' \in Nat /\ prev_vel' \in Nat
          /\ geo_prev_vel' \in Nat /\ old_vel' \in OldVelocities
      BY <1>9 DEF SnapPoseToGT, RecoverFromGT, OldVelocities
    <2>3. consecutive_failures' \in Nat
      BY <1>9 DEF SnapPoseToGT, RecoverFromGT
    <2>4. last_accepted_scan_stamp' \in Stamps
      BY <1>9 DEF SnapPoseToGT, RecoverFromGT
    <2>5. scan' \in ScanRecord
      BY <1>9 DEF SnapPoseToGT, RecoverFromGT, ScanRecord
    <2>6. UNCHANGED <<first_opt_done, initialized, imu_meas, imu_calibrated, imu, reset,
                    scan_stamp, prev_scan_stamp, samples, due, scans, resets>>
      BY <1>9 DEF SnapPoseToGT, RecoverFromGT
    <2>7. overlapped' \in BOOLEAN /\ crowded' \in BOOLEAN
      BY <1>9, OverlapType DEF SnapPoseToGT, RecoverFromGT
    <2>8. QED
      BY <2>1, <2>2, <2>3, <2>4, <2>5, <2>6, <2>7
  <1>10. CASE DeferSnap
    <2>1. /\ scan' \in ScanRecord /\ prev_vel' \in Nat
          /\ old_vel' \in OldVelocities
      BY <1>10 DEF DeferSnap, NextVelocity, ScanRecord, OldVelocities
    <2>2. UNCHANGED <<state, update_seq, first_opt_done, initialized, imu_meas,
                    imu_calibrated, imu, reset, current_pose, basePose, scan_stamp,
                    prev_scan_stamp, last_accepted_scan_stamp, consecutive_failures,
                    samples, due, scans, resets, geo_prev_vel>>
      BY <1>10 DEF DeferSnap
    <2>3. overlapped' \in BOOLEAN /\ crowded' \in BOOLEAN
      BY <1>10, OverlapType DEF DeferSnap
    <2>4. QED
      BY <2>1, <2>2, <2>3
  <1>11. QED
    BY <1>1, <1>2, <1>3, <1>4, <1>5, <1>6, <1>7, <1>8, <1>9, <1>10 DEF ScanStep

\* A step of applyInitialPose preserves types.
LEMMA ResetType ==
  ASSUME TypeOK, NEW s \in PoseSources, ResetStep(s)
  PROVE  TypeOK'
  <1> USE DEF TypeOK, ResetKeeps, poseVars, inVars
  <1>1. CASE ResetPose(s)
    <2>1. resets' \in Nat /\ current_pose' \in Nat
      BY <1>1 DEF ResetPose
    <2>2. initialized' \in BOOLEAN /\ old_vel' \in OldVelocities
      BY <1>1 DEF ResetPose, OldVelocities
    <2>3. scan_stamp' \in Stamps
      BY <1>1, StampTypes DEF ResetPose
    <2>4. reset' \in [PoseSources -> ResetRecord]
      BY <1>1 DEF ResetPose, ResetRecord
    <2>5. UNCHANGED <<state, update_seq, first_opt_done, imu_meas, imu_calibrated, imu,
                    scan, basePose, prev_scan_stamp, last_accepted_scan_stamp,
                    consecutive_failures, samples, due, scans, prev_vel, geo_prev_vel>>
      BY <1>1 DEF ResetPose
    <2>6. overlapped' \in BOOLEAN /\ crowded' \in BOOLEAN
      BY <1>1, OverlapType DEF ResetPose
    <2>7. QED
      BY <2>1, <2>2, <2>3, <2>4, <2>5, <2>6
  <1>2. CASE ResetState(s)
    <2>1. state' \in Estimates /\ geo_prev_vel' \in Nat
      <3>1. reset[s].id \in Nat /\ AtRest \in Nat
        BY ConstantsAssumption DEF ResetRecord, AtRest
      <3>2. QED
        BY <1>2, <3>1, EstimateType DEF ResetState
    <2>2. reset' \in [PoseSources -> ResetRecord]
      BY <1>2 DEF ResetState, ResetRecord
    <2>3. UNCHANGED <<update_seq, first_opt_done, initialized, imu_meas, imu_calibrated,
                    imu, scan, current_pose, basePose, scan_stamp, prev_scan_stamp,
                    last_accepted_scan_stamp, consecutive_failures, samples, due, scans,
                    resets, prev_vel, old_vel>>
      BY <1>2 DEF ResetState
    <2>4. overlapped' \in BOOLEAN /\ crowded' \in BOOLEAN
      BY <1>2, OverlapType DEF ResetState
    <2>5. QED
      BY <2>1, <2>2, <2>3, <2>4
  <1>3. CASE ResetBase(s)
    <2>1. basePose' \in Nat
      BY <1>3 DEF ResetBase, ResetRecord
    <2>2. reset' \in [PoseSources -> ResetRecord]
      BY <1>3 DEF ResetBase, ResetRecord
    <2>3. UNCHANGED <<state, update_seq, first_opt_done, initialized, imu_meas,
                    imu_calibrated, imu, scan, current_pose, scan_stamp,
                    prev_scan_stamp, last_accepted_scan_stamp, consecutive_failures,
                    samples, due, scans, resets, prev_vel, geo_prev_vel, old_vel>>
      BY <1>3 DEF ResetBase
    <2>4. overlapped' \in BOOLEAN /\ crowded' \in BOOLEAN
      BY <1>3, OverlapType DEF ResetBase
    <2>5. QED
      BY <2>1, <2>2, <2>3, <2>4
  <1>4. CASE FinishOdomInit(s)
    <2>1. first_opt_done' \in BOOLEAN
      BY <1>4 DEF FinishOdomInit
    <2>2. reset' \in [PoseSources -> ResetRecord]
      BY <1>4 DEF FinishOdomInit, ResetRecord
    <2>3. UNCHANGED <<state, update_seq, initialized, imu_meas, imu_calibrated, imu,
                    scan, current_pose, basePose, scan_stamp, prev_scan_stamp,
                    last_accepted_scan_stamp, consecutive_failures, samples, due, scans,
                    resets, prev_vel, geo_prev_vel, old_vel>>
      BY <1>4 DEF FinishOdomInit
    <2>4. overlapped' \in BOOLEAN /\ crowded' \in BOOLEAN
      BY <1>4, OverlapType DEF FinishOdomInit
    <2>5. QED
      BY <2>1, <2>2, <2>3, <2>4
  <1>5. QED
    BY <1>1, <1>2, <1>3, <1>4 DEF ResetStep

\* TypeOK is an invariant of the specification.
THEOREM TypeCorrect == Spec => []TypeOK
  <1>1. Init => TypeOK
    BY InitType
  <1>2. TypeOK /\ [Next]_vars => TypeOK'
    <2> SUFFICES ASSUME TypeOK, [Next]_vars PROVE TypeOK'
      OBVIOUS
    <2>1. CASE Next
      BY <2>1, ImuType, ScanType, ResetType DEF Next
    <2>2. CASE UNCHANGED vars
      BY <2>2 DEF TypeOK, vars, obsVars, poseVars, stampVars, velVars, inVars
    <2>3. QED
      BY <2>1, <2>2
  <1>3. QED
    BY <1>1, <1>2, PTL DEF Spec

-----------------------------------------------------------------------------
(* No correction is lost. *)

\* At start-up nothing is corrected and nothing is being computed.
LEMMA InitInv == Init => IInv
  <1> SUFFICES ASSUME Init PROVE IInv
    OBVIOUS
  <1>1. TypeOK
    BY InitType
  <1>2. CorrectionKept
    BY EstimateType DEF Init, CorrectionKept
  <1>3. CopyMatchesSeq
    BY DEF Init, CopyMatchesSeq, IdleImu
  <1>4. QED
    BY <1>1, <1>2, <1>3 DEF IInv

\* Only the IMU callbacks touch the copies, and corrections only increment
\* update_seq, so a step that leaves imu alone keeps CopyMatchesSeq.
LEMMA CopyFrame ==
  ASSUME TypeOK, CopyMatchesSeq, UNCHANGED imu, update_seq' \in {update_seq, update_seq + 1}
  PROVE  CopyMatchesSeq'
BY DEF CopyMatchesSeq, TypeOK, ImuRecord

\* An IMU callback stores its result only when no correction was made since
\* its copy, and takes its copy and the sequence number together.
LEMMA ImuInv ==
  ASSUME IInv, NEW t \in ImuThreads, ImuStep(t)
  PROVE  CorrectionKept' /\ CopyMatchesSeq'
  <1> USE DEF IInv
  <1>1. UNCHANGED update_seq /\ update_seq \in Nat /\ resets \in Nat
    BY DEF ImuStep, PushImu, ApplyRtkSeed, ReadMeas, ReadState, WriteState, ImuKeeps, TypeOK
  <1>2. imu \in [ImuThreads -> ImuRecord]
    BY DEF TypeOK
  <1>3. CASE PushImu(t)
    <2>1. UNCHANGED state
      BY <1>3 DEF PushImu
    <2>2. imu' = [imu EXCEPT ![t].pc = "pushed"]
      BY <1>3 DEF PushImu
    <2>3. QED
      BY <1>1, <1>2, <2>1, <2>2 DEF CorrectionKept, CopyMatchesSeq, ImuRecord
  <1>4. CASE ApplyRtkSeed(t)
    <2>1. CorrectionKept'
      BY <1>1, <1>4, EstimateType DEF ApplyRtkSeed, CorrectionKept
    <2>2. imu' = [imu EXCEPT ![t].pc = "gate"]
      BY <1>4 DEF ApplyRtkSeed
    <2>3. QED
      BY <1>1, <1>2, <2>1, <2>2 DEF CopyMatchesSeq, ImuRecord
  <1>5. CASE ReadMeas(t)
    <2>1. UNCHANGED state
      BY <1>5 DEF ReadMeas
    <2>2. \A u \in ImuThreads : imu'[u].pc = "computing" => imu'[u] = imu[u]
      BY <1>2, <1>5 DEF ReadMeas, ImuRecord, IdleImu
    <2>3. QED
      BY <1>1, <2>1, <2>2 DEF CorrectionKept, CopyMatchesSeq
  <1>6. CASE ReadState(t)
    <2>1. UNCHANGED state
      BY <1>6 DEF ReadState
    <2>2. imu' = [imu EXCEPT ![t] = [@ EXCEPT !.pc = "computing", !.read = state,
                                              !.seq = update_seq]]
      BY <1>6 DEF ReadState
    <2>3. imu'[t].read = state /\ imu'[t].seq = update_seq
      BY <1>2, <2>2 DEF ImuRecord
    <2>4. \A u \in ImuThreads \ {t} : imu'[u] = imu[u]
      BY <1>2, <2>2
    <2>5. QED
      BY <1>1, <2>1, <2>3, <2>4 DEF CorrectionKept, CopyMatchesSeq
  <1>7. CASE WriteState(t)
    <2>1. imu[t].read \in Estimates /\ imu[t].meas \in Nat
      BY <1>2 DEF ImuRecord
    <2>2. CorrectionKept'
      <3>1. CASE Fresh(t)
        <4>1. state' = [imu[t].read EXCEPT !.log = Append(@, imu[t].meas)]
          BY <1>7, <3>1 DEF WriteState
        <4>2. state'.fix = imu[t].read.fix
          BY <2>1, <4>1, AppendType
        <4>3. imu[t].read.fix = imu[t].seq
          BY <1>7 DEF WriteState, CopyMatchesSeq
        <4>4. QED
          BY <1>1, <3>1, <4>2, <4>3 DEF Fresh, CorrectionKept
      <3>2. CASE ~Fresh(t)
        BY <1>1, <1>7, <3>2 DEF WriteState, CorrectionKept
      <3>3. QED
        BY <3>1, <3>2
    <2>3. \A u \in ImuThreads : imu'[u].pc = "computing" => imu'[u] = imu[u]
      BY <1>2, <1>7 DEF WriteState, IdleImu
    <2>4. CopyMatchesSeq'
      BY <1>1, <2>3 DEF CopyMatchesSeq
    <2>5. QED
      BY <2>2, <2>4
  <1>8. QED
    BY <1>3, <1>4, <1>5, <1>6, <1>7 DEF ImuStep

\* A scan callback increments update_seq exactly when it corrects the state.
LEMMA ScanInv ==
  ASSUME IInv, ReceiveScan \/ ScanStep
  PROVE  CorrectionKept' /\ CopyMatchesSeq'
  <1> USE DEF IInv
  <1>1. UNCHANGED imu
    BY DEF ScanStep, ReceiveScan, Deskew, DropEmptyScan, Align, AcceptPose, CorrectObserver,
           FinishAccept, Reject, SnapPoseToGT, RecoverFromGT, DeferSnap, ScanKeeps
  <1>2. update_seq' \in {update_seq, update_seq + 1} => CopyMatchesSeq'
    BY <1>1, CopyFrame
  <1>3. /\ update_seq \in Nat /\ update_seq + 1 \in Nat /\ resets \in Nat
        /\ basePose \in Nat /\ scan.prior \in Nat /\ state.reset \in Nat
    BY DEF TypeOK, ScanRecord, Estimates
  <1>4. CASE UNCHANGED <<state, update_seq>>
    BY <1>2, <1>4 DEF CorrectionKept
  <1>5. CASE CorrectObserver
    <2>1. CASE first_opt_done /\ scan.dt
      <3>1. /\ update_seq' = update_seq + 1
            /\ state' = Estimate(Lesser(state.reset, basePose), update_seq + 1, <<>>)
        BY <1>5, <2>1 DEF CorrectObserver, UpdateState
      <3>2. Lesser(state.reset, basePose) \in Nat
        BY <1>3, LesserType
      <3>3. state'.fix = update_seq + 1
        BY <1>3, <3>1, <3>2, EstimateType
      <3>4. QED
        BY <1>2, <3>1, <3>3 DEF CorrectionKept
    <2>2. CASE first_opt_done /\ ~scan.dt
      BY <1>2, <1>5, <2>2 DEF CorrectObserver, UpdateState, CorrectionKept
    <2>3. CASE ~first_opt_done
      <3>1. state' = Estimate(scan.prior, update_seq, <<>>) /\ UNCHANGED update_seq
        BY <1>5, <2>3 DEF CorrectObserver, InitObserver
      <3>2. QED
        BY <1>2, <1>3, <3>1, EstimateType DEF CorrectionKept
    <2>4. QED
      BY <2>1, <2>2, <2>3, <1>5 DEF CorrectObserver
  <1>6. CASE SnapPoseToGT
    BY <1>2, <1>3, <1>6, EstimateType DEF SnapPoseToGT, RecoverFromGT, CorrectionKept
  <1>7. ReceiveScan \/ Deskew \/ DropEmptyScan \/ Align \/ AcceptPose \/ FinishAccept
          \/ Reject \/ DeferSnap
          => UNCHANGED <<state, update_seq>>
    BY DEF ReceiveScan, Deskew, DropEmptyScan, Align, AcceptPose, FinishAccept, Reject,
           DeferSnap, obsVars
  <1>8. QED
    BY <1>2, <1>4, <1>5, <1>6, <1>7 DEF ScanStep

\* applyInitialPose keeps the sequence number it finds.
LEMMA ResetInv ==
  ASSUME IInv, NEW s \in PoseSources, ResetStep(s)
  PROVE  CorrectionKept' /\ CopyMatchesSeq'
  <1> USE DEF IInv
  <1>1. UNCHANGED <<imu, update_seq>>
    BY DEF ResetStep, ResetPose, ResetState, ResetBase, FinishOdomInit, ResetKeeps
  <1>2. CopyMatchesSeq'
    BY <1>1, CopyFrame
  <1>3. update_seq \in Nat /\ reset[s].id \in Nat
    BY DEF TypeOK, ResetRecord
  <1>4. CASE ResetState(s)
    BY <1>1, <1>2, <1>3, <1>4, EstimateType DEF ResetState, CorrectionKept
  <1>5. CASE ResetPose(s) \/ ResetBase(s) \/ FinishOdomInit(s)
    BY <1>1, <1>2, <1>5 DEF ResetPose, ResetBase, FinishOdomInit, CorrectionKept
  <1>6. QED
    BY <1>4, <1>5 DEF ResetStep

\* IInv is an invariant of the specification.
LEMMA InductiveInvariant == Spec => []IInv
  <1>1. Init => IInv
    BY InitInv
  <1>2. IInv /\ [Next]_vars => IInv'
    <2> SUFFICES ASSUME IInv, [Next]_vars PROVE IInv'
      OBVIOUS
    <2>1. CASE Next
      <3>1. TypeOK'
        BY <2>1, ImuType, ScanType, ResetType DEF Next, IInv
      <3>2. CorrectionKept' /\ CopyMatchesSeq'
        BY <2>1, ImuInv, ScanInv, ResetInv DEF Next
      <3>3. QED
        BY <3>1, <3>2 DEF IInv
    <2>2. CASE UNCHANGED vars
      BY <2>2 DEF IInv, TypeOK, CorrectionKept, CopyMatchesSeq, vars, obsVars, poseVars,
                  stampVars, velVars, inVars
    <2>3. QED
      BY <2>1, <2>2
  <1>3. QED
    BY <1>1, <1>2, PTL DEF Spec

\* A correction from an accepted scan or a ground-truth snap is never
\* overwritten by a propagation computed from the state before it, for any
\* number of overlapping IMU callbacks.
THEOREM CorrectionsSurvive == Spec => []CorrectionKept
  <1>1. IInv => CorrectionKept
    BY DEF IInv
  <1>2. QED
    BY <1>1, InductiveInvariant, PTL

-----------------------------------------------------------------------------
(* A re-initialisation that overlaps nothing takes effect everywhere, but for *)
(* the velocity it leaves in prev_vel.                                       *)

\* Callbacks and re-initialisations alternate.
Apart ==
  /\ Resetting => ~Working /\ ~ResettingTwice
  /\ \A s \in PoseSources : reset[s].pc # "idle" => reset[s].id = resets

\* Unless a pose was predicted from the velocity left over, every lineage that has
\* been stored, or read and may yet be stored, is the last one.
LineagesAgree ==
  old_vel.moved = 0 =>
    /\ current_pose = resets
    /\ (\A s \in PoseSources : reset[s].pc # "posed") =>
         state.reset = resets /\ geo_prev_vel >= resets
    /\ (\A s \in PoseSources : reset[s].pc \notin {"posed", "observed"}) => basePose = resets
    /\ old_vel.kept \/ prev_vel >= resets
    /\ scan.pc \notin {"idle", "received"} /\ ~old_vel.used => scan.prior = resets
    /\ \A t \in ImuThreads : imu[t].pc = "computing" /\ imu[t].seq = update_seq =>
         imu[t].read.reset = resets

\* The velocity left over is gone once the scan that took a pose from it is done.
OldVelocityOnce ==
  /\ old_vel.moved <= 1
  /\ old_vel.moved = 1 /\ old_vel.kept => scan.pc \in {"accepted", "corrected", "rejected"}
  /\ old_vel.moved = 1 /\ old_vel.used => scan.pc \notin {"deskewed", "aligning"}
  /\ old_vel.used /\ scan.pc \in {"accepted", "corrected", "rejected"} => old_vel.moved = 1

CleanInv == /\ resets <= MaxReset
            /\ ~overlapped => Apart /\ LineagesAgree /\ OldVelocityOnce

\* What TrackOverlap says of a step after which nothing has overlapped.
LEMMA StillApart ==
  ASSUME TrackOverlap, ~overlapped'
  PROVE  ~overlapped /\ (Resetting' => ~Working' /\ ~ResettingTwice')
BY DEF TrackOverlap

\* While a callback runs, no re-initialisation does and all lineages agree.
LEMMA WorkingAgrees ==
  ASSUME CleanInv, ~overlapped, Working
  PROVE  /\ \A s \in PoseSources : reset[s].pc = "idle"
         /\ old_vel.moved = 0 =>
              /\ current_pose = resets /\ basePose = resets
              /\ state.reset = resets /\ geo_prev_vel >= resets
  <1>1. ~Resetting
    BY DEF CleanInv, Apart
  <1>2. \A s \in PoseSources : reset[s].pc = "idle"
    BY <1>1 DEF Resetting
  <1>3. QED
    BY <1>2 DEF CleanInv, LineagesAgree

LEMMA EstimateReset ==
  ASSUME NEW r, NEW f, NEW l
  PROVE  Estimate(r, f, l).reset = r /\ Estimate(r, f, l).fix = f /\ Estimate(r, f, l).log = l
BY DEF Estimate

\* Appending a sample keeps the lineage.
LEMMA AppendReset ==
  ASSUME NEW e \in Estimates, NEW m \in Nat
  PROVE  [e EXCEPT !.log = Append(@, m)].reset = e.reset
  <1> DEFINE l == Append(e.log, m)
  <1> HIDE DEF l
  <1>1. [e EXCEPT !.log = l].reset = e.reset
    BY DEF Estimates
  <1>2. QED
    BY <1>1 DEF l

LEMMA ImuClean ==
  ASSUME IInv, CleanInv, NEW t \in ImuThreads, ImuStep(t)
  PROVE  CleanInv'
  <1>1. /\ UNCHANGED <<update_seq, current_pose, basePose, prev_vel, scan, reset, resets, old_vel>>
        /\ TrackOverlap
    BY DEF ImuStep, PushImu, ApplyRtkSeed, ReadMeas, ReadState, WriteState, ImuKeeps, poseVars
  <1> SUFFICES ASSUME ~overlapped'
               PROVE  Apart' /\ LineagesAgree' /\ OldVelocityOnce'
    BY <1>1 DEF CleanInv
  <1>2. ~overlapped /\ (Resetting' => ~Working' /\ ~ResettingTwice')
    BY <1>1, StillApart
  <1>3. imu \in [ImuThreads -> ImuRecord] /\ state \in Estimates /\ resets \in Nat
    BY DEF IInv, TypeOK
  <1>4. Apart' /\ OldVelocityOnce'
    BY <1>1, <1>2 DEF CleanInv, Apart, OldVelocityOnce
  <1> SUFFICES ASSUME old_vel.moved = 0
               PROVE  LineagesAgree'
    BY <1>1, <1>4 DEF LineagesAgree
  <1>5. imu[t].pc # "idle" => state.reset = resets /\ geo_prev_vel >= resets
    BY <1>2, WorkingAgrees DEF Working, Propagating
  <1>6. \A u \in ImuThreads : imu[u].pc = "computing" /\ imu[u].seq = update_seq =>
          imu[u].read.reset = resets
    BY <1>2 DEF CleanInv, LineagesAgree
  <1>7. /\ (state'.reset = state.reset /\ geo_prev_vel' = geo_prev_vel)
             \/ (state'.reset = resets /\ geo_prev_vel' >= resets)
        /\ \A u \in ImuThreads : imu'[u].pc = "computing" /\ imu'[u].seq = update_seq =>
             imu'[u].read.reset = resets
    <2>1. CASE PushImu(t)
      <3>1. /\ imu' = [imu EXCEPT ![t].pc = "pushed"]
            /\ state' = state /\ geo_prev_vel' = geo_prev_vel
        BY <2>1 DEF PushImu
      <3>2. QED
        BY <1>3, <1>6, <3>1 DEF ImuRecord
    <2>2. CASE ApplyRtkSeed(t)
      <3>1. /\ imu' = [imu EXCEPT ![t].pc = "gate"] /\ geo_prev_vel' = resets
            /\ state' = Estimate(resets, update_seq, <<>>)
        BY <2>2 DEF ApplyRtkSeed
      <3>2. state'.reset = resets /\ geo_prev_vel' >= resets
        BY <1>3, <3>1, EstimateReset
      <3>3. QED
        BY <1>3, <1>6, <3>1, <3>2 DEF ImuRecord
    <2>3. CASE ReadMeas(t)
      <3>1. /\ state' = state /\ geo_prev_vel' = geo_prev_vel
            /\ \A u \in ImuThreads : imu'[u].pc = "computing" => imu'[u] = imu[u]
        BY <1>3, <2>3 DEF ReadMeas, ImuRecord, IdleImu
      <3>2. QED
        BY <1>6, <3>1
    <2>4. CASE ReadState(t)
      <3>1. /\ imu' = [imu EXCEPT ![t].pc = "computing", ![t].read = state,
                                  ![t].seq = update_seq]
            /\ state' = state /\ geo_prev_vel' = geo_prev_vel /\ imu[t].pc # "idle"
        BY <2>4 DEF ReadState
      <3>2. imu'[t].read = state /\ \A u \in ImuThreads \ {t} : imu'[u] = imu[u]
        BY <1>3, <3>1 DEF ImuRecord
      <3>3. QED
        BY <1>5, <1>6, <3>1, <3>2
    <2>5. CASE WriteState(t)
      <3>1. \A u \in ImuThreads : imu'[u].pc = "computing" => imu'[u] = imu[u]
        BY <1>3, <2>5 DEF WriteState, IdleImu
      <3>2. /\ state' = state \/ (Fresh(t) /\ state' = [imu[t].read EXCEPT !.log = Append(@, imu[t].meas)])
            /\ geo_prev_vel' = geo_prev_vel
        BY <2>5 DEF WriteState
      <3>3. imu[t].read \in Estimates /\ imu[t].meas \in Nat /\ imu[t].pc = "computing"
        BY <1>3, <2>5 DEF ImuRecord, WriteState
      <3>4. CASE state' = state
        BY <1>6, <3>1, <3>2, <3>4
      <3>5. CASE Fresh(t) /\ state' = [imu[t].read EXCEPT !.log = Append(@, imu[t].meas)]
        <4>1. state'.reset = resets
          BY <1>6, <3>3, <3>5, AppendReset DEF Fresh
        <4>2. geo_prev_vel' >= resets
          BY <1>5, <3>2, <3>3
        <4>3. QED
          BY <1>6, <3>1, <4>1, <4>2
      <3>6. QED
        BY <3>2, <3>4, <3>5
    <2>6. QED
      BY <2>1, <2>2, <2>3, <2>4, <2>5 DEF ImuStep
  <1>8. QED
    BY <1>1, <1>2, <1>7 DEF CleanInv, LineagesAgree

\* The lineages a scan callback stores are the ones it read; the first pose it
\* takes from an old velocity is the last one.
LEMMA ScanClean ==
  ASSUME IInv, CleanInv, ReceiveScan \/ ScanStep
  PROVE  CleanInv'
  <1>1. UNCHANGED <<imu, reset, resets>> /\ TrackOverlap
    BY DEF ScanStep, ReceiveScan, Deskew, DropEmptyScan, Align, AcceptPose, CorrectObserver,
           FinishAccept, Reject, SnapPoseToGT, RecoverFromGT, DeferSnap, ScanKeeps
  <1> SUFFICES ASSUME ~overlapped'
               PROVE  Apart' /\ LineagesAgree' /\ OldVelocityOnce'
    BY <1>1 DEF CleanInv
  <1>2. ~overlapped /\ (Resetting' => ~Working' /\ ~ResettingTwice')
    BY <1>1, StillApart
  <1>3. /\ scan \in ScanRecord /\ resets \in Nat /\ old_vel \in OldVelocities
        /\ prev_vel \in Nat /\ geo_prev_vel \in Nat /\ update_seq \in Nat
        /\ imu \in [ImuThreads -> ImuRecord] /\ MaxReset \in Nat
    BY ConstantsAssumption DEF IInv, TypeOK
  <1>4. Apart'
    BY <1>1, <1>2 DEF CleanInv, Apart
  <1>5. LineagesAgree /\ OldVelocityOnce /\ resets <= MaxReset
    BY <1>2 DEF CleanInv
  <1>6. CASE ReceiveScan
    <2>1. /\ UNCHANGED <<state, update_seq, current_pose, basePose, prev_vel, geo_prev_vel, old_vel>>
          /\ scan.pc = "idle" /\ scan' = [scan EXCEPT !.pc = "received"]
      BY <1>6 DEF ReceiveScan, obsVars, poseVars, velVars
    <2>2. scan'.pc = "received"
      BY <1>3, <2>1 DEF ScanRecord
    <2>3. LineagesAgree'
      BY <1>1, <1>5, <2>1, <2>2 DEF LineagesAgree
    <2>4. OldVelocityOnce'
      BY <1>5, <2>1, <2>2 DEF OldVelocityOnce
    <2>5. QED
      BY <1>4, <2>3, <2>4
  <1>7. CASE ScanStep
    <2>1. scan.pc # "idle"
      BY <1>7 DEF ScanStep, Deskew, DropEmptyScan, Align, AcceptPose, CorrectObserver,
                  FinishAccept, Reject, SnapPoseToGT, DeferSnap, NotAccepted
    <2>2. /\ \A s \in PoseSources : reset[s].pc = "idle"
          /\ old_vel.moved = 0 =>
               /\ current_pose = resets /\ basePose = resets
               /\ state.reset = resets /\ geo_prev_vel >= resets
               /\ old_vel.kept \/ prev_vel >= resets
               /\ scan.pc # "received" /\ ~old_vel.used => scan.prior = resets
               /\ \A t \in ImuThreads : imu[t].pc = "computing" /\ imu[t].seq = update_seq =>
                    imu[t].read.reset = resets
      BY <1>2, <1>5, <2>1, WorkingAgrees DEF Working, LineagesAgree
    <2>3. /\ old_vel.moved \in {0, 1}
          /\ old_vel.moved = 1 /\ old_vel.kept => scan.pc \in {"accepted", "corrected", "rejected"}
          /\ old_vel.moved = 1 /\ old_vel.used => scan.pc \notin {"deskewed", "aligning"}
          /\ old_vel.used /\ scan.pc \in {"accepted", "corrected", "rejected"} => old_vel.moved = 1
      BY <1>3, <1>5 DEF OldVelocityOnce, OldVelocities
    <2>4. /\ old_vel'.moved = 0 =>
               /\ current_pose' = resets /\ basePose' = resets
               /\ state'.reset = resets /\ geo_prev_vel' >= resets
               /\ old_vel'.kept \/ prev_vel' >= resets
               /\ scan'.pc \notin {"idle", "received"} /\ ~old_vel'.used => scan'.prior = resets
               /\ \A t \in ImuThreads : imu[t].pc = "computing" /\ imu[t].seq = update_seq' =>
                    imu[t].read.reset = resets
          /\ old_vel'.moved <= 1
          /\ old_vel'.moved = 1 /\ old_vel'.kept => scan'.pc \in {"accepted", "corrected", "rejected"}
          /\ old_vel'.moved = 1 /\ old_vel'.used => scan'.pc \notin {"deskewed", "aligning"}
          /\ old_vel'.used /\ scan'.pc \in {"accepted", "corrected", "rejected"} => old_vel'.moved = 1
      <3>1. CASE Deskew
        <4>1. /\ UNCHANGED <<state, update_seq, current_pose, basePose, prev_vel, geo_prev_vel>>
              /\ scan.pc = "received"
          BY <3>1 DEF Deskew, obsVars, poseVars, velVars
        <4>2. PICK history \in BOOLEAN :
                LET integrated == prev_scan_stamp # None /\ history IN
                /\ scan'.pc = "deskewed"
                /\ scan'.prior = IF integrated THEN Lesser(basePose, prev_vel) ELSE current_pose
                /\ old_vel' = [old_vel EXCEPT !.used = integrated /\ old_vel.kept]
          BY <3>1 DEF Deskew
        <4> DEFINE integrated == prev_scan_stamp # None /\ history
        <4> HIDE DEF integrated
        <4>3. /\ old_vel'.moved = old_vel.moved
              /\ old_vel'.kept <=> old_vel.kept
              /\ old_vel'.used <=> integrated /\ old_vel.kept
          BY <1>3, <4>2 DEF OldVelocities, integrated
        <4>4. old_vel.moved = 0 /\ ~old_vel'.used => scan'.prior = resets
          <5> SUFFICES ASSUME old_vel.moved = 0, ~old_vel'.used
                       PROVE  scan'.prior = resets
            OBVIOUS
          <5>1. CASE integrated
            <6>1. basePose = resets /\ prev_vel >= resets
              BY <2>2, <4>3, <5>1
            <6>2. Lesser(basePose, prev_vel) = resets
              BY <1>3, <6>1 DEF Lesser
            <6>3. QED
              BY <4>2, <5>1, <6>2 DEF integrated
          <5>2. CASE ~integrated
            BY <2>2, <4>2, <5>2 DEF integrated
          <5>3. QED
            BY <5>1, <5>2
        <4>5. old_vel.moved = 1 => ~old_vel.kept
          BY <2>3, <4>1
        <4>6. QED
          BY <2>2, <2>3, <4>1, <4>2, <4>3, <4>4, <4>5
      <3>2. CASE DropEmptyScan
        <4>1. /\ scan' = [scan EXCEPT !.pc = "idle"] /\ scan.pc \in {"received", "deskewed"}
              /\ UNCHANGED <<state, update_seq, current_pose, basePose, prev_vel, geo_prev_vel, old_vel>>
          BY <3>2 DEF DropEmptyScan, obsVars, poseVars, velVars
        <4>2. scan'.pc = "idle"
          BY <1>3, <4>1 DEF ScanRecord
        <4>3. QED
          BY <2>2, <2>3, <4>1, <4>2
      <3>3. CASE Align
        <4>1. /\ scan' = [scan EXCEPT !.pc = "aligning"] /\ scan.pc = "deskewed"
              /\ UNCHANGED <<state, update_seq, current_pose, basePose, prev_vel, geo_prev_vel, old_vel>>
          BY <3>3 DEF Align, obsVars, poseVars, velVars
        <4>2. scan'.pc = "aligning" /\ scan'.prior = scan.prior
          BY <1>3, <4>1 DEF ScanRecord
        <4>3. QED
          BY <2>2, <2>3, <4>1, <4>2
      <3>4. CASE AcceptPose \/ Reject
        <4>1. /\ scan.pc = "aligning"
              /\ UNCHANGED <<state, update_seq, prev_vel, geo_prev_vel>>
          BY <3>4 DEF AcceptPose, Reject, obsVars, velVars
        <4>2. CASE /\ old_vel' = PriorTaken /\ current_pose' = scan.prior /\ basePose' = scan.prior
                   /\ \E pc \in {"accepted", "rejected"} : scan' = [scan EXCEPT !.pc = pc]
          <5>1. /\ old_vel'.kept = old_vel.kept /\ old_vel'.used = old_vel.used
                /\ old_vel'.moved = IF old_vel.used THEN old_vel.moved + 1 ELSE old_vel.moved
            BY <1>3, <4>2 DEF PriorTaken, OldVelocities
          <5>2. scan'.prior = scan.prior /\ scan'.pc \in {"accepted", "rejected"}
            BY <1>3, <4>2 DEF ScanRecord
          <5>3. /\ old_vel'.moved \in {0, 1} /\ (old_vel'.moved = 0 => ~old_vel.used)
                /\ old_vel'.moved = 0 => old_vel.moved = 0
                /\ old_vel'.used => old_vel'.moved = 1
            BY <2>3, <4>1, <5>1
          <5>4. old_vel'.moved = 0 => scan.prior = resets
            BY <2>2, <4>1, <5>3
          <5>5. QED
            BY <2>2, <2>3, <4>1, <4>2, <5>1, <5>2, <5>3, <5>4
        <4>3. CASE UNCHANGED <<old_vel, current_pose, basePose>> /\ scan' = [scan EXCEPT !.pc = "lost"]
          <5>1. scan'.prior = scan.prior /\ scan'.pc = "lost"
            BY <1>3, <4>3 DEF ScanRecord
          <5>2. QED
            BY <2>2, <2>3, <4>1, <4>3, <5>1
        <4>4. QED
          BY <3>4, <4>2, <4>3 DEF AcceptPose, Reject, poseVars
      <3>5. CASE CorrectObserver
        <4>1. /\ scan' = [scan EXCEPT !.pc = "corrected"] /\ scan.pc = "accepted"
              /\ UNCHANGED <<current_pose, basePose, prev_vel, old_vel>>
              /\ IF first_opt_done THEN UpdateState ELSE InitObserver
          BY <3>5 DEF CorrectObserver, poseVars
        <4>2. scan'.pc = "corrected" /\ scan'.prior = scan.prior
          BY <1>3, <4>1 DEF ScanRecord
        <4>3. /\ old_vel.moved = 0 => basePose = resets /\ state.reset = resets
              /\ old_vel.moved = 0 => Lesser(state.reset, basePose) = resets
          BY <1>3, <2>2 DEF Lesser
        <4>4. CASE UNCHANGED <<state, update_seq, geo_prev_vel>>
          BY <2>2, <2>3, <4>1, <4>2, <4>4
        <4>5. CASE /\ update_seq' = update_seq + 1
                   /\ state' = Estimate(Lesser(state.reset, basePose), update_seq + 1, <<>>)
                   /\ geo_prev_vel' = Lesser(state.reset, basePose)
          <5>1. old_vel.moved = 0 => state'.reset = resets /\ geo_prev_vel' >= resets
            BY <1>3, <4>3, <4>5, EstimateReset
          <5>2. \A t \in ImuThreads : imu[t].pc = "computing" => imu[t].seq # update_seq'
            BY <1>3, <4>5 DEF IInv, CopyMatchesSeq, ImuRecord
          <5>3. QED
            BY <2>2, <2>3, <4>1, <4>2, <5>1, <5>2
        <4>6. CASE InitObserver
          <5>1. state'.reset = scan.prior /\ geo_prev_vel' = AtRest /\ update_seq' = update_seq
            BY <4>6, EstimateReset DEF InitObserver
          <5>2. geo_prev_vel' >= resets
            BY <1>3, <1>5, <5>1 DEF AtRest
          <5>3. CASE ~old_vel.used
            <6>1. old_vel.moved = 0 => state'.reset = resets
              BY <2>2, <4>1, <5>1, <5>3
            <6>2. QED
              BY <2>2, <2>3, <4>1, <4>2, <5>1, <5>2, <6>1
          <5>4. CASE old_vel.used
            <6>1. old_vel.moved = 1
              BY <2>3, <4>1, <5>4
            <6>2. QED
              BY <2>2, <2>3, <4>1, <4>2, <5>1, <5>2, <6>1
          <5>5. QED
            BY <5>3, <5>4
        <4>7. QED
          BY <4>1, <4>4, <4>5, <4>6 DEF UpdateState
      <3>6. CASE FinishAccept
        <4>1. /\ scan' = [scan EXCEPT !.pc = "idle"] /\ scan.pc = "corrected"
              /\ UNCHANGED <<state, update_seq, current_pose, basePose, geo_prev_vel>>
              /\ prev_vel' = geo_prev_vel /\ old_vel' = [old_vel EXCEPT !.kept = FALSE]
          BY <3>6 DEF FinishAccept, NextVelocity, obsVars, poseVars
        <4>2. scan'.pc = "idle"
          BY <1>3, <4>1 DEF ScanRecord
        <4>3. ~old_vel'.kept /\ old_vel'.used = old_vel.used /\ old_vel'.moved = old_vel.moved
          BY <1>3, <4>1 DEF OldVelocities
        <4>4. QED
          BY <2>2, <2>3, <4>1, <4>2, <4>3
      <3>7. CASE SnapPoseToGT
        <4>1. /\ scan' = [scan EXCEPT !.pc = "idle"]
              /\ state' = Estimate(resets, update_seq + 1, <<>>) /\ update_seq' = update_seq + 1
              /\ current_pose' = resets /\ basePose' = resets /\ geo_prev_vel' = resets
              /\ prev_vel' = resets /\ old_vel' = [kept |-> FALSE, used |-> FALSE, moved |-> 0]
          BY <3>7 DEF SnapPoseToGT, RecoverFromGT
        <4>2. scan'.pc = "idle" /\ state'.reset = resets
          BY <1>3, <4>1, EstimateReset DEF ScanRecord
        <4>3. \A t \in ImuThreads : imu[t].pc = "computing" => imu[t].seq # update_seq'
          BY <1>3, <4>1 DEF IInv, CopyMatchesSeq, ImuRecord
        <4>4. resets >= resets
          BY <1>3
        <4>5. QED
          BY <4>1, <4>2, <4>3, <4>4
      <3>8. CASE DeferSnap
        <4>1. /\ scan' = [scan EXCEPT !.pc = "idle"] /\ scan.pc \in {"rejected", "lost"}
              /\ UNCHANGED <<state, update_seq, current_pose, basePose, geo_prev_vel>>
              /\ prev_vel' = IF scan.pc = "rejected" THEN geo_prev_vel ELSE prev_vel
              /\ old_vel' = [old_vel EXCEPT !.kept = @ /\ scan.pc = "lost"]
          BY <3>8 DEF DeferSnap, NotAccepted, NextVelocity, obsVars, poseVars
        <4>2. scan'.pc = "idle"
          BY <1>3, <4>1 DEF ScanRecord
        <4>3. /\ old_vel'.kept <=> old_vel.kept /\ scan.pc = "lost"
              /\ old_vel'.used <=> old_vel.used
              /\ old_vel'.moved = old_vel.moved
          BY <1>3, <4>1 DEF OldVelocities
        <4>4. QED
          BY <2>2, <2>3, <4>1, <4>2, <4>3
      <3>9. QED
        BY <1>7, <3>1, <3>2, <3>3, <3>4, <3>5, <3>6, <3>7, <3>8 DEF ScanStep
    <2>5. LineagesAgree'
      BY <1>1, <2>2, <2>4 DEF LineagesAgree
    <2>6. OldVelocityOnce'
      BY <2>4 DEF OldVelocityOnce
    <2>7. QED
      BY <1>4, <2>5, <2>6
  <1>8. QED
    BY <1>6, <1>7

\* applyInitialPose, alone, brings pose, observer and anchor to its lineage.
LEMMA ResetClean ==
  ASSUME IInv, CleanInv, NEW s \in PoseSources, ResetStep(s)
  PROVE  CleanInv'
  <1>1. UNCHANGED <<imu, scan, update_seq, prev_vel>> /\ TrackOverlap
    BY DEF ResetStep, ResetPose, ResetState, ResetBase, FinishOdomInit, ResetKeeps
  <1>2. /\ reset \in [PoseSources -> ResetRecord] /\ resets \in Nat /\ MaxReset \in Nat
        /\ prev_vel \in Nat /\ old_vel \in OldVelocities
    BY ConstantsAssumption DEF IInv, TypeOK
  <1>3. resets' <= MaxReset
    BY <1>2 DEF ResetStep, ResetPose, ResetState, ResetBase, FinishOdomInit, CleanInv
  <1> SUFFICES ASSUME ~overlapped'
               PROVE  Apart' /\ LineagesAgree' /\ OldVelocityOnce'
    BY <1>3 DEF CleanInv
  <1>4. ~overlapped /\ (Resetting' => ~Working' /\ ~ResettingTwice')
    BY <1>1, StillApart
  <1>5. reset[s].pc = "idle" => ResetPose(s)
    BY DEF ResetStep, ResetState, ResetBase, FinishOdomInit
  <1>6. \A r \in PoseSources \ {s} : reset'[r] = reset[r]
    BY <1>2 DEF ResetStep, ResetPose, ResetState, ResetBase, FinishOdomInit
  <1>7. CASE ResetPose(s)
    <2>1. /\ reset' = [reset EXCEPT ![s] = [pc |-> "posed", id |-> resets + 1]]
          /\ resets' = resets + 1 /\ current_pose' = resets + 1 /\ resets < MaxReset
          /\ old_vel' = [kept |-> prev_vel # AtRest, used |-> FALSE, moved |-> 0]
      BY <1>7 DEF ResetPose
    <2>2. reset'[s].pc = "posed" /\ reset'[s].id = resets'
      BY <1>2, <2>1
    <2>3. ~Working' /\ ~ResettingTwice' /\ Resetting'
      BY <1>4, <2>2 DEF Resetting
    <2>4. \A r \in PoseSources \ {s} : reset'[r].pc = "idle"
      BY <2>2, <2>3 DEF ResettingTwice
    <2>5. scan'.pc = "idle" /\ \A t \in ImuThreads : imu'[t].pc = "idle"
      BY <2>3 DEF Working, Propagating
    <2>6. old_vel'.kept \/ prev_vel' >= resets'
      <3>1. CASE prev_vel = AtRest
        BY <1>1, <1>2, <2>1, <3>1 DEF AtRest
      <3>2. CASE prev_vel # AtRest
        BY <2>1, <3>2
      <3>3. QED
        BY <3>1, <3>2
    <2>7. ~old_vel'.used /\ old_vel'.moved = 0
      BY <2>1
    <2>8. Apart'
      BY <2>2, <2>3, <2>4 DEF Apart
    <2>9. LineagesAgree'
      BY <2>1, <2>2, <2>5, <2>6 DEF LineagesAgree
    <2>10. OldVelocityOnce'
      BY <2>7 DEF OldVelocityOnce
    <2>11. QED
      BY <2>8, <2>9, <2>10
  <1>8. CASE reset[s].pc # "idle"
    <2>1. Resetting /\ ~Working /\ ~ResettingTwice /\ LineagesAgree /\ OldVelocityOnce
      BY <1>4, <1>8 DEF CleanInv, Apart, Resetting
    <2>2. \A r \in PoseSources \ {s} : reset[r].pc = "idle" /\ reset'[r].pc = "idle"
      BY <1>6, <1>8, <2>1 DEF ResettingTwice
    <2>3. scan'.pc = "idle" /\ \A t \in ImuThreads : imu'[t].pc = "idle"
      BY <1>1, <2>1 DEF Working, Propagating
    <2>4. reset[s].id = resets
      BY <1>4, <1>8 DEF CleanInv, Apart
    <2>5. CASE ResetState(s)
      <3>1. /\ reset' = [reset EXCEPT ![s].pc = "observed"]
            /\ UNCHANGED <<current_pose, resets, old_vel>>
            /\ state' = Estimate(reset[s].id, update_seq, <<>>) /\ geo_prev_vel' = AtRest
        BY <2>5 DEF ResetState, poseVars
      <3>2. /\ reset'[s].pc = "observed" /\ reset'[s].id = resets' /\ state'.reset = resets'
            /\ geo_prev_vel' >= resets'
        BY <1>2, <2>4, <3>1, EstimateReset DEF ResetRecord, AtRest, CleanInv
      <3>3. LineagesAgree'
        BY <1>1, <2>1, <2>2, <2>3, <3>1, <3>2 DEF LineagesAgree
      <3>4. QED
        BY <1>1, <1>4, <2>1, <2>2, <3>1, <3>2, <3>3 DEF Apart, OldVelocityOnce
    <2>6. CASE ResetBase(s)
      <3>1. /\ reset[s].pc = "observed" /\ basePose' = reset[s].id
            /\ UNCHANGED <<state, current_pose, geo_prev_vel, resets, old_vel>>
            /\ reset' = [reset EXCEPT ![s].pc = IF s = "gt_odom" THEN "based" ELSE "idle"]
        BY <2>6 DEF ResetBase
      <3>2. reset'[s].pc \in {"based", "idle"} /\ reset'[s].id = resets'
        BY <1>2, <2>4, <3>1 DEF ResetRecord
      <3>3. old_vel.moved = 0 => state.reset = resets /\ geo_prev_vel >= resets
        BY <2>1, <2>2, <3>1 DEF LineagesAgree
      <3>4. LineagesAgree'
        BY <1>1, <2>1, <2>2, <2>3, <2>4, <3>1, <3>2, <3>3 DEF LineagesAgree
      <3>5. QED
        BY <1>1, <1>4, <2>1, <2>2, <3>1, <3>2, <3>4 DEF Apart, OldVelocityOnce
    <2>7. CASE FinishOdomInit(s)
      <3>1. /\ reset[s].pc = "based" /\ reset' = [reset EXCEPT ![s].pc = "idle"]
            /\ UNCHANGED <<state, current_pose, basePose, geo_prev_vel, resets, old_vel>>
        BY <2>7 DEF FinishOdomInit, poseVars
      <3>2. reset'[s].pc = "idle"
        BY <1>2, <3>1 DEF ResetRecord
      <3>3. LineagesAgree'
        BY <1>1, <2>1, <2>2, <2>3, <3>1, <3>2 DEF LineagesAgree
      <3>4. QED
        BY <1>1, <1>4, <2>1, <2>2, <3>1, <3>2, <3>3 DEF Apart, OldVelocityOnce
    <2>8. QED
      BY <1>8, <2>5, <2>6, <2>7 DEF ResetStep, ResetPose
  <1>9. QED
    BY <1>5, <1>7, <1>8

\* A re-initialisation that overlapped no callback holds in the observer, the
\* pose and the anchor, whatever scans and propagations follow it, except that one
\* pose at most is predicted from the velocity it left in prev_vel; for any number
\* of IMU threads.
THEOREM CleanResetAlwaysHolds == Spec => []CleanResetHolds
  <1>1. Init => CleanInv
    <2> SUFFICES ASSUME Init PROVE CleanInv
      OBVIOUS
    <2>1. state.reset = 0 /\ scan.pc = "idle"
      BY EstimateReset DEF Init
    <2>2. /\ \A s \in PoseSources : reset[s].pc = "idle"
          /\ \A t \in ImuThreads : imu[t].pc = "idle"
      BY DEF Init, IdleImu
    <2>3. ~Resetting
      BY <2>2 DEF Resetting
    <2>4. MaxReset \in Nat /\ AtRest >= 0
      BY ConstantsAssumption DEF AtRest
    <2>5. /\ resets = 0 /\ current_pose = 0 /\ basePose = 0 /\ prev_vel = AtRest
          /\ geo_prev_vel = AtRest /\ ~old_vel.kept /\ ~old_vel.used /\ old_vel.moved = 0
      BY DEF Init
    <2>6. Apart
      BY <2>2, <2>3 DEF Apart
    <2>7. LineagesAgree
      BY <2>1, <2>2, <2>4, <2>5 DEF LineagesAgree
    <2>8. OldVelocityOnce
      BY <2>5 DEF OldVelocityOnce
    <2>9. QED
      BY <2>4, <2>5, <2>6, <2>7, <2>8 DEF CleanInv
  <1>2. IInv /\ CleanInv /\ [Next]_vars => CleanInv'
    <2> SUFFICES ASSUME IInv, CleanInv, [Next]_vars PROVE CleanInv'
      OBVIOUS
    <2>1. CASE Next
      BY <2>1, ImuClean, ScanClean, ResetClean DEF Next
    <2>2. CASE UNCHANGED vars
      BY <2>2 DEF vars, obsVars, poseVars, velVars, CleanInv, Apart, LineagesAgree,
                  OldVelocityOnce, Resetting, ResettingTwice, Working, Propagating
    <2>3. QED
      BY <2>1, <2>2
  <1>3. CleanInv => CleanResetHolds
    <2> SUFFICES ASSUME CleanInv, Quiescent, ~overlapped
                 PROVE  /\ old_vel.moved <= 1
                        /\ old_vel.moved = 0 => /\ current_pose = resets
                                                /\ basePose = resets
                                                /\ state.reset = resets
      BY DEF CleanResetHolds
    <2>1. \A s \in PoseSources : reset[s].pc = "idle"
      BY DEF Quiescent, Resetting
    <2>2. QED
      BY <2>1 DEF CleanInv, LineagesAgree, OldVelocityOnce
  <1>4. QED
    BY <1>1, <1>2, <1>3, InductiveInvariant, PTL DEF Spec

-----------------------------------------------------------------------------
(* A sample whose callback overlaps no other counts once.                    *)

HoldsOnce(l, n) ==
  \E k \in DOMAIN l : l[k] = n /\ \A m \in DOMAIN l : l[m] = n => m = k

\* A log that reaches back to n or further holds n once, for the samples n in D.
Complete(l, D) == \A n \in D : (\E i \in DOMAIN l : l[i] <= n) => HoldsOnce(l, n)

Received(l) == \A i \in DOMAIN l : l[i] <= samples

\* The samples whose callbacks are done.
Settled == IF Propagating THEN due \ {samples} ELSE due

\* The sample in flight, while no other callback has overlapped its own: the gate
\* lets it through, and it is in no log yet; what has been corrected since the
\* state was copied is empty.
InFlight ==
  Propagating /\ samples \in due =>
    /\ imu_meas.ok /\ Seeded
    /\ \A t, u \in ImuThreads : imu[t].pc # "idle" /\ imu[u].pc # "idle" => t = u
    /\ \A i \in DOMAIN state.log : state.log[i] # samples
    /\ \A t \in ImuThreads : imu[t].pc = "computing" =>
         /\ \A i \in DOMAIN imu[t].read.log : imu[t].read.log[i] # samples
         /\ imu[t].seq # update_seq => state.log = <<>>

\* Every log that is or may yet be stored is complete for the samples that are
\* settled, and what is appended to it is newer than all of them.
SampleInv ==
  /\ imu_meas.id = samples /\ samples <= MaxSample
  /\ Propagating => samples >= 1
  /\ \A n \in due : n <= samples
  /\ \A t \in ImuThreads : imu[t].pc \in {"meas", "computing"} =>
       /\ imu[t].meas \in 1 .. samples
       /\ \A n \in due : n <= imu[t].meas /\ (n = imu[t].meas => n = samples)
  /\ Complete(state.log, Settled) /\ Received(state.log)
  /\ \A t \in ImuThreads : imu[t].pc = "computing" =>
       Complete(imu[t].read.log, Settled) /\ Received(imu[t].read.log)
  /\ InFlight

LEMMA CompleteEmpty ==
  ASSUME NEW l, l = <<>>
  PROVE  (\A D : Complete(l, D)) /\ Received(l) /\ \A i \in DOMAIN l : l[i] # samples
BY DEF Complete, Received

\* A sample is appended that is newer than those in D, or the newest of them.
LEMMA CompleteAppend ==
  ASSUME NEW l \in Seq(Nat), NEW m \in Nat, NEW D \in SUBSET Nat,
         Complete(l, D \ {m}), \A n \in D : n <= m,
         m \in D => \A i \in DOMAIN l : l[i] # m
  PROVE  Complete(Append(l, m), D)
  <1> DEFINE k == Append(l, m)
  <1>1. /\ k \in Seq(Nat) /\ Len(k) = Len(l) + 1 /\ Len(l) \in Nat
        /\ DOMAIN k = 1 .. Len(l) + 1 /\ DOMAIN l = 1 .. Len(l)
        /\ k[Len(l) + 1] = m /\ \A i \in 1 .. Len(l) : k[i] = l[i] /\ l[i] \in Nat
    OBVIOUS
  <1> HIDE DEF k
  <1>2. ASSUME NEW n \in D, NEW i \in DOMAIN k, k[i] <= n
        PROVE  HoldsOnce(k, n)
    <2>1. CASE n = m
      <3>1. \A j \in 1 .. Len(l) : l[j] # m
        BY <1>1, <2>1
      <3>2. \A j \in DOMAIN k : k[j] = m => j = Len(l) + 1
        <4> SUFFICES ASSUME NEW j \in 1 .. Len(l) + 1, k[j] = m PROVE j = Len(l) + 1
          BY <1>1
        <4>1. CASE j \in 1 .. Len(l)
          BY <1>1, <3>1, <4>1
        <4>2. QED
          BY <1>1, <4>1
      <3>3. Len(l) + 1 \in DOMAIN k
        BY <1>1
      <3>4. QED
        BY <1>1, <2>1, <3>2, <3>3 DEF HoldsOnce
    <2>2. CASE n # m
      <3>1. n < m /\ n \in Nat
        BY <1>2, <2>2
      <3>2. i # Len(l) + 1
        BY <1>1, <1>2, <3>1
      <3>3. i \in DOMAIN l /\ l[i] <= n
        BY <1>1, <1>2, <3>2
      <3>4. HoldsOnce(l, n)
        BY <1>2, <2>2, <3>3 DEF Complete
      <3>5. PICK j \in DOMAIN l : l[j] = n /\ \A h \in DOMAIN l : l[h] = n => h = j
        BY <3>4 DEF HoldsOnce
      <3>6. j \in DOMAIN k /\ k[j] = n
        BY <1>1, <3>5
      <3>7. \A h \in DOMAIN k : k[h] = n => h = j
        <4> SUFFICES ASSUME NEW h \in DOMAIN k, k[h] = n PROVE h = j
          OBVIOUS
        <4>1. h # Len(l) + 1
          BY <1>1, <2>2
        <4>2. h \in DOMAIN l /\ l[h] = n
          BY <1>1, <4>1
        <4>3. QED
          BY <3>5, <4>2
      <3>8. QED
        BY <3>6, <3>7 DEF HoldsOnce
    <2>3. QED
      BY <2>1, <2>2
  <1>3. QED
    BY <1>2 DEF Complete, k

\* What SampleInv needs of the types.
LEMMA SampleFacts ==
  ASSUME TypeOK, NEW t \in ImuThreads
  PROVE  /\ samples \in Nat /\ due \in SUBSET Nat /\ state.log \in Seq(Nat)
         /\ imu \in [ImuThreads -> ImuRecord] /\ imu[t] \in ImuRecord
         /\ imu[t].read.log \in Seq(Nat) /\ imu[t].meas \in Nat
BY DEF TypeOK, ImuRecord, Estimates

\* Scans and re-initialisations leave samples alone and at most clear the log;
\* a correction always clears it.
LEMMA OthersFrame ==
  ASSUME \/ ReceiveScan \/ ScanStep \/ (\E s \in PoseSources : ResetStep(s)),
         TypeOK
  PROVE  /\ UNCHANGED <<imu, samples, due, imu_meas>>
         /\ state'.log = <<>> \/ (state' = state /\ update_seq' = update_seq)
         /\ Seeded => Seeded'
  <1>1. CASE ReceiveScan \/ Deskew \/ DropEmptyScan \/ Align \/ AcceptPose \/ FinishAccept
             \/ Reject \/ DeferSnap
    BY <1>1 DEF ReceiveScan, Deskew, DropEmptyScan, Align, AcceptPose, FinishAccept, Reject,
                DeferSnap, ScanKeeps, inVars, obsVars, Seeded
  <1>2. CASE CorrectObserver
    <2>1. state'.log = <<>> \/ (state' = state /\ update_seq' = update_seq)
      BY <1>2, EstimateReset DEF CorrectObserver, UpdateState, InitObserver
    <2>2. QED
      BY <1>2, <2>1 DEF CorrectObserver, ScanKeeps, inVars, Seeded
  <1>3. CASE SnapPoseToGT
    <2>1. state'.log = <<>>
      BY <1>3, EstimateReset DEF SnapPoseToGT, RecoverFromGT
    <2>2. QED
      BY <1>3, <2>1 DEF SnapPoseToGT, RecoverFromGT, ScanKeeps, inVars, Seeded
  <1>4. CASE \E s \in PoseSources : ResetStep(s)
    <2>1. PICK s \in PoseSources : ResetStep(s)
      BY <1>4
    <2>2. CASE ResetState(s)
      <3>1. state'.log = <<>>
        BY <2>2, EstimateReset DEF ResetState
      <3>2. QED
        BY <2>2, <3>1 DEF ResetState, ResetKeeps, inVars, Seeded
    <2>3. CASE ResetPose(s) \/ ResetBase(s) \/ FinishOdomInit(s)
      BY <2>3 DEF ResetPose, ResetBase, FinishOdomInit, ResetKeeps, inVars, Seeded
    <2>4. QED
      BY <2>1, <2>2, <2>3 DEF ResetStep
  <1>5. QED
    BY <1>1, <1>2, <1>3, <1>4 DEF ScanStep

LEMMA OthersSample ==
  ASSUME \/ ReceiveScan \/ ScanStep \/ (\E s \in PoseSources : ResetStep(s)),
         TypeOK, SampleInv
  PROVE  SampleInv'
  <1>1. /\ UNCHANGED <<imu, samples, due, imu_meas>>
        /\ state'.log = <<>> \/ (state' = state /\ update_seq' = update_seq)
        /\ Seeded => Seeded'
    BY OthersFrame
  <1>2. Propagating' = Propagating /\ Settled' = Settled
    BY <1>1 DEF Propagating, Settled
  <1>3. /\ Complete(state'.log, Settled) /\ \A i \in DOMAIN state'.log : state'.log[i] <= samples
        /\ (\A i \in DOMAIN state.log : state.log[i] # samples) =>
             \A i \in DOMAIN state'.log : state'.log[i] # samples
    BY <1>1, CompleteEmpty DEF SampleInv, Received
  <1>4. InFlight'
    BY <1>1, <1>2, <1>3 DEF SampleInv, InFlight
  <1>5. QED
    BY <1>1, <1>2, <1>3, <1>4 DEF SampleInv, Complete, Received

\* A sample enters the buffer, and makes one of an overlapping callback not due.
LEMMA PushSample ==
  ASSUME TypeOK, SampleInv, NEW t \in ImuThreads, PushImu(t)
  PROVE  SampleInv'
  <1>1. /\ samples \in Nat /\ due \in SUBSET Nat /\ MaxSample \in Nat
        /\ imu \in [ImuThreads -> ImuRecord] /\ \A n \in due : n <= samples
    BY ConstantsAssumption DEF TypeOK, SampleInv
  <1>2. PICK ok \in BOOLEAN :
          /\ imu_meas' = [id |-> samples + 1, ok |-> ok]
          /\ due' = IF Propagating THEN due \ {samples}
                    ELSE IF ok /\ Seeded THEN due \cup {samples + 1} ELSE due
    BY DEF PushImu
  <1>3. /\ imu[t].pc = "idle" /\ samples < MaxSample /\ samples' = samples + 1
        /\ state' = state /\ imu' = [imu EXCEPT ![t].pc = "pushed"]
        /\ UNCHANGED <<initialized, first_opt_done, update_seq>>
    BY DEF PushImu, ImuKeeps
  <1>4. imu'[t].pc = "pushed" /\ \A u \in ImuThreads \ {t} : imu'[u] = imu[u]
    BY <1>1, <1>3 DEF ImuRecord
  <1>5. Propagating'
    BY <1>4 DEF Propagating
  <1>6. Settled' = Settled
    <2>1. samples + 1 \notin due
      BY <1>1
    <2>2. QED
      BY <1>2, <1>3, <1>5, <2>1 DEF Settled
  <1>7. /\ \A n \in due' : n <= samples' /\ (n \in due \/ n = samples')
        /\ samples' \in due' => ~Propagating /\ ok /\ Seeded
    BY <1>1, <1>2, <1>3
  <1>8. ASSUME NEW u \in ImuThreads, imu'[u].pc \in {"meas", "computing"}
        PROVE  /\ imu'[u].meas \in 1 .. samples'
               /\ \A n \in due' : n <= imu'[u].meas /\ (n = imu'[u].meas => n = samples')
    <2>1. imu'[u] = imu[u] /\ imu[u].pc \in {"meas", "computing"}
      BY <1>4, <1>8
    <2>2. Propagating
      BY <2>1 DEF Propagating
    <2>3. /\ imu[u].meas \in 1 .. samples
          /\ \A n \in due : n <= imu[u].meas /\ (n = imu[u].meas => n = samples)
      BY <2>1 DEF SampleInv
    <2>4. due' = due \ {samples}
      BY <1>2, <2>2
    <2>5. QED
      BY <1>1, <1>3, <2>1, <2>3, <2>4
  <1>9. Complete(state.log, Settled)' /\ Received(state.log)'
    <2>1. \A i \in DOMAIN state.log : state.log[i] \in Nat /\ state.log[i] <= samples
      BY DEF SampleInv, Received, TypeOK, Estimates
    <2>2. \A i \in DOMAIN state.log : state.log[i] <= samples + 1
      BY <1>1, <2>1
    <2>3. QED
      BY <1>3, <1>6, <2>2 DEF SampleInv, Complete, Received
  <1>10. ASSUME NEW u \in ImuThreads, imu'[u].pc = "computing"
         PROVE  Complete(imu'[u].read.log, Settled') /\ Received(imu[u].read.log)'
    <2>1. imu'[u] = imu[u] /\ imu[u].pc = "computing"
      BY <1>4, <1>10
    <2>2. \A i \in DOMAIN imu[u].read.log :
            imu[u].read.log[i] \in Nat /\ imu[u].read.log[i] <= samples
      BY <2>1, SampleFacts DEF SampleInv, Received
    <2>3. \A i \in DOMAIN imu[u].read.log : imu[u].read.log[i] <= samples + 1
      BY <1>1, <2>2
    <2>4. QED
      BY <1>3, <1>6, <2>1, <2>3 DEF SampleInv, Received
  <1>11. InFlight'
    <2> SUFFICES ASSUME samples' \in due'
                 PROVE  InFlight'
      BY DEF InFlight
    <2>1. ~Propagating /\ ok /\ Seeded
      BY <1>7
    <2>2. \A u \in ImuThreads \ {t} : imu'[u].pc = "idle"
      BY <1>4, <2>1 DEF Propagating
    <2>3. Seeded' /\ imu_meas'.ok
      BY <1>2, <1>3, <2>1 DEF Seeded
    <2>4. \A i \in DOMAIN state'.log : state'.log[i] # samples'
      <3>1. \A i \in DOMAIN state.log : state.log[i] \in Nat /\ state.log[i] <= samples
        BY DEF SampleInv, Received, TypeOK, Estimates
      <3>2. QED
        BY <1>1, <1>3, <3>1
    <2>5. QED
      BY <1>4, <2>2, <2>3, <2>4 DEF InFlight
  <1>12. imu_meas'.id = samples' /\ samples' <= MaxSample /\ samples' >= 1
    BY <1>1, <1>2, <1>3
  <1>13. QED
    BY <1>7, <1>8, <1>9, <1>10, <1>11, <1>12 DEF SampleInv, Complete, Received

LEMMA ImuSample ==
  ASSUME TypeOK, SampleInv, NEW t \in ImuThreads, ImuStep(t)
  PROVE  SampleInv'
  <1>1. /\ samples \in Nat /\ due \in SUBSET Nat /\ state.log \in Seq(Nat)
        /\ imu \in [ImuThreads -> ImuRecord] /\ imu[t] \in ImuRecord
        /\ imu[t].read.log \in Seq(Nat) /\ imu[t].meas \in Nat
    BY SampleFacts
  <1>2. CASE PushImu(t)
    BY <1>2, PushSample
  <1>3. CASE ~PushImu(t)
    <2>1. /\ UNCHANGED <<update_seq, initialized, first_opt_done, samples, due, imu_meas>>
          /\ imu[t].pc # "idle"
      BY <1>3 DEF ImuStep, PushImu, ApplyRtkSeed, ReadMeas, ReadState, WriteState, ImuKeeps, inVars
    <2>2. Propagating /\ samples >= 1 /\ Settled = due \ {samples} /\ (Seeded' <=> Seeded)
      BY <2>1 DEF Propagating, Settled, SampleInv, Seeded
    <2>3. CASE ApplyRtkSeed(t)
      <3>1. /\ imu[t].pc = "pushed" /\ imu' = [imu EXCEPT ![t].pc = "gate"]
            /\ state' = Estimate(resets, update_seq, <<>>)
        BY <2>3 DEF ApplyRtkSeed
      <3>2. imu'[t].pc = "gate" /\ \A u \in ImuThreads \ {t} : imu'[u] = imu[u]
        BY <1>1, <3>1 DEF ImuRecord
      <3>3. Propagating' /\ Settled' = Settled
        BY <2>1, <2>2, <3>2 DEF Propagating, Settled
      <3>4. state'.log = <<>>
        BY <3>1, EstimateReset
      <3>5. /\ Complete(state'.log, Settled) /\ \A i \in DOMAIN state'.log : state'.log[i] <= samples
            /\ \A i \in DOMAIN state'.log : state'.log[i] # samples
        BY <3>4, CompleteEmpty DEF Received
      <3>6. \A u \in ImuThreads : (imu'[u].pc # "idle" => imu[u].pc # "idle")
              /\ (imu'[u].pc \in {"meas", "computing"} => imu'[u] = imu[u])
        BY <2>1, <3>2
      <3>7. InFlight'
        BY <2>1, <2>2, <3>4, <3>5, <3>6 DEF SampleInv, InFlight
      <3>8. QED
        BY <2>1, <2>2, <3>3, <3>5, <3>6, <3>7 DEF SampleInv, Complete, Received
    <2>4. CASE ReadMeas(t)
      <3>1. /\ state' = state
            /\ imu' = [imu EXCEPT ![t] = IF Seeded /\ imu_meas.ok
                                         THEN [@ EXCEPT !.pc = "meas", !.meas = imu_meas.id]
                                         ELSE IdleImu]
        BY <2>4 DEF ReadMeas
      <3>2. \A u \in ImuThreads \ {t} : imu'[u] = imu[u]
        BY <1>1, <3>1
      <3>3. \/ imu'[t].pc = "meas" /\ imu'[t].meas = samples
            \/ imu'[t].pc = "idle" /\ ~(Seeded /\ imu_meas.ok)
        BY <1>1, <3>1 DEF ImuRecord, IdleImu, SampleInv
      <3>4. imu'[t].pc = "idle" => samples \notin due
        BY <2>2, <3>3 DEF SampleInv, InFlight
      <3>5. Settled' = Settled
        <4>1. CASE imu'[t].pc = "idle"
          BY <2>1, <2>2, <3>4, <4>1 DEF Settled
        <4>2. CASE imu'[t].pc # "idle"
          BY <2>1, <2>2, <4>2 DEF Settled, Propagating
        <4>3. QED
          BY <4>1, <4>2
      <3>6. \A u \in ImuThreads : (imu'[u].pc # "idle" => imu[u].pc # "idle")
              /\ (imu'[u].pc = "computing" => imu'[u] = imu[u])
        BY <2>1, <3>2, <3>3
      <3>7. InFlight'
        BY <2>1, <2>2, <3>1, <3>6 DEF SampleInv, InFlight
      <3>8. ASSUME NEW u \in ImuThreads, imu'[u].pc \in {"meas", "computing"}
            PROVE  /\ imu'[u].meas \in 1 .. samples
                   /\ \A n \in due : n <= imu'[u].meas /\ (n = imu'[u].meas => n = samples)
        <4>1. CASE u = t
          <5>1. imu'[u].meas = samples
            BY <3>3, <3>8, <4>1
          <5>2. QED
            BY <1>1, <2>2, <5>1 DEF SampleInv
        <4>2. CASE u # t
          BY <3>2, <3>8, <4>2 DEF SampleInv
        <4>3. QED
          BY <4>1, <4>2
      <3>9. QED
        BY <2>1, <2>2, <3>1, <3>5, <3>6, <3>7, <3>8 DEF SampleInv, Complete, Received
    <2>5. CASE ReadState(t)
      <3>1. /\ state' = state /\ imu[t].pc = "meas"
            /\ imu' = [imu EXCEPT ![t].pc = "computing", ![t].read = state, ![t].seq = update_seq]
        BY <2>5 DEF ReadState
      <3>2. /\ imu'[t].pc = "computing" /\ imu'[t].read = state /\ imu'[t].seq = update_seq
            /\ imu'[t].meas = imu[t].meas /\ \A u \in ImuThreads \ {t} : imu'[u] = imu[u]
        BY <1>1, <3>1 DEF ImuRecord
      <3>3. Propagating' /\ Settled' = Settled
        BY <2>1, <2>2, <3>2 DEF Propagating, Settled
      <3>4. \A u \in ImuThreads : (imu'[u].pc # "idle" => imu[u].pc # "idle")
              /\ imu'[u].meas = imu[u].meas
              /\ (imu'[u].pc \in {"meas", "computing"} => imu[u].pc \in {"meas", "computing"})
        BY <3>1, <3>2
      <3>5. \A u \in ImuThreads : imu'[u].pc = "computing" =>
              \/ imu'[u].read = state /\ imu'[u].seq = update_seq
              \/ imu'[u] = imu[u]
        BY <3>2
      <3>6. InFlight'
        <4>1. CASE samples \notin due
          BY <2>1, <4>1 DEF InFlight
        <4>2. CASE samples \in due
          <5>1. /\ imu_meas.ok /\ Seeded
                /\ \A u, v \in ImuThreads : imu[u].pc # "idle" /\ imu[v].pc # "idle" => u = v
                /\ \A i \in DOMAIN state.log : state.log[i] # samples
                /\ \A u \in ImuThreads : imu[u].pc = "computing" =>
                     /\ \A i \in DOMAIN imu[u].read.log : imu[u].read.log[i] # samples
                     /\ imu[u].seq # update_seq => state.log = <<>>
            BY <2>2, <4>2 DEF SampleInv, InFlight
          <5>2. \A u, v \in ImuThreads : imu'[u].pc # "idle" /\ imu'[v].pc # "idle" => u = v
            BY <3>4, <5>1
          <5>3. ASSUME NEW u \in ImuThreads, imu'[u].pc = "computing"
                PROVE  /\ \A i \in DOMAIN imu'[u].read.log : imu'[u].read.log[i] # samples
                       /\ imu'[u].seq # update_seq => state.log = <<>>
            <6>1. CASE imu'[u].read = state /\ imu'[u].seq = update_seq
              BY <5>1, <6>1
            <6>2. CASE imu'[u] = imu[u]
              BY <5>1, <5>3, <6>2
            <6>3. QED
              BY <3>5, <5>3, <6>1, <6>2
          <5>4. imu_meas' = imu_meas /\ samples' = samples /\ update_seq' = update_seq
            BY <2>1
          <5>5. QED
            BY <2>2, <3>1, <5>1, <5>2, <5>3, <5>4 DEF InFlight
        <4>3. QED
          BY <4>1, <4>2
      <3>7. ASSUME NEW u \in ImuThreads, imu'[u].pc = "computing"
            PROVE  Complete(imu'[u].read.log, Settled) /\ Received(imu'[u].read.log)
        BY <3>5, <3>7 DEF SampleInv
      <3>8. ASSUME NEW u \in ImuThreads, imu'[u].pc \in {"meas", "computing"}
            PROVE  /\ imu'[u].meas \in 1 .. samples
                   /\ \A n \in due : n <= imu'[u].meas /\ (n = imu'[u].meas => n = samples)
        BY <3>4, <3>8 DEF SampleInv
      <3>9. Complete(state.log, Settled)' /\ Received(state.log)'
        BY <2>1, <3>1, <3>3 DEF SampleInv, Complete, Received
      <3>10. \A u \in ImuThreads : imu'[u].pc = "computing" =>
               Complete(imu[u].read.log, Settled)' /\ Received(imu[u].read.log)'
        BY <2>1, <3>3, <3>7 DEF Complete, Received
      <3>11. QED
        BY <2>1, <2>2, <3>6, <3>8, <3>9, <3>10 DEF SampleInv
    <2>6. CASE WriteState(t)
      <3>1. /\ imu[t].pc = "computing" /\ imu' = [imu EXCEPT ![t] = IdleImu]
            /\ state' = IF Fresh(t) THEN [imu[t].read EXCEPT !.log = Append(@, imu[t].meas)]
                        ELSE state
        BY <2>6 DEF WriteState
      <3>2. imu'[t].pc = "idle" /\ \A u \in ImuThreads \ {t} : imu'[u] = imu[u]
        BY <1>1, <3>1 DEF IdleImu
      <3>3. /\ imu[t].meas \in 1 .. samples
            /\ \A n \in due : n <= imu[t].meas /\ (n = imu[t].meas => n = samples)
            /\ Complete(imu[t].read.log, Settled) /\ Received(imu[t].read.log)
        BY <3>1 DEF SampleInv
      <3>4. samples \in due => /\ ~Propagating'
                               /\ \A i \in DOMAIN imu[t].read.log : imu[t].read.log[i] # samples
                               /\ ~Fresh(t) => state.log = <<>>
                               /\ imu[t].meas = samples
        <4> SUFFICES ASSUME samples \in due
                     PROVE  /\ ~Propagating'
                            /\ \A i \in DOMAIN imu[t].read.log : imu[t].read.log[i] # samples
                            /\ ~Fresh(t) => state.log = <<>>
                            /\ imu[t].meas = samples
          OBVIOUS
        <4>1. /\ \A u \in ImuThreads : imu[u].pc # "idle" => u = t
              /\ \A i \in DOMAIN imu[t].read.log : imu[t].read.log[i] # samples
              /\ imu[t].seq # update_seq => state.log = <<>>
          BY <2>1, <2>2, <3>1 DEF SampleInv, InFlight
        <4>2. ~Propagating'
          BY <3>2, <4>1 DEF Propagating
        <4>3. imu[t].meas = samples
          BY <1>1, <3>3
        <4>4. QED
          BY <4>1, <4>2, <4>3 DEF Fresh
      <3>5. Settled' = due /\ (samples \notin due => Settled = due)
        BY <2>1, <2>2, <3>4 DEF Settled
      <3>6. Complete(state'.log, due) /\ Received(state'.log)
        <4>1. CASE Fresh(t)
          <5> DEFINE l == imu[t].read.log
                     m == imu[t].meas
          <5>1. state'.log = Append(l, m)
            BY <1>1, <3>1, <4>1 DEF ImuRecord, Estimates
          <5>2. Complete(l, due \ {m})
            <6>1. \A n \in due \ {m} : n \in Settled
              BY <2>2, <3>4, <3>5
            <6>2. QED
              BY <3>3, <6>1 DEF Complete
          <5>3. m \in due => \A i \in DOMAIN l : l[i] # m
            BY <3>3, <3>4
          <5>4. l \in Seq(Nat) /\ m \in Nat /\ \A n \in due : n <= m
            BY <1>1, <3>3
          <5>5. Received(l) /\ m <= samples
            BY <1>1, <3>3
          <5> HIDE DEF l, m
          <5>6. Complete(Append(l, m), due)
            BY ONLY <1>1, <5>2, <5>3, <5>4, CompleteAppend
          <5>7. Received(Append(l, m))
            BY <5>4, <5>5 DEF Received
          <5>8. QED
            BY <5>1, <5>6, <5>7
        <4>2. CASE ~Fresh(t)
          <5>1. state' = state
            BY <3>1, <4>2
          <5>2. CASE samples \in due
            BY <3>4, <4>2, <5>1, <5>2, CompleteEmpty
          <5>3. CASE samples \notin due
            BY <3>5, <5>1, <5>3 DEF SampleInv
          <5>4. QED
            BY <5>2, <5>3
        <4>3. QED
          BY <4>1, <4>2
      <3>7. ASSUME NEW u \in ImuThreads, imu'[u].pc = "computing"
            PROVE  Complete(imu'[u].read.log, due) /\ Received(imu'[u].read.log)
        <4>1. imu'[u] = imu[u]
          BY <3>2, <3>7
        <4>2. samples \notin due
          BY <3>4, <3>7 DEF Propagating
        <4>3. QED
          BY <3>5, <3>7, <4>1, <4>2 DEF SampleInv
      <3>8. InFlight'
        BY <2>1, <3>4 DEF InFlight
      <3>9. \A u \in ImuThreads : imu'[u].pc # "idle" => imu'[u] = imu[u]
        BY <3>2
      <3>10. QED
        BY <2>1, <2>2, <3>5, <3>6, <3>7, <3>8, <3>9 DEF SampleInv, Complete, Received
    <2>7. QED
      BY <1>3, <2>3, <2>4, <2>5, <2>6 DEF ImuStep
  <1>4. QED
    BY <1>2, <1>3

LEMMA InitSample == Init => SampleInv
  <1> SUFFICES ASSUME Init PROVE SampleInv
    OBVIOUS
  <1>1. /\ samples = 0 /\ due = {} /\ imu_meas.id = 0 /\ MaxSample \in Nat
        /\ state.log = <<>> /\ \A t \in ImuThreads : imu[t].pc = "idle"
    BY EstimateReset, ConstantsAssumption DEF Init, IdleImu
  <1>2. ~Propagating
    BY <1>1 DEF Propagating
  <1>3. QED
    BY <1>1, <1>2, CompleteEmpty DEF SampleInv, InFlight

\* SampleInv is an invariant of the specification.
LEMMA SampleInvariant == Spec => []SampleInv
  <1>1. TypeOK /\ SampleInv /\ [Next]_vars => SampleInv'
    <2> SUFFICES ASSUME TypeOK, SampleInv, [Next]_vars PROVE SampleInv'
      OBVIOUS
    <2>1. CASE Next
      BY <2>1, ImuSample, OthersSample DEF Next
    <2>2. CASE UNCHANGED vars
      BY <2>2 DEF vars, obsVars, inVars, SampleInv, InFlight, Complete, Received, Settled,
                  Propagating, Seeded
    <2>3. QED
      BY <2>1, <2>2
  <1>2. QED
    BY <1>1, InitSample, TypeCorrect, PTL DEF Spec

\* A usable sample whose callback overlaps no other IMU callback counts exactly
\* once, whatever scans, re-initialisations and overlapping callbacks interleave,
\* for any number of IMU threads.
THEOREM DueSampleCountsOnce == Spec => []NoSampleSkipped
  <1>1. TypeOK /\ SampleInv => NoSampleSkipped
    <2> SUFFICES ASSUME TypeOK, SampleInv, NEW n \in due,
                        NEW i \in DOMAIN state.log, NEW j \in DOMAIN state.log,
                        state.log[i] <= n, n <= state.log[j]
                 PROVE  HoldsOnce(state.log, n)
      BY DEF NoSampleSkipped, HoldsOnce
    <2>1. CASE n \in Settled
      BY <2>1 DEF SampleInv, Complete
    <2>2. CASE n \notin Settled
      <3>1. n = samples /\ Propagating
        BY <2>2 DEF Settled
      <3>2. state.log[j] # samples /\ state.log[j] <= samples
        BY <3>1 DEF SampleInv, InFlight, Received
      <3>3. state.log[j] \in Nat /\ samples \in Nat
        BY DEF TypeOK, Estimates
      <3>4. QED
        BY <3>1, <3>2, <3>3
    <2>3. QED
      BY <2>1, <2>2
  <1>2. QED
    BY <1>1, SampleInvariant, TypeCorrect, PTL

-----------------------------------------------------------------------------
(* The observer implements the atomic one.                                   *)

\* While nothing has overlapped an IMU callback in progress, what it computes from
\* is the estimate itself, unless a correction has been made since; and whoever
\* computes found the observer initialised.
AtomicInv ==
  /\ Propagating /\ ~crowded =>
       /\ ~Crossing
       /\ \A t \in ImuThreads : imu[t].pc = "computing" /\ imu[t].seq = update_seq =>
            imu[t].read.fix = state.fix /\ imu[t].read.log = state.log
  /\ \A t \in ImuThreads : imu[t].pc \in {"meas", "computing"} => first_opt_done

LEMMA StillAlone ==
  ASSUME TrackOverlap, Propagating', ~crowded'
  PROVE  ~crowded /\ ~Crossing'
BY DEF TrackOverlap

\* A step of the scan callback corrects or restarts the estimate, or leaves it.
LEMMA ScanAtomic ==
  ASSUME IInv, AtomicInv, ReceiveScan \/ ScanStep
  PROVE  AtomicInv' /\ [Atomic!ANext]_(Atomic!avars)
  <1>1. update_seq \in Nat /\ imu \in [ImuThreads -> ImuRecord]
    BY DEF IInv, TypeOK
  <1>2. UNCHANGED <<imu, reset>> /\ TrackOverlap
    BY DEF ScanStep, ReceiveScan, Deskew, DropEmptyScan, Align, AcceptPose, CorrectObserver,
           FinishAccept, Reject, SnapPoseToGT, RecoverFromGT, DeferSnap, ScanKeeps
  <1>3. Propagating' /\ ~crowded' => Propagating /\ ~crowded /\ ~Crossing'
    BY <1>2, StillAlone DEF Propagating
  <1>4. CASE ReceiveScan \/ Deskew \/ DropEmptyScan \/ Align \/ AcceptPose \/ FinishAccept
             \/ Reject \/ DeferSnap
    <2>1. UNCHANGED <<state, update_seq, first_opt_done>>
      BY <1>4 DEF ReceiveScan, Deskew, DropEmptyScan, Align, AcceptPose, FinishAccept, Reject,
                  DeferSnap, obsVars
    <2>2. QED
      BY <1>2, <1>3, <2>1 DEF AtomicInv, Atomic!avars
  <1>5. CASE CorrectObserver /\ ~first_opt_done
    <2>1. first_opt_done' /\ update_seq' = update_seq /\ state' = Estimate(scan.prior, update_seq, <<>>)
      BY <1>5 DEF CorrectObserver, InitObserver
    <2>2. state'.fix = update_seq /\ state'.log = <<>>
      BY <2>1, EstimateReset
    <2>3. Atomic!Restart
      BY <2>1, <2>2 DEF Atomic!Restart
    <2>4. AtomicInv'
      BY <1>2, <1>3, <1>5, <2>1 DEF AtomicInv
    <2>5. QED
      BY <2>3, <2>4 DEF Atomic!ANext
  <1>6. CASE CorrectObserver /\ first_opt_done /\ ~scan.dt
    <2>1. UNCHANGED <<state, update_seq>> /\ first_opt_done'
      BY <1>6 DEF CorrectObserver, UpdateState
    <2>2. QED
      BY <1>2, <1>3, <2>1 DEF AtomicInv, Atomic!avars
  <1>7. CASE (CorrectObserver /\ first_opt_done /\ scan.dt) \/ SnapPoseToGT
    <2>1. /\ update_seq' = update_seq + 1 /\ state'.fix = update_seq + 1 /\ state'.log = <<>>
          /\ first_opt_done => first_opt_done'
      BY <1>7, EstimateReset DEF CorrectObserver, UpdateState, SnapPoseToGT, RecoverFromGT
    <2>2. Atomic!Correct
      BY <2>1 DEF Atomic!Correct
    <2>3. \A t \in ImuThreads : imu[t].pc = "computing" => imu[t].seq # update_seq'
      BY <1>1, <2>1 DEF IInv, CopyMatchesSeq, ImuRecord
    <2>4. AtomicInv'
      BY <1>2, <1>3, <2>1, <2>3 DEF AtomicInv
    <2>5. QED
      BY <2>2, <2>4 DEF Atomic!ANext
  <1>8. QED
    BY <1>4, <1>5, <1>6, <1>7 DEF ScanStep

\* A re-initialisation restarts the estimate or leaves it; one that finds an IMU
\* callback in progress makes it crowded.
LEMMA ResetAtomic ==
  ASSUME IInv, AtomicInv, NEW s \in PoseSources, ResetStep(s)
  PROVE  AtomicInv' /\ [Atomic!ANext]_(Atomic!avars)
  <1>1. UNCHANGED <<imu, update_seq>> /\ TrackOverlap /\ (first_opt_done => first_opt_done')
    BY DEF ResetStep, ResetPose, ResetState, ResetBase, FinishOdomInit, ResetKeeps
  <1>2. Propagating' /\ ~crowded' => Propagating /\ ~crowded /\ ~Crossing'
    BY <1>1, StillAlone DEF Propagating
  <1>3. CASE ResetState(s)
    <2>1. state' = Estimate(reset[s].id, update_seq, <<>>) /\ reset[s].pc = "posed"
      BY <1>3 DEF ResetState
    <2>2. state'.fix = update_seq /\ state'.log = <<>>
      BY <2>1, EstimateReset
    <2>3. Atomic!Restart
      BY <1>1, <2>2 DEF Atomic!Restart
    <2>4. ~(Propagating' /\ ~crowded')
      BY <1>2, <2>1 DEF AtomicInv, Crossing, Resetting
    <2>5. QED
      BY <1>1, <2>3, <2>4 DEF AtomicInv, Atomic!ANext
  <1>4. CASE ResetPose(s) \/ ResetBase(s) \/ FinishOdomInit(s)
    <2>1. UNCHANGED state
      BY <1>4 DEF ResetPose, ResetBase, FinishOdomInit
    <2>2. QED
      BY <1>1, <1>2, <2>1 DEF AtomicInv, Atomic!avars
  <1>5. QED
    BY <1>3, <1>4 DEF ResetStep

\* A step of the IMU callback restarts the estimate, leaves it, applies the sample
\* in flight to the estimate as it is, or, when crowded, stores what it copied
\* since the last correction.
LEMMA ImuAtomic ==
  ASSUME IInv, SampleInv, AtomicInv, NEW t \in ImuThreads, ImuStep(t)
  PROVE  AtomicInv' /\ [Atomic!ANext]_(Atomic!avars)
  <1>1. /\ imu \in [ImuThreads -> ImuRecord] /\ imu[t].read \in Estimates
        /\ imu[t].meas \in Nat /\ update_seq \in Nat /\ samples \in Nat
        /\ MaxSample \in Nat /\ state \in Estimates
    BY ConstantsAssumption DEF IInv, TypeOK, ImuRecord
  <1>2. UNCHANGED <<update_seq, first_opt_done, reset>> /\ TrackOverlap
    BY DEF ImuStep, PushImu, ApplyRtkSeed, ReadMeas, ReadState, WriteState, ImuKeeps
  <1>3. Propagating' /\ ~crowded' => ~crowded /\ ~Crossing'
    BY <1>2, StillAlone
  <1>4. CASE PushImu(t)
    <2>1. imu' = [imu EXCEPT ![t].pc = "pushed"] /\ state' = state
      BY <1>4 DEF PushImu
    <2>2. imu'[t].pc = "pushed" /\ \A u \in ImuThreads \ {t} : imu'[u] = imu[u]
      BY <1>1, <2>1 DEF ImuRecord
    <2>3. ~Crossing' => \A u \in ImuThreads : imu'[u].pc # "computing"
      BY <2>2 DEF Crossing
    <2>4. AtomicInv'
      BY <1>2, <1>3, <2>2, <2>3 DEF AtomicInv
    <2>5. QED
      BY <1>2, <2>1, <2>4 DEF Atomic!avars
  <1>5. CASE ApplyRtkSeed(t)
    <2>1. /\ imu' = [imu EXCEPT ![t].pc = "gate"]
          /\ state' = Estimate(resets, update_seq, <<>>)
      BY <1>5 DEF ApplyRtkSeed
    <2>2. /\ imu'[t].pc = "gate" /\ \A u \in ImuThreads \ {t} : imu'[u] = imu[u]
          /\ state'.fix = update_seq /\ state'.log = <<>>
      BY <1>1, <2>1, EstimateReset DEF ImuRecord
    <2>3. Atomic!Restart
      BY <1>2, <2>2 DEF Atomic!Restart
    <2>4. ~Crossing' => \A u \in ImuThreads : imu'[u].pc # "computing"
      BY <2>2 DEF Crossing
    <2>5. AtomicInv'
      BY <1>2, <1>3, <2>2, <2>4 DEF AtomicInv
    <2>6. QED
      BY <2>3, <2>5 DEF Atomic!ANext
  <1>6. CASE ReadMeas(t)
    <2>1. /\ state' = state
          /\ imu' = [imu EXCEPT ![t] = IF Seeded /\ imu_meas.ok
                                       THEN [@ EXCEPT !.pc = "meas", !.meas = imu_meas.id]
                                       ELSE IdleImu]
      BY <1>6 DEF ReadMeas
    <2>2. /\ imu'[t].pc = "idle" \/ (imu'[t].pc = "meas" /\ first_opt_done)
          /\ \A u \in ImuThreads \ {t} : imu'[u] = imu[u]
      BY <1>1, <2>1 DEF ImuRecord, IdleImu, Seeded
    <2>3. Propagating' => Propagating
      BY <1>6, <2>2 DEF Propagating, ReadMeas
    <2>4. AtomicInv'
      BY <1>2, <1>3, <2>1, <2>2, <2>3 DEF AtomicInv
    <2>5. QED
      BY <1>2, <2>1, <2>4 DEF Atomic!avars
  <1>7. CASE ReadState(t)
    <2>1. /\ state' = state /\ imu[t].pc = "meas"
          /\ imu' = [imu EXCEPT ![t].pc = "computing", ![t].read = state, ![t].seq = update_seq]
      BY <1>7 DEF ReadState
    <2>2. /\ imu'[t].pc = "computing" /\ imu'[t].read = state
          /\ \A u \in ImuThreads \ {t} : imu'[u] = imu[u]
      BY <1>1, <2>1 DEF ImuRecord
    <2>3. Propagating /\ first_opt_done
      BY <2>1 DEF Propagating, AtomicInv
    <2>4. AtomicInv'
      BY <1>2, <1>3, <2>1, <2>2, <2>3 DEF AtomicInv
    <2>5. QED
      BY <1>2, <2>1, <2>4 DEF Atomic!avars
  <1>8. CASE WriteState(t)
    <2>1. /\ imu[t].pc = "computing" /\ imu' = [imu EXCEPT ![t] = IdleImu]
          /\ state' = IF Fresh(t) THEN [imu[t].read EXCEPT !.log = Append(@, imu[t].meas)]
                      ELSE state
      BY <1>8 DEF WriteState
    <2>2. imu'[t].pc = "idle" /\ \A u \in ImuThreads \ {t} : imu'[u] = imu[u]
      BY <1>1, <2>1 DEF IdleImu
    <2>3. Propagating
      BY <2>1 DEF Propagating
    <2>4. ~crowded => ~Propagating'
      BY <2>1, <2>2, <2>3 DEF AtomicInv, Crossing, Propagating
    <2>5. AtomicInv'
      BY <1>2, <1>3, <2>2, <2>4 DEF AtomicInv
    <2>6. CASE Fresh(t)
      <3>1. state'.fix = imu[t].read.fix /\ state'.log = Append(imu[t].read.log, imu[t].meas)
        BY <1>1, <2>1, <2>6 DEF Estimates
      <3>2. CASE crowded
        <4>1. state'.fix = update_seq
          BY <2>1, <2>6, <3>1 DEF Fresh, IInv, CopyMatchesSeq
        <4>2. Atomic!Mix
          BY <1>2, <3>2, <4>1 DEF Atomic!Mix
        <4>3. QED
          BY <2>5, <4>2 DEF Atomic!ANext
      <3>3. CASE ~crowded
        <4> DEFINE m == imu[t].meas
                   l == Append(state.log, m)
        <4>1. imu[t].read.fix = state.fix /\ imu[t].read.log = state.log
          BY <2>1, <2>3, <2>6, <3>3 DEF Fresh, AtomicInv
        <4>2. m \in 1 .. MaxSample
          BY <1>1, <2>1 DEF SampleInv
        <4>3. [fix |-> state'.fix, log |-> state'.log] = [fix |-> state.fix, log |-> l]
          BY <3>1, <4>1
        <4>4. l = Append(state.log, m)
          OBVIOUS
        <4> HIDE DEF l, m
        <4>5. [[fix |-> state.fix, log |-> state.log] EXCEPT !.log = l]
                = [fix |-> state.fix, log |-> l]
          OBVIOUS
        <4>6. Atomic!Integrate(m)
          BY <1>2, <4>3, <4>4, <4>5 DEF Atomic!Integrate
        <4>7. QED
          BY <2>5, <4>2, <4>6 DEF Atomic!ANext
      <3>4. QED
        BY <3>2, <3>3
    <2>7. CASE ~Fresh(t)
      BY <1>2, <2>1, <2>5, <2>7 DEF Atomic!avars
    <2>8. QED
      BY <2>6, <2>7
  <1>9. QED
    BY <1>4, <1>5, <1>6, <1>7, <1>8 DEF ImuStep

\* The lock-free propagation implements the atomic observer, whatever scans, snaps
\* and re-initialisations run beside it: an IMU callback that overlaps no other and
\* no re-initialisation applies one sample to the estimate as it is at that moment,
\* or is dropped, and those that overlap store nothing from before the last
\* correction; for any number of IMU threads.
THEOREM ObserverIsAtomic == Spec => ImplementsAtomic
  <1>1. Init => AtomicInv /\ Atomic!AInit
    <2> SUFFICES ASSUME Init PROVE AtomicInv /\ Atomic!AInit
      OBVIOUS
    <2>1. \A t \in ImuThreads : imu[t].pc = "idle"
      BY DEF Init, IdleImu
    <2>2. ~Propagating
      BY <2>1 DEF Propagating
    <2>3. state.fix = 0 /\ state.log = <<>> /\ update_seq = 0
      BY EstimateReset DEF Init
    <2>4. QED
      BY <2>1, <2>2, <2>3 DEF AtomicInv, Atomic!AInit
  <1>2. IInv /\ SampleInv /\ AtomicInv /\ [Next]_vars
          => AtomicInv' /\ [Atomic!ANext]_(Atomic!avars)
    <2> SUFFICES ASSUME IInv, SampleInv, AtomicInv, [Next]_vars
                 PROVE  AtomicInv' /\ [Atomic!ANext]_(Atomic!avars)
      OBVIOUS
    <2>1. CASE Next
      BY <2>1, ScanAtomic, ImuAtomic, ResetAtomic DEF Next
    <2>2. CASE UNCHANGED vars
      <3>1. UNCHANGED <<state, update_seq, first_opt_done, imu, reset, crowded>>
        BY <2>2 DEF vars, obsVars
      <3>2. QED
        BY <3>1 DEF AtomicInv, Propagating, Crossing, Resetting, Atomic!avars
    <2>3. QED
      BY <2>1, <2>2
  <1>3. QED
    BY <1>1, <1>2, InductiveInvariant, SampleInvariant, PTL
       DEF Spec, ImplementsAtomic, Atomic!ASpec
=============================================================================
