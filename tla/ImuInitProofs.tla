---------------------------- MODULE ImuInitProofs ----------------------------
(***************************************************************************)
(* Proofs about ImuInit, for any number of overlapping IMU callbacks, any  *)
(* timeouts and any combination of the node's options: the types, that the *)
(* output continues for a seeded node, and that an unseeded one is         *)
(* calibrated in time.                                                     *)
(*                                                                         *)
(* OutputContinues alone is not inductive.  OutputInv adds that a seed is  *)
(* never lost again, that only a callback that has returned has suppressed *)
(* its output, and that it saw no seed.                                    *)
(*                                                                         *)
(* UnseededDeadline holds although stale callbacks may take the phase      *)
(* back.  Started bounds the first stamp by the callbacks in progress.     *)
(* While the node is dark (neither seeded nor calibrated) Dark bounds each *)
(* phase: once the stamps have passed its limit, some callback stamped at  *)
(* most MaxGap later still has to act on it, and no stamp runs ahead of    *)
(* that callback by more than Stall.                                       *)
(***************************************************************************)
EXTENDS ImuInit, TLAPS

Clock == clock \in Int /\ clock >= FirstStamp - 1

TypeInv == TypeOK /\ Clock

OutputInv ==
  \A t \in ImuThreads :
    /\ imu[t].seeded => CanPropagate
    /\ imu[t].out = "suppressed" => imu[t].pc = "idle" /\ ~imu[t].seeded

Seeding == <<initialized, first_opt_done>>

Pcs == {"idle", "first", "stamping", "gate", "phase", "keeping", "adopting", "propagate"}
Outs == {"none", "published", "suppressed"}

LEMMA RecordUpdates ==
  ASSUME NEW r \in ImuRecord, NEW p \in Pcs, NEW s \in Nat, NEW q \in Phases, NEW b \in BOOLEAN,
         NEW o \in Outs
  PROVE  /\ [r EXCEPT !.pc = p, !.stamp = s, !.out = o] \in ImuRecord
         /\ [r EXCEPT !.pc = p, !.phase = q, !.seeded = b] \in ImuRecord
         /\ [r EXCEPT !.pc = p, !.out = o] \in ImuRecord
  <1>1. [r EXCEPT !.pc = p, !.stamp = s, !.out = o] \in ImuRecord
    BY DEF ImuRecord, Pcs, Outs
  <1>2. [r EXCEPT !.pc = p, !.phase = q, !.seeded = b] \in ImuRecord
    BY DEF ImuRecord, Pcs, Outs
  <1>3. [r EXCEPT !.pc = p, !.out = o] \in ImuRecord
    BY DEF ImuRecord, Pcs, Outs
  <1>4. QED
    BY <1>1, <1>2, <1>3

\* The actions of callbackImu that touch one thread's record only.
LEMMA RecordTypes ==
  ASSUME TypeInv, NEW t \in ImuThreads
  PROVE  /\ imu[t] \in ImuRecord
         /\ Suppressed(t) \in ImuRecord
         /\ Unfinished(t) \in ImuRecord
         /\ \A p \in {"idle", "first", "stamping", "gate", "phase", "keeping", "adopting",
                      "propagate"} : [imu[t] EXCEPT !.pc = p] \in ImuRecord
         /\ \A p \in Phases : [imu[t] EXCEPT !.phase = p] \in ImuRecord
         /\ StationaryStart(t) \in Nat \cup {Unset}
  <1>1. imu[t] \in ImuRecord /\ imu_calib_start_stamp \in Nat \cup {Unset}
    BY DEF TypeInv, TypeOK
  <1>2. Suppressed(t) \in ImuRecord
    BY <1>1 DEF Suppressed, ImuRecord
  <1>3. \A p \in {"idle", "first", "stamping", "gate", "phase", "keeping", "adopting",
                  "propagate"} : [imu[t] EXCEPT !.pc = p] \in ImuRecord
    BY <1>1 DEF ImuRecord
  <1>4. Unfinished(t) \in ImuRecord
    BY <1>1, <1>2, <1>3 DEF Unfinished
  <1>5. \A p \in Phases : [imu[t] EXCEPT !.phase = p] \in ImuRecord
    BY <1>1 DEF ImuRecord
  <1>6. StationaryStart(t) \in Nat \cup {Unset}
    BY <1>1 DEF StationaryStart, ImuRecord
  <1>7. QED
    BY <1>1, <1>2, <1>3, <1>4, <1>5, <1>6

LEMMA ImuKeepsTypes ==
  ASSUME TypeInv, NEW t \in ImuThreads, ImuStep(t)
  PROVE  TypeInv'
  <1>1. /\ imu \in [ImuThreads -> ImuRecord]
        /\ imu[t] \in ImuRecord
        /\ Suppressed(t) \in ImuRecord
        /\ Unfinished(t) \in ImuRecord
        /\ \A p \in {"idle", "first", "stamping", "gate", "phase", "keeping", "adopting",
                     "propagate"} : [imu[t] EXCEPT !.pc = p] \in ImuRecord
        /\ \A p \in Phases : [imu[t] EXCEPT !.phase = p] \in ImuRecord
        /\ StationaryStart(t) \in Nat \cup {Unset}
    BY RecordTypes DEF TypeInv, TypeOK
  <1>2. imu[t].stamp \in Nat /\ imu[t].seeded \in BOOLEAN
    BY <1>1 DEF ImuRecord
  <1>3. \A r \in ImuRecord : [imu EXCEPT ![t] = r] \in [ImuThreads -> ImuRecord]
    BY <1>1
  <1>4. CASE ReceiveImu(t)
    <2>1. PICK gap \in Int :
            /\ gap >= 1 /\ clock' = clock + gap
            /\ imu' = [imu EXCEPT ![t] = [@ EXCEPT !.pc = "first", !.stamp = clock + gap,
                                                   !.out = "none"]]
      <3>1. PICK gap \in IF clock < FirstStamp THEN {1} ELSE 1 .. MaxGap :
              /\ clock' = clock + gap
              /\ imu' = [imu EXCEPT ![t] = [@ EXCEPT !.pc = "first", !.stamp = clock + gap,
                                                     !.out = "none"]]
        BY <1>4 DEF ReceiveImu
      <3>2. gap \in Int /\ gap >= 1
        BY <3>1, InitAssumption
      <3>3. QED
        BY <3>1, <3>2
    <2>2. clock + gap \in Nat /\ Clock'
      BY <2>1, InitAssumption DEF TypeInv, Clock
    <2>3. [imu[t] EXCEPT !.pc = "first", !.stamp = clock + gap, !.out = "none"] \in ImuRecord
      <3>1. "first" \in Pcs /\ "none" \in Outs /\ "WAITING" \in Phases /\ FALSE \in BOOLEAN
        BY DEF Pcs, Outs, Phases
      <3>2. \A s \in Nat : [imu[t] EXCEPT !.pc = "first", !.stamp = s, !.out = "none"] \in ImuRecord
        BY <1>1, <3>1, RecordUpdates
      <3>3. QED
        BY <2>2, <3>2
    <2>4. imu' \in [ImuThreads -> ImuRecord]
      BY <1>3, <2>1, <2>3
    <2>5. QED
      BY <1>4, <2>2, <2>4 DEF ReceiveImu, TypeInv, TypeOK, Clock, calibVars, firstVars, seedVars,
                              gtVars, estimate
  <1>5. CASE MarkFirst(t)
    <2>1. imu' \in [ImuThreads -> ImuRecord]
      BY <1>1, <1>3, <1>5 DEF MarkFirst
    <2>2. QED
      BY <1>5, <2>1 DEF MarkFirst, TypeInv, TypeOK, Clock, calibVars, seedVars, gtVars, estimate
  <1>6. CASE StampFirst(t)
    <2>1. imu' \in [ImuThreads -> ImuRecord]
      BY <1>1, <1>3, <1>6 DEF StampFirst
    <2>2. QED
      BY <1>2, <1>6, <2>1 DEF StampFirst, TypeInv, TypeOK, Clock, Phases, seedVars, gtVars, estimate
  <1>7. CASE LoadPhase(t)
    <2>1. CanPropagate \in BOOLEAN /\ init_phase \in Phases
      BY DEF CanPropagate, TypeInv, TypeOK
    <2>2. [imu[t] EXCEPT !.pc = IF imu_calibrated \/ init_phase = "DONE" THEN "propagate" ELSE "phase",
                         !.phase = init_phase, !.seeded = CanPropagate] \in ImuRecord
      <3>1. (IF imu_calibrated \/ init_phase = "DONE" THEN "propagate" ELSE "phase") \in Pcs
        BY DEF Pcs
      <3>2. \A p \in Pcs : [imu[t] EXCEPT !.pc = p, !.phase = init_phase, !.seeded = CanPropagate]
                            \in ImuRecord
        BY <1>1, <2>1, RecordUpdates DEF Outs
      <3>3. QED
        BY <3>1, <3>2
    <2>3. imu' \in [ImuThreads -> ImuRecord]
      BY <1>3, <1>7, <2>2 DEF LoadPhase
    <2>4. QED
      BY <1>7, <2>3 DEF LoadPhase, TypeInv, TypeOK, Clock, calibVars, firstVars, seedVars, gtVars,
                        estimate
  <1>8. CASE StartRtk(t)
    <2>1. imu' \in [ImuThreads -> ImuRecord]
      BY <1>1, <1>3, <1>8 DEF StartRtk, Phases
    <2>2. QED
      BY <1>2, <1>8, <2>1 DEF StartRtk, TypeInv, TypeOK, Clock, Phases, firstVars, seedVars, gtVars,
                              estimate
  <1>9. CASE WaitExpired(t)
    <2>1. imu' \in [ImuThreads -> ImuRecord]
      BY <1>1, <1>3, <1>9 DEF WaitExpired, Phases
    <2>2. QED
      BY <1>2, <1>9, <2>1 DEF WaitExpired, GoStationary, TypeInv, TypeOK, Clock, Phases, firstVars,
                              seedVars, gtVars, estimate
  <1>10. CASE KeepWaiting(t) \/ RtkNoPairing(t)
    <2>1. imu' \in [ImuThreads -> ImuRecord]
      BY <1>1, <1>3, <1>10 DEF KeepWaiting, RtkNoPairing
    <2>2. QED
      BY <1>10, <2>1 DEF KeepWaiting, RtkNoPairing, TypeInv, TypeOK, Clock, calibVars, firstVars,
                         seedVars, gtVars, estimate
  <1>11. CASE RtkBudgetOver(t)
    <2>1. imu' \in [ImuThreads -> ImuRecord]
      BY <1>1, <1>3, <1>11 DEF RtkBudgetOver
    <2>2. QED
      BY <1>2, <1>11, <2>1 DEF RtkBudgetOver, GoStationary, TypeInv, TypeOK, Clock, Phases,
                               firstVars, seedVars, gtVars, estimate
  <1>12. CASE RtkFirstPairing(t)
    <2>1. imu' \in [ImuThreads -> ImuRecord]
      BY <1>1, <1>3, <1>12 DEF RtkFirstPairing
    <2>2. QED
      BY <1>2, <1>12, <2>1 DEF RtkFirstPairing, TypeInv, TypeOK, Clock, firstVars, seedVars, gtVars,
                               estimate
  <1>13. ASSUME NEW n, PairingCounted(t, n)
         PROVE  n \in Nat /\ prev_gt_stamp' \in Nat
    BY <1>2, <1>13 DEF PairingCounted, TypeInv, TypeOK
  <1>14. CASE RtkAccumulate(t)
    <2>1. imu' \in [ImuThreads -> ImuRecord]
      BY <1>1, <1>3, <1>14 DEF RtkAccumulate
    <2>2. rtk_calib_count' \in Nat /\ prev_gt_stamp' \in Nat
      BY <1>13, <1>14 DEF RtkAccumulate
    <2>3. QED
      BY <1>14, <2>1, <2>2 DEF RtkAccumulate, TypeInv, TypeOK, Clock, firstVars, seedVars, gtVars,
                               estimate
  <1>15. CASE RtkTooFew(t)
    <2>1. imu' \in [ImuThreads -> ImuRecord]
      BY <1>1, <1>3, <1>15 DEF RtkTooFew
    <2>2. rtk_calib_count' \in Nat /\ prev_gt_stamp' \in Nat
      BY <1>13, <1>15 DEF RtkTooFew
    <2>3. QED
      BY <1>2, <1>15, <2>1, <2>2 DEF RtkTooFew, GoStationary, TypeInv, TypeOK, Clock, Phases,
                                     firstVars, seedVars, gtVars, estimate
  <1>16. CASE RtkImplausible(t)
    <2>1. imu' \in [ImuThreads -> ImuRecord]
      BY <1>1, <1>3, <1>16 DEF RtkImplausible
    <2>2. rtk_calib_count' \in Nat /\ prev_gt_stamp' \in Nat
      BY <1>13, <1>16 DEF RtkImplausible
    <2>3. QED
      BY <1>2, <1>16, <2>1, <2>2 DEF RtkImplausible, GoStationary, TypeInv, TypeOK, Clock, Phases,
                                     firstVars, seedVars, gtVars, estimate
  <1>17. CASE RtkComplete(t)
    <2>1. imu' \in [ImuThreads -> ImuRecord]
      BY <1>1, <1>3, <1>17 DEF RtkComplete
    <2>2. rtk_calib_count' \in Nat /\ prev_gt_stamp' \in Nat
      BY <1>13, <1>17 DEF RtkComplete
    <2>3. QED
      BY <1>17, <2>1, <2>2 DEF RtkComplete, TypeInv, TypeOK, Clock, Phases, firstVars,
                               seedVars, gtVars
  <1>18. CASE StationaryAccumulate(t)
    <2>1. imu' \in [ImuThreads -> ImuRecord]
      BY <1>1, <1>3, <1>18 DEF StationaryAccumulate
    <2>2. imu_calib_start_stamp' \in Nat \cup {Unset}
      BY <1>1, <1>18 DEF StationaryAccumulate
    <2>3. QED
      BY <1>18, <2>1, <2>2 DEF StationaryAccumulate, TypeInv, TypeOK, Clock, firstVars, seedVars,
                               gtVars, estimate
  <1>19. CASE StationaryBias(t)
    <2>1. imu' \in [ImuThreads -> ImuRecord]
      BY <1>1, <1>3, <1>19 DEF StationaryBias
    <2>2. imu_calib_start_stamp' \in Nat \cup {Unset}
      BY <1>1, <1>19 DEF StationaryBias
    <2>3. QED
      BY <1>19, <2>1, <2>2 DEF StationaryBias, TypeInv, TypeOK, Clock, firstVars, seedVars, gtVars
  <1>20. CASE StationaryDone(t)
    <2>1. imu' \in [ImuThreads -> ImuRecord]
      BY <1>1, <1>3, <1>20 DEF StationaryDone
    <2>2. QED
      BY <1>20, <2>1 DEF StationaryDone, TypeInv, TypeOK, Clock, Phases, firstVars, seedVars, gtVars
  <1>21. CASE Propagate(t)
    <2>1. [imu[t] EXCEPT !.pc = "idle", !.out = IF CanPropagate THEN "published" ELSE "suppressed"]
             \in ImuRecord
      <3>1. (IF CanPropagate THEN "published" ELSE "suppressed") \in Outs /\ "idle" \in Pcs
        BY DEF Outs, Pcs
      <3>2. \A o \in Outs : [imu[t] EXCEPT !.pc = "idle", !.out = o] \in ImuRecord
        BY <1>1, <3>1, RecordUpdates DEF Phases
      <3>3. QED
        BY <3>1, <3>2
    <2>2. imu' \in [ImuThreads -> ImuRecord]
      BY <1>3, <1>21, <2>1 DEF Propagate
    <2>3. QED
      BY <1>21, <2>2 DEF Propagate, TypeInv, TypeOK, Clock, calibVars, firstVars, seedVars, gtVars,
                         estimate
  <1>22. QED
    BY <1>4, <1>5, <1>6, <1>7, <1>8, <1>9, <1>10, <1>11, <1>12, <1>14, <1>15, <1>16, <1>17, <1>18,
       <1>19, <1>20, <1>21 DEF ImuStep, RtkPhase

\* The callbacks that seed a pose beside callbackImu.
LEMMA SeedKeepsTypes ==
  ASSUME TypeInv, SeedStep
  PROVE  TypeInv'
  <1>1. CASE ParamPose \/ ManualPose
    BY <1>1, InitAssumption DEF ParamPose, ManualPose, SeedFrom, TypeInv, TypeOK, Clock, calibVars,
                                firstVars, gtVars
  <1>2. CASE ReceiveGt \/ BufferGt
    BY <1>2 DEF ReceiveGt, BufferGt, TypeInv, TypeOK, Clock, calibVars, firstVars, estimate
  <1>3. CASE OdomInit
    BY <1>3, InitAssumption DEF OdomInit, SeedFrom, TypeInv, TypeOK, Clock, calibVars, firstVars
  <1>4. CASE FirstScan
    BY <1>4 DEF FirstScan, TypeInv, TypeOK, Clock, calibVars, firstVars, gtVars
  <1>5. QED
    BY <1>1, <1>2, <1>3, <1>4 DEF SeedStep

LEMMA TypeInvariant == Spec => []TypeInv
  <1>1. Init => TypeInv
    <2> SUFFICES ASSUME Init PROVE TypeInv
      OBVIOUS
    <2>1. FirstStamp \in Nat /\ UseParam \in BOOLEAN
      BY InitAssumption
    <2>2. imu \in [ImuThreads -> ImuRecord]
      BY <2>1 DEF Init, ImuRecord, Phases
    <2>3. {first_imu_stamp, imu_calib_start_stamp, rtk_calib_start_stamp, prev_gt_stamp}
            \subseteq Nat \cup {Unset}
      BY DEF Init
    <2>4. {pending_initial_pose, initialized, first_opt_done, gt_extrinsics_cached,
           gt_odom_received, use_odom_init_applied} \subseteq BOOLEAN
      BY <2>1 DEF Init
    <2>5. clock \in Int /\ clock >= FirstStamp - 1 /\ rtk_calib_count \in Nat
      BY <2>1 DEF Init
    <2>6. /\ init_phase \in Phases /\ imu_calibrated \in BOOLEAN /\ first_imu_received \in BOOLEAN
          /\ orientation \in {"none", "param", "manual", "odom", "scan", "rtk", "gravity"}
          /\ bias \in {"zero", "rtk", "stationary"} /\ gt \in {"idle", "received", "seeded"}
      BY DEF Init, Phases
    <2>7. QED
      BY <2>2, <2>3, <2>4, <2>5, <2>6 DEF TypeInv, TypeOK, Clock
  <1>2. TypeInv /\ [Next]_vars => TypeInv'
    <2> SUFFICES ASSUME TypeInv, [Next]_vars PROVE TypeInv'
      OBVIOUS
    <2>1. CASE SeedStep
      BY <2>1, SeedKeepsTypes
    <2>2. CASE \E t \in ImuThreads : ImuStep(t)
      BY <2>2, ImuKeepsTypes
    <2>3. CASE UNCHANGED vars
      BY <2>3 DEF vars, calibVars, firstVars, seedVars, gtVars, estimate, TypeInv, TypeOK, Clock
    <2>4. QED
      BY <2>1, <2>2, <2>3 DEF Next
  <1>3. QED
    BY <1>1, <1>2, PTL DEF Spec

-----------------------------------------------------------------------------

\* No callback forgets a seed.
LEMMA SeedStays ==
  ASSUME TypeInv, [Next]_vars, CanPropagate
  PROVE  CanPropagate'
  <1>1. CASE SeedStep
    BY <1>1 DEF SeedStep, ParamPose, ManualPose, ReceiveGt, OdomInit, BufferGt, FirstScan, SeedFrom,
                CanPropagate
  <1>2. ASSUME NEW t \in ImuThreads, ImuStep(t)
        PROVE  UNCHANGED Seeding
    BY <1>2 DEF ImuStep, RtkPhase, ReceiveImu, MarkFirst, StampFirst, LoadPhase, StartRtk, WaitExpired,
                KeepWaiting, RtkBudgetOver, RtkNoPairing, RtkFirstPairing, RtkAccumulate, RtkTooFew,
                RtkImplausible, RtkComplete, StationaryAccumulate, StationaryBias, StationaryDone,
                Propagate, GoStationary, seedVars, Seeding
  <1>3. CASE UNCHANGED vars
    BY <1>3 DEF vars, seedVars, CanPropagate
  <1>4. QED
    BY <1>1, <1>2, <1>3 DEF Next, CanPropagate, Seeding

\* What one step of callbackImu makes of its own record.
LEMMA OwnRecord ==
  ASSUME TypeInv, OutputInv, NEW t \in ImuThreads, ImuStep(t)
  PROVE  \E r :
           /\ imu' = [imu EXCEPT ![t] = r]
           /\ r.seeded => imu[t].seeded \/ CanPropagate
           /\ r.out = "suppressed" => r.pc = "idle" /\ ~r.seeded
  <1>1. /\ imu[t] \in ImuRecord
        /\ imu[t].seeded => CanPropagate
        /\ imu[t].out = "suppressed" => imu[t].pc = "idle" /\ ~imu[t].seeded
    BY DEF TypeInv, TypeOK, OutputInv
  <1>2. CASE imu[t].pc = "idle"
    <2>1. ReceiveImu(t)
      BY <1>2 DEF ImuStep, RtkPhase, MarkFirst, StampFirst, LoadPhase, StartRtk, WaitExpired,
                  KeepWaiting, RtkBudgetOver, RtkNoPairing, RtkFirstPairing, RtkAccumulate, RtkTooFew,
                  RtkImplausible, RtkComplete, StationaryAccumulate, StationaryBias, StationaryDone,
                  Propagate, InPhase, RtkStep, PairingCounted
    <2>2. PICK gap : imu' = [imu EXCEPT ![t] = [@ EXCEPT !.pc = "first", !.stamp = clock + gap,
                                                         !.out = "none"]]
      BY <2>1 DEF ReceiveImu
    <2> DEFINE r == [imu[t] EXCEPT !.pc = "first", !.stamp = clock + gap, !.out = "none"]
    <2>3. r.seeded = imu[t].seeded /\ r.out = "none"
      BY <1>1 DEF ImuRecord
    <2>4. imu' = [imu EXCEPT ![t] = r]
      BY <2>2
    <2> HIDE DEF r
    <2>5. QED
      BY <2>3, <2>4
  <1>3. CASE imu[t].pc # "idle"
    <2>1. imu[t].out # "suppressed"
      BY <1>1, <1>3
    <2>2. ASSUME NEW p
          PROVE  /\ [imu[t] EXCEPT !.pc = p].seeded = imu[t].seeded
                 /\ [imu[t] EXCEPT !.pc = p].out = imu[t].out
      BY <1>1 DEF ImuRecord
    <2>3. ASSUME NEW p
          PROVE  /\ [imu[t] EXCEPT !.phase = p].seeded = imu[t].seeded
                 /\ [imu[t] EXCEPT !.phase = p].out = imu[t].out
      BY <1>1 DEF ImuRecord
    <2>4. /\ Suppressed(t).seeded = imu[t].seeded
          /\ Suppressed(t).pc = "idle"
      BY <1>1 DEF Suppressed, ImuRecord
    <2>5. /\ Unfinished(t).seeded = imu[t].seeded
          /\ Unfinished(t).out = "suppressed" => Unfinished(t).pc = "idle" /\ ~imu[t].seeded
      BY <2>1, <2>2, <2>4 DEF Unfinished
    <2>6. CASE MarkFirst(t) \/ StampFirst(t) \/ RtkComplete(t) \/ StationaryBias(t) \/ StationaryDone(t)
      <3>1. PICK p : imu' = [imu EXCEPT ![t] = [imu[t] EXCEPT !.pc = p]]
        BY <2>6 DEF MarkFirst, StampFirst, RtkComplete, StationaryBias, StationaryDone
      <3>2. QED
        BY <2>1, <2>2, <3>1
    <2>7. CASE StartRtk(t) \/ WaitExpired(t)
      <3>1. PICK p : imu' = [imu EXCEPT ![t] = [imu[t] EXCEPT !.phase = p]]
        BY <2>7 DEF StartRtk, WaitExpired
      <3>2. QED
        BY <2>1, <2>3, <3>1
    <2>8. CASE \/ KeepWaiting(t) \/ RtkNoPairing(t) \/ RtkFirstPairing(t) \/ RtkAccumulate(t)
               \/ RtkTooFew(t) \/ RtkImplausible(t) \/ StationaryAccumulate(t)
      <3>1. imu' = [imu EXCEPT ![t] = Unfinished(t)]
        BY <2>8 DEF KeepWaiting, RtkNoPairing, RtkFirstPairing, RtkAccumulate, RtkTooFew,
                    RtkImplausible, StationaryAccumulate
      <3>2. QED
        BY <2>5, <3>1
    <2>9. CASE RtkBudgetOver(t)
      <3>1. imu' = [imu EXCEPT ![t] = Suppressed(t)] /\ ~imu[t].seeded
        BY <2>9 DEF RtkBudgetOver, BudgetOver
      <3>2. QED
        BY <2>4, <3>1
    <2>10. CASE LoadPhase(t)
      <3> DEFINE r == [imu[t] EXCEPT !.pc = IF imu_calibrated \/ init_phase = "DONE"
                                            THEN "propagate" ELSE "phase",
                                     !.phase = init_phase, !.seeded = CanPropagate]
      <3>1. imu' = [imu EXCEPT ![t] = r]
        BY <2>10 DEF LoadPhase
      <3>2. r.seeded = CanPropagate /\ r.out = imu[t].out
        BY <1>1 DEF ImuRecord
      <3> HIDE DEF r
      <3>3. QED
        BY <2>1, <3>1, <3>2
    <2>11. CASE Propagate(t)
      <3> DEFINE r == [imu[t] EXCEPT !.pc = "idle",
                                     !.out = IF CanPropagate THEN "published" ELSE "suppressed"]
      <3>1. imu' = [imu EXCEPT ![t] = r]
        BY <2>11 DEF Propagate
      <3>2. /\ r.seeded = imu[t].seeded /\ r.pc = "idle"
            /\ r.out = IF CanPropagate THEN "published" ELSE "suppressed"
        BY <1>1 DEF ImuRecord
      <3> HIDE DEF r
      <3>3. QED
        BY <1>1, <3>1, <3>2
    <2>12. ~ReceiveImu(t)
      BY <1>3 DEF ReceiveImu
    <2>13. QED
      BY <2>6, <2>7, <2>8, <2>9, <2>10, <2>11, <2>12 DEF ImuStep, RtkPhase
  <1>4. QED
    BY <1>2, <1>3

LEMMA OutputStep ==
  ASSUME TypeInv, OutputInv, [Next]_vars
  PROVE  OutputInv'
  <1>1. CanPropagate => CanPropagate'
    BY SeedStays
  <1>2. CASE UNCHANGED imu
    BY <1>1, <1>2 DEF OutputInv
  <1>3. ASSUME NEW t \in ImuThreads, ImuStep(t)
        PROVE  OutputInv'
    <2>1. PICK r : /\ imu' = [imu EXCEPT ![t] = r]
                   /\ r.seeded => imu[t].seeded \/ CanPropagate
                   /\ r.out = "suppressed" => r.pc = "idle" /\ ~r.seeded
      BY <1>3, OwnRecord
    <2>2. imu'[t] = r /\ \A u \in ImuThreads : u # t => imu'[u] = imu[u]
      BY <2>1 DEF TypeInv, TypeOK
    <2>3. imu[t].seeded => CanPropagate
      BY DEF OutputInv
    <2>4. QED
      BY <1>1, <2>1, <2>2, <2>3 DEF OutputInv
  <1>4. SeedStep => UNCHANGED imu
    BY DEF SeedStep, ParamPose, ManualPose, ReceiveGt, OdomInit, BufferGt, FirstScan, SeedFrom
  <1>5. UNCHANGED vars => UNCHANGED imu
    BY DEF vars
  <1>6. QED
    BY <1>2, <1>3, <1>4, <1>5 DEF Next

LEMMA OutputInvariant == Spec => []OutputInv
  <1>1. Init => OutputInv
    <2> SUFFICES ASSUME Init, NEW t \in ImuThreads
                 PROVE  /\ imu[t].seeded => CanPropagate
                        /\ imu[t].out = "suppressed" => imu[t].pc = "idle" /\ ~imu[t].seeded
      BY DEF OutputInv
    <2>1. imu[t] = [pc |-> "idle", stamp |-> FirstStamp, phase |-> "WAITING", seeded |-> FALSE,
                    out |-> "none"]
      BY DEF Init
    <2>2. imu[t].seeded = FALSE /\ imu[t].out = "none"
      BY <2>1
    <2>3. QED
      BY <2>2
  <1>2. TypeInv /\ OutputInv /\ [Next]_vars => OutputInv'
    BY OutputStep
  <1>3. QED
    BY <1>1, <1>2, TypeInvariant, PTL DEF Spec

\* Every variable has its type, however the callbacks overlap.
THEOREM ImuTypeOK == Spec => []TypeOK
  <1>1. TypeInv => TypeOK
    BY DEF TypeInv
  <1>2. QED
    BY <1>1, TypeInvariant, PTL

\* The output of a seeded node continues through every phase of the
\* calibration, for any number of overlapping IMU callbacks.
THEOREM OutputAlwaysContinues == Spec => []OutputContinues
  <1>1. OutputInv => OutputContinues
    BY DEF OutputInv, OutputContinues
  <1>2. QED
    BY <1>1, OutputInvariant, PTL

-----------------------------------------------------------------------------
(* The deadline of an unseeded node *)

\* The stamps at which the phases are over, and the latest ones at which a dark
\* node may still be in them.
WaitOver == FirstStamp + Stall + Fallback
WaitBy   == WaitOver + MaxGap + Stall
RtkOver  == WaitBy + Stall + Window + Fallback
RtkBy    == RtkOver + MaxGap + Stall
CalibOver == RtkBy + CalibTime
CalibBy   == CalibOver + MaxGap + Stall

Busy(u) == imu[u].pc # "idle"

Started ==
  /\ \A u \in ImuThreads : Busy(u) => clock - imu[u].stamp <= Stall /\ imu[u].stamp <= clock
  /\ \A u \in ImuThreads : imu[u].pc = "stamping" => imu[u].stamp <= FirstStamp + Stall
  /\ first_imu_stamp <= FirstStamp + Stall
  /\ ~first_imu_received =>
       /\ imu_calib_start_stamp = Unset /\ init_phase = "WAITING"
       /\ \A u \in ImuThreads : imu[u].pc \in {"idle", "first"}
       /\ clock >= FirstStamp => \E u \in ImuThreads : imu[u].pc = "first" /\ imu[u].stamp = FirstStamp
  /\ init_phase = "DONE" => imu_calibrated

\* A callback stamped just after T will act on phase p, or is to look at the phase.
Awaits(u, p, T) ==
  /\ T < imu[u].stamp /\ imu[u].stamp <= T + MaxGap
  /\ imu[u].pc \in {"first", "gate"} \/ InPhase(u, p)

Finishing(u, T) ==
  /\ T < imu[u].stamp /\ imu[u].stamp <= T + MaxGap
  /\ imu[u].pc \in {"keeping", "adopting"}

Stamper(u) ==
  /\ imu[u].stamp <= FirstStamp + Stall
  /\ imu[u].pc = "gate" \/ InPhase(u, "STATIONARY_CALIBRATING")

DarkWaiting ==
  /\ init_phase = "WAITING" /\ clock > WaitOver =>
       \E u \in ImuThreads : Awaits(u, "WAITING", WaitOver)
  /\ \A u \in ImuThreads : InPhase(u, "WAITING") => imu[u].stamp <= WaitBy

DarkRtk ==
  /\ rtk_calib_start_stamp <= WaitBy
  /\ init_phase = "RTK_CALIBRATING" /\ clock > RtkOver =>
       \E u \in ImuThreads : Awaits(u, "RTK_CALIBRATING", RtkOver)
  /\ \A u \in ImuThreads : InPhase(u, "RTK_CALIBRATING") => imu[u].stamp <= RtkBy

DarkStart ==
  /\ imu_calib_start_stamp <= RtkBy
  /\ init_phase = "STATIONARY_CALIBRATING" /\ imu_calib_start_stamp = Unset =>
       \E u \in ImuThreads : Stamper(u)
  /\ imu_calib_start_stamp = Unset =>
       \A u \in ImuThreads : InPhase(u, "STATIONARY_CALIBRATING") =>
                                imu[u].stamp <= FirstStamp + 2 * Stall

DarkCalib ==
  clock > CalibOver =>
    \E u \in ImuThreads : \/ Awaits(u, "STATIONARY_CALIBRATING", CalibOver)
                          \/ Finishing(u, CalibOver)

IsDark == ~imu_calibrated /\ ~CanPropagate

Dark == IsDark => DarkWaiting /\ DarkRtk /\ DarkStart /\ DarkCalib

\* A callback that saw no seed, or has suppressed its output, is not late.
NotLate ==
  \A u \in ImuThreads :
    /\ imu[u].pc = "propagate" => imu_calibrated \/ imu[u].seeded
    /\ ~imu_calibrated /\ (imu[u].out = "suppressed" \/ (imu[u].pc = "phase" /\ ~imu[u].seeded)) =>
         imu[u].stamp <= CalibBy
-----------------------------------------------------------------------------
(* The limits and the shape of a step *)

LEMMA Limits ==
  /\ {Fallback, Window, CalibTime, MaxGap, Stall, FirstStamp} \subseteq Nat
  /\ WaitOver \in Nat /\ WaitOver = FirstStamp + Stall + Fallback
  /\ WaitBy \in Nat /\ WaitBy = WaitOver + MaxGap + Stall
  /\ RtkOver \in Nat /\ RtkOver = WaitBy + Stall + Window + Fallback
  /\ RtkBy \in Nat /\ RtkBy = RtkOver + MaxGap + Stall
  /\ CalibOver \in Nat /\ CalibOver = RtkBy + CalibTime
  /\ CalibBy \in Nat /\ CalibBy = CalibOver + MaxGap + Stall
  /\ CalibBy = FirstStamp + Deadline
  <1>1. {Fallback, Window, CalibTime, MaxGap, Stall, FirstStamp} \subseteq Nat
    BY InitAssumption
  <1>2. QED
    BY <1>1 DEF WaitOver, WaitBy, RtkOver, RtkBy, CalibOver, CalibBy, Deadline

LEMMA Numbers ==
  ASSUME TypeInv
  PROVE  /\ clock \in Int /\ first_imu_stamp \in Int /\ rtk_calib_start_stamp \in Int
         /\ imu_calib_start_stamp \in Int
         /\ \A u \in ImuThreads : imu[u] \in ImuRecord /\ imu[u].stamp \in Nat
         /\ \A u \in ImuThreads : imu[u].seeded \in BOOLEAN
         /\ imu \in [ImuThreads -> ImuRecord]
         /\ init_phase \in Phases
BY DEF TypeInv, TypeOK, Clock, Unset, ImuRecord

\* The two ways out of an unfinished phase.
LEMMA UnfinishedShape ==
  ASSUME TypeInv, NEW t \in ImuThreads
  PROVE  /\ Unfinished(t).stamp = imu[t].stamp /\ Suppressed(t).stamp = imu[t].stamp
         /\ Unfinished(t).seeded = imu[t].seeded /\ Suppressed(t).seeded = imu[t].seeded
         /\ Suppressed(t).pc = "idle"
         /\ \/ Unfinished(t).pc = "idle" /\ ~imu[t].seeded
            \/ /\ Unfinished(t).pc = "propagate" /\ Unfinished(t).out = imu[t].out
               /\ imu[t].seeded \/ imu_calibrated
  <1>1. imu[t] \in ImuRecord
    BY Numbers
  <1>2. /\ Suppressed(t).pc = "idle" /\ Suppressed(t).stamp = imu[t].stamp
        /\ Suppressed(t).seeded = imu[t].seeded
    BY <1>1 DEF Suppressed, ImuRecord
  <1>3. CASE imu[t].seeded \/ (imu[t].phase = "RTK_CALIBRATING" /\ imu_calibrated)
    <2>1. Unfinished(t) = [imu[t] EXCEPT !.pc = "propagate"]
      BY <1>3 DEF Unfinished
    <2>2. QED
      BY <1>1, <1>2, <1>3, <2>1 DEF ImuRecord
  <1>4. CASE ~(imu[t].seeded \/ (imu[t].phase = "RTK_CALIBRATING" /\ imu_calibrated))
    <2>1. Unfinished(t) = Suppressed(t)
      BY <1>4 DEF Unfinished
    <2>2. QED
      BY <1>2, <1>4, <2>1
  <1>5. QED
    BY <1>3, <1>4

\* The steps of callbackImu, each with what it does to the phase machine.
Receives(t) ==
  /\ imu[t].pc = "idle" /\ imu'[t].pc = "first" /\ imu'[t].stamp = clock' /\ imu'[t].out = "none"
  /\ clock' > clock
  /\ clock < FirstStamp => clock' = clock + 1
  /\ clock' <= clock + MaxGap
  /\ \A u \in ImuThreads : Busy(u) => clock' - imu[u].stamp <= Stall
  /\ UNCHANGED <<init_phase, imu_calibrated, imu_calib_start_stamp, rtk_calib_start_stamp,
                 first_imu_received, first_imu_stamp>>

Marks(t) ==
  /\ imu[t].pc = "first" /\ first_imu_received'
  /\ imu'[t].pc = IF first_imu_received THEN "gate" ELSE "stamping"
  /\ imu'[t].out = imu[t].out
  /\ UNCHANGED <<init_phase, imu_calibrated, imu_calib_start_stamp, rtk_calib_start_stamp,
                 first_imu_stamp>>

Stamps(t) ==
  /\ imu[t].pc = "stamping" /\ imu'[t].pc = "gate" /\ imu'[t].out = imu[t].out
  /\ first_imu_stamp' = imu[t].stamp
  /\ \/ init_phase' = init_phase
     \/ init_phase = "WAITING" /\ init_phase' = "STATIONARY_CALIBRATING"
  /\ UNCHANGED <<imu_calibrated, imu_calib_start_stamp, rtk_calib_start_stamp,
                 first_imu_received>>

Loads(t) ==
  /\ imu[t].pc = "gate" /\ imu'[t].out = imu[t].out
  /\ imu'[t].pc = IF imu_calibrated \/ init_phase = "DONE" THEN "propagate" ELSE "phase"
  /\ imu'[t].phase = init_phase
  /\ imu'[t].seeded <=> CanPropagate
  /\ UNCHANGED <<init_phase, imu_calibrated, imu_calib_start_stamp, rtk_calib_start_stamp,
                 first_imu_received, first_imu_stamp>>

StartsRtk(t) ==
  /\ InPhase(t, "WAITING") /\ imu'[t].pc = "phase" /\ imu'[t].phase = "RTK_CALIBRATING"
  /\ imu'[t].out = imu[t].out /\ imu'[t].seeded = imu[t].seeded
  /\ init_phase' = "RTK_CALIBRATING" /\ rtk_calib_start_stamp' = imu[t].stamp
  /\ UNCHANGED <<imu_calibrated, imu_calib_start_stamp, first_imu_received, first_imu_stamp>>

Expires(t) ==
  /\ InPhase(t, "WAITING") /\ imu'[t].pc = "phase" /\ imu'[t].phase = "STATIONARY_CALIBRATING"
  /\ imu'[t].out = imu[t].out /\ imu'[t].seeded = imu[t].seeded
  /\ init_phase' = "STATIONARY_CALIBRATING" /\ imu_calib_start_stamp' = imu[t].stamp
  /\ UNCHANGED <<imu_calibrated, rtk_calib_start_stamp, first_imu_received, first_imu_stamp>>

\* The callback returns or goes on to propagateState, with the biases unfinished.
Leaves(t) ==
  /\ imu[t].pc = "phase"
  /\ \/ imu'[t].pc = "idle" /\ ~imu[t].seeded /\ ~imu'[t].seeded
     \/ /\ imu'[t].pc = "propagate" /\ imu'[t].out = imu[t].out
        /\ imu_calibrated \/ imu'[t].seeded
  /\ UNCHANGED <<imu_calibrated, first_imu_received, first_imu_stamp, rtk_calib_start_stamp>>

Waits(t) ==
  /\ InPhase(t, "WAITING") /\ Leaves(t)
  /\ imu[t].stamp - first_imu_stamp <= Fallback
  /\ UNCHANGED <<init_phase, imu_calib_start_stamp>>

GivesUpRtk(t) ==
  /\ InPhase(t, "RTK_CALIBRATING") /\ Leaves(t)
  /\ init_phase' = "STATIONARY_CALIBRATING" /\ imu_calib_start_stamp' = imu[t].stamp

KeepsRtk(t) ==
  /\ InPhase(t, "RTK_CALIBRATING") /\ Leaves(t)
  /\ imu[t].seeded \/ imu[t].stamp - rtk_calib_start_stamp <= Window + Fallback
  /\ UNCHANGED <<init_phase, imu_calib_start_stamp>>

Accumulates(t) ==
  /\ InPhase(t, "STATIONARY_CALIBRATING") /\ Leaves(t)
  /\ imu[t].stamp - StationaryStart(t) < CalibTime
  /\ imu_calib_start_stamp' = StationaryStart(t)
  /\ UNCHANGED init_phase

Averages(t) ==
  /\ InPhase(t, "STATIONARY_CALIBRATING") /\ imu'[t].pc \in {"keeping", "adopting"}
  /\ imu'[t].out = imu[t].out
  /\ imu_calib_start_stamp' = StationaryStart(t)
  /\ UNCHANGED <<init_phase, imu_calibrated, first_imu_received, first_imu_stamp,
                 rtk_calib_start_stamp>>

Calibrates(t) ==
  /\ imu[t].pc \in {"phase", "keeping", "adopting"} /\ imu'[t].pc = "propagate"
  /\ imu_calibrated'
  /\ imu'[t].out = imu[t].out
  /\ UNCHANGED <<first_imu_received, first_imu_stamp>>

Ends(t) ==
  /\ imu[t].pc = "propagate" /\ imu'[t].pc = "idle"
  /\ imu'[t].out = "suppressed" => ~CanPropagate
  /\ UNCHANGED <<init_phase, imu_calibrated, imu_calib_start_stamp, rtk_calib_start_stamp,
                 first_imu_received, first_imu_stamp>>

OwnStep(t) ==
  /\ UNCHANGED clock /\ imu'[t].stamp = imu[t].stamp
  /\ \/ Marks(t) \/ Stamps(t) \/ Loads(t) \/ StartsRtk(t) \/ Expires(t) \/ Waits(t)
     \/ GivesUpRtk(t) \/ KeepsRtk(t) \/ Accumulates(t) \/ Averages(t) \/ Calibrates(t) \/ Ends(t)

LEMMA StepShape ==
  ASSUME TypeInv, NEW t \in ImuThreads, ImuStep(t)
  PROVE  /\ \A u \in ImuThreads : u # t => imu'[u] = imu[u]
         /\ CanPropagate' <=> CanPropagate
         /\ Receives(t) \/ OwnStep(t)
  <1>1. imu \in [ImuThreads -> ImuRecord] /\ imu[t] \in ImuRecord /\ clock \in Int
    BY Numbers
  <1>2. CanPropagate' <=> CanPropagate
    <2>1. UNCHANGED Seeding
      BY DEF ImuStep, RtkPhase, ReceiveImu, MarkFirst, StampFirst, LoadPhase, StartRtk, WaitExpired,
             KeepWaiting, RtkBudgetOver, RtkNoPairing, RtkFirstPairing, RtkAccumulate, RtkTooFew,
             RtkImplausible, RtkComplete, StationaryAccumulate, StationaryBias, StationaryDone,
             Propagate, GoStationary, seedVars, Seeding
    <2>2. QED
      BY <2>1 DEF CanPropagate, Seeding
  <1>3. ASSUME NEW r, imu' = [imu EXCEPT ![t] = r]
        PROVE  imu'[t] = r /\ \A u \in ImuThreads : u # t => imu'[u] = imu[u]
    BY <1>1, <1>3
  <1>4. CASE ReceiveImu(t)
    <2>1. PICK gap \in IF clock < FirstStamp THEN {1} ELSE 1 .. MaxGap :
            /\ clock' = clock + gap
            /\ \A u \in ImuThreads : Busy(u) => clock + gap - imu[u].stamp <= Stall
            /\ imu' = [imu EXCEPT ![t] = [@ EXCEPT !.pc = "first", !.stamp = clock + gap,
                                                   !.out = "none"]]
      BY <1>4 DEF ReceiveImu, Busy
    <2>2. /\ imu[t].pc = "idle"
          /\ UNCHANGED <<init_phase, imu_calibrated, imu_calib_start_stamp, rtk_calib_start_stamp,
                         first_imu_received, first_imu_stamp>>
      BY <1>4 DEF ReceiveImu, calibVars, firstVars
    <2> DEFINE c == clock + gap
               r == [imu[t] EXCEPT !.pc = "first", !.stamp = c, !.out = "none"]
    <2>3. imu' = [imu EXCEPT ![t] = r] /\ clock' = c
      BY <2>1
    <2>4. gap \in Int /\ gap >= 1 /\ gap <= MaxGap /\ (clock < FirstStamp => gap = 1)
      BY <1>1, <2>1, InitAssumption
    <2>5. /\ c > clock /\ c <= clock + MaxGap /\ (clock < FirstStamp => c = clock + 1)
          /\ \A u \in ImuThreads : Busy(u) => c - imu[u].stamp <= Stall
      <3>1. c > clock /\ c <= clock + MaxGap /\ (clock < FirstStamp => c = clock + 1)
        BY <1>1, <2>4, Limits
      <3>2. \A u \in ImuThreads : Busy(u) => c - imu[u].stamp <= Stall
        <4>1. c = clock + gap
          OBVIOUS
        <4> HIDE DEF c
        <4>2. QED
          BY <1>1, <2>1, <2>4, <4>1, Limits, Numbers
      <3>3. QED
        BY <3>1, <3>2
    <2> HIDE DEF c
    <2>6. r.pc = "first" /\ r.stamp = c /\ r.out = "none"
      BY <1>1 DEF ImuRecord
    <2> HIDE DEF r
    <2>7. Receives(t)
      BY <1>3, <2>2, <2>3, <2>5, <2>6 DEF Receives
    <2>8. QED
      BY <1>2, <1>3, <2>3, <2>7
  <1>5. CASE MarkFirst(t)
    <2> DEFINE r == [imu[t] EXCEPT !.pc = IF first_imu_received THEN "gate" ELSE "stamping"]
    <2>1. imu' = [imu EXCEPT ![t] = r]
      BY <1>5 DEF MarkFirst
    <2>2. /\ r.pc = IF first_imu_received THEN "gate" ELSE "stamping"
          /\ r.stamp = imu[t].stamp /\ r.out = imu[t].out
      BY <1>1 DEF ImuRecord
    <2> HIDE DEF r
    <2>3. OwnStep(t)
      BY <1>3, <1>5, <2>1, <2>2 DEF MarkFirst, OwnStep, Marks, calibVars
    <2>4. QED
      BY <1>2, <1>3, <2>1, <2>3
  <1>6. CASE StampFirst(t)
    <2> DEFINE r == [imu[t] EXCEPT !.pc = "gate"]
    <2>1. imu' = [imu EXCEPT ![t] = r]
      BY <1>6 DEF StampFirst
    <2>2. r.pc = "gate" /\ r.stamp = imu[t].stamp /\ r.out = imu[t].out
      BY <1>1 DEF ImuRecord
    <2> HIDE DEF r
    <2>3. OwnStep(t)
      BY <1>3, <1>6, <2>1, <2>2 DEF StampFirst, OwnStep, Stamps
    <2>4. QED
      BY <1>2, <1>3, <2>1, <2>3
  <1>7. CASE LoadPhase(t)
    <2> DEFINE p == IF imu_calibrated \/ init_phase = "DONE" THEN "propagate" ELSE "phase"
               r == [imu[t] EXCEPT !.pc = p, !.phase = init_phase, !.seeded = CanPropagate]
    <2>1. imu' = [imu EXCEPT ![t] = r]
      BY <1>7 DEF LoadPhase
    <2>2. /\ r.pc = p /\ r.phase = init_phase /\ r.seeded = CanPropagate
          /\ r.stamp = imu[t].stamp /\ r.out = imu[t].out
      BY <1>1 DEF ImuRecord
    <2> HIDE DEF r
    <2>3. OwnStep(t)
      BY <1>3, <1>7, <2>1, <2>2 DEF LoadPhase, OwnStep, Loads, calibVars, firstVars
    <2>4. QED
      BY <1>2, <1>3, <2>1, <2>3
  <1>8. CASE StartRtk(t)
    <2> DEFINE r == [imu[t] EXCEPT !.phase = "RTK_CALIBRATING"]
    <2>1. /\ imu' = [imu EXCEPT ![t] = r] /\ imu[t].pc = "phase" /\ InPhase(t, "WAITING")
          /\ init_phase' = "RTK_CALIBRATING" /\ rtk_calib_start_stamp' = imu[t].stamp
          /\ UNCHANGED <<clock, imu_calibrated, imu_calib_start_stamp, first_imu_received,
                         first_imu_stamp>>
      BY <1>8 DEF StartRtk, InPhase, firstVars
    <2>2. /\ r.pc = imu[t].pc /\ r.phase = "RTK_CALIBRATING" /\ r.stamp = imu[t].stamp
          /\ r.seeded = imu[t].seeded /\ r.out = imu[t].out
      BY <1>1 DEF ImuRecord
    <2> HIDE DEF r
    <2>3. StartsRtk(t) /\ imu'[t].stamp = imu[t].stamp
      BY <1>3, <2>1, <2>2 DEF StartsRtk
    <2>4. QED
      BY <1>2, <1>3, <2>1, <2>3 DEF OwnStep
  <1>9. CASE WaitExpired(t)
    <2> DEFINE r == [imu[t] EXCEPT !.phase = "STATIONARY_CALIBRATING"]
    <2>1. /\ imu' = [imu EXCEPT ![t] = r] /\ imu[t].pc = "phase" /\ InPhase(t, "WAITING")
          /\ init_phase' = "STATIONARY_CALIBRATING" /\ imu_calib_start_stamp' = imu[t].stamp
          /\ UNCHANGED <<clock, imu_calibrated, rtk_calib_start_stamp, first_imu_received,
                         first_imu_stamp>>
      BY <1>9 DEF WaitExpired, GoStationary, InPhase, firstVars
    <2>2. /\ r.pc = imu[t].pc /\ r.phase = "STATIONARY_CALIBRATING" /\ r.stamp = imu[t].stamp
          /\ r.seeded = imu[t].seeded /\ r.out = imu[t].out
      BY <1>1 DEF ImuRecord
    <2> HIDE DEF r
    <2>3. Expires(t) /\ imu'[t].stamp = imu[t].stamp
      BY <1>3, <2>1, <2>2 DEF Expires
    <2>4. QED
      BY <1>2, <1>3, <2>1, <2>3 DEF OwnStep
  <1>10. ASSUME \/ imu' = [imu EXCEPT ![t] = Unfinished(t)]
                \/ imu' = [imu EXCEPT ![t] = Suppressed(t)] /\ ~imu[t].seeded,
                imu[t].pc = "phase",
                UNCHANGED <<clock, imu_calibrated, first_imu_received, first_imu_stamp,
                            rtk_calib_start_stamp>>
         PROVE  /\ Leaves(t) /\ imu'[t].stamp = imu[t].stamp /\ UNCHANGED clock
                /\ \A u \in ImuThreads : u # t => imu'[u] = imu[u]
    <2>1. /\ imu'[t] = Unfinished(t) \/ (imu'[t] = Suppressed(t) /\ ~imu[t].seeded)
          /\ \A u \in ImuThreads : u # t => imu'[u] = imu[u]
      BY <1>3, <1>10
    <2>2. QED
      BY <1>10, <2>1, UnfinishedShape DEF Leaves
  <1>11. CASE \/ KeepWaiting(t) \/ RtkNoPairing(t) \/ RtkFirstPairing(t) \/ RtkAccumulate(t)
              \/ RtkTooFew(t) \/ RtkImplausible(t) \/ StationaryAccumulate(t) \/ RtkBudgetOver(t)
    <2>1. /\ Leaves(t) /\ imu'[t].stamp = imu[t].stamp /\ UNCHANGED clock
          /\ \A u \in ImuThreads : u # t => imu'[u] = imu[u]
      <3>1. \/ imu' = [imu EXCEPT ![t] = Unfinished(t)]
            \/ imu' = [imu EXCEPT ![t] = Suppressed(t)] /\ ~imu[t].seeded
        BY <1>11 DEF KeepWaiting, RtkNoPairing, RtkFirstPairing, RtkAccumulate, RtkTooFew,
                     RtkImplausible, StationaryAccumulate, RtkBudgetOver, BudgetOver
      <3>2. /\ imu[t].pc = "phase"
            /\ UNCHANGED <<clock, imu_calibrated, first_imu_received, first_imu_stamp,
                           rtk_calib_start_stamp>>
        BY <1>11 DEF KeepWaiting, RtkNoPairing, RtkFirstPairing, RtkAccumulate, RtkTooFew,
                     RtkImplausible, StationaryAccumulate, RtkBudgetOver, PairingCounted, RtkStep,
                     InPhase, GoStationary, calibVars, firstVars
      <3>3. QED
        BY <1>10, <3>1, <3>2
    <2>2. CASE KeepWaiting(t)
      <3>1. Waits(t)
        BY <2>1, <2>2 DEF KeepWaiting, Waits, calibVars
      <3>2. QED
        BY <1>2, <2>1, <3>1 DEF OwnStep
    <2>3. CASE RtkBudgetOver(t) \/ RtkTooFew(t) \/ RtkImplausible(t)
      <3>1. GivesUpRtk(t)
        BY <2>1, <2>3 DEF RtkBudgetOver, RtkTooFew, RtkImplausible, PairingCounted, RtkStep,
                          GoStationary, GivesUpRtk
      <3>2. QED
        BY <1>2, <2>1, <3>1 DEF OwnStep
    <2>4. CASE RtkNoPairing(t) \/ RtkFirstPairing(t) \/ RtkAccumulate(t)
      <3>1. /\ InPhase(t, "RTK_CALIBRATING") /\ ~BudgetOver(t)
            /\ UNCHANGED <<init_phase, imu_calib_start_stamp>>
        BY <2>4 DEF RtkNoPairing, RtkFirstPairing, RtkAccumulate, PairingCounted, RtkStep, calibVars
      <3>2. imu[t].seeded \/ imu[t].stamp - rtk_calib_start_stamp <= Window + Fallback
        BY <3>1, Limits, Numbers DEF BudgetOver
      <3>3. KeepsRtk(t)
        BY <2>1, <3>1, <3>2 DEF KeepsRtk
      <3>4. QED
        BY <1>2, <2>1, <3>3 DEF OwnStep
    <2>5. CASE StationaryAccumulate(t)
      <3>1. Accumulates(t)
        BY <2>1, <2>5 DEF StationaryAccumulate, Accumulates
      <3>2. QED
        BY <1>2, <2>1, <3>1 DEF OwnStep
    <2>6. QED
      BY <1>11, <2>2, <2>3, <2>4, <2>5
  <1>12. CASE RtkComplete(t) \/ StationaryDone(t)
    <2>1. /\ imu' = [imu EXCEPT ![t].pc = "propagate"] /\ imu_calibrated'
          /\ imu[t].pc \in {"phase", "keeping", "adopting"}
          /\ UNCHANGED <<clock, first_imu_received, first_imu_stamp>>
      BY <1>12 DEF RtkComplete, StationaryDone, PairingCounted, RtkStep, InPhase, firstVars
    <2>2. imu'[t].pc = "propagate" /\ imu'[t].out = imu[t].out /\ imu'[t].stamp = imu[t].stamp
      BY <1>1, <2>1 DEF ImuRecord
    <2>3. OwnStep(t)
      BY <2>1, <2>2 DEF Calibrates, OwnStep
    <2>4. QED
      BY <1>2, <1>3, <2>1, <2>3
  <1>13. CASE StationaryBias(t)
    <2>1. PICK p \in {"keeping", "adopting"} : imu' = [imu EXCEPT ![t].pc = p]
      BY <1>13 DEF StationaryBias
    <2>2. imu'[t].pc = p /\ imu'[t].out = imu[t].out /\ imu'[t].stamp = imu[t].stamp
      BY <1>1, <2>1 DEF ImuRecord
    <2>3. Averages(t) /\ UNCHANGED clock
      BY <1>13, <2>2 DEF StationaryBias, Averages, firstVars
    <2>4. QED
      BY <1>2, <1>3, <2>1, <2>2, <2>3 DEF OwnStep
  <1>14. CASE Propagate(t)
    <2> DEFINE o == IF CanPropagate THEN "published" ELSE "suppressed"
    <2>1. imu' = [imu EXCEPT ![t] = [@ EXCEPT !.pc = "idle", !.out = o]]
      BY <1>14 DEF Propagate
    <2>2. o = "suppressed" => ~CanPropagate
      OBVIOUS
    <2> HIDE DEF o
    <2>3. imu'[t].pc = "idle" /\ imu'[t].stamp = imu[t].stamp /\ imu'[t].out = o
      BY <1>1, <2>1 DEF ImuRecord
    <2>4. OwnStep(t)
      BY <1>14, <2>2, <2>3 DEF Propagate, Ends, OwnStep, calibVars, firstVars
    <2>5. QED
      BY <1>2, <1>3, <2>1, <2>4
  <1>15. QED
    BY <1>4, <1>5, <1>6, <1>7, <1>8, <1>9, <1>11, <1>12, <1>13, <1>14 DEF ImuStep, RtkPhase
\* The callbacks beside callbackImu leave the phase machine alone.
LEMMA OtherShape ==
  ASSUME TypeInv, [Next]_vars, ~\E t \in ImuThreads : ImuStep(t)
  PROVE  /\ UNCHANGED <<init_phase, imu_calibrated, imu_calib_start_stamp, rtk_calib_start_stamp,
                        first_imu_received, first_imu_stamp, clock, imu>>
         /\ CanPropagate => CanPropagate'
  <1>1. SeedStep \/ UNCHANGED vars
    BY DEF Next
  <1>2. UNCHANGED <<init_phase, imu_calibrated, imu_calib_start_stamp, rtk_calib_start_stamp,
                    first_imu_received, first_imu_stamp, clock, imu>>
    BY <1>1 DEF SeedStep, ParamPose, ManualPose, ReceiveGt, OdomInit, BufferGt, FirstScan, SeedFrom,
                calibVars, firstVars, vars
  <1>3. QED
    BY <1>2, SeedStays

-----------------------------------------------------------------------------
(* The first sample, and the callbacks in progress *)

LEMMA StartedStep ==
  ASSUME TypeInv, Started, [Next]_vars
  PROVE  Started'
  <1>1. CASE ~\E t \in ImuThreads : ImuStep(t)
    BY <1>1, OtherShape DEF Started, Busy
  <1>2. ASSUME NEW t \in ImuThreads, ImuStep(t)
        PROVE  Started'
    <2>1. /\ \A u \in ImuThreads : u # t => imu'[u] = imu[u]
          /\ Receives(t) \/ OwnStep(t)
      BY <1>2, StepShape
    <2>2. /\ clock \in Int /\ first_imu_stamp \in Int
          /\ \A u \in ImuThreads : imu[u].stamp \in Nat
          /\ FirstStamp \in Nat /\ Stall \in Nat
      BY Numbers, Limits
    <2>3. CASE Receives(t)
      <3>1. /\ imu[t].pc = "idle" /\ imu'[t].pc = "first" /\ imu'[t].stamp = clock'
            /\ clock' > clock /\ (clock < FirstStamp => clock' = clock + 1)
            /\ \A u \in ImuThreads : Busy(u) => clock' - imu[u].stamp <= Stall
            /\ UNCHANGED <<init_phase, imu_calibrated, imu_calib_start_stamp,
                           first_imu_received, first_imu_stamp>>
        BY <2>3 DEF Receives
      <3>2. clock' \in Int /\ clock >= FirstStamp - 1
        <4>1. TypeInv'
          BY <1>2, ImuKeepsTypes
        <4>2. QED
          BY <4>1 DEF TypeInv, Clock, TypeOK
      <3>3. \A u \in ImuThreads : Busy(u)' => (clock - imu[u].stamp <= Stall /\ imu[u].stamp <= clock)'
        BY <2>1, <2>2, <3>1, <3>2 DEF Started, Busy
      <3>4. \A u \in ImuThreads : imu'[u].pc = "stamping" => imu'[u].stamp <= FirstStamp + Stall
        BY <2>1, <3>1 DEF Started
      <3>5. ~first_imu_received' => \A u \in ImuThreads : imu'[u].pc \in {"idle", "first"}
        BY <2>1, <3>1 DEF Started
      <3>6. ~first_imu_received' /\ clock' >= FirstStamp =>
               \E u \in ImuThreads : imu'[u].pc = "first" /\ imu'[u].stamp = FirstStamp
        <4>1. CASE clock < FirstStamp
          <5>1. clock' = FirstStamp
            BY <2>2, <3>1, <3>2, <4>1
          <5>2. QED
            BY <3>1, <5>1
        <4>2. CASE clock >= FirstStamp /\ ~first_imu_received
          <5>1. PICK u \in ImuThreads : imu[u].pc = "first" /\ imu[u].stamp = FirstStamp
            BY <4>2 DEF Started
          <5>2. u # t
            BY <3>1, <5>1
          <5>3. QED
            BY <2>1, <5>1, <5>2
        <4>3. QED
          BY <2>2, <3>1, <4>1, <4>2
      <3>7. QED
        BY <3>1, <3>3, <3>4, <3>5, <3>6 DEF Started
    <2>4. CASE OwnStep(t)
      <3>1. clock' = clock /\ imu'[t].stamp = imu[t].stamp
        BY <2>4 DEF OwnStep
      <3>2. Busy(t)
        BY <2>4 DEF OwnStep, Marks, Stamps, Loads, StartsRtk, Expires, Waits, GivesUpRtk, KeepsRtk,
                    Accumulates, Averages, Calibrates, Ends, Leaves, InPhase, Busy
      <3>3. \A u \in ImuThreads : Busy(u)' => (clock - imu[u].stamp <= Stall /\ imu[u].stamp <= clock)'
        BY <2>1, <3>1, <3>2 DEF Started, Busy
      <3>4. CASE Marks(t)
        <4>1. ~first_imu_received => imu[t].stamp <= FirstStamp + Stall
          <5>1. SUFFICES ASSUME ~first_imu_received PROVE imu[t].stamp <= FirstStamp + Stall
            OBVIOUS
          <5>2. CASE clock < FirstStamp
            BY <2>2, <3>2, <5>2 DEF Started
          <5>3. CASE clock >= FirstStamp
            <6>1. PICK u \in ImuThreads : imu[u].pc = "first" /\ imu[u].stamp = FirstStamp
              BY <5>1, <5>3 DEF Started
            <6>2. clock - FirstStamp <= Stall
              BY <6>1 DEF Started, Busy
            <6>3. imu[t].stamp <= clock
              BY <3>2 DEF Started
            <6>4. QED
              BY <2>2, <6>2, <6>3
          <5>4. QED
            BY <2>2, <5>2, <5>3
        <4>2. /\ imu'[t].pc = "stamping" => ~first_imu_received
              /\ first_imu_received'
              /\ UNCHANGED <<init_phase, imu_calibrated, first_imu_stamp>>
          BY <3>4 DEF Marks
        <4>3. \A u \in ImuThreads : imu'[u].pc = "stamping" => imu'[u].stamp <= FirstStamp + Stall
          BY <2>1, <3>1, <4>1, <4>2 DEF Started
        <4>4. QED
          BY <3>3, <4>2, <4>3 DEF Started
      <3>5. CASE ~Marks(t)
        <4>1. /\ imu[t].pc \notin {"idle", "first"} /\ imu'[t].pc # "stamping"
              /\ first_imu_received' = first_imu_received
              /\ first_imu_stamp' = first_imu_stamp \/
                 (imu[t].pc = "stamping" /\ first_imu_stamp' = imu[t].stamp)
              /\ init_phase' = "DONE" => init_phase = "DONE" \/ imu_calibrated'
              /\ imu_calibrated => imu_calibrated'
          <5>1. CASE Stamps(t)
            BY <5>1 DEF Stamps
          <5>2. CASE Loads(t)
            BY <5>2 DEF Loads
          <5>3. CASE StartsRtk(t) \/ Expires(t)
            BY <5>3 DEF StartsRtk, Expires, InPhase
          <5>4. CASE Waits(t) \/ GivesUpRtk(t) \/ KeepsRtk(t) \/ Accumulates(t)
            BY <5>4 DEF Waits, GivesUpRtk, KeepsRtk, Accumulates, Leaves
          <5>5. CASE Averages(t)
            BY <5>5 DEF Averages, InPhase
          <5>6. CASE Calibrates(t) \/ Ends(t)
            BY <5>6 DEF Calibrates, Ends
          <5>7. QED
            BY <2>4, <3>5, <5>1, <5>2, <5>3, <5>4, <5>5, <5>6 DEF OwnStep
        <4>2. first_imu_received /\ first_imu_received'
          BY <4>1 DEF Started
        <4>3. \A u \in ImuThreads : imu'[u].pc = "stamping" => imu'[u].stamp <= FirstStamp + Stall
          BY <2>1, <4>1 DEF Started
        <4>4. first_imu_stamp' <= FirstStamp + Stall
          BY <4>1 DEF Started
        <4>5. init_phase' = "DONE" => imu_calibrated'
          BY <4>1 DEF Started
        <4>6. QED
          BY <3>3, <4>2, <4>3, <4>4, <4>5 DEF Started
      <3>6. QED
        BY <3>4, <3>5
    <2>5. QED
      BY <2>1, <2>3, <2>4
  <1>3. QED
    BY <1>1, <1>2

LEMMA StartedInvariant == Spec => []Started
  <1>1. Init => Started
    <2> SUFFICES ASSUME Init PROVE Started
      OBVIOUS
    <2>1. FirstStamp \in Nat /\ Stall \in Nat
      BY Limits
    <2>2. \A u \in ImuThreads : imu[u].pc = "idle"
      BY DEF Init
    <2>3. /\ first_imu_stamp = -1 /\ clock = FirstStamp - 1 /\ imu_calib_start_stamp = Unset
          /\ init_phase = "WAITING"
      BY DEF Init, Unset
    <2>4. QED
      BY <2>1, <2>2, <2>3 DEF Started, Busy
  <1>2. TypeInv /\ Started /\ [Next]_vars => Started'
    BY StartedStep
  <1>3. QED
    BY <1>1, <1>2, TypeInvariant, PTL DEF Spec
-----------------------------------------------------------------------------
(* A dark node moves on *)

DarkNow ==
  TypeInv /\ OutputInv /\ Started /\ IsDark /\ DarkWaiting /\ DarkRtk /\ DarkStart /\ DarkCalib

\* How late it can be in each phase, and with a copy of one.
LEMMA DarkClock ==
  ASSUME DarkNow
  PROVE  /\ \A u \in ImuThreads : Busy(u) => clock <= imu[u].stamp + Stall /\ imu[u].stamp <= clock
         /\ \A u \in ImuThreads : ~imu[u].seeded
         /\ ~imu_calibrated /\ ~CanPropagate
         /\ ~first_imu_received => clock <= FirstStamp + Stall
         /\ init_phase = "WAITING" => clock <= WaitBy
         /\ \A u \in ImuThreads : InPhase(u, "WAITING") => clock <= WaitBy + Stall
         /\ init_phase = "RTK_CALIBRATING" => clock <= RtkBy
         /\ init_phase = "STATIONARY_CALIBRATING" /\ imu_calib_start_stamp = Unset =>
              clock <= FirstStamp + 2 * Stall
         /\ clock <= CalibBy
         /\ init_phase \in {"WAITING", "RTK_CALIBRATING", "STATIONARY_CALIBRATING"}
  <1> USE DEF DarkNow
  <1>1. /\ clock \in Int /\ \A u \in ImuThreads : imu[u].stamp \in Nat
        /\ {MaxGap, Stall, FirstStamp, WaitOver, WaitBy, RtkOver, RtkBy, CalibOver, CalibBy} \subseteq Nat
    BY Numbers, Limits
  <1>2. \A u \in ImuThreads : Busy(u) => clock <= imu[u].stamp + Stall /\ imu[u].stamp <= clock
    BY <1>1 DEF Started
  <1>3. (\A u \in ImuThreads : ~imu[u].seeded) /\ ~imu_calibrated /\ ~CanPropagate
    BY DEF OutputInv, IsDark
  <1>4. ~first_imu_received => clock <= FirstStamp + Stall
    <2>1. SUFFICES ASSUME ~first_imu_received, clock >= FirstStamp PROVE clock <= FirstStamp + Stall
      BY <1>1
    <2>2. PICK u \in ImuThreads : imu[u].pc = "first" /\ imu[u].stamp = FirstStamp
      BY <2>1 DEF Started
    <2>3. QED
      BY <1>1, <1>2, <2>2 DEF Busy
  <1>5. ASSUME NEW u \in ImuThreads, NEW p, NEW T \in Nat, Awaits(u, p, T) \/ Finishing(u, T)
        PROVE  clock <= T + MaxGap + Stall
    <2>1. Busy(u) /\ imu[u].stamp <= T + MaxGap
      BY <1>5 DEF Awaits, Finishing, InPhase, Busy
    <2>2. QED
      BY <1>1, <1>2, <2>1
  <1>6. init_phase = "WAITING" => clock <= WaitBy
    <2>1. SUFFICES ASSUME init_phase = "WAITING", clock > WaitOver PROVE clock <= WaitBy
      BY <1>1, Limits
    <2>2. PICK u \in ImuThreads : Awaits(u, "WAITING", WaitOver)
      BY <2>1 DEF DarkWaiting
    <2>3. QED
      BY <1>1, <1>5, <2>2, Limits
  <1>7. \A u \in ImuThreads : InPhase(u, "WAITING") => clock <= WaitBy + Stall
    BY <1>1, <1>2 DEF DarkWaiting, InPhase, Busy
  <1>8. init_phase = "RTK_CALIBRATING" => clock <= RtkBy
    <2>1. SUFFICES ASSUME init_phase = "RTK_CALIBRATING", clock > RtkOver PROVE clock <= RtkBy
      BY <1>1, Limits
    <2>2. PICK u \in ImuThreads : Awaits(u, "RTK_CALIBRATING", RtkOver)
      BY <2>1 DEF DarkRtk
    <2>3. QED
      BY <1>1, <1>5, <2>2, Limits
  <1>9. init_phase = "STATIONARY_CALIBRATING" /\ imu_calib_start_stamp = Unset =>
          clock <= FirstStamp + 2 * Stall
    <2>1. SUFFICES ASSUME init_phase = "STATIONARY_CALIBRATING", imu_calib_start_stamp = Unset
                   PROVE  clock <= FirstStamp + 2 * Stall
      OBVIOUS
    <2>2. PICK u \in ImuThreads : Stamper(u)
      BY <2>1 DEF DarkStart
    <2>3. Busy(u) /\ imu[u].stamp <= FirstStamp + Stall
      BY <2>2 DEF Stamper, InPhase, Busy
    <2>4. QED
      BY <1>1, <1>2, <2>3
  <1>10. clock <= CalibBy
    <2>1. SUFFICES ASSUME clock > CalibOver PROVE clock <= CalibBy
      BY <1>1, Limits
    <2>2. PICK u \in ImuThreads : \/ Awaits(u, "STATIONARY_CALIBRATING", CalibOver)
                                  \/ Finishing(u, CalibOver)
      BY <2>1 DEF DarkCalib
    <2>3. QED
      BY <1>1, <1>5, <2>2, Limits
  <1>11. init_phase \in {"WAITING", "RTK_CALIBRATING", "STATIONARY_CALIBRATING"}
    BY <1>3, Numbers DEF Phases, Started
  <1>12. QED
    BY <1>2, <1>3, <1>4, <1>6, <1>7, <1>8, <1>9, <1>10, <1>11

\* A new sample that passes a limit is itself the callback that will act.
LEMMA NextWitness ==
  ASSUME DarkNow, NEW t \in ImuThreads, ImuStep(t), Receives(t), NEW p, NEW T \in Nat
  PROVE  /\ \A u \in ImuThreads : Awaits(u, p, T) => Awaits(u, p, T)'
         /\ \A u \in ImuThreads : Finishing(u, T) => Finishing(u, T)'
         /\ clock <= T /\ clock' > T => Awaits(t, p, T)'
  <1>1. /\ \A u \in ImuThreads : u # t => imu'[u] = imu[u]
        /\ imu[t].pc = "idle" /\ imu'[t].pc = "first" /\ imu'[t].stamp = clock'
        /\ clock' <= clock + MaxGap
    BY StepShape DEF Receives, DarkNow
  <1>2. ~Awaits(t, p, T) /\ ~Finishing(t, T)
    BY <1>1 DEF Awaits, Finishing, InPhase
  <1>3. clock \in Int /\ clock' \in Int /\ MaxGap \in Nat
    BY Numbers, Limits, ImuKeepsTypes DEF DarkNow, TypeInv, TypeOK
  <1>4. clock <= T /\ clock' > T => Awaits(t, p, T)'
    BY <1>1, <1>3 DEF Awaits
  <1>5. \A u \in ImuThreads : Awaits(u, p, T) => Awaits(u, p, T)'
    BY <1>1, <1>2 DEF Awaits, InPhase
  <1>6. \A u \in ImuThreads : Finishing(u, T) => Finishing(u, T)'
    BY <1>1, <1>2 DEF Finishing
  <1>7. QED
    BY <1>4, <1>5, <1>6

\* A callback that looks at the phase while it is p acts on p.
LEMMA WitnessLooks ==
  ASSUME DarkNow, NEW t \in ImuThreads, OwnStep(t), NEW T \in Nat, T >= FirstStamp + Stall,
         NEW p, init_phase = p, clock > T, Awaits(t, p, T), Marks(t) \/ Loads(t)
  PROVE  Awaits(t, p, T)'
  <1>1. imu'[t].stamp = imu[t].stamp
    BY DEF OwnStep
  <1>2. CASE Marks(t)
    <2>1. first_imu_received
      <3>1. clock \in Int /\ FirstStamp \in Nat /\ Stall \in Nat
        BY Numbers, Limits DEF DarkNow
      <3>2. QED
        BY <3>1, DarkClock
    <2>2. imu'[t].pc = "gate"
      BY <1>2, <2>1 DEF Marks
    <2>3. QED
      BY <1>1, <2>2 DEF Awaits
  <1>3. CASE Loads(t)
    <2>1. ~imu_calibrated /\ init_phase # "DONE"
      BY DarkClock
    <2>2. imu'[t].pc = "phase" /\ imu'[t].phase = p
      BY <1>3, <2>1 DEF Loads
    <2>3. QED
      BY <1>1, <2>2 DEF Awaits, InPhase
  <1>4. QED
    BY <1>2, <1>3

\* Only three steps leave a callback with a copy of the phase.
LEMMA CopyMade ==
  ASSUME DarkNow, NEW t \in ImuThreads, ImuStep(t), NEW p, InPhase(t, p)'
  PROVE  /\ imu'[t].stamp = imu[t].stamp /\ imu[t].stamp <= clock
         /\ \/ Loads(t) /\ init_phase = p
            \/ StartsRtk(t) /\ p = "RTK_CALIBRATING"
            \/ Expires(t) /\ p = "STATIONARY_CALIBRATING"
  <1>1. Receives(t) \/ OwnStep(t)
    BY StepShape DEF DarkNow
  <1>2. imu'[t].pc = "phase" /\ imu'[t].phase = p
    BY DEF InPhase
  <1>3. ~Receives(t)
    BY <1>2 DEF Receives
  <1>4. Loads(t) \/ StartsRtk(t) \/ Expires(t)
    BY <1>1, <1>2, <1>3 DEF OwnStep, Marks, Stamps, Waits, GivesUpRtk, KeepsRtk, Accumulates, Averages,
                            Calibrates, Ends, Leaves
  <1>5. Busy(t)
    BY <1>4 DEF Loads, StartsRtk, Expires, InPhase, Busy
  <1>6. imu'[t].stamp = imu[t].stamp /\ imu[t].stamp <= clock
    BY <1>1, <1>3, <1>5, DarkClock DEF OwnStep
  <1>7. QED
    BY <1>2, <1>4, <1>6 DEF Loads, StartsRtk, Expires

LEMMA WaitingStep ==
  ASSUME DarkNow, NEW t \in ImuThreads, ImuStep(t), ~imu_calibrated'
  PROVE  DarkWaiting'
  <1>1. /\ \A u \in ImuThreads : u # t => imu'[u] = imu[u]
        /\ Receives(t) \/ OwnStep(t)
    BY StepShape DEF DarkNow
  <1>2. /\ clock \in Int /\ clock' \in Int /\ first_imu_stamp \in Int
        /\ \A u \in ImuThreads : imu[u].stamp \in Nat
    BY Numbers, ImuKeepsTypes DEF DarkNow, TypeInv, TypeOK
  <1>3. init_phase' = "WAITING" => init_phase = "WAITING"
    BY <1>1 DEF Receives, OwnStep, Marks, Stamps, Loads, StartsRtk, Expires, Waits, GivesUpRtk,
                KeepsRtk, Accumulates, Averages, Calibrates, Ends, InPhase
  <1>4. init_phase' = "WAITING" /\ clock' > WaitOver =>
          \E u \in ImuThreads : Awaits(u, "WAITING", WaitOver)'
    <2>1. SUFFICES ASSUME init_phase' = "WAITING", clock' > WaitOver
                   PROVE  \E u \in ImuThreads : Awaits(u, "WAITING", WaitOver)'
      OBVIOUS
    <2>2. clock > WaitOver => \E u \in ImuThreads : Awaits(u, "WAITING", WaitOver)
      BY <1>3, <2>1 DEF DarkNow, DarkWaiting
    <2>3. CASE Receives(t)
      <3>1. clock <= WaitOver \/ clock > WaitOver
        BY <1>2, Limits
      <3>2. QED
        BY <2>1, <2>2, <2>3, <3>1, NextWitness, Limits
    <2>4. CASE OwnStep(t)
      <3>1. clock' = clock
        BY <2>4 DEF OwnStep
      <3>2. PICK u \in ImuThreads : Awaits(u, "WAITING", WaitOver)
        BY <2>1, <2>2, <3>1
      <3>3. CASE u # t
        BY <1>1, <3>2, <3>3 DEF Awaits, InPhase
      <3>4. CASE u = t
        <4>1. imu[t].stamp > WaitOver
          BY <1>2, <3>2, <3>4, Limits DEF Awaits
        <4>2. ~Waits(t)
          <5>1. first_imu_stamp <= FirstStamp + Stall
            BY DEF DarkNow, Started
          <5>2. imu[t].stamp - first_imu_stamp > Fallback
            BY <1>2, <4>1, <5>1, Limits
          <5>3. QED
            BY <1>2, <5>2, Limits DEF Waits
        <4>3. Marks(t) \/ Loads(t)
          <5>1. imu[t].pc \in {"first", "gate"} \/ InPhase(t, "WAITING")
            BY <3>2, <3>4 DEF Awaits
          <5>2. QED
            BY <2>1, <2>4, <4>2, <5>1 DEF OwnStep, Stamps, StartsRtk, Expires, GivesUpRtk, KeepsRtk,
                     Accumulates, Averages, Calibrates, Ends, InPhase, Leaves
        <4>4. WaitOver >= FirstStamp + Stall
          BY Limits
        <4>5. QED
          BY <1>3, <2>1, <2>4, <3>1, <3>2, <3>4, <4>3, <4>4, WitnessLooks, Limits
      <3>5. QED
        BY <3>3, <3>4
    <2>5. QED
      BY <1>1, <2>3, <2>4
  <1>5. \A u \in ImuThreads : InPhase(u, "WAITING")' => imu'[u].stamp <= WaitBy
    <2>1. SUFFICES ASSUME NEW u \in ImuThreads, InPhase(u, "WAITING")' PROVE imu'[u].stamp <= WaitBy
      OBVIOUS
    <2>2. CASE u # t
      BY <1>1, <2>1, <2>2 DEF DarkNow, DarkWaiting, InPhase
    <2>3. CASE u = t
      <3>1. init_phase = "WAITING" /\ imu'[t].stamp = imu[t].stamp /\ imu[t].stamp <= clock
        BY <2>1, <2>3, CopyMade
      <3>2. QED
        BY <1>2, <2>3, <3>1, DarkClock, Limits
    <2>4. QED
      BY <2>2, <2>3
  <1>6. QED
    BY <1>4, <1>5 DEF DarkWaiting

LEMMA RtkStepDark ==
  ASSUME DarkNow, NEW t \in ImuThreads, ImuStep(t), ~imu_calibrated'
  PROVE  DarkRtk'
  <1>1. /\ \A u \in ImuThreads : u # t => imu'[u] = imu[u]
        /\ Receives(t) \/ OwnStep(t)
    BY StepShape DEF DarkNow
  <1>2. /\ clock \in Int /\ clock' \in Int /\ rtk_calib_start_stamp \in Int
        /\ \A u \in ImuThreads : imu[u].stamp \in Nat
    BY Numbers, ImuKeepsTypes DEF DarkNow, TypeInv, TypeOK
  <1>3. /\ rtk_calib_start_stamp <= WaitBy
        /\ \A u \in ImuThreads : InPhase(u, "WAITING") => imu[u].stamp <= WaitBy
    BY DEF DarkNow, DarkRtk, DarkWaiting
  <1>4. rtk_calib_start_stamp' <= WaitBy
    <2>1. ~Calibrates(t)
      BY DEF Calibrates
    <2>2. \/ rtk_calib_start_stamp' = rtk_calib_start_stamp
          \/ InPhase(t, "WAITING") /\ rtk_calib_start_stamp' = imu[t].stamp
      BY <1>1, <2>1 DEF Receives, OwnStep, Marks, Stamps, Loads, StartsRtk, Expires, Waits, GivesUpRtk,
                KeepsRtk, Accumulates, Averages, Ends, Leaves
    <2>3. QED
      BY <1>3, <2>2
  <1>5. init_phase' = "RTK_CALIBRATING" => init_phase = "RTK_CALIBRATING" \/ StartsRtk(t)
    <2>1. ~Calibrates(t)
      BY DEF Calibrates
    <2>2. QED
      BY <1>1, <2>1 DEF Receives, OwnStep, Marks, Stamps, Loads, Expires, Waits, GivesUpRtk,
                KeepsRtk, Accumulates, Averages, Ends
  <1>6. init_phase' = "RTK_CALIBRATING" /\ clock' > RtkOver =>
          \E u \in ImuThreads : Awaits(u, "RTK_CALIBRATING", RtkOver)'
    <2>1. SUFFICES ASSUME init_phase' = "RTK_CALIBRATING", clock' > RtkOver
                   PROVE  \E u \in ImuThreads : Awaits(u, "RTK_CALIBRATING", RtkOver)'
      OBVIOUS
    <2>2. init_phase = "RTK_CALIBRATING" /\ clock > RtkOver =>
            \E u \in ImuThreads : Awaits(u, "RTK_CALIBRATING", RtkOver)
      BY DEF DarkNow, DarkRtk
    <2>3. CASE Receives(t)
      <3>1. clock <= RtkOver \/ clock > RtkOver
        BY <1>2, Limits
      <3>2. init_phase = "RTK_CALIBRATING"
        BY <2>1, <2>3 DEF Receives
      <3>3. QED
        BY <2>1, <2>2, <2>3, <3>1, <3>2, NextWitness, Limits
    <2>4. CASE OwnStep(t)
      <3>1. clock' = clock
        BY <2>4 DEF OwnStep
      <3>2. ~StartsRtk(t)
        <4>1. InPhase(t, "WAITING") => clock <= WaitBy + Stall
          BY DarkClock
        <4>2. clock > WaitBy + Stall
          BY <1>2, <2>1, <3>1, Limits
        <4>3. QED
          BY <1>2, <4>1, <4>2, Limits DEF StartsRtk
      <3>3. init_phase = "RTK_CALIBRATING"
        BY <1>5, <2>1, <3>2
      <3>4. PICK u \in ImuThreads : Awaits(u, "RTK_CALIBRATING", RtkOver)
        BY <2>1, <2>2, <3>1, <3>3
      <3>5. CASE u # t
        BY <1>1, <3>4, <3>5 DEF Awaits, InPhase
      <3>6. CASE u = t
        <4>1. imu[t].stamp > RtkOver
          BY <1>2, <3>4, <3>6, Limits DEF Awaits
        <4>2. ~KeepsRtk(t)
          <5>1. imu[t].stamp - rtk_calib_start_stamp > Window + Fallback
            BY <1>2, <1>3, <4>1, Limits
          <5>2. ~imu[t].seeded
            BY DarkClock
          <5>3. QED
            BY <1>2, <5>1, <5>2, Limits DEF KeepsRtk
        <4>3. Marks(t) \/ Loads(t)
          <5>1. imu[t].pc \in {"first", "gate"} \/ InPhase(t, "RTK_CALIBRATING")
            BY <3>4, <3>6 DEF Awaits
          <5>2. ~Calibrates(t)
            BY DEF Calibrates
          <5>3. QED
            BY <2>1, <2>4, <4>2, <5>1, <5>2 DEF OwnStep, Stamps, StartsRtk, Expires, Waits, GivesUpRtk,
                     Accumulates, Averages, Ends, InPhase, Leaves
        <4>4. RtkOver >= FirstStamp + Stall
          BY Limits
        <4>5. QED
          BY <2>1, <2>4, <3>1, <3>3, <3>4, <3>6, <4>3, <4>4, WitnessLooks, Limits
      <3>7. QED
        BY <3>5, <3>6
    <2>5. QED
      BY <1>1, <2>3, <2>4
  <1>7. \A u \in ImuThreads : InPhase(u, "RTK_CALIBRATING")' => imu'[u].stamp <= RtkBy
    <2>1. SUFFICES ASSUME NEW u \in ImuThreads, InPhase(u, "RTK_CALIBRATING")'
                   PROVE  imu'[u].stamp <= RtkBy
      OBVIOUS
    <2>2. CASE u # t
      BY <1>1, <2>1, <2>2 DEF DarkNow, DarkRtk, InPhase
    <2>3. CASE u = t
      <3>1. /\ imu'[t].stamp = imu[t].stamp /\ imu[t].stamp <= clock
            /\ init_phase = "RTK_CALIBRATING" \/ StartsRtk(t)
        BY <2>1, <2>3, CopyMade
      <3>2. init_phase = "RTK_CALIBRATING" => clock <= RtkBy
        BY DarkClock
      <3>3. StartsRtk(t) => imu[t].stamp <= WaitBy
        BY <1>3 DEF StartsRtk
      <3>4. QED
        BY <1>2, <2>3, <3>1, <3>2, <3>3, Limits
    <2>4. QED
      BY <2>2, <2>3
  <1>8. QED
    BY <1>4, <1>6, <1>7 DEF DarkRtk

LEMMA StartStep ==
  ASSUME DarkNow, NEW t \in ImuThreads, ImuStep(t), ~imu_calibrated'
  PROVE  DarkStart'
  <1>1. /\ \A u \in ImuThreads : u # t => imu'[u] = imu[u]
        /\ Receives(t) \/ OwnStep(t)
        /\ ~Calibrates(t)
    BY StepShape DEF DarkNow, Calibrates
  <1>2. /\ clock \in Int /\ imu_calib_start_stamp \in Int
        /\ \A u \in ImuThreads : imu[u].stamp \in Nat
    BY Numbers DEF DarkNow
  <1>3. /\ imu_calib_start_stamp <= RtkBy
        /\ \A u \in ImuThreads : InPhase(u, "WAITING") => imu[u].stamp <= WaitBy
        /\ \A u \in ImuThreads : InPhase(u, "RTK_CALIBRATING") => imu[u].stamp <= RtkBy
        /\ imu_calib_start_stamp = Unset =>
             \A u \in ImuThreads : InPhase(u, "STATIONARY_CALIBRATING") =>
                                     imu[u].stamp <= FirstStamp + 2 * Stall
    BY DEF DarkNow, DarkStart, DarkRtk, DarkWaiting
  <1>4. \/ /\ imu_calib_start_stamp' = imu_calib_start_stamp
           /\ ~Expires(t) /\ ~GivesUpRtk(t)
           /\ InPhase(t, "STATIONARY_CALIBRATING") => imu_calib_start_stamp # Unset
        \/ /\ imu_calib_start_stamp' = imu[t].stamp
           /\ imu[t].stamp <= RtkBy
    <2>1. CASE Receives(t)
      BY <2>1 DEF Receives, Expires, GivesUpRtk, InPhase
    <2>2. CASE Marks(t) \/ Stamps(t) \/ Loads(t) \/ Ends(t)
      BY <2>2 DEF Marks, Stamps, Loads, Ends, Expires, GivesUpRtk, InPhase
    <2>3. CASE StartsRtk(t) \/ Waits(t) \/ KeepsRtk(t)
      <3>1. /\ imu_calib_start_stamp' = imu_calib_start_stamp
            /\ ~InPhase(t, "STATIONARY_CALIBRATING")
        BY <2>3 DEF StartsRtk, Waits, KeepsRtk, InPhase
      <3>2. ~Expires(t)
        BY <2>3 DEF StartsRtk, Waits, KeepsRtk, Leaves, Expires, InPhase
      <3>3. GivesUpRtk(t) => imu_calib_start_stamp' = imu[t].stamp /\ imu[t].stamp <= RtkBy
        BY <1>3 DEF GivesUpRtk
      <3>4. QED
        BY <3>1, <3>2, <3>3
    <2>4. CASE Expires(t) \/ GivesUpRtk(t)
      BY <1>2, <1>3, <2>4, Limits DEF Expires, GivesUpRtk
    <2>5. CASE Accumulates(t) \/ Averages(t)
      <3>1. InPhase(t, "STATIONARY_CALIBRATING") /\ imu_calib_start_stamp' = StationaryStart(t)
        BY <2>5 DEF Accumulates, Averages
      <3>2. ~Expires(t) /\ ~GivesUpRtk(t)
        BY <3>1 DEF InPhase, Expires, GivesUpRtk
      <3>3. CASE imu_calib_start_stamp = Unset
        BY <1>2, <1>3, <3>1, <3>3, Limits DEF StationaryStart
      <3>4. CASE imu_calib_start_stamp # Unset
        BY <3>1, <3>2, <3>4 DEF StationaryStart
      <3>5. QED
        BY <3>3, <3>4
    <2>6. QED
      BY <1>1, <2>1, <2>2, <2>3, <2>4, <2>5 DEF OwnStep
  <1>5. imu_calib_start_stamp' <= RtkBy
    BY <1>3, <1>4
  <1>6. imu_calib_start_stamp' = Unset =>
          /\ imu_calib_start_stamp = Unset /\ ~Expires(t) /\ ~GivesUpRtk(t)
          /\ ~InPhase(t, "STATIONARY_CALIBRATING")
    BY <1>2, <1>4 DEF Unset
  <1>7. init_phase' = "STATIONARY_CALIBRATING" /\ imu_calib_start_stamp' = Unset =>
          \E u \in ImuThreads : Stamper(u)'
    <2>1. SUFFICES ASSUME init_phase' = "STATIONARY_CALIBRATING", imu_calib_start_stamp' = Unset
                   PROVE  \E u \in ImuThreads : Stamper(u)'
      OBVIOUS
    <2>2. CASE init_phase = "STATIONARY_CALIBRATING"
      <3>1. PICK u \in ImuThreads : Stamper(u)
        BY <1>6, <2>1, <2>2 DEF DarkNow, DarkStart
      <3>2. CASE u # t
        BY <1>1, <3>1, <3>2 DEF Stamper, InPhase
      <3>3. CASE u = t
        <4>1. imu[t].pc = "gate"
          BY <1>6, <2>1, <3>1, <3>3 DEF Stamper
        <4>2. OwnStep(t) /\ Loads(t)
          BY <1>1, <4>1 DEF Receives, OwnStep, Marks, Stamps, StartsRtk, Expires, Waits, GivesUpRtk,
                KeepsRtk, Accumulates, Averages, Ends, InPhase
        <4>3. ~imu_calibrated
          BY DarkClock
        <4>4. imu'[t].pc = "phase" /\ imu'[t].phase = "STATIONARY_CALIBRATING"
              /\ imu'[t].stamp = imu[t].stamp
          BY <2>2, <4>2, <4>3 DEF Loads, OwnStep
        <4>5. QED
          BY <3>1, <3>3, <4>4 DEF Stamper, InPhase
      <3>4. QED
        BY <3>2, <3>3
    <2>3. CASE init_phase # "STATIONARY_CALIBRATING"
      <3>1. OwnStep(t) /\ Stamps(t)
        BY <1>1, <1>6, <2>1, <2>3 DEF Receives, OwnStep, Marks, Loads, StartsRtk, Waits,
                KeepsRtk, Accumulates, Averages, Ends
      <3>2. imu[t].pc = "stamping" /\ imu'[t].pc = "gate" /\ imu'[t].stamp = imu[t].stamp
        BY <3>1 DEF Stamps, OwnStep
      <3>3. imu[t].stamp <= FirstStamp + Stall
        BY <3>2 DEF DarkNow, Started
      <3>4. QED
        BY <3>2, <3>3 DEF Stamper
    <2>4. QED
      BY <2>2, <2>3
  <1>8. imu_calib_start_stamp' = Unset =>
          \A u \in ImuThreads : InPhase(u, "STATIONARY_CALIBRATING")' =>
                                  imu'[u].stamp <= FirstStamp + 2 * Stall
    <2>1. SUFFICES ASSUME imu_calib_start_stamp' = Unset, NEW u \in ImuThreads,
                          InPhase(u, "STATIONARY_CALIBRATING")'
                   PROVE  imu'[u].stamp <= FirstStamp + 2 * Stall
      OBVIOUS
    <2>2. CASE u # t
      BY <1>1, <1>3, <1>6, <2>1, <2>2 DEF InPhase
    <2>3. CASE u = t
      <3>1. /\ imu'[t].stamp = imu[t].stamp /\ imu[t].stamp <= clock
            /\ init_phase = "STATIONARY_CALIBRATING"
        BY <1>6, <2>1, <2>3, CopyMade
      <3>2. QED
        BY <1>2, <1>6, <2>1, <2>3, <3>1, DarkClock, Limits
    <2>4. QED
      BY <2>2, <2>3
  <1>9. QED
    BY <1>5, <1>7, <1>8 DEF DarkStart

LEMMA CalibStep ==
  ASSUME DarkNow, NEW t \in ImuThreads, ImuStep(t), ~imu_calibrated'
  PROVE  DarkCalib'
  <1>1. /\ \A u \in ImuThreads : u # t => imu'[u] = imu[u]
        /\ Receives(t) \/ OwnStep(t)
        /\ ~Calibrates(t)
    BY StepShape DEF DarkNow, Calibrates
  <1>2. /\ clock \in Int /\ clock' \in Int /\ imu_calib_start_stamp \in Int
        /\ \A u \in ImuThreads : imu[u].stamp \in Nat
    BY Numbers, ImuKeepsTypes DEF DarkNow, TypeInv, TypeOK
  <1> DEFINE Acts(u) == \/ Awaits(u, "STATIONARY_CALIBRATING", CalibOver)
                        \/ Finishing(u, CalibOver)
  <1>3. SUFFICES ASSUME clock' > CalibOver PROVE \E u \in ImuThreads : Acts(u)'
    BY DEF DarkCalib
  <1>4. clock > CalibOver => \E u \in ImuThreads : Acts(u)
    BY DEF DarkNow, DarkCalib
  <1>5. CASE Receives(t)
    <2>1. clock <= CalibOver \/ clock > CalibOver
      BY <1>2, Limits
    <2>2. /\ \A u \in ImuThreads : Acts(u) => Acts(u)'
          /\ clock <= CalibOver => Acts(t)'
      BY <1>3, <1>5, NextWitness, Limits
    <2>3. QED
      BY <1>4, <2>1, <2>2
  <1>6. CASE OwnStep(t)
    <2>1. clock' = clock /\ imu'[t].stamp = imu[t].stamp
      BY <1>6 DEF OwnStep
    <2>2. PICK u \in ImuThreads : Acts(u)
      BY <1>3, <1>4, <2>1
    <2>3. CASE u # t
      BY <1>1, <2>2, <2>3 DEF Awaits, Finishing, InPhase
    <2>4. CASE u = t /\ Finishing(t, CalibOver)
      BY <1>1, <1>6, <2>4 DEF Finishing, OwnStep, Marks, Stamps, Loads, StartsRtk, Expires, Waits,
                GivesUpRtk, KeepsRtk, Accumulates, Averages, Ends, InPhase, Leaves
    <2>5. CASE u = t /\ Awaits(t, "STATIONARY_CALIBRATING", CalibOver)
      <3>1. init_phase = "STATIONARY_CALIBRATING"
        BY <1>2, <1>3, <2>1, DarkClock, Limits
      <3>2. imu[t].stamp > CalibOver
        BY <1>2, <2>5, Limits DEF Awaits
      <3>3. InPhase(t, "STATIONARY_CALIBRATING") => StationaryStart(t) <= RtkBy /\ StationaryStart(t) \in Int
        <4>1. SUFFICES ASSUME InPhase(t, "STATIONARY_CALIBRATING")
                       PROVE  StationaryStart(t) <= RtkBy /\ StationaryStart(t) \in Int
          OBVIOUS
        <4>2. imu_calib_start_stamp # Unset
          <5>1. imu_calib_start_stamp = Unset => imu[t].stamp <= FirstStamp + 2 * Stall
            BY <4>1 DEF DarkNow, DarkStart
          <5>2. QED
            BY <1>2, <3>2, <5>1, Limits
        <4>3. QED
          BY <1>2, <4>2 DEF StationaryStart, DarkNow, DarkStart
      <3>4. ~Accumulates(t)
        <4>1. SUFFICES ASSUME Accumulates(t) PROVE FALSE
          OBVIOUS
        <4>2. /\ StationaryStart(t) <= RtkBy /\ StationaryStart(t) \in Int
              /\ imu[t].stamp - StationaryStart(t) < CalibTime
          BY <3>3, <4>1 DEF Accumulates
        <4>3. QED
          BY <1>2, <3>2, <4>2, Limits
      <3>5. CASE Averages(t)
        BY <2>1, <2>5, <3>5 DEF Averages, Awaits, Finishing
      <3>6. CASE ~Averages(t)
        <4>1. imu[t].pc \in {"first", "gate"} \/ InPhase(t, "STATIONARY_CALIBRATING")
          BY <2>5 DEF Awaits
        <4>2. Marks(t) \/ Loads(t)
          BY <1>1, <1>6, <3>4, <3>6, <4>1 DEF OwnStep, Stamps, StartsRtk, Expires, Waits, GivesUpRtk,
                   KeepsRtk, Ends, InPhase, Leaves
        <4>3. CalibOver >= FirstStamp + Stall
          BY Limits
        <4>4. QED
          BY <1>3, <1>6, <2>1, <2>5, <3>1, <4>2, <4>3, WitnessLooks, Limits
      <3>7. QED
        BY <3>5, <3>6
    <2>6. QED
      BY <2>2, <2>3, <2>4, <2>5
  <1>7. QED
    BY <1>1, <1>5, <1>6

LEMMA DarkStep ==
  ASSUME TypeInv, OutputInv, Started, Dark, [Next]_vars
  PROVE  Dark'
  <1>1. CASE ~\E t \in ImuThreads : ImuStep(t)
    <2>1. IsDark' => IsDark
      BY <1>1, OtherShape DEF IsDark
    <2>2. DarkWaiting => DarkWaiting'
      BY <1>1, OtherShape DEF DarkWaiting, Awaits, InPhase
    <2>3. DarkRtk => DarkRtk'
      BY <1>1, OtherShape DEF DarkRtk, Awaits, InPhase
    <2>4. DarkStart => DarkStart'
      BY <1>1, OtherShape DEF DarkStart, Stamper, InPhase
    <2>5. DarkCalib => DarkCalib'
      BY <1>1, OtherShape DEF DarkCalib, Awaits, Finishing, InPhase
    <2>6. QED
      BY <2>1, <2>2, <2>3, <2>4, <2>5 DEF Dark
  <1>2. ASSUME NEW t \in ImuThreads, ImuStep(t)
        PROVE  Dark'
    <2>1. SUFFICES ASSUME IsDark' PROVE DarkWaiting' /\ DarkRtk' /\ DarkStart' /\ DarkCalib'
      BY DEF Dark
    <2>2. ~imu_calibrated' /\ ~CanPropagate
      BY <1>2, <2>1, StepShape DEF IsDark
    <2>3. ~imu_calibrated
      <3>1. imu_calibrated => imu_calibrated'
        BY <1>2, StepShape DEF Receives, OwnStep, Marks, Stamps, Loads, StartsRtk, Expires, Waits,
           GivesUpRtk, KeepsRtk, Accumulates, Averages, Calibrates, Ends, Leaves
      <3>2. QED
        BY <2>2, <3>1
    <2>4. DarkNow
      BY <2>2, <2>3 DEF DarkNow, Dark, IsDark
    <2>5. QED
      BY <1>2, <2>2, <2>4, WaitingStep, RtkStepDark, StartStep, CalibStep
  <1>3. QED
    BY <1>1, <1>2

LEMMA DarkInvariant == Spec => []Dark
  <1>1. Init => Dark
    <2> SUFFICES ASSUME Init PROVE DarkWaiting /\ DarkRtk /\ DarkStart /\ DarkCalib
      BY DEF Dark
    <2>1. /\ \A u \in ImuThreads : imu[u].pc = "idle"
          /\ rtk_calib_start_stamp = -1 /\ imu_calib_start_stamp = -1
          /\ clock = FirstStamp - 1 /\ init_phase = "WAITING"
      BY DEF Init, Unset
    <2>2. clock < WaitOver /\ clock < CalibOver
      BY <2>1, Limits
    <2>3. clock \in Int
      BY <2>1, Limits
    <2>4. DarkWaiting
      BY <2>1, <2>2, <2>3, Limits DEF DarkWaiting, InPhase
    <2>5. DarkRtk
      BY <2>1, Limits DEF DarkRtk, InPhase
    <2>6. DarkStart
      BY <2>1, Limits DEF DarkStart, InPhase
    <2>7. DarkCalib
      BY <2>2, <2>3, Limits DEF DarkCalib
    <2>8. QED
      BY <2>4, <2>5, <2>6, <2>7
  <1>2. TypeInv /\ OutputInv /\ Started /\ Dark /\ [Next]_vars => Dark'
    BY DarkStep
  <1>3. QED
    BY <1>1, <1>2, TypeInvariant, OutputInvariant, StartedInvariant, PTL DEF Spec

-----------------------------------------------------------------------------
(* The deadline *)

LEMMA NotLateStep ==
  ASSUME TypeInv, OutputInv, Started, Dark, NotLate, [Next]_vars
  PROVE  NotLate'
  <1>1. CASE ~\E t \in ImuThreads : ImuStep(t)
    BY <1>1, OtherShape DEF NotLate
  <1>2. ASSUME NEW t \in ImuThreads, ImuStep(t)
        PROVE  NotLate'
    <2>1. /\ \A u \in ImuThreads : u # t => imu'[u] = imu[u]
          /\ Receives(t) \/ OwnStep(t)
      BY <1>2, StepShape
    <2>2. imu_calibrated => imu_calibrated'
      BY <2>1 DEF Receives, OwnStep, Marks, Stamps, Loads, StartsRtk, Expires, Waits,
         GivesUpRtk, KeepsRtk, Accumulates, Averages, Calibrates, Ends, Leaves
    <2>3. imu[t].pc = "propagate" => imu_calibrated \/ imu[t].seeded
      BY DEF NotLate
    <2>4. imu[t].pc # "idle" => imu[t].out # "suppressed"
      BY DEF OutputInv
    <2>5. imu[t].seeded \in BOOLEAN /\ imu[t].stamp \in Nat /\ clock \in Int
      BY Numbers
    <2>6. /\ imu'[t].pc = "propagate" => imu_calibrated' \/ imu'[t].seeded
          /\ ~imu_calibrated' /\ (imu'[t].out = "suppressed" \/ (imu'[t].pc = "phase" /\ ~imu'[t].seeded)) =>
               imu'[t].stamp <= CalibBy
      <3>1. CASE Receives(t)
        BY <3>1 DEF Receives
      <3>2. CASE OwnStep(t) /\ (Marks(t) \/ Stamps(t))
        BY <2>4, <3>2 DEF Marks, Stamps
      <3>3. CASE OwnStep(t) /\ Loads(t)
        <4>1. imu'[t].stamp = imu[t].stamp /\ imu[t].pc = "gate" /\ imu_calibrated' = imu_calibrated
              /\ (imu'[t].seeded <=> CanPropagate) /\ imu'[t].out = imu[t].out
          BY <3>3 DEF OwnStep, Loads
        <4>2. imu[t].stamp <= clock
          BY <4>1 DEF Started, Busy
        <4>3. ~imu_calibrated /\ ~CanPropagate => clock <= CalibBy
          <5>1. ~imu_calibrated /\ ~CanPropagate => DarkNow
            BY DEF DarkNow, Dark, IsDark
          <5>2. QED
            BY <5>1, DarkClock
        <4>4. imu'[t].pc = "propagate" => imu_calibrated
          BY <3>3 DEF Loads, Started
        <4>5. QED
          BY <2>4, <2>5, <4>1, <4>2, <4>3, <4>4, Limits
      <3>4. CASE OwnStep(t) /\ (StartsRtk(t) \/ Expires(t))
        <4>1. /\ imu'[t].stamp = imu[t].stamp /\ imu[t].pc = "phase" /\ imu'[t].pc = "phase"
              /\ imu_calibrated' = imu_calibrated /\ imu'[t].seeded = imu[t].seeded
              /\ imu'[t].out = imu[t].out
          BY <3>4 DEF OwnStep, StartsRtk, Expires, InPhase
        <4>2. QED
          BY <2>4, <4>1 DEF NotLate
      <3>5. CASE OwnStep(t) /\ (Waits(t) \/ GivesUpRtk(t) \/ KeepsRtk(t) \/ Accumulates(t))
        <4>1. Leaves(t) /\ imu'[t].stamp = imu[t].stamp
          BY <3>5 DEF OwnStep, Waits, GivesUpRtk, KeepsRtk, Accumulates
        <4>2. imu[t].pc = "phase" /\ imu_calibrated' = imu_calibrated
          BY <4>1 DEF Leaves
        <4>3. CASE imu'[t].pc = "idle" /\ ~imu[t].seeded
          BY <4>1, <4>2, <4>3 DEF NotLate
        <4>4. CASE imu'[t].pc = "propagate" /\ imu'[t].out = imu[t].out /\ (imu_calibrated \/ imu'[t].seeded)
          BY <2>4, <4>2, <4>4
        <4>5. QED
          BY <4>1, <4>3, <4>4 DEF Leaves
      <3>6. CASE OwnStep(t) /\ Averages(t)
        BY <2>4, <3>6 DEF Averages, InPhase
      <3>7. CASE OwnStep(t) /\ Calibrates(t)
        BY <3>7 DEF Calibrates
      <3>8. CASE OwnStep(t) /\ Ends(t)
        <4>1. /\ imu[t].pc = "propagate" /\ imu'[t].pc = "idle" /\ imu_calibrated' = imu_calibrated
              /\ imu'[t].out = "suppressed" => ~CanPropagate
          BY <3>8 DEF Ends
        <4>2. imu[t].seeded => CanPropagate
          BY DEF OutputInv
        <4>3. QED
          BY <2>3, <4>1, <4>2
      <3>9. QED
        BY <2>1, <3>1, <3>2, <3>3, <3>4, <3>5, <3>6, <3>7, <3>8 DEF OwnStep
    <2>7. QED
      BY <2>1, <2>2, <2>6 DEF NotLate
  <1>3. QED
    BY <1>1, <1>2

\* However ground truth, RTK pairing and calibration fail, and whatever stale
\* copies of the phase the overlapping IMU callbacks act on, an unseeded node
\* whose output is still suppressed is within the deadline, for any number of
\* callbacks and any timeouts.
THEOREM DeadlineAlwaysMet == Spec => []UnseededDeadline
  <1>1. Init => NotLate
    <2> SUFFICES ASSUME Init, NEW u \in ImuThreads
                 PROVE  imu[u].pc = "idle" /\ imu[u].out = "none"
      BY DEF NotLate
    <2>1. imu[u] = [pc |-> "idle", stamp |-> FirstStamp, phase |-> "WAITING", seeded |-> FALSE,
                    out |-> "none"]
      BY DEF Init
    <2>2. QED
      BY <2>1
  <1>2. TypeInv /\ OutputInv /\ Started /\ Dark /\ NotLate /\ [Next]_vars => NotLate'
    BY NotLateStep
  <1>3. TypeInv /\ NotLate => UnseededDeadline
    <2> SUFFICES ASSUME TypeInv, NotLate, NEW t \in ImuThreads, imu[t].out = "suppressed",
                        ~imu_calibrated
                 PROVE  imu[t].stamp - FirstStamp <= Deadline
      BY DEF UnseededDeadline
    <2>1. imu[t].stamp <= CalibBy /\ imu[t].stamp \in Nat
      BY Numbers DEF NotLate
    <2>2. Deadline \in Nat /\ CalibBy = FirstStamp + Deadline /\ FirstStamp \in Nat
      BY Limits DEF Deadline
    <2>3. QED
      BY <2>1, <2>2
  <1>4. QED
    BY <1>1, <1>2, <1>3, TypeInvariant, OutputInvariant, StartedInvariant, DarkInvariant, PTL DEF Spec
=============================================================================
