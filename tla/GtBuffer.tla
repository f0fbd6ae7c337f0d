------------------------------ MODULE GtBuffer -------------------------------
(***************************************************************************)
(* The ground-truth buffer of the localization node: callbackGtOdom fills  *)
(* it, getGtPoseAt reads it at the stamp of a scan or an IMU sample, and   *)
(* maybeSnapPoseToGT takes the result as the recovered pose.  The ground-  *)
(* truth callback is in a reentrant group, so samples reach the buffer in  *)
(* any order; each access holds gt_odom_mtx_ and is one step.              *)
(*                                                                         *)
(* A sample is its stamp and its position variance.  Its position is left  *)
(* out of the buffer: the vehicle moves at constant speed along a line, so *)
(* the position of a sample IS its stamp, and a looked-up position can be  *)
(* compared with the truth at the stamp asked for.                         *)
(***************************************************************************)
EXTENDS Integers, Sequences

CONSTANTS
  BufferSize,     \* localization/gt_odom/buffer_size, at least 1
  MaxDt,          \* localization/gt_odom/max_dt
  GateEnabled,    \* localization/rtk_gate/enable
  MaxVar,         \* localization/rtk_gate/max_pose_var_xy and _z
  MinFailures,    \* localization/gt_recovery/min_consecutive_failures
  MaxFailures,    \* bound: rejected scans in a row
  LastStamp,      \* bound: stamps of samples and scans
  WorstVar        \* bound: variances of samples

ASSUME BufferAssumption ==
  /\ BufferSize \in Nat \ {0}
  /\ {MaxDt, MaxVar, MinFailures, MaxFailures, LastStamp, WorstVar} \subseteq Nat
  /\ GateEnabled \in BOOLEAN

Stamps  == 1 .. LastStamp
Samples == [stamp : Stamps, var : 0 .. WorstVar]

VARIABLES
  gt_odom_buffer,         \* oldest first
  gt_odom_received,
  consecutive_failures,
  snap                    \* result of the last snap, or NotFound

vars == <<gt_odom_buffer, gt_odom_received, consecutive_failures, snap>>

-----------------------------------------------------------------------------
(* getGtPoseAt *)

Dist(a, b) == IF a < b THEN b - a ELSE a - b
Larger(a, b) == IF a < b THEN b ELSE a
Smaller(a, b) == IF a < b THEN a ELSE b

\* A found pose: at the position num / den, with variance var.
NotFound == [found |-> FALSE, num |-> 0, den |-> 1, var |-> 0]
Found(n, d, v) == [found |-> TRUE, num |-> n, den |-> d, var |-> v]

\* A sample at the border of the buffer is returned whole when near enough.
Endpoint(s, stamp) == IF Dist(s.stamp, stamp) <= MaxDt THEN Found(s.stamp, 1, s.var)
                      ELSE NotFound

\* Mutant: the variance is averaged.
MeanVar(a, b) == (a.var + b.var) \div 2

\* The conservative variance of two neighbours.
BracketVar(a, b) == Larger(a.var, b.var)

\* Between neighbours a and b the position is interpolated:
\* (1 - u) * a.p + u * b.p, with u = (stamp - a.stamp) / dt_total.
Bracket(a, b, stamp) ==
  LET dt_total == b.stamp - a.stamp
  IN  IF dt_total <= 0 \/ Smaller(stamp - a.stamp, b.stamp - stamp) > MaxDt THEN NotFound
      ELSE Found((b.stamp - stamp) * a.stamp + (stamp - a.stamp) * b.stamp, dt_total,
                 BracketVar(a, b))

\* std::lower_bound: how many samples are older than the stamp.
Older(buf, stamp) ==
  CHOOSE n \in 0 .. Len(buf) :
    /\ \A i \in 1 .. n : buf[i].stamp < stamp
    /\ n < Len(buf) => buf[n + 1].stamp >= stamp

GetGtPoseAt(buf, stamp) ==
  IF buf = <<>> THEN NotFound
  ELSE LET n == Older(buf, stamp)
       IN  CASE n = 0        -> Endpoint(buf[1], stamp)
             [] n = Len(buf) -> Endpoint(buf[n], stamp)
             [] OTHER        -> Bracket(buf[n], buf[n + 1], stamp)

GtSampleIsRtkFixed(s) == ~GateEnabled \/ s.var <= MaxVar

-----------------------------------------------------------------------------
(* callbackGtOdom *)

\* Mutant: only an exact duplicate is dropped.
NotDuplicate(s) ==
  gt_odom_buffer # <<>> => s.stamp # gt_odom_buffer[Len(gt_odom_buffer)].stamp

\* A sample that is not newer than the newest one is dropped.
Newest(s) ==
  gt_odom_buffer # <<>> => s.stamp > gt_odom_buffer[Len(gt_odom_buffer)].stamp

\* Mutant: the buffer is trimmed one sample late.
TrimmedLate(buf) == IF Len(buf) > BufferSize + 1 THEN Tail(buf) ELSE buf

\* One sample was pushed, so one is popped at most.
Trimmed(buf) == IF Len(buf) > BufferSize THEN Tail(buf) ELSE buf

PushGt(s) ==
  /\ Newest(s)
  /\ gt_odom_buffer' = Trimmed(Append(gt_odom_buffer, s))
  /\ gt_odom_received' = TRUE
  /\ UNCHANGED <<consecutive_failures, snap>>

-----------------------------------------------------------------------------
(* performLocalization and maybeSnapPoseToGT *)

AcceptScan ==
  /\ consecutive_failures' = 0
  /\ UNCHANGED <<gt_odom_buffer, gt_odom_received, snap>>

\* A rejected scan recovers from the buffer when the streak is long enough and
\* a sample is found, whatever its quality.
SnapDue(stamp) == /\ consecutive_failures + 1 >= MinFailures
                  /\ gt_odom_received
                  /\ GetGtPoseAt(gt_odom_buffer, stamp).found

RejectScan(stamp) ==
  /\ consecutive_failures < MaxFailures
  /\ IF SnapDue(stamp)
     THEN snap' = GetGtPoseAt(gt_odom_buffer, stamp) /\ consecutive_failures' = 0
     ELSE consecutive_failures' = consecutive_failures + 1 /\ UNCHANGED snap
  /\ UNCHANGED <<gt_odom_buffer, gt_odom_received>>

-----------------------------------------------------------------------------

Init ==
  /\ gt_odom_buffer = <<>>
  /\ gt_odom_received = FALSE
  /\ consecutive_failures = 0
  /\ snap = NotFound

Next ==
  \/ \E s \in Samples : PushGt(s)
  \/ AcceptScan
  \/ \E stamp \in Stamps : RejectScan(stamp)

Spec == Init /\ [][Next]_vars

-----------------------------------------------------------------------------
(* Properties *)

TypeOK ==
  /\ gt_odom_buffer \in Seq(Samples)
  /\ gt_odom_received \in BOOLEAN
  /\ consecutive_failures \in Nat
  /\ snap \in [found : BOOLEAN, num : Nat, den : Nat \ {0}, var : 0 .. WorstVar]

\* The samples are in strictly increasing order of stamp, in whatever order
\* they arrived: std::lower_bound needs it.
BufferMonotone ==
  \A i \in 1 .. Len(gt_odom_buffer) - 1 :
    gt_odom_buffer[i].stamp < gt_odom_buffer[i + 1].stamp

\* The buffer never outgrows its size, and is never empty once ground truth
\* was received: maybeSnapPoseToGT relies on gt_odom_received_ for it.
BufferBounded ==
  /\ Len(gt_odom_buffer) <= BufferSize
  /\ gt_odom_received => gt_odom_buffer # <<>>

\* A pose is found exactly when some sample is within max_dt of the stamp, and
\* the position is the true one inside the buffer, off by max_dt at its ends.
Near(stamp) == \E i \in 1 .. Len(gt_odom_buffer) :
                 Dist(gt_odom_buffer[i].stamp, stamp) <= MaxDt

LookupCorrect ==
  \A stamp \in Stamps :
    LET out == GetGtPoseAt(gt_odom_buffer, stamp)
        n   == Len(gt_odom_buffer)
    IN  /\ out.found <=> Near(stamp)
        /\ out.found => Dist(out.num, stamp * out.den) <= MaxDt * out.den
        /\ out.found /\ gt_odom_buffer[1].stamp <= stamp /\ stamp <= gt_odom_buffer[n].stamp
             => out.num = stamp * out.den

\* A pose counts as RTK-FIXED only if every sample it is made of does: the
\* nearest one on each side of the stamp.
Neighbour(i, stamp) ==
  LET s == gt_odom_buffer[i].stamp
  IN  ~\E j \in 1 .. Len(gt_odom_buffer) :
         LET r == gt_odom_buffer[j].stamp
         IN  (s < r /\ r <= stamp) \/ (stamp <= r /\ r < s)

GateConservative ==
  \A stamp \in Stamps :
    LET out == GetGtPoseAt(gt_odom_buffer, stamp)
    IN  out.found /\ GtSampleIsRtkFixed(out)
          => \A i \in 1 .. Len(gt_odom_buffer) :
               Neighbour(i, stamp) => GtSampleIsRtkFixed(gt_odom_buffer[i])

\* A sample that arrives late changes no answer about the past: between the
\* oldest sample kept and the newest one, a pose once found stays the same.
PastIsSettled ==
  [][\A stamp \in Stamps :
       LET out == GetGtPoseAt(gt_odom_buffer, stamp)
       IN  /\ out.found
           /\ stamp <= gt_odom_buffer[Len(gt_odom_buffer)].stamp
           /\ stamp > gt_odom_buffer'[1].stamp
           => GetGtPoseAt(gt_odom_buffer', stamp) = out]_gt_odom_buffer
=============================================================================
