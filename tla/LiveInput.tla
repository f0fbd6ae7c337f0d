----------------------------- MODULE LiveInput -----------------------------
(***************************************************************************)
(* The live input of GLIM's ROS 2 node: the subscriptions push messages    *)
(* into live_input_queue, the live input thread releases them in stamp     *)
(* order once they are older than the reorder window, primary clouds wait  *)
(* for the auxiliary lidars and are merged with them, and TimeKeeper drops *)
(* what goes back in time.  The thread works on one message at a time and  *)
(* shares only the queue with the subscriptions, so releasing a message    *)
(* and processing it is one step.                                          *)
(***************************************************************************)
EXTENDS Integers, Sequences, FiniteSets

CONSTANTS
  Aux,        \* auxiliary lidars
  Window,     \* live_input_reorder_window_sec
  MaxQueue,   \* live_input_max_queue_size
  Threshold,  \* lidar_concat time_threshold
  BufferSize, \* lidar_concat buffer_size
  MaxStamp,   \* bound: stamps
  MaxMsgs     \* bound: messages

ASSUME SizeAssumption ==
  /\ Window \in Nat /\ Threshold \in Nat
  /\ MaxQueue \in Nat \ {0} /\ BufferSize \in Nat \ {0}
ASSUME BoundAssumption == MaxStamp \in Nat /\ MaxMsgs \in Nat
ASSUME AuxAssumption == {"imu", "points"} \cap Aux = {}

VARIABLES
  queue,      \* live_input_queue
  seq,        \* live_input_next_seq
  latest,     \* live_input_latest_stamp
  stage,      \* the thread runs, was told to stop, or has ended
  auxBuf,     \* per lidar: its buffered clouds
  auxLatest,  \* per lidar: aux_latest_stamps
  primary,    \* primary_points_buffer
  lastImu,    \* TimeKeeper's last IMU stamp
  lastPoints, \* TimeKeeper's last cloud stamp
  merged,     \* clouds that left primary_points_buffer, with what they got
  released,   \* newest stamp released by the queue
  forced,     \* newest stamp released by queue pressure
  late,       \* messages older than the window when they came
  inverted,   \* messages released after a newer one
  heard,      \* per lidar: every stamp it delivered
  evicted     \* per lidar: stamps its buffer had no room for

concatVars == <<auxBuf, auxLatest, primary, merged, heard, evicted>>
keeperVars == <<lastImu, lastPoints>>
queueVars == <<queue, seq, latest, released, forced, late, inverted>>
vars == <<queueVars, stage, concatVars, keeperVars>>

None == 0
Streams == {"imu", "points"} \cup Aux
Stamps == 1 .. MaxStamp
Events == [stream : Streams, stamp : Stamps, seq : 1 .. MaxMsgs]
Elems(s) == {s[i] : i \in DOMAIN s}
Abs(n) == IF n < 0 THEN -n ELSE n
Larger(a, b) == IF a < b THEN b ELSE a

Init ==
  /\ queue = {} /\ seq = 0 /\ latest = None /\ stage = "run"
  /\ auxBuf = [a \in Aux |-> <<>>] /\ auxLatest = [a \in Aux |-> None]
  /\ primary = <<>> /\ lastImu = None /\ lastPoints = None /\ merged = {}
  /\ released = None /\ forced = None /\ late = {} /\ inverted = {}
  /\ heard = [a \in Aux |-> {}] /\ evicted = [a \in Aux |-> {}]

\* imu_callback_live, points_callback_live and aux_points_callback: the
\* messages of one lidar or of the IMU may skip stamps or repeat older ones.
Enqueue ==
  /\ stage = "run" /\ seq < MaxMsgs
  /\ \E s \in Streams, t \in Stamps :
       /\ queue' = queue \cup {[stream |-> s, stamp |-> t, seq |-> seq + 1]}
       /\ seq' = seq + 1 /\ latest' = Larger(latest, t)
       /\ late' = IF t < latest - Window THEN late \cup {seq + 1} ELSE late
  /\ UNCHANGED <<released, forced, inverted, stage, concatVars, keeperVars>>

-----------------------------------------------------------------------------
(* Merging: process_points_callback_live, process_aux_points_callback.     *)

KeepNewest(buf, n) == IF Len(buf) <= n THEN buf ELSE SubSeq(buf, Len(buf) - n + 1, Len(buf))

\* find_nearest: the first of the nearest clouds, if it is near enough.
Nearest(buf, t) ==
  IF \A i \in DOMAIN buf : Abs(buf[i] - t) > Threshold THEN None
  ELSE buf[CHOOSE i \in DOMAIN buf :
             /\ \A j \in DOMAIN buf : Abs(buf[i] - t) <= Abs(buf[j] - t)
             /\ \A j \in 1 .. i - 1 : Abs(buf[i] - t) < Abs(buf[j] - t)]

\* Mutant: the threshold is subtracted.
CoveredBefore(t, marks) == \A a \in Aux : t - Threshold <= marks[a]

\* aux_watermarks_cover_primary_locked
Covered(t, marks) == \A a \in Aux : t + Threshold <= marks[a]

\* The clouds flush_ready_live_points_locked takes from the front.
Flushed(prim, marks) ==
  LET n == CHOOSE n \in 0 .. Len(prim) :
             /\ \A i \in 1 .. n : Covered(prim[i], marks)
             /\ n < Len(prim) => ~Covered(prim[n + 1], marks)
  IN SubSeq(prim, 1, n)

\* TimeKeeper::process drops a cloud older than the last one, which the
\* odometry estimation then does not get.
KeepTime(clouds) ==
  lastPoints' = CHOOSE t \in {lastPoints} \cup Elems(clouds) :
                  \A u \in {lastPoints} \cup Elems(clouds) : u <= t

Merge(prim, bufs, marks) ==
  LET out == Flushed(prim, marks) IN
  /\ primary' = SubSeq(prim, Len(out) + 1, Len(prim))
  /\ merged' = merged \cup
       {[stamp |-> out[i], aux |-> [a \in Aux |-> Nearest(bufs[a], out[i])]] : i \in DOMAIN out}
  /\ KeepTime(out)

\* Mutant: an auxiliary cloud flushes nothing.
NoFlush(bufs, marks) == UNCHANGED <<primary, merged, lastPoints>>

FlushAfterAux(bufs, marks) == Merge(primary, bufs, marks)

ProcessAux(a, t) ==
  LET buf == KeepNewest(Append(auxBuf[a], t), BufferSize) IN
  /\ auxBuf' = [auxBuf EXCEPT ![a] = buf]
  /\ auxLatest' = [auxLatest EXCEPT ![a] = Larger(@, t)]
  /\ heard' = [heard EXCEPT ![a] = @ \cup {t}]
  /\ evicted' = [evicted EXCEPT ![a] = @ \cup (Elems(Append(auxBuf[a], t)) \ Elems(buf))]
  /\ FlushAfterAux(auxBuf', auxLatest')
  /\ UNCHANGED lastImu

ProcessPoints(t) ==
  /\ Merge(KeepNewest(Append(primary, t), BufferSize), auxBuf, auxLatest)
  /\ UNCHANGED <<auxBuf, auxLatest, heard, evicted, lastImu>>

\* imu_callback: validate_imu_stamp drops what is older than the last sample.
ProcessImu(t) == lastImu' = Larger(lastImu, t) /\ UNCHANGED <<concatVars, lastPoints>>

-----------------------------------------------------------------------------
(* The live input thread.                                                  *)

First(evs) ==
  CHOOSE e \in evs : \A f \in evs : e.stamp < f.stamp \/ (e.stamp = f.stamp /\ e.seq <= f.seq)

\* Mutant: first come, first served.
ByArrival(evs) == CHOOSE e \in evs : \A f \in evs : e.seq <= f.seq

Oldest(evs) == First(evs)

Pressure == Cardinality(queue) > MaxQueue

\* Mutant: the end of the thread is not looked at.
ReadyByAge(e) == Pressure \/ e.stamp <= latest - Window

ReadyToGo(e) == stage = "stop" \/ Pressure \/ e.stamp <= latest - Window

\* pop_live_input and dispatch_live_input
Release ==
  /\ queue # {} /\ stage # "ended"
  /\ LET e == Oldest(queue) IN
     /\ ReadyToGo(e)
     /\ queue' = queue \ {e}
     /\ released' = Larger(released, e.stamp)
     /\ forced' = IF Pressure THEN Larger(forced, e.stamp) ELSE forced
     /\ inverted' = IF e.stamp < released THEN inverted \cup {e} ELSE inverted
     /\ CASE e.stream = "imu" -> ProcessImu(e.stamp)
          [] e.stream = "points" -> ProcessPoints(e.stamp)
          [] OTHER -> ProcessAux(e.stream, e.stamp)
  /\ UNCHANGED <<seq, latest, late, stage>>

Stop ==
  /\ stage = "run" /\ stage' = "stop"
  /\ UNCHANGED <<queueVars, concatVars, keeperVars>>

LoopEnds ==
  /\ stage = "stop" /\ queue = {} /\ stage' = "ended"
  /\ UNCHANGED <<queueVars, concatVars, keeperVars>>

Next == Enqueue \/ Release \/ Stop \/ LoopEnds

\* The live input thread loops for ever; nothing forces a message or a stop.
Spec == Init /\ [][Next]_vars /\ WF_vars(Release) /\ WF_vars(LoopEnds)

-----------------------------------------------------------------------------
TypeOK ==
  /\ queue \subseteq Events /\ seq \in 0 .. MaxMsgs
  /\ stage \in {"run", "stop", "ended"}
  /\ auxBuf \in [Aux -> Seq(Stamps)] /\ \A a \in Aux : Len(auxBuf[a]) <= BufferSize
  /\ primary \in Seq(Stamps) /\ Len(primary) <= BufferSize
  /\ {latest, released, forced, lastImu, lastPoints} \subseteq 0 .. MaxStamp
  /\ auxLatest \in [Aux -> 0 .. MaxStamp]
  /\ merged \subseteq [stamp : Stamps, aux : [Aux -> 0 .. MaxStamp]]
  /\ late \subseteq 1 .. MaxMsgs /\ inverted \subseteq Events
  /\ heard \in [Aux -> SUBSET Stamps] /\ evicted \in [Aux -> SUBSET Stamps]

(***************************************************************************)
(* Messages leave the queue in stamp order, whatever the skew of the       *)
(* streams: one released after a newer one was older than the window when  *)
(* it came, or the queue was over its limit.                               *)
(***************************************************************************)
InOrderWithinWindow == \A e \in inverted : e.seq \in late \/ e.stamp < forced

(***************************************************************************)
(* A primary cloud is not kept back without a reason: the oldest one held  *)
(* lacks the watermark of some lidar, whichever message came last.         *)
(***************************************************************************)
HeldForAux == primary # <<>> => ~Covered(primary[1], auxLatest)

Nearer(t, f, a) ==
  /\ Abs(t - f.stamp) <= Threshold
  /\ f.aux[a] = None \/ Abs(t - f.stamp) < Abs(f.aux[a] - f.stamp)

(***************************************************************************)
(* A primary cloud is merged with the nearest cloud each lidar ever        *)
(* delivers within the threshold: a nearer one had been evicted from a     *)
(* buffer too small, or comes later and out of its lidar's order.          *)
(***************************************************************************)
NearestIsMerged ==
  [][\A f \in merged', a \in Aux : \A t \in heard'[a] :
       ((f \notin merged \/ t \notin heard[a]) /\ Nearer(t, f, a))
         => t \in evicted'[a] \/ (f \in merged /\ t <= auxLatest[a])]_vars

(***************************************************************************)
(* Stopping drains the queue and ends the thread.                          *)
(***************************************************************************)
StopDrains == (stage = "stop") ~> (stage = "ended" /\ queue = {})

=============================================================================
