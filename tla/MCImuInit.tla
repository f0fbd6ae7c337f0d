------------------------------ MODULE MCImuInit ------------------------------
(* Model values for ImuInit: two threads that run callbackImu. *)
EXTENDS ImuInit, TLC

CONSTANTS t1, t2

Symmetry == Permutations(ImuThreads)

\* Bound: once calibrated, the callbacks in progress and those that overlap them
\* are followed to their ends.
Calibrating == ~imu_calibrated \/ \E t \in ImuThreads : imu[t].pc # "idle"

\* No guard reads where orientation and biases came from, and no property does.
SourcesAside == <<calibVars, firstVars, seedVars, clock, imu>>
=============================================================================
