---------------------------- MODULE MCGeoObserver ----------------------------
(* Instances of GeoObserver for TLC. *)
EXTENDS GeoObserver, TLC

CONSTANTS t1, t2
OneImuThread == {t1}
TwoImuThreads == {t1, t2}
ImuSymmetry == Permutations({t1, t2})

BothSources == {"initialpose", "gt_odom"}
OverrideOnly == {"initialpose"}

\* Bound: what may happen in one behaviour, one event at the expense of others.
Budget == samples + scans + 2 * resets <= 6
=============================================================================
