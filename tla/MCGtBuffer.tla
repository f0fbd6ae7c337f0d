----------------------------- MODULE MCGtBuffer ------------------------------
(* GtBuffer for TLC: the bounds are numbers and stand in the .cfg files. *)
EXTENDS GtBuffer
=============================================================================
