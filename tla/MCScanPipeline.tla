--------------------------- MODULE MCScanPipeline ----------------------------
(* ScanPipeline for TLC: every constant is a number or a Boolean, in the .cfg. *)
EXTENDS ScanPipeline
=============================================================================
