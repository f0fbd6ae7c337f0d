---------------------------- MODULE MCLiveInput ----------------------------
(* Instances of LiveInput for TLC. *)
EXTENDS LiveInput
=============================================================================
