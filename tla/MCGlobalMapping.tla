-------------------------- MODULE MCGlobalMapping --------------------------
(* Instances of GlobalMapping for TLC. *)
EXTENDS GlobalMapping
=============================================================================
