---------------------------- MODULE MCGlimStages ----------------------------
(* Instances of GlimStages for TLC. *)
EXTENDS GlimStages

CONSTANTS main, live
LiveNode == {main}
OfflinePlayer == {main, live}
=============================================================================
