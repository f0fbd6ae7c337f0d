------------------------- MODULE MCConcurrentVector -------------------------
(* Instances of ConcurrentVector for TLC. *)
EXTENDS ConcurrentVector

CONSTANTS p1, p2, d1
TwoPoppers == {p1, p2}
OnePopper == {p1}
OneDrainer == {d1}
=============================================================================
