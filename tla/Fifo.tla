-------------------------------- MODULE Fifo --------------------------------
(***************************************************************************)
(* What GLIM's queue promises to the threads at its two ends: elements     *)
(* numbered in the order they are sent are received in that order, at most *)
(* once, and one is skipped only if the store policy had no room for it:   *)
(* MaxSize newer elements were sent, or, when the newest are discarded,    *)
(* MaxSize older ones were.                                                *)
(***************************************************************************)
EXTENDS Integers

CONSTANTS MaxSize, DropOldest

VARIABLES sent, received, newest

Init == sent = 0 /\ received = {} /\ newest = 0

Send == sent' \in Nat /\ sent' > sent /\ UNCHANGED <<received, newest>>

NoRoom(e) == IF DropOldest THEN e + MaxSize <= sent ELSE e > MaxSize

Receive ==
  /\ newest' \in newest + 1 .. sent
  /\ \E skipped \in SUBSET (newest + 1 .. newest' - 1) :
       /\ \A e \in skipped : NoRoom(e)
       /\ received' = received \cup ((newest + 1 .. newest') \ skipped)
  /\ UNCHANGED sent

Next == Send \/ Receive

Spec == Init /\ [][Next]_<<sent, received, newest>>
=============================================================================
