--------------------------- MODULE AtomicObserver ---------------------------
(***************************************************************************)
(* What the geometric observer promises, with no threads and no locks: an  *)
(* estimate that is corrected by scans, restarted by pose sources, and     *)
(* advanced in between by one inertial sample at a time, each sample       *)
(* applied to the estimate as it is at that moment.  Only where the        *)
(* environment lets several writers overlap may samples and restarts mix;  *)
(* a correction is not lost even then.                                     *)
(***************************************************************************)
EXTENDS Naturals, Sequences

CONSTANT Sample     \* identifiers of inertial samples

VARIABLES
  gen,              \* how many corrections have been made
  est,              \* [fix: last correction in the estimate,
                    \*  log: samples integrated on top of it, oldest first]
  crowded           \* input: a writer in progress has overlapped another one

avars == <<gen, est>>

AInit == /\ gen = 0
         /\ est = [fix |-> 0, log |-> <<>>]

\* One inertial sample advances the current estimate.
Integrate(m) == /\ est' = [est EXCEPT !.log = Append(@, m)]
                /\ UNCHANGED gen

\* A scan or a recovery fix corrects the estimate.
Correct == /\ gen' = gen + 1
           /\ est' = [fix |-> gen + 1, log |-> <<>>]

\* A pose source replaces the estimate outright.
Restart == /\ est' = [fix |-> gen, log |-> <<>>]
           /\ UNCHANGED gen

\* Writers that overlap store what they made of older estimates, none of them
\* from before the last correction.
Mix == /\ crowded
       /\ est'.fix = gen
       /\ UNCHANGED gen

ANext == Correct \/ Restart \/ Mix \/ \E m \in Sample : Integrate(m)

ASpec == AInit /\ [][ANext]_avars
=============================================================================
