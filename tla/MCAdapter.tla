---------------------------- MODULE MCAdapter ----------------------------
(* Inputs for Adapter: P1 stamps, arrival stamps, and arrival stamps with a *)
(* sidecar that lacks some of the samples.                                  *)
EXTENDS Adapter

Entry(capture, p1) == [capture |-> capture, p1 |-> p1]
InputStreams ==
  { [p1 |-> TRUE, sidecar |-> <<>>],
    [p1 |-> FALSE, sidecar |-> <<>>],
    [p1 |-> FALSE, sidecar |-> <<Entry(1, 1), Entry(5, 4), Entry(14, 9)>>] }
=============================================================================
