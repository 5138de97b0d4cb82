------------------------------- MODULE MCPipeline -------------------------------
(* Values of the constants for the runs on Pipeline.                       *)
EXTENDS Pipeline, TLC

CONSTANTS k1, k2

\* Which key each batch is for.
ThreeBatches == 1 :> k1 @@ 2 :> k1 @@ 3 :> k2
TwoBatches == 1 :> k1 @@ 2 :> k1

\* The senders are interchangeable.
Symmetry == Permutations(Senders)

\* The state without the histories tries and cool, which no guard reads and
\* none of the properties of the run Pipeline.
WithoutTries ==
  <<listVars, breakerVars, sendq, stop, sqStop, senderVars, pushed, finished,
    callbacks, workerVars, phase, begun>>
=============================================================================
