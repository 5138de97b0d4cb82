------------------------------- MODULE MCIngress -------------------------------
(* Values of the constants for the runs on Ingress.                        *)
EXTENDS Ingress, TLC

CONSTANTS a1, a2, w1

\* The writers are interchangeable.
Symmetry == Permutations({a1, a2})
=============================================================================
