--------------------------------- MODULE MCEnv ---------------------------------
(* Names for the threads of the run on Env.                                *)
EXTENDS Env

CONSTANTS p1, s1, s2, d1
=============================================================================
