------------------------ MODULE MCFallthroughCache ------------------------
(* FallthroughCache for TLC.  The run checks liveness: no symmetry. *)
EXTENDS FallthroughCache
===========================================================================
