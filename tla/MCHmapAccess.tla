---------------------------- MODULE MCHmapAccess ----------------------------
(* Instances of HmapAccess for TLC. *)
EXTENDS HmapAccess, TLC

\* Neither threads nor keys are told apart.
Symmetry == Permutations(Thread) \cup Permutations(Key)
=============================================================================
