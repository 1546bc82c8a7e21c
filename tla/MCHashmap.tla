----------------------------- MODULE MCHashmap -----------------------------
(* Instances of Hashmap for TLC. *)
EXTENDS Hashmap, TLC

\* Neither keys nor values are told apart but by the hash function.
Symmetry == Permutations(Key) \cup Permutations(Value)
=============================================================================
