-------------------------- MODULE MCLazyfreeCache --------------------------
(* LazyfreeCache on small instances. *)
EXTENDS LazyfreeImplementsMap, LazyfreeClaims, TLC

\* Neither the callers' lock structures nor the keys other than 0 are told
\* apart by the code.
Symmetry == Permutations(Handle) \cup Permutations(Key \ {ZeroKey})

=============================================================================
