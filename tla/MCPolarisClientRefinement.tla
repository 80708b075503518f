--------------------- MODULE MCPolarisClientRefinement ---------------------
(* Small instances of PolarisClientRefinement for TLC. *)
EXTENDS PolarisClientRefinement, TLC

Symmetry == Permutations(Object) \cup Permutations(Thread) \cup Permutations(Handle)
=============================================================================
