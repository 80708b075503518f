-------------------------- MODULE MCPolarisClient --------------------------
(* Small instances of PolarisClient for TLC. *)
EXTENDS PolarisClient, TLC

(* Objects, threads and addresses are interchangeable (safety runs only). *)
Symmetry == Permutations(Object) \cup Permutations(Thread) \cup Permutations(Handle)
=============================================================================
