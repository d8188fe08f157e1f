---------------------------- MODULE MCCoreCache -----------------------------
(* Small instances of CoreCache. *)
EXTENDS CoreCache, TLC

Symmetry == Permutations(Threads) \cup Permutations(Nodes) \cup Permutations(Cpus)
=============================================================================
