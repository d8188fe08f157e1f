------------------------------ MODULE MCTiers -------------------------------
(* Tiers with a few threads, CPUs and objects. *)
EXTENDS Tiers

Symmetry ==
    Permutations(Threads) \cup Permutations(Cpus) \cup Permutations(Slots) \cup Permutations(Blocks)
=============================================================================
