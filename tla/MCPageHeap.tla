----------------------------- MODULE MCPageHeap -----------------------------
(* Small instances of PageHeap: three ranges of different sizes. *)
EXTENDS PageHeap, TLC

MCSizeOf == [r \in Ranges |-> r]

Symmetry == Permutations(Threads)
=============================================================================
