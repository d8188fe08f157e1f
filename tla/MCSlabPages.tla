---------------------------- MODULE MCSlabPages -----------------------------
(***************************************************************************)
(* SlabPages on two nodes: two huge pages of two pages each, one single    *)
(* page, three tiny slots in a bitmap of two words of two bits, and two    *)
(* small slots that are larger than the header.                            *)
(***************************************************************************)
EXTENDS SlabPages, TLC

Symmetry == Permutations(Huge) \cup Permutations(Nodes)
=============================================================================
