----------------------------- MODULE MCSlabPool -----------------------------
(***************************************************************************)
(* Small instances of SlabPool.  Class c1 has pages of two slots, class c2 *)
(* pages of three, so that the classes compete for pages and the max-pick  *)
(* of the partials has something to tell apart.                            *)
(***************************************************************************)
EXTENDS SlabPool

CONSTANTS c1, c2

MCSlots == [c \in Classes |-> IF c = c1 THEN {1, 2} ELSE {1, 2, 3}]

=============================================================================
