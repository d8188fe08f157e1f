---------------------------- MODULE MCLargeCache ----------------------------
(* Small instances of LargeCache: three sizes of request, of which two share *)
(* an mmap_size across the two classes.                                      *)
EXTENDS LargeCache, TLC

MCRequests == {<<"large", 1>>, <<"large", 2>>, <<"huge", 2>>}

Symmetry == Permutations(Threads) \cup Permutations(Regions)
=============================================================================
