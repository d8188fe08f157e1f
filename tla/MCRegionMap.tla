---------------------------- MODULE MCRegionMap -----------------------------
(* Small instances of RegionMap: ranges of one and two pages among four. *)
EXTENDS RegionMap

MCRegions == {r \in [start : 1 .. 4, end : 2 .. 5] : r.start < r.end /\ r.end <= r.start + 2}

=============================================================================
