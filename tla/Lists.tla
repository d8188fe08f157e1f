------------------------------- MODULE Lists --------------------------------
(***************************************************************************)
(* The lists and arrays of the allocator, as sequences.  The two operators *)
(* here are RemoveAt and InsertAt of SequencesExt: a module that the       *)
(* proofs are about extends this one instead, because tlapm carries every  *)
(* definition in scope through every obligation.                           *)
(***************************************************************************)
EXTENDS Integers, Sequences, Functions

\* The sequence without its entry i.
Cut(s, i) == SubSeq(s, 1, i - 1) \o SubSeq(s, i + 1, Len(s))

\* The sequence with e before its entry i, or at its end.
Insert(s, i, e) == (SubSeq(s, 1, i - 1) \o <<e>>) \o SubSeq(s, i, Len(s))
=============================================================================
