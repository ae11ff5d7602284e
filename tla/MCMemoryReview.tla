--------------------------- MODULE MCMemoryReview ---------------------------
(***************************************************************************)
(* Instances of MemoryReview for TLC.                                      *)
(***************************************************************************)
EXTENDS MemoryReview, TLC

Symmetry ==
  Permutations(Memories) \cup Permutations(Titles) \cup Permutations(Bodies) \cup Permutations(Keywords)
=============================================================================
