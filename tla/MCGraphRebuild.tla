--------------------------- MODULE MCGraphRebuild ---------------------------
(***************************************************************************)
(* The instance of GraphRebuild for TLC.                                   *)
(***************************************************************************)
EXTENDS GraphRebuild, TLC

Symmetry == Permutations(Memories) \cup Permutations(Titles) \cup Permutations(Bodies)
=============================================================================
