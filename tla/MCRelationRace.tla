--------------------------- MODULE MCRelationRace ---------------------------
(***************************************************************************)
(* The instance of RelationRace for TLC.                                   *)
(***************************************************************************)
EXTENDS RelationRace, TLC

Symmetry == Permutations(Memories) \cup Permutations(Titles) \cup Permutations(Bodies)
=============================================================================
