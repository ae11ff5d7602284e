----------------------------- MODULE MCInitAuth -----------------------------
(***************************************************************************)
(* The instance of InitAuth for TLC.                                       *)
(***************************************************************************)
EXTENDS InitAuth, TLC

ClientSymmetry == Permutations(Pages) \cup Permutations(Commands)
=============================================================================
