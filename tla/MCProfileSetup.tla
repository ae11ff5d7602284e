--------------------------- MODULE MCProfileSetup ---------------------------
(***************************************************************************)
(* The instance of ProfileSetup for TLC.  Share is none of the profiles: a *)
(* target it does not fit is refused, and so may any other be.             *)
(***************************************************************************)
EXTENDS ProfileSetup, TLC

ProfileSymmetry == Permutations(Calls) \cup Permutations(Profiles)
=============================================================================
