-------------------------- MODULE MCVerifyAttempts --------------------------
(***************************************************************************)
(* The instance of VerifyAttempts for TLC.                                 *)
(***************************************************************************)
EXTENDS VerifyAttempts, TLC

VerifySymmetry == Permutations(Ips) \cup Permutations(Devices)
=============================================================================
