----------------------------- MODULE MCBANVault -----------------------------
(***************************************************************************)
(* Instances of BANVault for TLC.                                          *)
(***************************************************************************)
EXTENDS BANVault, TLC

Symmetry == Permutations(JobIds)
=============================================================================
