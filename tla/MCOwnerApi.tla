----------------------------- MODULE MCOwnerApi -----------------------------
(***************************************************************************)
(* Instances of OwnerApi for TLC.                                          *)
(***************************************************************************)
EXTENDS OwnerApi, TLC

Symmetry == Permutations(Requests)
=============================================================================
