------------------------ MODULE MCSetupOnlyIssuance ------------------------
(***************************************************************************)
(* SetupOnlyIssuance for TLC.                                              *)
(***************************************************************************)
EXTENDS SetupOnlyIssuance, TLC

Symmetry == Permutations(Runs)
=============================================================================
