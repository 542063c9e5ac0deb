--------------------------- MODULE MCAwxAutoscale ---------------------------
(***************************************************************************)
(* AwxAutoscale for TLC: two clients.                                      *)
(***************************************************************************)
EXTENDS AwxAutoscale, TLC

Symmetry == Permutations(Clients)
=============================================================================
