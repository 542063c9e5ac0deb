------------------------- MODULE MCApproleDelivery -------------------------
(***************************************************************************)
(* ApproleDelivery for TLC: an object-storage target with its record and   *)
(* its Secret, and a record key that is nobody's destination.              *)
(***************************************************************************)
EXTENDS ApproleDelivery, TLC

CONSTANTS rec, sec, id, other, t1, t2, e1, e2

TheDestinations == {[place |-> rec, key |-> id], [place |-> sec, key |-> id]}
Symmetry == Permutations(Transactions) \cup Permutations(ExternalSecrets)
=============================================================================
