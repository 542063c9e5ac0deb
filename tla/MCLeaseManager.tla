--------------------------- MODULE MCLeaseManager ---------------------------
(***************************************************************************)
(* LeaseManager for TLC: two request threads and the reaper, each with an  *)
(* identity of its own.                                                    *)
(***************************************************************************)
EXTENDS LeaseManager, TLC

MCHolders == Procs
MCHolderOf == [p \in Procs |-> p]
MCExtensions == {1, 2}

\* Two helper processes whose request threads bear the same PID and name.
SharedHolderOf == [p \in Procs |-> IF p \in Wakers THEN CHOOSE w \in Wakers : TRUE ELSE p]
Symmetry == Permutations(Wakers)
=============================================================================
