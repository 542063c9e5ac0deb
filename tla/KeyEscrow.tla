------------------------------ MODULE KeyEscrow ------------------------------
(***************************************************************************)
(* What the OpenBao bootstrap promises of the keys of a storage: they are  *)
(* escrowed in the break-glass file before the storage is put to use, stay *)
(* escrowed, and the root token is given up only then.                     *)
(* OpenBaoBootstrap.tla is shown to implement this.                        *)
(***************************************************************************)
VARIABLES phase,  \* of the storage
          used    \* it has users

Init == phase = "blank" /\ used = FALSE

\* `operator init` makes the keys: the role has them only in memory.
Initialise == phase = "blank" /\ phase' = "bare" /\ UNCHANGED used
Escrow == phase = "bare" /\ phase' = "escrowed" /\ UNCHANGED used
Use == phase \in {"escrowed", "handedOver"} /\ used' = TRUE /\ UNCHANGED phase
HandOver == phase = "escrowed" /\ used /\ phase' = "handedOver" /\ UNCHANGED used

\* Somebody deletes the storage.
Wipe == phase' = "blank" /\ used' = FALSE

Next == Initialise \/ Escrow \/ Use \/ HandOver \/ Wipe

Spec == Init /\ [][Next]_<<phase, used>>
=============================================================================
