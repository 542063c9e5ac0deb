--------------------------- MODULE OneTimeRequest ---------------------------
(***************************************************************************)
(* What a setup-only request promises: it is taken at most once, one       *)
(* SecretID at most is minted for it, and only after it was taken, and a   *)
(* SecretID that cannot be used any more never comes back.                 *)
(* SetupOnlyIssuance.tla, the runs of born_inventory_cli.py, is shown to   *)
(* implement this specification.                                           *)
(***************************************************************************)
CONSTANT Requests

VARIABLES taken,   \* requests that were claimed
          minted,  \* requests a SecretID was ever minted for
          usable   \* requests whose SecretID still opens the AppRole

Init == taken = {} /\ minted = {} /\ usable = {}

Take(r) == /\ r \notin taken
           /\ taken' = taken \cup {r}
           /\ UNCHANGED <<minted, usable>>

Mint(r) == /\ r \in taken \ minted
           /\ minted' = minted \cup {r}
           /\ usable' = usable \cup {r}
           /\ UNCHANGED taken

\* Used up, destroyed or expired.
Retire(r) == /\ r \in usable
             /\ usable' = usable \ {r}
             /\ UNCHANGED <<taken, minted>>

Next == \E r \in Requests : Take(r) \/ Mint(r) \/ Retire(r)

Spec == Init /\ [][Next]_<<taken, minted, usable>>
=============================================================================
