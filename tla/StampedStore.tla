---------------------------- MODULE StampedStore ----------------------------
(***************************************************************************)
(* What the delivery adapters promise of the objects they write: a         *)
(* delivery is one atomic step that sets its key and the transaction's     *)
(* stamp together and leaves every other key as it is at that moment.      *)
(* ApproleDelivery.tla, where a KV v2 delivery is a read and a checked     *)
(* write with other writers in between, is shown to implement this.        *)
(***************************************************************************)
CONSTANTS Objects, Keys, Transactions, Values, None

VARIABLES value,  \* per object: its keys
          stamp   \* per object: the transaction stamped on it

Init == /\ value \in [Objects -> [Keys -> Values]]
        /\ stamp = [o \in Objects |-> None]

Deliver(o, k, t) == /\ value' = [value EXCEPT ![o][k] = t]
                    /\ stamp' = [stamp EXCEPT ![o] = t]

\* A writer that knows nothing of transactions sets one key,
Merge(o, k, v) == /\ value' = [value EXCEPT ![o][k] = v]
                  /\ UNCHANGED stamp

\* or puts an object of one key in the place of the old one, stamp and all.
Replace(o, k, v) ==
  /\ value' = [value EXCEPT ![o] = [j \in Keys |-> IF j = k THEN v ELSE None]]
  /\ stamp' = [stamp EXCEPT ![o] = None]

Next == \E o \in Objects, k \in Keys :
          \/ \E t \in Transactions : Deliver(o, k, t)
          \/ \E v \in Values : Merge(o, k, v) \/ Replace(o, k, v)

Spec == Init /\ [][Next]_<<value, stamp>>
=============================================================================
