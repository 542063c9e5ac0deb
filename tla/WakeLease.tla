----------------------------- MODULE WakeLease -----------------------------
(***************************************************************************)
(* What the wake Lease promises to every part of awx-autoscale: a register *)
(* that names a holder and the time left of its window (min_awake_until    *)
(* minus now).  While there is time left only the named holder may write   *)
(* it, and only time or the named holder shortens the window.              *)
(*                                                                         *)
(* LeaseManager.tla, the compare-and-set loop request by request, is shown *)
(* to implement this register; AwxAutoscale.tla, where a call of that loop *)
(* is one step, is shown to ask no more of it.                             *)
(***************************************************************************)
EXTENDS Naturals

CONSTANTS Holders,   \* the holderIdentity strings callers write
          NoHolder   \* nobody has the Lease

VARIABLES holder,    \* who holds the Lease
          left       \* how long AWX is still to be kept awake

vars == <<holder, left>>

TypeOK == /\ holder \in Holders \cup {NoHolder}
          /\ left \in Nat

Init == holder = NoHolder /\ left = 0

Tick == /\ left' = IF left = 0 THEN 0 ELSE left - 1
        /\ UNCHANGED holder

\* A caller takes the Lease: free, run out, or already its own.  The window
\* never shrinks.
Acquire(h) == /\ holder = h \/ left = 0
              /\ holder' = h
              /\ left' \in Nat
              /\ left' >= left

\* The holder replaces its own floor, up or down (#312).
Rewrite(h) == /\ holder = h
              /\ holder' = h
              /\ left' \in Nat

\* An administrator deletes the Lease object.
Vanish == /\ holder # NoHolder
          /\ holder' = NoHolder
          /\ left' = 0

Next == \/ Tick
        \/ \E h \in Holders : Acquire(h) \/ Rewrite(h)
        \/ Vanish

Spec == Init /\ [][Next]_vars
=============================================================================
