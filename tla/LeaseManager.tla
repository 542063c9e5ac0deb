---------------------------- MODULE LeaseManager ----------------------------
(***************************************************************************)
(* LeaseManager of awx_autoscale_helper.py: create_or_update and           *)
(* record_sleep, run by the threads of one or more helper processes        *)
(* against one coordination.k8s.io/Lease object.  Every request to the API *)
(* server is a step of its own, so other threads, the clock and failures   *)
(* come between the GET, the decision and the conditional PUT.             *)
(***************************************************************************)
EXTENDS Naturals

CONSTANTS Wakers,      \* request threads running do_ensure_awake
          Reaper,      \* the idle-reaper thread
          HolderOf,    \* the holderIdentity each thread writes
          Holders,     \* the identities that occur
          NoHolder,    \* mapped to WakeLease: there is no Lease
          MaxRetries,  \* the max_retries argument, 5 in the code
          Extensions,  \* how far ahead a caller asks the floor to be set
          MaxTime, MaxCalls, MaxDeletes   \* bounds of the model

Procs == Wakers \cup {Reaper}

ASSUME HolderAssumption == HolderOf \in [Procs -> Holders]
ASSUME NoHolderAssumption == NoHolder \notin Holders
ASSUME NumberAssumption == /\ MaxRetries \in Nat \ {0}
                           /\ Extensions \subseteq Nat
                           /\ {MaxTime, MaxCalls, MaxDeletes} \subseteq Nat

VARIABLES now,       \* time.time()
          lease,     \* the Lease object in etcd, or NoLease
          rev,       \* the last resourceVersion the API server gave out
          deletes,   \* Lease objects deleted so far
          pc,        \* per thread: the request it makes next
          snap,      \* per thread: `existing`, the object its GET returned
          req,       \* per thread: min_awake_until and allow_owner_shrink
          attempt,   \* per thread: the loop index
          calls,     \* calls made so far
          outcome,   \* per thread: what the last call said
          ret        \* per thread: the Lease it acquired with its last call

vars == <<now, lease, rev, deletes, pc, snap, req, attempt, calls, outcome, ret>>
server == <<lease, rev, deletes>>
-----------------------------------------------------------------------------
\* A Lease object; uid tells a re-created object from the one deleted.
Revisions == Nat \ {0}
LeaseObject == [uid : Revisions, rv : Revisions, holder : Holders, floor : Nat]
NoLease == [uid |-> 0, rv |-> 0, holder |-> NoHolder, floor |-> 0]
Leases == LeaseObject \cup {NoLease}

Requests == [min : Nat, shrink : BOOLEAN]
NoRequest == [min |-> 0, shrink |-> FALSE]

Locations == {"idle", "get", "post", "reread", "decide", "put", "final",
              "sleepGet", "sleepPut"}
Outcomes == {"none", "acquired", "refused", "raised"}

TypeOK == /\ now \in Nat
          /\ lease \in Leases
          /\ rev \in Nat
          /\ deletes \in Nat
          /\ pc \in [Procs -> Locations]
          /\ snap \in [Procs -> Leases]
          /\ req \in [Procs -> Requests]
          /\ attempt \in [Procs -> Nat]
          /\ calls \in Nat
          /\ outcome \in [Procs -> Outcomes]
          /\ ret \in [Procs -> Leases]

Init == /\ now = 0
        /\ lease = NoLease
        /\ rev = 0
        /\ deletes = 0
        /\ pc = [p \in Procs |-> "idle"]
        /\ snap = [p \in Procs |-> NoLease]
        /\ req = [p \in Procs |-> NoRequest]
        /\ attempt = [p \in Procs |-> 0]
        /\ calls = 0
        /\ outcome = [p \in Procs |-> "none"]
        /\ ret = [p \in Procs |-> NoLease]
-----------------------------------------------------------------------------
Goto(p, l) == pc' = [pc EXCEPT ![p] = l]

\* The call ends: acquired with Lease l, not acquired (the copy it returns is
\* only logged), or with an exception.  Its locals are gone.
Return(p, o, l) == /\ Goto(p, "idle")
                   /\ outcome' = [outcome EXCEPT ![p] = o]
                   /\ ret' = [ret EXCEPT ![p] = l]
                   /\ snap' = [snap EXCEPT ![p] = NoLease]
                   /\ attempt' = [attempt EXCEPT ![p] = 0]
                   /\ req' = [req EXCEPT ![p] = NoRequest]

\* `continue`: the next attempt, or the best-effort read once they are used up.
Retry(p) == /\ attempt' = [attempt EXCEPT ![p] = @ + 1]
            /\ Goto(p, IF attempt[p] + 1 < MaxRetries THEN "get" ELSE "final")
            /\ UNCHANGED <<snap, req, outcome, ret>>

\* The API server accepts a write: a new resourceVersion, kept uid.
Store(l) == /\ rev' = rev + 1
            /\ lease' = [l EXCEPT !.rv = rev + 1]
            /\ UNCHANGED deletes

\* Fault: the PUT does not carry the resourceVersion of the copy.
UnconditionalPut(p) == lease # NoLease

\* The API server rejects a PUT of a copy of another revision.
Unconflicted(p) == lease # NoLease /\ lease.rv = snap[p].rv

\* Fault: the rewrite is honoured without the owner check.
AnyoneRewrites(p) ==
  IF req[p].shrink \/ snap[p].floor < req[p].min THEN req[p].min ELSE snap[p].floor

\* The new floor: a true rewrite for the owner that asks for one, else the
\* later of the two.
EffectiveMin(p) ==
  IF req[p].shrink /\ snap[p].holder = HolderOf[p]
  THEN req[p].min
  ELSE IF snap[p].floor >= req[p].min THEN snap[p].floor ELSE req[p].min

\* The object create_or_update PUTs.
Written(p) == [snap[p] EXCEPT !.holder = HolderOf[p], !.floor = EffectiveMin(p)]

\* Fault: the POST leaves holderIdentity out.
CreatedUnnamed(p) == [uid |-> rev + 1, rv |-> rev + 1,
                      holder |-> NoHolder, floor |-> req[p].min]

\* The object create_or_update POSTs.
Created(p) == [uid |-> rev + 1, rv |-> rev + 1,
               holder |-> HolderOf[p], floor |-> req[p].min]

\* Fault: a Lease counts as run out in the last moment of its window.
ExpiresEarly(l) == l.floor <= now + 1

LeaseExpired(l) == l.floor <= now
-----------------------------------------------------------------------------
Tick == /\ now < MaxTime
        /\ now' = now + 1
        /\ UNCHANGED <<server, pc, snap, req, attempt, calls, outcome, ret>>

\* A thread calls create_or_update(now + d, holder, allow_owner_shrink=s).
\* Only request threads ask to shrink.
Call(p, d, s) ==
  /\ pc[p] = "idle" /\ calls < MaxCalls
  /\ s => p \in Wakers
  /\ Goto(p, "get")
  /\ req' = [req EXCEPT ![p] = [min |-> now + d, shrink |-> s]]
  /\ calls' = calls + 1
  /\ outcome' = [outcome EXCEPT ![p] = "none"]
  /\ UNCHANGED <<now, server, snap, attempt, ret>>

\* existing = self.get(); None (a 404) leads to the create path.
Get(p) ==
  /\ pc[p] = "get"
  /\ snap' = [snap EXCEPT ![p] = lease]
  /\ Goto(p, IF lease = NoLease THEN "post" ELSE "decide")
  /\ UNCHANGED <<now, server, req, attempt, calls, outcome, ret>>

\* POST: created, or a 409 because another thread created it first.
PostCreates(p) ==
  /\ pc[p] = "post" /\ lease = NoLease
  /\ lease' = Created(p) /\ rev' = rev + 1
  /\ Return(p, "acquired", Created(p))
  /\ UNCHANGED <<now, deletes, calls>>

PostConflicts(p) ==
  /\ pc[p] = "post" /\ lease # NoLease
  /\ Goto(p, "reread")
  /\ UNCHANGED <<now, server, snap, req, attempt, calls, outcome, ret>>

\* After a 409 on the create: somebody else's Lease is not taken over; if it
\* is gone again the loop goes on.
Reread(p) ==
  /\ pc[p] = "reread"
  /\ IF lease # NoLease THEN Return(p, "refused", NoLease) ELSE Retry(p)
  /\ UNCHANGED <<now, server, calls>>

\* now = time.time() is read after the GET, and the owner check made on the
\* copy.
DecideRefuse(p) ==
  /\ pc[p] = "decide"
  /\ ~LeaseExpired(snap[p]) /\ snap[p].holder # HolderOf[p]
  /\ Return(p, "refused", NoLease)
  /\ UNCHANGED <<now, server, calls>>

\* Fault: the owner check is left out.
DecideWriteAnyway(p) ==
  /\ pc[p] = "decide"
  /\ Goto(p, "put")
  /\ UNCHANGED <<now, server, snap, req, attempt, calls, outcome, ret>>

DecideWrite(p) ==
  /\ pc[p] = "decide"
  /\ LeaseExpired(snap[p]) \/ snap[p].holder = HolderOf[p]
  /\ Goto(p, "put")
  /\ UNCHANGED <<now, server, snap, req, attempt, calls, outcome, ret>>

PutStores(p) ==
  /\ pc[p] = "put" /\ Unconflicted(p)
  /\ Store(Written(p))
  /\ Return(p, "acquired", [Written(p) EXCEPT !.rv = rev + 1])
  /\ UNCHANGED <<now, calls>>

\* 409: another revision is there, or none.
PutConflicts(p) ==
  /\ pc[p] = "put" /\ ~Unconflicted(p)
  /\ Retry(p)
  /\ UNCHANGED <<now, server, calls>>

\* Retries used up: a best-effort read, not acquired.
Final(p) ==
  /\ pc[p] = "final"
  /\ Return(p, "refused", NoLease)
  /\ UNCHANGED <<now, server, calls>>

\* record_sleep, called by patch_awx_asleep: annotate the Lease, if there is
\* one.  The annotation itself is left out; the write is of the whole copy.
RecordSleep ==
  /\ pc[Reaper] = "idle" /\ calls < MaxCalls
  /\ Goto(Reaper, "sleepGet")
  /\ calls' = calls + 1
  /\ outcome' = [outcome EXCEPT ![Reaper] = "none"]
  /\ UNCHANGED <<now, server, snap, req, attempt, ret>>

SleepGet ==
  /\ pc[Reaper] = "sleepGet"
  /\ IF lease = NoLease
     THEN Return(Reaper, "none", NoLease)
     ELSE /\ snap' = [snap EXCEPT ![Reaper] = lease]
          /\ Goto(Reaper, "sleepPut")
          /\ UNCHANGED <<req, attempt, outcome, ret>>
  /\ UNCHANGED <<now, server, calls>>

\* A conflict is an HTTPError and is passed over.
SleepPut ==
  /\ pc[Reaper] = "sleepPut"
  /\ IF Unconflicted(Reaper) THEN Store(snap[Reaper]) ELSE UNCHANGED server
  /\ Return(Reaper, "none", NoLease)
  /\ UNCHANGED <<now, calls>>

\* A request that never reached the server, an error that is not a 409, or
\* the end of the process: an exception leaves create_or_update.
Raise(p) ==
  /\ pc[p] \notin {"idle", "decide"}
  /\ Return(p, "raised", NoLease)
  /\ UNCHANGED <<now, server, calls>>

\* The write is stored and its response lost.
PostUnanswered(p) ==
  /\ pc[p] = "post" /\ lease = NoLease
  /\ lease' = Created(p) /\ rev' = rev + 1
  /\ Return(p, "raised", NoLease)
  /\ UNCHANGED <<now, deletes, calls>>

PutUnanswered(p) ==
  /\ pc[p] = "put" /\ Unconflicted(p)
  /\ Store(Written(p))
  /\ Return(p, "raised", NoLease)
  /\ UNCHANGED <<now, calls>>

\* An administrator deletes the object; the helper's Role cannot.
DeleteLease ==
  /\ deletes < MaxDeletes /\ lease # NoLease
  /\ lease' = NoLease
  /\ deletes' = deletes + 1
  /\ UNCHANGED <<now, rev, pc, snap, req, attempt, calls, outcome, ret>>

Step(p) == \/ \E d \in Extensions, s \in BOOLEAN : Call(p, d, s)
           \/ Get(p)
           \/ PostCreates(p) \/ PostConflicts(p) \/ PostUnanswered(p)
           \/ Reread(p)
           \/ DecideRefuse(p) \/ DecideWrite(p)
           \/ PutStores(p) \/ PutConflicts(p) \/ PutUnanswered(p)
           \/ Final(p)
           \/ Raise(p)

Next == \/ Tick
        \/ \E p \in Procs : Step(p)
        \/ RecordSleep \/ SleepGet \/ SleepPut
        \/ DeleteLease

Spec == Init /\ [][Next]_vars
-----------------------------------------------------------------------------
\* A caller that was told it acquired the Lease can count on it: while that
\* object exists and the floor it was given is in the future, the Lease names
\* this caller and the floor has not been lowered behind its back, if no other
\* thread writes under the same name.  (create_or_update's `acquired`.)
Granted(p) == /\ outcome[p] = "acquired"
              /\ now < ret[p].floor
              /\ lease # NoLease /\ lease.uid = ret[p].uid

NamesItsOwner(p) == \A q \in Procs \ {p} : HolderOf[q] # HolderOf[p]

GrantHonoured ==
  \A p \in Procs : NamesItsOwner(p) /\ Granted(p)
     => lease.holder = HolderOf[p] /\ lease.floor >= ret[p].floor

\* Single flight: two threads never both hold an acquire that is still in
\* force on the same Lease.  (The header comment of the Lease section; it
\* needs every thread to have an identity of its own.)
SingleFlight ==
  \A p, q \in Procs : p # q /\ Granted(p) => ~Granted(q)

\* A Lease whose floor is in the future is never taken over by another
\* identity, whatever copy the other thread decided on and however late its
\* PUT arrives.  ("don't steal")
NotStolen == lease # NoLease /\ ~LeaseExpired(lease)
             => lease'.holder \in {lease.holder, NoHolder}
ActiveLeaseNotStolen == [][NotStolen]_vars

\* The floor goes down in one way only: the PUT of a thread that holds the
\* Lease and asked for the rewrite.  In particular neither record_sleep nor
\* the losing side of a race brings an older floor back.  (#312)
RewrittenByOwner == \E p \in Procs : /\ pc[p] = "put" /\ pc'[p] = "idle"
                                     /\ req[p].shrink
                                     /\ HolderOf[p] = lease.holder
LoweredByOwner == lease # NoLease /\ lease' # NoLease /\ lease'.floor < lease.floor
                  => RewrittenByOwner
OnlyOwnerShrinks == [][LoweredByOwner]_vars

\* The loop implements the register other components rely on.
Left == IF lease.floor > now THEN lease.floor - now ELSE 0
Register == INSTANCE WakeLease WITH holder <- lease.holder, left <- Left
ImplementsWakeLease == Register!Spec
=============================================================================
