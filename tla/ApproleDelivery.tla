-------------------------- MODULE ApproleDelivery --------------------------
(***************************************************************************)
(* Rotation transactions that deliver a SecretID through the adapters of   *)
(* adapters.py and then read the ExternalSecret gate, beside the role      *)
(* object-storage-credentials, which writes the same record and the same   *)
(* Secret, other writers of the record, and the External Secrets Operator. *)
(*                                                                         *)
(* The adapters' caller is not in the repository.  It is taken to go over  *)
(* the destinations in any order, to pass over one that has the            *)
(* transaction's marker, and to begin again, with the same SecretID, after *)
(* an error or a crash.  A SecretID is named by its transaction.           *)
(***************************************************************************)
EXTENDS Naturals

CONSTANTS Transactions,
          Records, Secrets,      \* KV v2 records and Kubernetes Secrets
          Keys,
          Destinations,          \* the target's destinations, [place, key]
          ExternalSecrets,       \* one for each namespace of the gate
          Binding, BindingKey,   \* what object-storage-credentials writes:
          AuthSecret, AuthKey,   \* the eso-binding record, the ESO Secret
          Installed,             \* any SecretID that role has generated
          None,
          MaxClock,              \* bound: seconds
          MaxRestarts,           \* bound: restarts of a transaction
          MaxForeign             \* bound: what others do and ESO fails to do

Objects == Records \cup Secrets
Values == Transactions \cup {Installed, None}

ASSUME ObjectAssumption ==
  /\ Records \cap Secrets = {} /\ Binding \in Records /\ AuthSecret \in Secrets
  /\ {BindingKey, AuthKey} \subseteq Keys
  /\ {Installed, None} \cap Transactions = {} /\ Installed # None
ASSUME DestinationAssumption == Destinations \subseteq [place : Objects, key : Keys]
\* So the registry has it: a target writes one key of an object.  (validate
\* would take two.)
ASSUME OneKeyEach == \A d, e \in Destinations : d.place = e.place => d = e
ASSUME BoundAssumption == {MaxClock, MaxRestarts, MaxForeign} \subseteq Nat

VARIABLES value,      \* per object: its keys
          stamp,      \* per object: TRANSACTION_ANNOTATION or TRANSACTION_KEY
          version,    \* per record: its KV v2 version, 0 when there is none
          pc, at,     \* per transaction: the next call, the destination
          left,       \* per transaction: destinations not yet seen to
          copy,       \* per transaction: what read_kv2 returned
          since,      \* per transaction: the time of the delivery, in seconds
          unchecked,  \* per transaction: namespaces the gate has yet to read
          restarts,   \* restarts of a transaction so far
          rolePc, roleCopy,  \* the role: its next step, the SecretID it read
          foreign,    \* bounded: role runs, edits, failed refreshes, moves
          clock,      \* seconds
          reads,      \* per ExternalSecret: it names the expected store
          ready, refreshed,  \* its Ready condition and refreshTime
          reached,    \* history: destinations the SecretID was stored in
          rewritten,  \* history: Secrets the role wrote after a delivery
          renewed,    \* history: refreshed since the delivery, as expected
          moved       \* history: ExternalSecrets whose store was changed

store == <<value, stamp, version>>
txn == <<pc, at, left, copy, since, unchecked, restarts>>
role == <<rolePc, roleCopy>>
eso == <<clock, reads, ready, refreshed>>
history == <<reached, rewritten, renewed, moved>>
vars == <<store, txn, role, foreign, eso, history>>

Locations == {"pick", "look", "read", "write", "patch", "failed", "gate", "passed"}
Copies == [value : [Keys -> Values], version : Nat]
Empty == [k \in Keys |-> None]

NoCopy == [value |-> Empty, version |-> 0]
To(places) == {d \in Destinations : d.place \in places}

TypeOK ==
  /\ value \in [Objects -> [Keys -> Values]]
  /\ stamp \in [Objects -> Transactions \cup {None}]
  /\ version \in [Records -> Nat]
  /\ pc \in [Transactions -> Locations]
  /\ at \in [Transactions -> Destinations \cup {None}] /\ left \in [Transactions -> SUBSET Destinations]
  /\ copy \in [Transactions -> Copies]
  /\ since \in [Transactions -> 0 .. MaxClock]
  /\ unchecked \in [Transactions -> SUBSET ExternalSecrets]
  /\ restarts \in 0 .. MaxRestarts
  /\ rolePc \in {"rest", "put", "read", "apply"} /\ roleCopy \in Values
  /\ foreign \in 0 .. MaxForeign /\ clock \in 0 .. MaxClock
  /\ reads \in [ExternalSecrets -> BOOLEAN] /\ ready \in [ExternalSecrets -> BOOLEAN]
  /\ refreshed \in [ExternalSecrets -> 0 .. MaxClock]
  /\ reached \in [Transactions -> SUBSET Destinations]
  /\ rewritten \subseteq Secrets
  /\ renewed \in [Transactions -> SUBSET ExternalSecrets]
  /\ moved \subseteq ExternalSecrets
  \* The adapter for a kind of object makes that kind of call.
  /\ \A t \in Transactions : /\ pc[t] \in {"read", "write"} => at[t] \in To(Records)
                             /\ pc[t] = "patch" => at[t] \in To(Secrets)

\* The role has run before the first rotation, or not yet.
Init ==
  /\ \/ value = [o \in Objects |-> Empty] /\ version = [r \in Records |-> 0]
     \/ /\ value = [o \in Objects |->
             IF o = Binding THEN [Empty EXCEPT ![BindingKey] = Installed]
             ELSE IF o = AuthSecret THEN [Empty EXCEPT ![AuthKey] = Installed] ELSE Empty]
        /\ version = [r \in Records |-> IF r = Binding THEN 1 ELSE 0]
  /\ stamp = [o \in Objects |-> None]
  /\ pc = [t \in Transactions |-> "pick"] /\ at = [t \in Transactions |-> None]
  /\ left = [t \in Transactions |-> Destinations]
  /\ copy = [t \in Transactions |-> NoCopy]
  /\ since = [t \in Transactions |-> 0]
  /\ unchecked = [t \in Transactions |-> {}]
  /\ rolePc = "rest" /\ roleCopy = None /\ foreign = 0 /\ clock = 0 /\ restarts = 0
  /\ reads \in [ExternalSecrets -> BOOLEAN] /\ ready = [e \in ExternalSecrets |-> TRUE]
  /\ refreshed = [e \in ExternalSecrets |-> 0]
  /\ reached = [t \in Transactions |-> {}] /\ rewritten = {}
  /\ renewed = [t \in Transactions |-> {}] /\ moved = {}
-----------------------------------------------------------------------------
(* Delivery. *)

Goto(t, l) == pc' = [pc EXCEPT ![t] = l]

\* A delivery ends, one way or the other.
Leave(t, l) == /\ Goto(t, l)
               /\ at' = [at EXCEPT ![t] = None] /\ copy' = [copy EXCEPT ![t] = NoCopy]

\* Fault: any marker will do.
Stamped(t, o) == stamp[o] # None
\* marker and has_marker.
HasMarker(t, o) == stamp[o] = t

\* Fault: every destination is taken for a Secret.
AlwaysPatch(d) == "patch"
\* build_destination: the adapter for the kind of object.
FirstCall(d) == IF d.place \in Records THEN "read" ELSE "patch"

\* The caller turns to a destination, and passes over it if it has the marker.
Look(t) ==
  /\ pc[t] = "pick"
  /\ \E d \in left[t] :
       IF HasMarker(t, d.place)
       THEN left' = [left EXCEPT ![t] = @ \ {d}] /\ UNCHANGED <<pc, at>>
       ELSE /\ at' = [at EXCEPT ![t] = d]
            /\ Goto(t, FirstCall(d))
            /\ UNCHANGED left
  /\ UNCHANGED <<store, copy, since, unchecked, restarts, role, foreign, eso, history>>

\* OpenBaoKv2RecordDestination.deliver: read_kv2, then write_kv2 of the merged
\* record, checked and set on the version that was read.
ReadRecord(t) ==
  /\ pc[t] = "read"
  /\ copy' = [copy EXCEPT ![t] = [value |-> value[at[t].place],
                                  version |-> version[at[t].place]]]
  /\ Goto(t, "write")
  /\ UNCHANGED <<store, at, left, since, unchecked, restarts, role, foreign, eso, history>>

\* What a delivery leaves at the place: c with the key and the marker set.
\* Fault: in the merge, what was read wins over what is delivered.
OldWins(t, c) == [c EXCEPT ![at[t].key] = IF @ = None THEN t ELSE @]
Merged(t, c) == [c EXCEPT ![at[t].key] = t]

\* The delivery took effect; the call returns, or its answer is lost.
Delivered(t, c) ==
  /\ value' = [value EXCEPT ![at[t].place] = Merged(t, c)]
  /\ stamp' = [stamp EXCEPT ![at[t].place] = t]
  /\ reached' = [reached EXCEPT ![t] = @ \cup {at[t]}]
  /\ rewritten' = rewritten \ {at[t].place}
  /\ \/ Leave(t, "pick") /\ left' = [left EXCEPT ![t] = @ \ {at[t]}]
     \/ Leave(t, "failed") /\ UNCHANGED left
  /\ UNCHANGED <<since, unchecked, restarts, role, foreign, eso, renewed, moved>>

\* Fault: the write is not checked.
Unchecked(t) == TRUE
Current(t) == version[at[t].place] = copy[t].version

WriteRecord(t) ==
  /\ pc[t] = "write" /\ Current(t)
  /\ version' = [version EXCEPT ![at[t].place] = @ + 1]
  /\ Delivered(t, copy[t].value)

\* KubernetesSecretKeyDestination.deliver: one patch sets the key and the
\* annotations, whatever the Secret holds.
PatchSecret(t) ==
  /\ pc[t] = "patch"
  /\ Delivered(t, value[at[t].place])
  /\ UNCHANGED version

\* A call fails without effect, a check-and-set conflict, a malformed
\* transaction, an interrupt, or the end of the process.
Abort(t) ==
  /\ pc[t] \notin {"failed", "passed"}
  /\ Leave(t, "failed")
  /\ UNCHANGED <<store, left, since, unchecked, restarts, role, foreign, eso, history>>

Retry(t) ==
  /\ pc[t] = "failed" /\ restarts < MaxRestarts
  /\ restarts' = restarts + 1
  /\ left' = [left EXCEPT ![t] = Destinations]
  /\ Goto(t, "pick")
  /\ UNCHANGED <<store, at, copy, since, unchecked, role, foreign, eso, history>>
-----------------------------------------------------------------------------
(* The ExternalSecret gate. *)

\* Every destination is seen to; this is the delivery time.
AllDelivered(t) ==
  /\ pc[t] = "pick" /\ left[t] = {}
  /\ since' = [since EXCEPT ![t] = clock]
  /\ unchecked' = [unchecked EXCEPT ![t] = ExternalSecrets]
  /\ renewed' = [renewed EXCEPT ![t] = {}]
  /\ Goto(t, "gate")
  /\ UNCHANGED <<store, at, left, copy, restarts, role, foreign, eso, reached, rewritten, moved>>

\* Fault: a refresh in the second of the delivery counts.
RefreshedBy(t, e) == reads[e] /\ ready[e] /\ refreshed[e] >= since[t]
\* The expected store, Ready, and refreshed strictly after the delivery.
Passes(t, e) == reads[e] /\ ready[e] /\ refreshed[e] > since[t]

\* ExternalSecretGate.check reads one namespace after the other, and fails at
\* the first that does not pass or cannot be read; the caller checks again.
GateReads(t) ==
  /\ pc[t] = "gate"
  /\ \E e \in unchecked[t] :
       unchecked' \in {[unchecked EXCEPT ![t] = u] :
                         u \in {ExternalSecrets} \cup IF Passes(t, e) THEN {unchecked[t] \ {e}} ELSE {}}
  /\ UNCHANGED <<store, pc, at, left, copy, since, restarts, role, foreign, eso, history>>

\* Every namespace has passed.  evaluate_target accepts no target even so.
GatePasses(t) ==
  /\ pc[t] = "gate" /\ unchecked[t] = {}
  /\ Goto(t, "passed")
  /\ UNCHANGED <<store, at, left, copy, since, unchecked, restarts, role, foreign, eso, history>>
-----------------------------------------------------------------------------
(* object-storage-credentials, others, ESO and the clock. *)

Foreign == foreign < MaxForeign /\ foreign' = foreign + 1

\* Steps 4 to 6: a binding that is missing, or could not be read, is made anew.
RoleChecks ==
  /\ rolePc = "rest" /\ Foreign
  /\ rolePc' \in {"put"} \cup (IF value[Binding] # Empty THEN {"read"} ELSE {})
  /\ UNCHANGED <<store, txn, roleCopy, eso, history>>

\* Step 7: `bao kv put` takes the place of the whole record.
RolePuts ==
  /\ rolePc = "put"
  /\ value' = [value EXCEPT ![Binding] = [Empty EXCEPT ![BindingKey] = Installed]]
  /\ stamp' = [stamp EXCEPT ![Binding] = None]
  /\ version' = [version EXCEPT ![Binding] = @ + 1]
  /\ rolePc' = "read"
  /\ UNCHANGED <<txn, roleCopy, foreign, eso, history>>

\* Step 9.
RoleReads ==
  /\ rolePc = "read" /\ value[Binding][BindingKey] # None
  /\ roleCopy' = value[Binding][BindingKey]
  /\ rolePc' = "apply"
  /\ UNCHANGED <<store, txn, foreign, eso, history>>

\* Step 11 merges into the Secret: the annotations stay.
RoleApplies ==
  /\ rolePc = "apply"
  /\ value' = [value EXCEPT ![AuthSecret][AuthKey] = roleCopy]
  /\ rewritten' = rewritten \cup {AuthSecret}
  /\ rolePc' = "rest"
  /\ UNCHANGED <<stamp, version, txn, roleCopy, foreign, eso, reached, renewed, moved>>

RoleFails ==
  /\ rolePc # "rest"
  /\ rolePc' = "rest"
  /\ UNCHANGED <<store, txn, roleCopy, foreign, eso, history>>

\* Somebody sets another key of a record.
EditRecord(r, k, v) ==
  /\ Foreign /\ [place |-> r, key |-> k] \notin Destinations
  /\ value' = [value EXCEPT ![r][k] = v]
  /\ version' = [version EXCEPT ![r] = @ + 1]
  /\ UNCHANGED <<stamp, txn, rolePc, roleCopy, eso, history>>

\* A refresh ends; refreshTime is the time of a successful one, in seconds.
Refresh(e) ==
  /\ refreshed' = [refreshed EXCEPT ![e] = clock]
  /\ ready' = [ready EXCEPT ![e] = TRUE]
  /\ renewed' = IF reads[e] THEN [t \in Transactions |-> renewed[t] \cup {e}] ELSE renewed
  /\ UNCHANGED <<store, txn, role, foreign, clock, reads, reached, rewritten, moved>>

RefreshFails(e) ==
  /\ ready[e] /\ Foreign
  /\ ready' = [ready EXCEPT ![e] = FALSE]
  /\ UNCHANGED <<store, txn, role, clock, reads, refreshed, history>>

\* The ExternalSecret is applied with another store; its status is still that
\* of the refresh before.
Repoint(e) ==
  /\ e \notin moved /\ Foreign
  /\ reads' = [reads EXCEPT ![e] = ~@]
  /\ moved' = moved \cup {e}
  /\ UNCHANGED <<store, txn, role, clock, ready, refreshed, reached, rewritten, renewed>>

Tick ==
  /\ clock < MaxClock
  /\ clock' = clock + 1
  /\ UNCHANGED <<store, txn, role, foreign, reads, ready, refreshed, history>>
-----------------------------------------------------------------------------
Transaction(t) == \/ Look(t) \/ ReadRecord(t) \/ WriteRecord(t)
                  \/ PatchSecret(t) \/ Abort(t) \/ Retry(t)
                  \/ AllDelivered(t) \/ GateReads(t) \/ GatePasses(t)
Role == RoleChecks \/ RolePuts \/ RoleReads \/ RoleApplies \/ RoleFails

Next == \/ \E t \in Transactions : Transaction(t)
        \/ Role
        \/ \E r \in Records, k \in Keys, v \in {Installed, None} : EditRecord(r, k, v)
        \/ \E e \in ExternalSecrets : Refresh(e) \/ RefreshFails(e) \/ Repoint(e)
        \/ Tick

Spec == Init /\ [][Next]_vars
-----------------------------------------------------------------------------
\* A delivery is atomic for everybody else: it sets its key and its stamp and
\* brings no other key back to what it was when the record was read, and a
\* check-and-set conflict leaves the other writer's record (deliver, 137-146).
Stamps == INSTANCE StampedStore
ImplementsStampedStore == Stamps!Spec

\* has_marker can be believed: a stamped object holds that transaction's
\* SecretID, after lost answers, conflicts and restarts too.  Only
\* object-storage-credentials, which writes the Secret and leaves the
\* annotations, can make a stamp lie.
MarkerTruth ==
  \A d \in Destinations :
    stamp[d.place] # None /\ d.place \notin rewritten =>
      value[d.place][d.key] = stamp[d.place]

\* No destination is passed over: a transaction that goes on to its gates has
\* stored its SecretID at every destination, whatever it skipped on a rerun.
NoneSkipped ==
  \A t \in Transactions : pc[t] \in {"gate", "passed"} => reached[t] = Destinations

\* What a pass of the ExternalSecret gate proves: each of them was refreshed
\* through the expected store after the delivery, in whole seconds and with one
\* read per namespace, unless somebody gave it another store meanwhile.
GateMeansRefreshed ==
  \A t \in Transactions : pc[t] = "passed" => ExternalSecrets \ moved \subseteq renewed[t]
=============================================================================
