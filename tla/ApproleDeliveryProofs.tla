----------------------- MODULE ApproleDeliveryProofs -----------------------
(***************************************************************************)
(* The deliveries of ApproleDelivery.tla for any destinations, any number  *)
(* of transactions, namespaces and restarts: a check-and-set delivery is   *)
(* atomic, its marker tells the truth, a rerun passes over nothing, and a  *)
(* pass of the ExternalSecret gate means a refresh after the delivery.     *)
(***************************************************************************)
EXTENDS ApproleDelivery, TLAPS

\* A copy whose version is still that of the record is the record.
CopyInv == \A t \in Transactions :
  pc[t] = "write" =>
    /\ copy[t].version <= version[at[t].place]
    /\ Current(t) => copy[t].value = value[at[t].place]

\* A stamp, and a destination that is seen to, mean a delivery of the SecretID.
SeenInv == \A t \in Transactions :
  /\ \A d \in Destinations : stamp[d.place] = t => d \in reached[t]
  /\ Destinations \ left[t] \subseteq reached[t]
  /\ pc[t] \in {"gate", "passed"} => left[t] = {}

\* No refreshTime is in the future, so that one after the delivery is that of
\* a refresh after the delivery; the gate has read no other.
GateInv ==
  /\ \A e \in ExternalSecrets : refreshed[e] <= clock
  /\ \A t \in Transactions : pc[t] \in {"gate", "passed"} =>
       /\ \A e \in ExternalSecrets \ moved :
            reads[e] /\ refreshed[e] > since[t] => e \in renewed[t]
       /\ ExternalSecrets \ (unchecked[t] \cup moved) \subseteq renewed[t]
       /\ pc[t] = "passed" => unchecked[t] = {}

IInv == TypeOK /\ CopyInv /\ MarkerTruth /\ SeenInv /\ GateInv

\* The steps by who takes them.
Edit == \E r \in Records, k \in Keys, v \in {Installed, None} : EditRecord(r, k, v)
Eso == \E e \in ExternalSecrets : Refresh(e) \/ RefreshFails(e) \/ Repoint(e)
-----------------------------------------------------------------------------
LEMMA ConstantTypes ==
  /\ Binding \in Objects /\ AuthSecret \in Objects /\ BindingKey \in Keys /\ AuthKey \in Keys
  /\ Installed \in Values /\ None \in Values /\ Transactions \subseteq Values
  /\ None \notin Transactions /\ Records \subseteq Objects /\ Secrets \subseteq Objects
  /\ Binding \in Records /\ AuthSecret \in Secrets /\ Records \cap Secrets = {}
  /\ Empty \in [Keys -> Values] /\ NoCopy \in Copies
  /\ \A d \in Destinations : d.place \in Objects /\ d.key \in Keys
                             /\ d = [place |-> d.place, key |-> d.key]
  /\ MaxClock \in Nat /\ MaxRestarts \in Nat /\ MaxForeign \in Nat
  BY ObjectAssumption, DestinationAssumption, BoundAssumption
     DEF Objects, Values, Empty, NoCopy, Copies

LEMMA InvInit == Init => IInv
<1> SUFFICES ASSUME Init PROVE IInv
    OBVIOUS
<1>1. TypeOK
  <2>1. value \in [Objects -> [Keys -> Values]] /\ version \in [Records -> Nat]
    <3>1. /\ [Empty EXCEPT ![BindingKey] = Installed] \in [Keys -> Values]
          /\ [Empty EXCEPT ![AuthKey] = Installed] \in [Keys -> Values]
          BY ConstantTypes
    <3> QED BY <3>1, ConstantTypes DEF Init
  <2>2. /\ pc \in [Transactions -> Locations] /\ at \in [Transactions -> Destinations \cup {None}]
        /\ left \in [Transactions -> SUBSET Destinations] /\ copy \in [Transactions -> Copies]
        /\ \A t \in Transactions : pc[t] = "pick"
        BY ConstantTypes DEF Init, Locations
  <2> QED BY <2>1, <2>2, ConstantTypes DEF Init, TypeOK
<1>2. CopyInv BY DEF Init, CopyInv
<1>5. MarkerTruth BY ConstantTypes DEF Init, MarkerTruth
<1>3. SeenInv BY <1>1, ConstantTypes DEF Init, SeenInv
<1>4. GateInv BY <1>1 DEF Init, GateInv
<1> QED BY <1>1, <1>2, <1>3, <1>4, <1>5 DEF IInv

\* What a delivery writes is a record or Secret with the SecretID at the key.
LEMMA DeliveredTypes ==
  ASSUME TypeOK, NEW t \in Transactions, NEW c \in [Keys -> Values],
         at[t] \in Destinations, Delivered(t, c)
  PROVE  /\ Merged(t, c) \in [Keys -> Values] /\ Merged(t, c)[at[t].key] = t
         /\ value' = [value EXCEPT ![at[t].place] = Merged(t, c)]
         /\ value' \in [Objects -> [Keys -> Values]]
         /\ stamp' \in [Objects -> Transactions \cup {None}]
         /\ reached' \in [Transactions -> SUBSET Destinations] /\ rewritten' \subseteq Secrets
         /\ pc' \in [Transactions -> Locations] /\ pc'[t] \in {"pick", "failed"}
         /\ at' = [at EXCEPT ![t] = None] /\ copy' \in [Transactions -> Copies]
         /\ left' \in [Transactions -> SUBSET Destinations]
         /\ \A s \in Transactions \ {t} : pc'[s] = pc[s] /\ at'[s] = at[s] /\ copy'[s] = copy[s]
<1>1. /\ Merged(t, c) \in [Keys -> Values] /\ Merged(t, c)[at[t].key] = t
      BY ConstantTypes DEF Merged
<1>2. /\ value' = [value EXCEPT ![at[t].place] = Merged(t, c)]
      /\ stamp' = [stamp EXCEPT ![at[t].place] = t]
      /\ reached' = [reached EXCEPT ![t] = @ \cup {at[t]}]
      /\ rewritten' = rewritten \ {at[t].place}
      BY DEF Delivered
<1>3. /\ at' = [at EXCEPT ![t] = None] /\ copy' = [copy EXCEPT ![t] = NoCopy]
      /\ pc' = [pc EXCEPT ![t] = "pick"] \/ pc' = [pc EXCEPT ![t] = "failed"]
      /\ left' = left \/ left' = [left EXCEPT ![t] = @ \ {at[t]}]
      BY DEF Delivered, Leave, Goto
<1>4. /\ value' \in [Objects -> [Keys -> Values]] /\ stamp' \in [Objects -> Transactions \cup {None}]
      /\ reached' \in [Transactions -> SUBSET Destinations] /\ rewritten' \subseteq Secrets
      BY <1>1, <1>2, ConstantTypes DEF TypeOK
<1>5. /\ pc' \in [Transactions -> Locations] /\ pc'[t] \in {"pick", "failed"}
      /\ \A s \in Transactions \ {t} : pc'[s] = pc[s]
      BY <1>3 DEF TypeOK, Locations
<1>6. /\ copy' \in [Transactions -> Copies]
      /\ \A s \in Transactions \ {t} : at'[s] = at[s] /\ copy'[s] = copy[s]
      BY <1>3, ConstantTypes DEF TypeOK
<1>7. left' \in [Transactions -> SUBSET Destinations]
      BY <1>3 DEF TypeOK
<1> QED BY <1>1, <1>2, <1>3, <1>4, <1>5, <1>6, <1>7

\* A record's copy is made before its write, at the same place.
LEMMA CallTypes ==
  ASSUME TypeOK, NEW t \in Transactions
  PROVE  /\ pc[t] \in {"read", "write"} =>
              at[t] \in Destinations /\ at[t].place \in Records /\ at[t].place \in Objects
         /\ pc[t] = "patch" =>
              at[t] \in Destinations /\ at[t].place \in Secrets /\ at[t].place \in Objects
         /\ copy[t].value \in [Keys -> Values] /\ copy[t].version \in Nat
  BY ConstantTypes DEF TypeOK, To, Copies

LEMMA TypeStep == TypeOK /\ [Next]_vars => TypeOK'
<1> SUFFICES ASSUME TypeOK, [Next]_vars PROVE TypeOK'
    OBVIOUS
<1> USE DEF store, txn, role, eso, history
<1>1. ASSUME NEW t \in Transactions, Transaction(t) PROVE TypeOK'
  <2>1. CASE Look(t)
    <3>1. PICK d \in left[t] :
            IF HasMarker(t, d.place)
            THEN left' = [left EXCEPT ![t] = @ \ {d}] /\ UNCHANGED <<pc, at>>
            ELSE /\ at' = [at EXCEPT ![t] = d] /\ pc' = [pc EXCEPT ![t] = FirstCall(d)]
                 /\ UNCHANGED left
          BY <2>1 DEF Look, Goto
    <3>2. d \in Destinations /\ FirstCall(d) \in {"read", "patch"}
          /\ (FirstCall(d) = "read" => d \in To(Records))
          /\ (FirstCall(d) = "patch" => d \in To(Secrets))
          BY <3>1, ConstantTypes DEF TypeOK, FirstCall, To, Objects
    <3>3. /\ pc' \in [Transactions -> Locations] /\ at' \in [Transactions -> Destinations \cup {None}]
          /\ left' \in [Transactions -> SUBSET Destinations]
      <4>1. CASE HasMarker(t, d.place)
        <5>1. left' = [left EXCEPT ![t] = @ \ {d}] /\ pc' = pc /\ at' = at BY <3>1, <4>1
        <5> QED BY <5>1 DEF TypeOK
      <4>2. CASE ~HasMarker(t, d.place)
        <5>1. at' = [at EXCEPT ![t] = d] /\ pc' = [pc EXCEPT ![t] = FirstCall(d)] /\ left' = left
              BY <3>1, <4>2
        <5>2. FirstCall(d) \in Locations /\ d \in Destinations BY <3>2 DEF Locations
        <5> QED BY <5>1, <5>2 DEF TypeOK
      <4> QED BY <4>1, <4>2
    <3>4. \A s \in Transactions : /\ pc'[s] \in {"read", "write"} => at'[s] \in To(Records)
                                  /\ pc'[s] = "patch" => at'[s] \in To(Secrets)
          BY <2>1, <3>1, <3>2 DEF TypeOK, Look
    <3> QED BY <2>1, <3>3, <3>4 DEF Look, TypeOK
  <2>2. CASE ReadRecord(t)
    <3>1. at[t].place \in Records /\ at[t].place \in Objects BY <2>2, CallTypes DEF ReadRecord
    <3>2. copy' \in [Transactions -> Copies]
      <4>1. value[at[t].place] \in [Keys -> Values] /\ version[at[t].place] \in Nat
            BY <3>1 DEF TypeOK
      <4>2. [value |-> value[at[t].place], version |-> version[at[t].place]] \in Copies
            BY <4>1 DEF Copies
      <4> QED BY <2>2, <4>2 DEF ReadRecord, TypeOK
    <3>3. /\ pc' \in [Transactions -> Locations]
          /\ \A s \in Transactions : /\ pc'[s] \in {"read", "write"} => at'[s] \in To(Records)
                                     /\ pc'[s] = "patch" => at'[s] \in To(Secrets)
          BY <2>2 DEF ReadRecord, Goto, TypeOK, Locations
    <3> QED BY <2>2, <3>2, <3>3 DEF ReadRecord, TypeOK
  <2>3. ASSUME NEW c \in [Keys -> Values], Delivered(t, c), at[t] \in Destinations,
               version' \in [Records -> Nat]
        PROVE  TypeOK'
    <3>1. /\ value' \in [Objects -> [Keys -> Values]]
          /\ stamp' \in [Objects -> Transactions \cup {None}]
          /\ reached' \in [Transactions -> SUBSET Destinations] /\ rewritten' \subseteq Secrets
          /\ pc' \in [Transactions -> Locations] /\ pc'[t] \in {"pick", "failed"}
          /\ at' = [at EXCEPT ![t] = None] /\ copy' \in [Transactions -> Copies]
          /\ left' \in [Transactions -> SUBSET Destinations]
          /\ \A s \in Transactions \ {t} : pc'[s] = pc[s] /\ at'[s] = at[s]
          BY <2>3, DeliveredTypes
    <3>2. /\ at' \in [Transactions -> Destinations \cup {None}]
          /\ \A s \in Transactions : /\ pc'[s] \in {"read", "write"} => at'[s] \in To(Records)
                                     /\ pc'[s] = "patch" => at'[s] \in To(Secrets)
          BY <3>1 DEF TypeOK
    <3> QED BY <2>3, <3>1, <3>2 DEF Delivered, TypeOK
  <2>4. CASE WriteRecord(t)
    <3>1. version' \in [Records -> Nat] BY <2>4, CallTypes DEF WriteRecord, TypeOK
    <3> QED BY <2>3, <2>4, <3>1, CallTypes DEF WriteRecord
  <2>5. CASE PatchSecret(t)
    <3>1. value[at[t].place] \in [Keys -> Values]
          BY <2>5, CallTypes, ConstantTypes DEF PatchSecret, TypeOK
    <3>2. version' \in [Records -> Nat] BY <2>5 DEF PatchSecret, TypeOK
    <3> QED BY <2>3, <2>5, <3>1, <3>2, CallTypes DEF PatchSecret
  <2>6. CASE Abort(t)
    <3>1. /\ pc' \in [Transactions -> Locations] /\ at' \in [Transactions -> Destinations \cup {None}]
          /\ copy' \in [Transactions -> Copies]
          BY <2>6, ConstantTypes DEF Abort, Leave, Goto, TypeOK, Locations
    <3>2. \A s \in Transactions : /\ pc'[s] \in {"read", "write"} => at'[s] \in To(Records)
                                  /\ pc'[s] = "patch" => at'[s] \in To(Secrets)
          BY <2>6 DEF Abort, Leave, Goto, TypeOK
    <3> QED BY <2>6, <3>1, <3>2 DEF Abort, TypeOK
  <2>7. CASE Retry(t)
        BY <2>7, ConstantTypes DEF Retry, Goto, TypeOK, Locations
  <2>8. CASE AllDelivered(t)
        BY <2>8 DEF AllDelivered, Goto, TypeOK, Locations
  <2>9. CASE GateReads(t)
    <3>1. unchecked' \in [Transactions -> SUBSET ExternalSecrets]
          BY <2>9 DEF GateReads, TypeOK
    <3> QED BY <2>9, <3>1 DEF GateReads, TypeOK
  <2>10. CASE GatePasses(t)
        BY <2>10 DEF GatePasses, Goto, TypeOK, Locations
  <2> QED BY <1>1, <2>1, <2>2, <2>4, <2>5, <2>6, <2>7, <2>8, <2>9, <2>10 DEF Transaction
<1>2. CASE Role
  <2>1. CASE RoleChecks BY <2>1, ConstantTypes DEF RoleChecks, Foreign, TypeOK
  <2>2. CASE RolePuts
    <3>1. [Empty EXCEPT ![BindingKey] = Installed] \in [Keys -> Values] BY ConstantTypes
    <3>2. /\ value' \in [Objects -> [Keys -> Values]] /\ stamp' \in [Objects -> Transactions \cup {None}]
          /\ version' \in [Records -> Nat]
          BY <2>2, <3>1, ConstantTypes DEF RolePuts, TypeOK
    <3> QED BY <2>2, <3>2 DEF RolePuts, TypeOK
  <2>3. CASE RoleReads
    <3>1. value[Binding][BindingKey] \in Values BY ConstantTypes DEF TypeOK
    <3> QED BY <2>3, <3>1 DEF RoleReads, TypeOK
  <2>4. CASE RoleApplies
    <3>1. /\ value' \in [Objects -> [Keys -> Values]] /\ rewritten' \subseteq Secrets
          BY <2>4, ConstantTypes DEF RoleApplies, TypeOK
    <3> QED BY <2>4, <3>1 DEF RoleApplies, TypeOK
  <2>5. CASE RoleFails BY <2>5 DEF RoleFails, TypeOK
  <2> QED BY <1>2, <2>1, <2>2, <2>3, <2>4, <2>5 DEF Role
<1>3. ASSUME NEW r \in Records, NEW k \in Keys, NEW v \in {Installed, None}, EditRecord(r, k, v)
      PROVE  TypeOK'
  <2>1. /\ value' \in [Objects -> [Keys -> Values]] /\ version' \in [Records -> Nat]
        BY <1>3, ConstantTypes DEF EditRecord, TypeOK
  <2>2. foreign' \in 0 .. MaxForeign BY <1>3, ConstantTypes DEF EditRecord, Foreign, TypeOK
  <2> QED BY <1>3, <2>1, <2>2 DEF EditRecord, TypeOK
<1>4. ASSUME NEW e \in ExternalSecrets, Refresh(e) \/ RefreshFails(e) \/ Repoint(e)
      PROVE  TypeOK'
  <2>1. CASE Refresh(e)
    <3>1. renewed' \in [Transactions -> SUBSET ExternalSecrets] BY <2>1 DEF Refresh, TypeOK
    <3> QED BY <2>1, <3>1 DEF Refresh, TypeOK
  <2>2. CASE RefreshFails(e) BY <2>2, ConstantTypes DEF RefreshFails, Foreign, TypeOK
  <2>3. CASE Repoint(e)
    <3>1. reads' \in [ExternalSecrets -> BOOLEAN]
      <4>1. (~reads[e]) \in BOOLEAN OBVIOUS
      <4>2. reads' = [reads EXCEPT ![e] = ~reads[e]] BY <2>3 DEF Repoint
      <4>3. reads \in [ExternalSecrets -> BOOLEAN] BY DEF TypeOK
      <4> QED BY <4>1, <4>2, <4>3
    <3>2. foreign' \in 0 .. MaxForeign BY <2>3, ConstantTypes DEF Repoint, Foreign, TypeOK
    <3> QED BY <2>3, <3>1, <3>2 DEF Repoint, TypeOK
  <2> QED BY <1>4, <2>1, <2>2, <2>3
<1>5. CASE Tick BY <1>5, ConstantTypes DEF Tick, TypeOK
<1>6. CASE UNCHANGED vars BY <1>6 DEF vars, TypeOK
<1> QED BY <1>1, <1>2, <1>3, <1>4, <1>5, <1>6 DEF Next
\* What a write needs of a step of others: the record is as it was, or its
\* version has grown.
LEMMA CopyKept ==
  ASSUME TypeOK, TypeOK', CopyInv, NEW s \in Transactions, pc'[s] = "write",
         pc'[s] = pc[s], at'[s] = at[s], copy'[s] = copy[s],
         \A r \in Records : \/ version'[r] = version[r] /\ value'[r] = value[r]
                            \/ version'[r] > version[r]
  PROVE  /\ copy'[s].version <= version'[at'[s].place]
         /\ version'[at'[s].place] = copy'[s].version => copy'[s].value = value'[at'[s].place]
<1>1. at[s].place \in Records /\ copy[s].version \in Nat BY CallTypes
<1>2. version[at[s].place] \in Nat /\ version'[at[s].place] \in Nat BY <1>1 DEF TypeOK
<1>3. copy[s].version <= version[at[s].place]
      /\ (version[at[s].place] = copy[s].version => copy[s].value = value[at[s].place])
      BY DEF CopyInv, Current
<1>4. CASE version'[at[s].place] = version[at[s].place] /\ value'[at[s].place] = value[at[s].place]
      BY <1>3, <1>4
<1>5. CASE version'[at[s].place] > version[at[s].place] BY <1>2, <1>3, <1>1, <1>5
<1> QED BY <1>1, <1>4, <1>5

LEMMA CopyStep == TypeOK /\ TypeOK' /\ CopyInv /\ [Next]_vars => CopyInv'
<1> SUFFICES ASSUME TypeOK, TypeOK', CopyInv, [Next]_vars, NEW s \in Transactions,
                    pc'[s] = "write"
             PROVE  /\ copy'[s].version <= version'[at'[s].place]
                    /\ version'[at'[s].place] = copy'[s].version
                       => copy'[s].value = value'[at'[s].place]
    BY DEF CopyInv, Current
<1> USE DEF store, txn, role, eso, history
<1>1. ASSUME NEW t \in Transactions, Transaction(t)
      PROVE  \/ ReadRecord(t) /\ s = t
             \/ /\ pc'[s] = pc[s] /\ at'[s] = at[s] /\ copy'[s] = copy[s]
                /\ \A r \in Records : \/ version'[r] = version[r] /\ value'[r] = value[r]
                                      \/ version'[r] > version[r]
  <2>1. CASE Look(t)
    <3>1. pc'[t] # "write" /\ \A x \in Transactions \ {t} : pc'[x] = pc[x] /\ at'[x] = at[x]
          BY <2>1 DEF Look, Goto, FirstCall, TypeOK
    <3> QED BY <2>1, <3>1 DEF Look
  <2>2. CASE ReadRecord(t) BY <2>2 DEF ReadRecord, Goto, TypeOK
  <2>3. CASE WriteRecord(t)
    <3>1. at[t] \in Destinations /\ at[t].place \in Records /\ at[t].place \in Objects
          /\ copy[t].value \in [Keys -> Values]
          BY <2>3, CallTypes DEF WriteRecord
    <3>2. /\ value' = [value EXCEPT ![at[t].place] = Merged(t, copy[t].value)]
          /\ pc'[t] \in {"pick", "failed"}
          /\ \A x \in Transactions \ {t} : pc'[x] = pc[x] /\ at'[x] = at[x] /\ copy'[x] = copy[x]
          BY <2>3, <3>1, DeliveredTypes DEF WriteRecord
    <3>3. version' = [version EXCEPT ![at[t].place] = @ + 1] BY <2>3 DEF WriteRecord
    <3>4. \A r \in Records : \/ version'[r] = version[r] /\ value'[r] = value[r]
                             \/ version'[r] > version[r]
          BY <3>1, <3>2, <3>3, ConstantTypes DEF TypeOK
    <3> QED BY <3>2, <3>4
  <2>4. CASE PatchSecret(t)
    <3>1. at[t] \in Destinations /\ at[t].place \in Secrets /\ at[t].place \in Objects
          BY <2>4, CallTypes DEF PatchSecret
    <3>2. value[at[t].place] \in [Keys -> Values] BY <3>1 DEF TypeOK
    <3>3. /\ value' = [value EXCEPT ![at[t].place] = Merged(t, value[at[t].place])]
          /\ pc'[t] \in {"pick", "failed"}
          /\ \A x \in Transactions \ {t} : pc'[x] = pc[x] /\ at'[x] = at[x] /\ copy'[x] = copy[x]
          BY <2>4, <3>1, <3>2, DeliveredTypes DEF PatchSecret
    <3>4. \A r \in Records : version'[r] = version[r] /\ value'[r] = value[r]
          BY <2>4, <3>1, <3>3, ConstantTypes DEF PatchSecret, TypeOK
    <3> QED BY <3>3, <3>4
  <2>5. CASE Abort(t) BY <2>5 DEF Abort, Leave, Goto, TypeOK
  <2>6. CASE Retry(t) BY <2>6 DEF Retry, Goto, TypeOK
  <2>7. CASE AllDelivered(t) BY <2>7 DEF AllDelivered, Goto, TypeOK
  <2>8. CASE GateReads(t) BY <2>8 DEF GateReads
  <2>9. CASE GatePasses(t) BY <2>9 DEF GatePasses, Goto, TypeOK
  <2> QED BY <1>1, <2>1, <2>2, <2>3, <2>4, <2>5, <2>6, <2>7, <2>8, <2>9 DEF Transaction
<1>2. ASSUME NEW t \in Transactions, Transaction(t)
      PROVE  /\ copy'[s].version <= version'[at'[s].place]
             /\ version'[at'[s].place] = copy'[s].version => copy'[s].value = value'[at'[s].place]
  <2>1. CASE ReadRecord(t) /\ s = t
    <3>1. at[t].place \in Records BY <2>1, CallTypes DEF ReadRecord
    <3>2. version[at[t].place] \in Nat BY <3>1 DEF TypeOK
    <3>3. copy'[s] = [value |-> value[at[t].place], version |-> version[at[t].place]]
          /\ version' = version /\ value' = value /\ at' = at
          BY <2>1 DEF ReadRecord, TypeOK
    <3> QED BY <2>1, <3>2, <3>3
  <2> QED BY <1>1, <1>2, <2>1, CopyKept
<1>3. ASSUME Role \/ Edit \/ Eso \/ Tick \/ UNCHANGED vars
      PROVE  /\ pc' = pc /\ at' = at /\ copy' = copy
             /\ \A r \in Records : \/ version'[r] = version[r] /\ value'[r] = value[r]
                                   \/ version'[r] > version[r]
  <2>1. CASE RolePuts
    <3>1. /\ pc' = pc /\ at' = at /\ copy' = copy
          /\ version' = [version EXCEPT ![Binding] = @ + 1]
          /\ value' = [value EXCEPT ![Binding] = [Empty EXCEPT ![BindingKey] = Installed]]
          BY <2>1 DEF RolePuts
    <3> QED BY <3>1, ConstantTypes DEF TypeOK
  <2>2. CASE RoleApplies BY <2>2, ConstantTypes DEF RoleApplies, TypeOK
  <2>3. CASE RoleChecks \/ RoleReads \/ RoleFails BY <2>3 DEF RoleChecks, RoleReads, RoleFails
  <2>4. CASE Edit
    <3>1. PICK r \in Records, k \in Keys, v \in {Installed, None} : EditRecord(r, k, v)
          BY <2>4 DEF Edit
    <3>2. /\ pc' = pc /\ at' = at /\ copy' = copy /\ version' = [version EXCEPT ![r] = @ + 1]
          /\ value' = [value EXCEPT ![r][k] = v]
          BY <3>1 DEF EditRecord
    <3> QED BY <3>2, ConstantTypes DEF TypeOK
  <2>5. CASE Eso BY <2>5 DEF Eso, Refresh, RefreshFails, Repoint
  <2>6. CASE Tick \/ UNCHANGED vars BY <2>6 DEF Tick, vars
  <2> QED BY <1>3, <2>1, <2>2, <2>3, <2>4, <2>5, <2>6 DEF Role
<1>4. ASSUME Role \/ Edit \/ Eso \/ Tick \/ UNCHANGED vars
      PROVE  /\ copy'[s].version <= version'[at'[s].place]
             /\ version'[at'[s].place] = copy'[s].version => copy'[s].value = value'[at'[s].place]
      BY <1>3, <1>4, CopyKept
<1> QED BY <1>2, <1>4 DEF Next, Edit, Eso
\* A delivery is one of the abstract deliveries: what was read is the record.
LEMMA DeliveryIsAtomic ==
  ASSUME TypeOK, CopyInv, NEW t \in Transactions, WriteRecord(t) \/ PatchSecret(t)
  PROVE  /\ at[t] \in Destinations /\ at[t].place \in Objects
         /\ value[at[t].place] \in [Keys -> Values]
         /\ Delivered(t, value[at[t].place])
<1>1. CASE WriteRecord(t)
  <2>1. pc[t] = "write" /\ Current(t) /\ Delivered(t, copy[t].value) BY <1>1 DEF WriteRecord
  <2>2. copy[t].value = value[at[t].place] BY <2>1 DEF CopyInv
  <2>3. at[t] \in Destinations /\ at[t].place \in Objects BY <2>1, CallTypes
  <2>4. Delivered(t, value[at[t].place]) BY <2>1, <2>2
  <2> QED BY <2>3, <2>4 DEF TypeOK
<1>2. CASE PatchSecret(t)
  <2>1. pc[t] = "patch" /\ Delivered(t, value[at[t].place]) BY <1>2 DEF PatchSecret
  <2> QED BY <2>1, CallTypes DEF TypeOK
<1> QED BY <1>1, <1>2

\* The steps of a transaction that are not deliveries leave the store alone.
LEMMA QuietSteps ==
  ASSUME NEW t \in Transactions, Transaction(t), ~WriteRecord(t), ~PatchSecret(t)
  PROVE  /\ value' = value /\ stamp' = stamp /\ rewritten' = rewritten
         /\ reached' = reached /\ moved' = moved /\ reads' = reads
         /\ refreshed' = refreshed /\ clock' = clock
  BY DEF Transaction, Look, ReadRecord, Abort, Retry, AllDelivered, GateReads, GatePasses,
         store, eso, history

LEMMA MarkerStep == TypeOK /\ CopyInv /\ MarkerTruth /\ [Next]_vars => MarkerTruth'
<1> SUFFICES ASSUME TypeOK, CopyInv, MarkerTruth, [Next]_vars, NEW d \in Destinations,
                    stamp'[d.place] # None, d.place \notin rewritten'
             PROVE  value'[d.place][d.key] = stamp'[d.place]
    BY DEF MarkerTruth
<1> USE DEF store, txn, role, eso, history
<1>0. d.place \in Objects /\ d.key \in Keys /\ d = [place |-> d.place, key |-> d.key]
      BY ConstantTypes
<1>1. ASSUME NEW t \in Transactions, Transaction(t)
      PROVE  value'[d.place][d.key] = stamp'[d.place]
  <2>1. CASE WriteRecord(t) \/ PatchSecret(t)
    <3> DEFINE c == value[at[t].place]
    <3>1. at[t] \in Destinations /\ at[t].place \in Objects /\ c \in [Keys -> Values] /\ Delivered(t, c)
          BY <2>1, DeliveryIsAtomic
    <3>2. /\ Merged(t, c)[at[t].key] = t
          /\ value' = [value EXCEPT ![at[t].place] = Merged(t, c)]
          BY <3>1, DeliveredTypes
    <3>3. /\ stamp' = [stamp EXCEPT ![at[t].place] = t]
          /\ rewritten' = rewritten \ {at[t].place}
          BY <3>1 DEF Delivered
    <3>4. CASE d.place = at[t].place
      <4>1. d = at[t] BY <3>1, <3>4, OneKeyEach
      <4> QED BY <3>1, <3>2, <3>3, <4>1 DEF TypeOK
    <3>5. CASE d.place # at[t].place
      <4>1. value'[d.place] = value[d.place] /\ stamp'[d.place] = stamp[d.place]
            /\ d.place \notin rewritten
            BY <1>0, <3>2, <3>3, <3>5 DEF TypeOK
      <4> QED BY <4>1 DEF MarkerTruth
    <3> QED BY <3>4, <3>5
  <2> QED BY <1>1, <2>1, QuietSteps DEF MarkerTruth
<1>2. CASE Role
  <2>1. CASE RolePuts
    <3>1. /\ value' = [value EXCEPT ![Binding] = [Empty EXCEPT ![BindingKey] = Installed]]
          /\ stamp' = [stamp EXCEPT ![Binding] = None] /\ rewritten' = rewritten
          BY <2>1 DEF RolePuts
    <3>2. d.place # Binding BY <1>0, <3>1 DEF TypeOK
    <3>3. value'[d.place] = value[d.place] /\ stamp'[d.place] = stamp[d.place]
          BY <1>0, <3>1, <3>2 DEF TypeOK
    <3> QED BY <3>1, <3>3 DEF MarkerTruth
  <2>2. CASE RoleApplies
    <3>1. d.place # AuthSecret /\ d.place \notin rewritten BY <2>2 DEF RoleApplies
    <3>2. value'[d.place] = value[d.place] /\ stamp' = stamp
          BY <1>0, <2>2, <3>1 DEF RoleApplies, TypeOK
    <3> QED BY <3>1, <3>2 DEF MarkerTruth
  <2>3. CASE RoleChecks \/ RoleReads \/ RoleFails
        BY <2>3 DEF RoleChecks, RoleReads, RoleFails, MarkerTruth
  <2> QED BY <1>2, <2>1, <2>2, <2>3 DEF Role
<1>3. CASE Edit
  <2>1. PICK r \in Records, k \in Keys, v \in {Installed, None} : EditRecord(r, k, v)
        BY <1>3 DEF Edit
  <2>2. /\ value' = [value EXCEPT ![r][k] = v] /\ stamp' = stamp /\ rewritten' = rewritten
        /\ [place |-> r, key |-> k] \notin Destinations
        BY <2>1 DEF EditRecord
  <2>3. ~(d.place = r /\ d.key = k) BY <1>0, <2>2
  <2>4. value'[d.place][d.key] = value[d.place][d.key]
        BY <1>0, <2>2, <2>3 DEF TypeOK
  <2> QED BY <2>2, <2>4 DEF MarkerTruth
<1>4. CASE Eso BY <1>4 DEF Eso, Refresh, RefreshFails, Repoint, MarkerTruth
<1>5. CASE Tick \/ UNCHANGED vars BY <1>5 DEF Tick, vars, MarkerTruth
<1> QED BY <1>1, <1>2, <1>3, <1>4, <1>5 DEF Next, Edit, Eso

LEMMA SeenStep == TypeOK /\ CopyInv /\ SeenInv /\ [Next]_vars => SeenInv'
<1> SUFFICES ASSUME TypeOK, CopyInv, SeenInv, [Next]_vars, NEW s \in Transactions
             PROVE  /\ \A d \in Destinations : stamp'[d.place] = s => d \in reached'[s]
                    /\ Destinations \ left'[s] \subseteq reached'[s]
                    /\ pc'[s] \in {"gate", "passed"} => left'[s] = {}
    BY DEF SeenInv
<1> DEFINE Goal == /\ \A d \in Destinations : stamp'[d.place] = s => d \in reached'[s]
                   /\ Destinations \ left'[s] \subseteq reached'[s]
                   /\ pc'[s] \in {"gate", "passed"} => left'[s] = {}
<1> USE DEF store, txn, role, eso, history
<1>0. \A d \in Destinations : d.place \in Objects BY ConstantTypes
<1>1. ASSUME NEW t \in Transactions, Transaction(t) PROVE Goal
  <2>1. CASE WriteRecord(t) \/ PatchSecret(t)
    <3> DEFINE c == value[at[t].place]
    <3>1. at[t] \in Destinations /\ at[t].place \in Objects /\ c \in [Keys -> Values] /\ Delivered(t, c)
          BY <2>1, DeliveryIsAtomic
    <3>2. /\ stamp' = [stamp EXCEPT ![at[t].place] = t]
          /\ reached' = [reached EXCEPT ![t] = @ \cup {at[t]}]
          /\ left' = left \/ left' = [left EXCEPT ![t] = @ \ {at[t]}]
          BY <3>1 DEF Delivered
    <3>3. pc'[t] \in {"pick", "failed"} /\ \A x \in Transactions \ {t} : pc'[x] = pc[x]
          BY <3>1, DeliveredTypes
    <3>4. \A d \in Destinations : stamp'[d.place] = s => d \in reached'[s]
      <4> TAKE d \in Destinations
      <4>1. CASE d.place = at[t].place
        <5>1. d = at[t] BY <3>1, <4>1, OneKeyEach
        <5> QED BY <3>1, <3>2, <5>1 DEF TypeOK
      <4>2. CASE d.place # at[t].place
        <5>1. stamp'[d.place] = stamp[d.place] BY <1>0, <3>2, <4>2 DEF TypeOK
        <5>2. reached[s] \subseteq reached'[s] BY <3>2 DEF TypeOK
        <5> QED BY <5>1, <5>2 DEF SeenInv
      <4> QED BY <4>1, <4>2
    <3>5. Destinations \ left'[s] \subseteq reached'[s]
      <4>1. Destinations \ left[s] \subseteq reached[s] BY DEF SeenInv
      <4>2. CASE s = t BY <3>2, <4>1, <4>2 DEF TypeOK
      <4>3. CASE s # t BY <3>2, <4>1, <4>3 DEF TypeOK
      <4> QED BY <4>2, <4>3
    <3>6. pc'[s] \in {"gate", "passed"} => left'[s] = {}
      <4>1. pc[s] \in {"gate", "passed"} => left[s] = {} BY DEF SeenInv
      <4>2. left'[s] \subseteq left[s] BY <3>2 DEF TypeOK
      <4> QED BY <3>3, <4>1, <4>2
    <3> QED BY <3>4, <3>5, <3>6
  <2>2. CASE ~WriteRecord(t) /\ ~PatchSecret(t)
    <3>1. \A d \in Destinations : stamp'[d.place] = s => d \in reached'[s]
          BY <1>1, <2>2, QuietSteps DEF SeenInv
    <3>2. /\ Destinations \ left[s] \subseteq reached[s] /\ reached' = reached
          /\ pc[s] \in {"gate", "passed"} => left[s] = {}
          BY <1>1, <2>2, QuietSteps DEF SeenInv
    <3>3. CASE Look(t)
      <4>1. PICK d \in left[t] :
            IF HasMarker(t, d.place)
            THEN left' = [left EXCEPT ![t] = @ \ {d}] /\ UNCHANGED <<pc, at>>
            ELSE /\ at' = [at EXCEPT ![t] = d] /\ pc' = [pc EXCEPT ![t] = FirstCall(d)]
                 /\ UNCHANGED left
            BY <3>3 DEF Look, Goto
      <4>2. CASE HasMarker(t, d.place)
        <5>1. left' = [left EXCEPT ![t] = @ \ {d}] /\ pc' = pc /\ stamp[d.place] = t /\ d \in Destinations
              BY <4>1, <4>2 DEF HasMarker, TypeOK
        <5>2. d \in reached[t] BY <5>1 DEF SeenInv
        <5>3. Destinations \ left'[s] \subseteq reached'[s] BY <3>2, <5>1, <5>2 DEF TypeOK
        <5>4. left'[s] \subseteq left[s] BY <5>1 DEF TypeOK
        <5> QED BY <3>1, <3>2, <5>1, <5>3, <5>4
      <4>3. CASE ~HasMarker(t, d.place)
        <5>1. pc' = [pc EXCEPT ![t] = FirstCall(d)] /\ left' = left BY <4>1, <4>3
        <5> QED BY <3>1, <3>2, <5>1 DEF FirstCall, TypeOK
      <4> QED BY <4>2, <4>3
    <3>4. CASE ReadRecord(t) \/ Abort(t)
          BY <3>1, <3>2, <3>4 DEF ReadRecord, Abort, Leave, Goto, TypeOK
    <3>5. CASE Retry(t) BY <3>1, <3>2, <3>5 DEF Retry, Goto, TypeOK
    <3>6. CASE AllDelivered(t) \/ GatePasses(t)
          BY <3>1, <3>2, <3>6 DEF AllDelivered, GatePasses, Goto, TypeOK
    <3>7. CASE GateReads(t) BY <3>1, <3>2, <3>7 DEF GateReads
    <3> QED BY <1>1, <2>2, <3>3, <3>4, <3>5, <3>6, <3>7 DEF Transaction
  <2> QED BY <2>1, <2>2
<1>2. CASE RolePuts
  <2>1. stamp' = [stamp EXCEPT ![Binding] = None] /\ UNCHANGED <<reached, left, pc>>
        BY <1>2 DEF RolePuts
  <2>2. \A d \in Destinations : stamp'[d.place] = s => stamp[d.place] = s
        BY <1>0, <2>1, ConstantTypes DEF TypeOK
  <2> QED BY <2>1, <2>2 DEF SeenInv
<1>3. CASE RoleApplies \/ RoleChecks \/ RoleReads \/ RoleFails
      BY <1>3 DEF RoleApplies, RoleChecks, RoleReads, RoleFails, SeenInv
<1>4. CASE Edit BY <1>4 DEF Edit, EditRecord, SeenInv
<1>5. CASE Eso BY <1>5 DEF Eso, Refresh, RefreshFails, Repoint, SeenInv
<1>6. CASE Tick \/ UNCHANGED vars BY <1>6 DEF Tick, vars, SeenInv
<1> QED BY <1>1, <1>2, <1>3, <1>4, <1>5, <1>6 DEF Next, Role, Edit, Eso
LEMMA GateStep == TypeOK /\ TypeOK' /\ GateInv /\ [Next]_vars => GateInv'
<1> SUFFICES ASSUME TypeOK, TypeOK', GateInv, [Next]_vars PROVE GateInv'
    OBVIOUS
<1> USE DEF store, txn, role, eso, history
<1> DEFINE Renewed(s) == /\ \A e \in ExternalSecrets \ moved :
                              reads[e] /\ refreshed[e] > since[s] => e \in renewed[s]
                         /\ ExternalSecrets \ (unchecked[s] \cup moved) \subseteq renewed[s]
                         /\ pc[s] = "passed" => unchecked[s] = {}
<1>1. ASSUME NEW t \in Transactions, Transaction(t) PROVE GateInv'
  <2>1. moved' = moved /\ reads' = reads /\ refreshed' = refreshed /\ clock' = clock
        BY <1>1, QuietSteps DEF WriteRecord, PatchSecret, Delivered
  <2>2. \A e \in ExternalSecrets : refreshed'[e] <= clock' BY <2>1 DEF GateInv
  <2>3. CASE AllDelivered(t)
    <3>1. /\ since' = [since EXCEPT ![t] = clock] /\ renewed' = [renewed EXCEPT ![t] = {}]
          /\ unchecked' = [unchecked EXCEPT ![t] = ExternalSecrets]
          /\ pc' = [pc EXCEPT ![t] = "gate"]
          BY <2>3 DEF AllDelivered, Goto
    <3>2. \A e \in ExternalSecrets : ~(refreshed[e] > clock)
          BY <2>1, BoundAssumption DEF GateInv, TypeOK
    <3>3. Renewed(t)' BY <2>1, <3>1, <3>2 DEF TypeOK
    <3>4. ASSUME NEW s \in Transactions \ {t}, pc'[s] \in {"gate", "passed"} PROVE Renewed(s)'
      <4>1. /\ since'[s] = since[s] /\ renewed'[s] = renewed[s] /\ unchecked'[s] = unchecked[s]
            /\ pc'[s] = pc[s]
            BY <3>1, <3>4 DEF TypeOK
      <4> QED BY <2>1, <3>4, <4>1 DEF GateInv
    <3> QED BY <2>2, <3>3, <3>4 DEF GateInv
  <2>4. CASE GateReads(t)
    <3>1. PICK e \in unchecked[t], u \in SUBSET ExternalSecrets :
            /\ u = ExternalSecrets \/ (Passes(t, e) /\ u = unchecked[t] \ {e})
            /\ unchecked' = [unchecked EXCEPT ![t] = u]
          BY <2>4 DEF GateReads, TypeOK
    <3>2. pc' = pc /\ since' = since /\ renewed' = renewed /\ pc[t] = "gate"
          BY <2>4 DEF GateReads
    <3>3. e \in ExternalSecrets BY <3>1 DEF TypeOK
    <3>4. u = ExternalSecrets \/ (u = unchecked[t] \ {e} /\ (e \in moved \/ e \in renewed[t]))
          BY <3>1, <3>2, <3>3 DEF Passes, GateInv
    <3>5. Renewed(t) BY <3>2 DEF GateInv
    <3>6. unchecked'[t] = u BY <3>1 DEF TypeOK
    <3>7. ExternalSecrets \ (u \cup moved) \subseteq renewed[t] BY <3>4, <3>5
    <3>8. Renewed(t)' BY <2>1, <3>2, <3>5, <3>6, <3>7
    <3>9. ASSUME NEW s \in Transactions \ {t}, pc'[s] \in {"gate", "passed"} PROVE Renewed(s)'
      <4>1. unchecked'[s] = unchecked[s] BY <3>1 DEF TypeOK
      <4> QED BY <2>1, <3>2, <3>9, <4>1 DEF GateInv
    <3> QED BY <2>2, <3>8, <3>9 DEF GateInv
  <2>5. CASE GatePasses(t)
    <3>1. pc' = [pc EXCEPT ![t] = "passed"] /\ pc[t] = "gate" /\ unchecked[t] = {}
          /\ since' = since /\ renewed' = renewed /\ unchecked' = unchecked
          BY <2>5 DEF GatePasses, Goto
    <3>2. ASSUME NEW s \in Transactions, pc'[s] \in {"gate", "passed"} PROVE Renewed(s)'
          BY <2>1, <3>1, <3>2 DEF GateInv, TypeOK
    <3> QED BY <2>2, <3>2 DEF GateInv
  <2>6. CASE ~AllDelivered(t) /\ ~GateReads(t) /\ ~GatePasses(t)
    <3>1. /\ since' = since /\ renewed' = renewed /\ unchecked' = unchecked
          /\ \A s \in Transactions : pc'[s] \in {"gate", "passed"} => pc'[s] = pc[s]
      <4>1. CASE Look(t) BY <4>1 DEF Look, Goto, FirstCall, TypeOK
      <4>2. CASE ReadRecord(t) \/ Retry(t) BY <4>2 DEF ReadRecord, Retry, Goto, TypeOK
      <4>3. CASE WriteRecord(t) \/ PatchSecret(t)
            BY <4>3 DEF WriteRecord, PatchSecret, Delivered, Leave, Goto, TypeOK
      <4>4. CASE Abort(t) BY <4>4 DEF Abort, Leave, Goto, TypeOK
      <4> QED BY <1>1, <2>6, <4>1, <4>2, <4>3, <4>4 DEF Transaction
    <3> QED BY <2>1, <2>2, <3>1 DEF GateInv
  <2> QED BY <2>3, <2>4, <2>5, <2>6
<1>2. CASE Role \/ Edit \/ UNCHANGED vars
  <2>1. UNCHANGED <<pc, since, unchecked, clock, reads, refreshed, renewed, moved>>
        BY <1>2 DEF Role, RoleChecks, RolePuts, RoleReads, RoleApplies, RoleFails, Edit,
           EditRecord, vars
  <2> QED BY <2>1 DEF GateInv
<1>3. ASSUME NEW e \in ExternalSecrets, Refresh(e) PROVE GateInv'
  <2>1. refreshed' = [refreshed EXCEPT ![e] = clock]
        /\ UNCHANGED <<pc, since, unchecked, clock, reads, moved>>
        BY <1>3 DEF Refresh
  <2>2. /\ \A s \in Transactions : renewed[s] \subseteq renewed'[s]
        /\ reads[e] => \A s \in Transactions : e \in renewed'[s]
        BY <1>3 DEF Refresh, TypeOK
  <2>3. clock \in Nat BY BoundAssumption DEF TypeOK
  <2>4. \A f \in ExternalSecrets : refreshed'[f] <= clock' BY <2>1, <2>3 DEF GateInv, TypeOK
  <2>5. ASSUME NEW s \in Transactions, pc'[s] \in {"gate", "passed"} PROVE Renewed(s)'
    <3>1. Renewed(s) BY <2>1, <2>5 DEF GateInv
    <3>2. \A f \in ExternalSecrets \ moved' : reads'[f] /\ refreshed'[f] > since'[s] => f \in renewed'[s]
          BY <2>1, <2>2, <3>1 DEF TypeOK
    <3> QED BY <2>1, <2>2, <3>1, <3>2
  <2> QED BY <2>4, <2>5 DEF GateInv
<1>4. ASSUME NEW e \in ExternalSecrets, RefreshFails(e) PROVE GateInv'
  <2>1. UNCHANGED <<pc, since, unchecked, clock, reads, refreshed, renewed, moved>>
        BY <1>4 DEF RefreshFails
  <2> QED BY <2>1 DEF GateInv
<1>5. ASSUME NEW e \in ExternalSecrets, Repoint(e) PROVE GateInv'
  <2>1. /\ moved' = moved \cup {e} /\ reads' = [reads EXCEPT ![e] = ~@]
        /\ UNCHANGED <<pc, since, unchecked, clock, refreshed, renewed>>
        BY <1>5 DEF Repoint
  <2>2. \A f \in ExternalSecrets \ moved' : reads'[f] = reads[f] BY <2>1 DEF TypeOK
  <2>3. ASSUME NEW s \in Transactions, pc'[s] \in {"gate", "passed"} PROVE Renewed(s)'
    <3>1. Renewed(s) BY <2>1, <2>3 DEF GateInv
    <3> QED BY <2>1, <2>2, <3>1
  <2> QED BY <2>1, <2>3 DEF GateInv
<1>6. CASE Tick
  <2>1. clock' = clock + 1 /\ UNCHANGED <<pc, since, unchecked, reads, refreshed, renewed, moved>>
        BY <1>6 DEF Tick
  <2>2. \A e \in ExternalSecrets : refreshed'[e] <= clock'
        BY <2>1, BoundAssumption DEF GateInv, TypeOK
  <2> QED BY <2>1, <2>2 DEF GateInv
<1> QED BY <1>1, <1>2, <1>3, <1>4, <1>5, <1>6 DEF Next, Edit
-----------------------------------------------------------------------------
LEMMA InitStamped == Init => Stamps!Init
  BY InvInit DEF Init, IInv, TypeOK, Stamps!Init

\* What the abstract store does in one step.
LEMMA StampedStep == TypeOK /\ CopyInv /\ [Next]_vars => [Stamps!Next]_<<value, stamp>>
<1> SUFFICES ASSUME TypeOK, CopyInv, [Next]_vars
             PROVE  Stamps!Next \/ UNCHANGED <<value, stamp>>
    OBVIOUS
<1> USE DEF store, txn, role, eso, history
<1>1. ASSUME NEW t \in Transactions, Transaction(t)
      PROVE  Stamps!Next \/ UNCHANGED <<value, stamp>>
  <2>1. CASE WriteRecord(t) \/ PatchSecret(t)
    <3> DEFINE o == at[t].place
               k == at[t].key
    <3>1. at[t] \in Destinations /\ o \in Objects /\ Delivered(t, value[o])
          BY <2>1, DeliveryIsAtomic
    <3>2. k \in Keys BY <3>1, ConstantTypes
    <3>3. Stamps!Deliver(o, k, t) BY <3>1 DEF Delivered, Merged, Stamps!Deliver
    <3> QED BY <3>1, <3>2, <3>3 DEF Stamps!Next
  <2> QED BY <1>1, <2>1, QuietSteps
<1>2. CASE RolePuts
  <2>1. [Empty EXCEPT ![BindingKey] = Installed]
        = [j \in Keys |-> IF j = BindingKey THEN Installed ELSE None]
        BY DEF Empty
  <2>2. Stamps!Replace(Binding, BindingKey, Installed)
        BY <1>2, <2>1 DEF RolePuts, Stamps!Replace
  <2> QED BY <2>2, ConstantTypes DEF Stamps!Next
<1>3. CASE RoleApplies
  <2>1. Stamps!Merge(AuthSecret, AuthKey, roleCopy) BY <1>3 DEF RoleApplies, Stamps!Merge
  <2>2. roleCopy \in Values BY DEF TypeOK
  <2> QED BY <2>1, <2>2, ConstantTypes DEF Stamps!Next
<1>4. CASE RoleChecks \/ RoleReads \/ RoleFails
      BY <1>4 DEF RoleChecks, RoleReads, RoleFails
<1>5. ASSUME NEW r \in Records, NEW k \in Keys, NEW v \in {Installed, None}, EditRecord(r, k, v)
      PROVE  Stamps!Next
  <2>1. Stamps!Merge(r, k, v) BY <1>5 DEF EditRecord, Stamps!Merge
  <2> QED BY <2>1, ConstantTypes DEF Stamps!Next
<1>6. CASE Eso BY <1>6 DEF Eso, Refresh, RefreshFails, Repoint
<1>7. CASE Tick \/ UNCHANGED vars BY <1>7 DEF Tick, vars
<1> QED BY <1>1, <1>2, <1>3, <1>4, <1>5, <1>6, <1>7 DEF Next, Role, Eso
-----------------------------------------------------------------------------
LEMMA InvStep == IInv /\ [Next]_vars => IInv'
<1> SUFFICES ASSUME IInv, [Next]_vars PROVE IInv'
    OBVIOUS
<1>1. TypeOK /\ CopyInv /\ MarkerTruth /\ SeenInv /\ GateInv BY DEF IInv
<1>2. TypeOK' BY <1>1, TypeStep
<1>3. CopyInv' /\ MarkerTruth' BY <1>1, <1>2, CopyStep, MarkerStep
<1>4. SeenInv' /\ GateInv' BY <1>1, <1>2, SeenStep, GateStep
<1> QED BY <1>2, <1>3, <1>4 DEF IInv

\* The inductive invariant holds in every reachable state.
THEOREM Invariant == Spec => []IInv
<1>1. IInv /\ UNCHANGED vars => IInv' BY InvStep
<1> QED BY InvInit, InvStep, PTL DEF Spec

\* Every variable keeps its type, and each adapter makes the calls of its kind
\* of object only.
THEOREM TypeCorrect == Spec => []TypeOK
  BY Invariant, PTL DEF IInv

\* has_marker can be believed, for any number of transactions, restarts, lost
\* answers and other writers.
THEOREM MarkersAreTrue == Spec => []MarkerTruth
  BY Invariant, PTL DEF IInv

\* A rerun that trusts the markers passes over no destination.
THEOREM NothingIsSkipped == Spec => []NoneSkipped
<1>1. IInv => NoneSkipped BY DEF IInv, TypeOK, SeenInv, NoneSkipped
<1> QED BY <1>1, Invariant, PTL

\* A pass of the ExternalSecret gate means a refresh after the delivery of
\* every ExternalSecret that was not given another store.
THEOREM PassMeansRefreshed == Spec => []GateMeansRefreshed
<1>1. IInv => GateMeansRefreshed BY DEF IInv, GateInv, GateMeansRefreshed
<1> QED BY <1>1, Invariant, PTL

\* The read and the checked write of a KV v2 delivery, with any other writers
\* between them, are one atomic step for everybody else.
THEOREM DeliveriesAreAtomic == Spec => ImplementsStampedStore
<1>1. IInv /\ [Next]_vars => [Stamps!Next]_<<value, stamp>> BY StampedStep DEF IInv
<1> QED BY <1>1, InitStamped, Invariant, PTL DEF Spec, ImplementsStampedStore, Stamps!Spec
=============================================================================
