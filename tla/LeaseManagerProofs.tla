------------------------- MODULE LeaseManagerProofs -------------------------
(***************************************************************************)
(* What LeaseManager.tla guarantees for any number of threads, retries and *)
(* calls and at any time: proofs of the properties its runs check.         *)
(***************************************************************************)
EXTENDS LeaseManager, TLAPS

\* The resourceVersions: the Lease and every copy of it carry one that was
\* given out, and a copy with the Lease's own resourceVersion is the Lease.
VersionsInv ==
  /\ lease.uid <= rev /\ lease.rv <= rev
  /\ \A p \in Procs : /\ snap[p].rv <= rev
                      /\ snap[p].rv = lease.rv /\ lease # NoLease => snap[p] = lease
                      /\ ret[p].uid <= rev

\* What a thread about to PUT has established about its copy.  An expired
\* copy stays expired, because time only moves forward.
DecisionInv ==
  \A p \in Procs :
    /\ pc[p] \in {"decide", "put", "sleepPut"} => snap[p] # NoLease
    /\ pc[p] = "put" => snap[p].floor <= now \/ snap[p].holder = HolderOf[p]

IInv == TypeOK /\ VersionsInv /\ DecisionInv /\ GrantHonoured
-----------------------------------------------------------------------------
\* The objects the threads write are well formed.
LEMMA NoLeaseTyped == NoLease \in Leases
BY DEF Leases

LEMMA StoredTyped ==
  ASSUME NEW l \in LeaseObject, NEW r \in Revisions
  PROVE  [l EXCEPT !.rv = r] \in LeaseObject
BY DEF LeaseObject

LEMMA CreatedTyped ==
  ASSUME TypeOK, NEW p \in Procs
  PROVE  Created(p) \in LeaseObject
BY HolderAssumption DEF Created, LeaseObject, Revisions, TypeOK, Requests

LEMMA WrittenTyped ==
  ASSUME TypeOK, NEW p \in Procs, Unconflicted(p)
  PROVE  snap[p] \in LeaseObject /\ Written(p) \in LeaseObject
<1>1. snap[p] \in LeaseObject
      BY DEF TypeOK, Unconflicted, Leases, LeaseObject, Revisions, NoLease
<1>2. EffectiveMin(p) \in Nat
      BY <1>1 DEF TypeOK, EffectiveMin, Requests, LeaseObject
<1> QED BY <1>1, <1>2, HolderAssumption DEF Written, LeaseObject
-----------------------------------------------------------------------------
\* Every variable keeps its type: the Lease is a well-formed object or absent.
LEMMA TypeInit == Init => TypeOK
BY NoLeaseTyped DEF Init, TypeOK, Requests, NoRequest, Locations, Outcomes

\* A call that ends leaves well-typed locals behind.
LEMMA ReturnTyped ==
  ASSUME TypeOK, NEW p \in Procs, NEW o \in Outcomes, NEW l \in Leases,
         Return(p, o, l)
  PROVE  /\ pc' \in [Procs -> Locations] /\ snap' \in [Procs -> Leases]
         /\ req' \in [Procs -> Requests] /\ attempt' \in [Procs -> Nat]
         /\ outcome' \in [Procs -> Outcomes] /\ ret' \in [Procs -> Leases]
BY NoLeaseTyped DEF TypeOK, Return, Goto, Locations, Requests, NoRequest

LEMMA RetryTyped ==
  ASSUME TypeOK, NEW p \in Procs, Retry(p)
  PROVE  /\ pc' \in [Procs -> Locations] /\ snap' \in [Procs -> Leases]
         /\ req' \in [Procs -> Requests] /\ attempt' \in [Procs -> Nat]
         /\ outcome' \in [Procs -> Outcomes] /\ ret' \in [Procs -> Leases]
BY DEF TypeOK, Retry, Goto, Locations

LEMMA TypeStep == TypeOK /\ [Next]_vars => TypeOK'
<1> SUFFICES ASSUME TypeOK, [Next]_vars PROVE TypeOK'
    OBVIOUS
<1> USE DEF server
<1>0. /\ LeaseObject \subseteq Leases /\ NoLease \in Leases
      /\ rev \in Nat /\ rev + 1 \in Nat /\ rev + 1 \in Revisions
      /\ "acquired" \in Outcomes /\ "refused" \in Outcomes
      /\ "raised" \in Outcomes /\ "none" \in Outcomes
      BY DEF TypeOK, Leases, Revisions, Outcomes
<1>1. CASE Tick BY <1>1 DEF Tick, TypeOK
<1>2. ASSUME NEW p \in Procs, Step(p) PROVE TypeOK'
  <2>1. ASSUME NEW d \in Extensions, NEW s \in BOOLEAN, Call(p, d, s) PROVE TypeOK'
    <3>1. [min |-> now + d, shrink |-> s] \in Requests
          BY NumberAssumption DEF TypeOK, Requests
    <3> QED BY <2>1, <3>1 DEF Call, TypeOK, Goto, Locations, Outcomes
  <2>2. CASE Get(p) BY <2>2 DEF Get, TypeOK, Goto, Locations
  <2>3. CASE PostCreates(p)
    <3>1. Created(p) \in Leases BY <1>0, CreatedTyped
    <3>2. Return(p, "acquired", Created(p)) BY <2>3 DEF PostCreates
    <3> QED BY <1>0, <2>3, <3>1, <3>2, ReturnTyped DEF PostCreates, TypeOK
  <2>4. CASE PostUnanswered(p)
    <3>1. Created(p) \in Leases BY <1>0, CreatedTyped
    <3>2. Return(p, "raised", NoLease) BY <2>4 DEF PostUnanswered
    <3> QED BY <1>0, <2>4, <3>1, <3>2, ReturnTyped DEF PostUnanswered, TypeOK
  <2>5. CASE PostConflicts(p) BY <2>5 DEF PostConflicts, TypeOK, Goto, Locations
  <2>6. CASE Reread(p)
        BY <1>0, <2>6, ReturnTyped, RetryTyped DEF Reread, TypeOK
  <2>7. CASE DecideRefuse(p)
        BY <1>0, <2>7, ReturnTyped DEF DecideRefuse, TypeOK
  <2>8. CASE DecideWrite(p) BY <2>8 DEF DecideWrite, TypeOK, Goto, Locations
  <2>9. CASE PutStores(p)
    <3> DEFINE stored == [Written(p) EXCEPT !.rv = rev + 1]
    <3>1. stored \in Leases
          BY <1>0, <2>9, WrittenTyped, StoredTyped DEF PutStores
    <3> HIDE DEF stored
    <3>2. Return(p, "acquired", stored) BY <2>9 DEF PutStores, stored
    <3>3. lease' = stored /\ rev' = rev + 1 /\ UNCHANGED <<deletes, now, calls>>
          BY <2>9 DEF PutStores, Store, stored
    <3> QED BY <1>0, <3>1, <3>2, <3>3, ReturnTyped DEF TypeOK
  <2>10. CASE PutUnanswered(p)
    <3> DEFINE stored == [Written(p) EXCEPT !.rv = rev + 1]
    <3>1. stored \in Leases
          BY <1>0, <2>10, WrittenTyped, StoredTyped DEF PutUnanswered
    <3> HIDE DEF stored
    <3>2. Return(p, "raised", NoLease) BY <2>10 DEF PutUnanswered
    <3>3. lease' = stored /\ rev' = rev + 1 /\ UNCHANGED <<deletes, now, calls>>
          BY <2>10 DEF PutUnanswered, Store, stored
    <3> QED BY <1>0, <3>1, <3>2, <3>3, ReturnTyped DEF TypeOK
  <2>11. CASE PutConflicts(p)
         BY <2>11, RetryTyped DEF PutConflicts, TypeOK
  <2>12. CASE Final(p) \/ Raise(p)
         BY <1>0, <2>12, ReturnTyped DEF Final, Raise, TypeOK
  <2> QED BY <1>2, <2>1, <2>2, <2>3, <2>4, <2>5, <2>6, <2>7, <2>8, <2>9, <2>10,
             <2>11, <2>12 DEF Step
<1>3. Reaper \in Procs BY DEF Procs
<1>4. CASE RecordSleep
      BY <1>3, <1>4 DEF RecordSleep, TypeOK, Goto, Locations, Outcomes
<1>5. CASE SleepGet
  <2>1. CASE lease = NoLease
        BY <1>0, <1>3, <1>5, <2>1, ReturnTyped DEF SleepGet, TypeOK
  <2>2. CASE lease # NoLease
        BY <1>3, <1>5, <2>2 DEF SleepGet, TypeOK, Goto, Locations
  <2> QED BY <2>1, <2>2
<1>6. CASE SleepPut
  <2>1. Return(Reaper, "none", NoLease) /\ UNCHANGED <<now, calls>>
        BY <1>6 DEF SleepPut
  <2>2. lease' \in Leases /\ rev' \in Nat /\ UNCHANGED deletes
    <3>1. CASE Unconflicted(Reaper)
          BY <1>0, <1>3, <1>6, <3>1, WrittenTyped, StoredTyped DEF SleepPut, Store
    <3>2. CASE ~Unconflicted(Reaper)
          BY <1>6, <3>2 DEF SleepPut, TypeOK
    <3> QED BY <3>1, <3>2
  <2> QED BY <1>0, <1>3, <2>1, <2>2, ReturnTyped DEF TypeOK
<1>7. CASE DeleteLease BY <1>0, <1>7 DEF DeleteLease, TypeOK
<1>8. CASE UNCHANGED vars BY <1>8 DEF vars, TypeOK
<1> QED BY <1>1, <1>2, <1>4, <1>5, <1>6, <1>7, <1>8 DEF Next

THEOREM TypeCorrect == Spec => []TypeOK
BY TypeInit, TypeStep, PTL DEF Spec
-----------------------------------------------------------------------------
\* A resourceVersion never names two states of the Lease, and a thread that is
\* about to PUT has made its decision on a copy that gave it the right to.
LEMMA InvInit == Init => IInv
<1> SUFFICES ASSUME Init PROVE IInv
    OBVIOUS
<1>1. TypeOK BY TypeInit
<1>2. VersionsInv BY DEF Init, VersionsInv, NoLease
<1>3. DecisionInv BY DEF Init, DecisionInv
<1>4. GrantHonoured BY DEF Init, GrantHonoured, Granted
<1> QED BY <1>1, <1>2, <1>3, <1>4 DEF IInv

LEMMA VersionsStep == IInv /\ [Next]_vars => VersionsInv'
<1> SUFFICES ASSUME IInv, [Next]_vars PROVE VersionsInv'
    OBVIOUS
<1>0. TypeOK /\ VersionsInv /\ TypeOK' BY TypeStep DEF IInv
<1> USE <1>0 DEF TypeOK, server
\* A step that writes nothing and whose thread at most drops its copy.
<1>1. ASSUME NEW p \in Procs, UNCHANGED server,
             \/ UNCHANGED <<snap, ret>>
             \/ \E o \in Outcomes : Return(p, o, NoLease)
      PROVE  VersionsInv'
      BY <1>1 DEF VersionsInv, Return, NoLease, Leases, LeaseObject, Revisions
\* A write by p: the new revision is in no other copy.
<1>2. ASSUME NEW p \in Procs, rev' = rev + 1, lease' \in LeaseObject,
             lease'.rv = rev + 1, lease'.uid <= rev + 1,
             \E o \in Outcomes, l \in {lease', NoLease} : Return(p, o, l)
      PROVE  VersionsInv'
      BY <1>2 DEF VersionsInv, Return, NoLease, Leases, LeaseObject, Revisions
<1>3. "acquired" \in Outcomes /\ "refused" \in Outcomes /\ "raised" \in Outcomes
      /\ "none" \in Outcomes
      BY DEF Outcomes
<1>4. ASSUME NEW p \in Procs, Unconflicted(p), NEW l, l \in {snap[p], Written(p)}
      PROVE  LET n == [l EXCEPT !.rv = rev + 1]
             IN  n \in LeaseObject /\ n.rv = rev + 1 /\ n.uid <= rev + 1
  <2>1. l \in LeaseObject BY <1>4, WrittenTyped
  <2>2. l.uid = snap[p].uid
        BY <1>4, WrittenTyped DEF Written, LeaseObject
  <2>3. snap[p] = lease BY <1>4 DEF Unconflicted, VersionsInv
  <2> QED BY <2>1, <2>2, <2>3, StoredTyped DEF LeaseObject, Revisions, VersionsInv
<1>5. ASSUME NEW p \in Procs, Step(p) PROVE VersionsInv'
  <2>1. ASSUME NEW d \in Extensions, NEW s \in BOOLEAN, Call(p, d, s)
        PROVE VersionsInv'
        BY <1>1, <2>1 DEF Call
  <2>2. CASE Get(p) BY <2>2 DEF Get, VersionsInv
  <2>3. CASE PostCreates(p) \/ PostUnanswered(p)
    <3>1. lease' \in LeaseObject /\ lease'.rv = rev + 1 /\ lease'.uid <= rev + 1
          BY <2>3, CreatedTyped DEF PostCreates, PostUnanswered, Created
    <3> QED BY <1>2, <1>3, <2>3, <3>1 DEF PostCreates, PostUnanswered
  <2>4. CASE PostConflicts(p) BY <1>1, <2>4 DEF PostConflicts
  <2>5. CASE Reread(p) BY <1>1, <1>3, <2>5 DEF Reread, Retry
  <2>6. CASE DecideRefuse(p) BY <1>1, <1>3, <2>6 DEF DecideRefuse
  <2>7. CASE DecideWrite(p) BY <1>1, <2>7 DEF DecideWrite
  <2>8. CASE PutStores(p) \/ PutUnanswered(p)
    <3>1. lease' \in LeaseObject /\ lease'.rv = rev + 1 /\ lease'.uid <= rev + 1
          BY <1>4, <2>8 DEF PutStores, PutUnanswered, Store
    <3> QED BY <1>2, <1>3, <2>8, <3>1 DEF PutStores, PutUnanswered, Store
  <2>9. CASE PutConflicts(p) BY <1>1, <2>9 DEF PutConflicts, Retry
  <2>10. CASE Final(p) \/ Raise(p) BY <1>1, <1>3, <2>10 DEF Final, Raise
  <2> QED BY <1>5, <2>1, <2>2, <2>3, <2>4, <2>5, <2>6, <2>7, <2>8, <2>9, <2>10
          DEF Step
<1>6. Reaper \in Procs BY DEF Procs
<1>7. CASE Tick BY <1>1, <1>6, <1>7 DEF Tick
<1>8. CASE RecordSleep BY <1>1, <1>6, <1>8 DEF RecordSleep
<1>9. CASE SleepGet
  <2>1. CASE lease = NoLease BY <1>1, <1>3, <1>6, <1>9, <2>1 DEF SleepGet
  <2>2. CASE lease # NoLease BY <1>6, <1>9, <2>2 DEF SleepGet, VersionsInv
  <2> QED BY <2>1, <2>2
<1>10. CASE SleepPut
  <2>1. CASE Unconflicted(Reaper)
        BY <1>2, <1>3, <1>4, <1>6, <1>10, <2>1 DEF SleepPut, Store
  <2>2. CASE ~Unconflicted(Reaper)
        BY <1>1, <1>3, <1>6, <1>10, <2>2 DEF SleepPut
  <2> QED BY <2>1, <2>2
<1>11. CASE DeleteLease
       BY <1>11 DEF DeleteLease, VersionsInv, NoLease
<1>12. CASE UNCHANGED vars BY <1>1, <1>6, <1>12 DEF vars
<1> QED BY <1>5, <1>7, <1>8, <1>9, <1>10, <1>11, <1>12 DEF Next

LEMMA DecisionStep == IInv /\ [Next]_vars => DecisionInv'
<1> SUFFICES ASSUME IInv, [Next]_vars PROVE DecisionInv'
    OBVIOUS
<1>0. TypeOK /\ DecisionInv BY DEF IInv
<1> USE <1>0 DEF TypeOK, DecisionInv
\* Threads that end a call, or go somewhere else, establish nothing.
<1>1. ASSUME NEW p \in Procs, now' = now,
             \A q \in Procs \ {p} : pc'[q] = pc[q] /\ snap'[q] = snap[q],
             pc'[p] \notin {"decide", "put", "sleepPut"}
      PROVE  DecisionInv'
      BY <1>1
<1>2. ASSUME NEW p \in Procs, Step(p) PROVE DecisionInv'
  <2>1. ASSUME NEW d \in Extensions, NEW s \in BOOLEAN, Call(p, d, s)
        PROVE DecisionInv'
        BY <1>1, <2>1 DEF Call, Goto
  <2>2. CASE Get(p) BY <2>2 DEF Get, Goto
  <2>3. CASE \/ PostCreates(p) \/ PostUnanswered(p) \/ DecideRefuse(p)
             \/ PutStores(p) \/ PutUnanswered(p) \/ Final(p) \/ Raise(p)
        BY <1>1, <2>3 DEF PostCreates, PostUnanswered, DecideRefuse, PutStores,
           PutUnanswered, Final, Raise, Return, Goto
  <2>4. CASE PostConflicts(p) BY <1>1, <2>4 DEF PostConflicts, Goto
  <2>5. CASE Reread(p) \/ PutConflicts(p)
        BY <1>1, <2>5 DEF Reread, PutConflicts, Return, Retry, Goto
  <2>6. CASE DecideWrite(p) BY <2>6 DEF DecideWrite, Goto, LeaseExpired
  <2> QED BY <1>2, <2>1, <2>2, <2>3, <2>4, <2>5, <2>6 DEF Step
<1>3. Reaper \in Procs BY DEF Procs
<1>4. CASE Tick
  <2>1. ASSUME NEW p \in Procs PROVE snap[p].floor \in Nat
        BY DEF Leases, LeaseObject, NoLease
  <2> QED BY <1>4, <2>1 DEF Tick
<1>5. CASE RecordSleep BY <1>1, <1>3, <1>5 DEF RecordSleep, Goto
<1>6. CASE SleepGet
  <2>1. CASE lease = NoLease
        BY <1>1, <1>3, <1>6, <2>1 DEF SleepGet, Return, Goto
  <2>2. CASE lease # NoLease BY <1>3, <1>6, <2>2 DEF SleepGet, Goto
  <2> QED BY <2>1, <2>2
<1>7. CASE SleepPut BY <1>1, <1>3, <1>7 DEF SleepPut, Return, Goto
<1>8. CASE DeleteLease BY <1>8 DEF DeleteLease
<1>9. CASE UNCHANGED vars BY <1>9 DEF vars
<1> QED BY <1>2, <1>4, <1>5, <1>6, <1>7, <1>8, <1>9 DEF Next
-----------------------------------------------------------------------------
\* A stored PUT replaces exactly the copy its thread decided on: it comes from
\* the owner of the Lease, or the Lease had already run out.
LEMMA PutRight ==
  ASSUME IInv, NEW p \in Procs, pc[p] = "put", Unconflicted(p)
  PROVE  /\ snap[p] = lease
         /\ lease.floor <= now \/ lease.holder = HolderOf[p]
BY DEF IInv, VersionsInv, DecisionInv, Unconflicted

\* A grant stays in force when a step leaves the caller's record alone and the
\* Lease keeps its holder and at least its floor.
LEMMA GrantKept ==
  ASSUME IInv, TypeOK', NEW p \in Procs, NamesItsOwner(p), Granted(p)',
         outcome'[p] = outcome[p], ret'[p] = ret[p], now <= now',
         \/ lease' = lease
         \/ /\ lease # NoLease /\ lease'.uid = lease.uid
            /\ lease'.holder = lease.holder /\ lease'.floor >= lease.floor
  PROVE  lease'.holder = HolderOf[p] /\ lease'.floor >= ret'[p].floor
<1>1. ret[p].floor \in Nat /\ lease.floor \in Nat /\ lease'.floor \in Nat
      /\ now \in Nat /\ now' \in Nat
      BY DEF IInv, TypeOK, Leases, LeaseObject, NoLease
<1>2. Granted(p) BY <1>1 DEF Granted
<1>3. lease.holder = HolderOf[p] /\ lease.floor >= ret[p].floor
      BY <1>2 DEF IInv, GrantHonoured
<1> QED BY <1>1, <1>3

LEMMA GrantStep == IInv /\ [Next]_vars => GrantHonoured'
<1> SUFFICES ASSUME IInv, [Next]_vars,
                    NEW q \in Procs, NamesItsOwner(q), Granted(q)'
             PROVE  lease'.holder = HolderOf[q] /\ lease'.floor >= ret'[q].floor
    BY DEF GrantHonoured, NamesItsOwner
<1>0. TypeOK /\ TypeOK' /\ VersionsInv BY TypeStep DEF IInv
<1>1. ASSUME outcome'[q] = outcome[q], ret'[q] = ret[q], now <= now', lease' = lease
      PROVE  lease'.holder = HolderOf[q] /\ lease'.floor >= ret'[q].floor
      BY <1>0, <1>1, GrantKept
\* A step of q's own: a call that starts or ends without acquiring leaves q
\* with no grant.
<1>2. ASSUME outcome'[q] # "acquired"
      PROVE  lease'.holder = HolderOf[q] /\ lease'.floor >= ret'[q].floor
      BY <1>2 DEF Granted
<1>3. now <= now BY <1>0 DEF TypeOK
<1>4. ASSUME NEW p \in Procs, Step(p)
      PROVE  lease'.holder = HolderOf[q] /\ lease'.floor >= ret'[q].floor
  <2> USE DEF server
  <2>1. ASSUME NEW d \in Extensions, NEW s \in BOOLEAN, Call(p, d, s)
        PROVE  lease'.holder = HolderOf[q] /\ lease'.floor >= ret'[q].floor
    <3>1. CASE p = q BY <1>0, <1>2, <2>1, <3>1 DEF Call, TypeOK
    <3>2. CASE p # q BY <1>0, <1>1, <1>3, <2>1, <3>2 DEF Call, TypeOK
    <3> QED BY <3>1, <3>2
  <2>2. CASE Get(p) \/ PostConflicts(p) \/ DecideWrite(p) \/ PutConflicts(p)
        BY <1>1, <1>3, <2>2 DEF Get, PostConflicts, DecideWrite, PutConflicts, Retry
  <2>3. CASE Reread(p) \/ DecideRefuse(p) \/ Final(p) \/ Raise(p)
    <3>1. CASE p = q
      <4>1. \/ outcome'[q] # "acquired"
            \/ UNCHANGED <<outcome, ret, lease, now>>
            BY <1>0, <2>3, <3>1
               DEF Reread, DecideRefuse, Final, Raise, Return, Retry, TypeOK
      <4> QED BY <1>1, <1>2, <1>3, <4>1
    <3>2. CASE p # q
          BY <1>0, <1>1, <1>3, <2>3, <3>2
             DEF Reread, DecideRefuse, Final, Raise, Return, Retry, TypeOK
    <3> QED BY <3>1, <3>2
  <2>4. CASE PostCreates(p) \/ PostUnanswered(p)
    <3>1. CASE p = q
      <4>1. outcome'[q] # "acquired" \/ ret'[q] = lease'
            BY <1>0, <2>4, <3>1 DEF PostCreates, PostUnanswered, Return, TypeOK
      <4>2. lease'.floor \in Nat
            BY <1>0, <2>4, CreatedTyped DEF PostCreates, PostUnanswered, LeaseObject
      <4>3. lease'.holder = HolderOf[q]
            BY <2>4, <3>1 DEF PostCreates, PostUnanswered, Created
      <4> QED BY <1>2, <4>1, <4>2, <4>3
    \* The new object has a uid no earlier grant names.
    <3>2. CASE p # q
      <4>1. ret'[q] = ret[q] /\ lease'.uid = rev + 1
            BY <1>0, <2>4, <3>2
               DEF PostCreates, PostUnanswered, Return, Created, TypeOK
      <4>2. ret[q].uid <= rev /\ ret[q].uid \in Nat /\ rev \in Nat
            BY <1>0 DEF VersionsInv, TypeOK, Leases, LeaseObject, NoLease, Revisions
      <4> QED BY <4>1, <4>2 DEF Granted
    <3> QED BY <3>1, <3>2
  <2>5. CASE PutStores(p) \/ PutUnanswered(p)
    <3>1. /\ snap[p] = lease /\ (lease.floor <= now \/ lease.holder = HolderOf[p])
          /\ lease # NoLease /\ lease \in LeaseObject /\ Written(p) \in LeaseObject
      <4>1. pc[p] = "put" /\ Unconflicted(p) BY <2>5 DEF PutStores, PutUnanswered
      <4>2. lease # NoLease /\ lease \in LeaseObject
            BY <1>0, <4>1 DEF Unconflicted, TypeOK, Leases
      <4> QED BY <1>0, <4>1, <4>2, WrittenTyped, PutRight
    <3>2. Written(p).holder = HolderOf[p] /\ Written(p).uid = lease.uid
          BY <3>1 DEF Written, LeaseObject
    <3>3. /\ lease'.holder = HolderOf[p] /\ lease'.uid = lease.uid
          /\ lease'.floor \in Nat /\ now' = now
          BY <2>5, <3>1, <3>2 DEF PutStores, PutUnanswered, Store, LeaseObject
    <3>4. CASE p = q
      <4>1. \/ outcome'[q] # "acquired"
            \/ ret'[q] = lease'
            BY <1>0, <2>5, <3>4 DEF PutStores, PutUnanswered, Store, Return, TypeOK
      <4> QED BY <1>2, <3>3, <3>4, <4>1
    \* q's grant would still be in force, so p was neither its holder nor late.
    <3>5. CASE p # q
      <4>1. ret'[q] = ret[q] /\ outcome'[q] = outcome[q]
            BY <1>0, <2>5, <3>5 DEF PutStores, PutUnanswered, Return, TypeOK
      <4>2. Granted(q) BY <3>1, <3>3, <4>1 DEF Granted
      <4>3. lease.holder = HolderOf[q] /\ lease.floor >= ret[q].floor
            BY <4>2 DEF IInv, GrantHonoured
      <4>4. HolderOf[p] # HolderOf[q] BY <3>5 DEF NamesItsOwner
      <4>5. ~(lease.floor <= now)
            BY <1>0, <3>1, <4>2, <4>3
               DEF Granted, TypeOK, Leases, LeaseObject, NoLease
      <4> QED BY <3>1, <4>3, <4>4, <4>5
    <3> QED BY <3>4, <3>5
  <2> QED BY <1>4, <2>1, <2>2, <2>3, <2>4, <2>5 DEF Step
<1>5. Reaper \in Procs BY DEF Procs
<1>6. CASE Tick
      BY <1>0, <1>1, <1>6 DEF Tick, TypeOK, server
<1>7. CASE RecordSleep
  <2>1. CASE q = Reaper
        BY <1>0, <1>2, <1>5, <1>7, <2>1 DEF RecordSleep, TypeOK
  <2>2. CASE q # Reaper
        BY <1>0, <1>1, <1>3, <1>7, <2>2 DEF RecordSleep, TypeOK, server
  <2> QED BY <2>1, <2>2
<1>8. CASE SleepGet \/ SleepPut
  <2>1. CASE q = Reaper
    <3>1. \/ outcome'[q] # "acquired"
          \/ UNCHANGED <<outcome, ret, lease, now>>
          BY <1>0, <1>5, <1>8, <2>1 DEF SleepGet, SleepPut, Return, TypeOK, server
    <3> QED BY <1>1, <1>2, <1>3, <3>1
  <2>2. CASE q # Reaper
    <3>1. outcome'[q] = outcome[q] /\ ret'[q] = ret[q] /\ now' = now
          BY <1>0, <1>8, <2>2 DEF SleepGet, SleepPut, Return, TypeOK
    <3>2. \/ lease' = lease
          \/ /\ lease # NoLease /\ lease'.uid = lease.uid
             /\ lease'.holder = lease.holder /\ lease'.floor >= lease.floor
      <4>1. CASE SleepGet \/ ~Unconflicted(Reaper)
            BY <1>8, <4>1 DEF SleepGet, SleepPut, server
      <4>2. CASE SleepPut /\ Unconflicted(Reaper)
        <5>1. snap[Reaper] = lease /\ lease # NoLease /\ lease \in LeaseObject
              BY <1>0, <1>5, <4>2 DEF Unconflicted, VersionsInv, TypeOK, Leases
        <5>2. lease' = [lease EXCEPT !.rv = rev + 1]
              BY <4>2, <5>1 DEF SleepPut, Store
        <5> QED BY <5>1, <5>2 DEF LeaseObject
      <4> QED BY <1>8, <4>1, <4>2
    <3> QED BY <1>0, <1>3, <3>1, <3>2, GrantKept
  <2> QED BY <2>1, <2>2
<1>9. CASE DeleteLease BY <1>9 DEF DeleteLease, Granted
<1>10. CASE UNCHANGED vars BY <1>1, <1>3, <1>10 DEF vars
<1> QED BY <1>4, <1>6, <1>7, <1>8, <1>9, <1>10 DEF Next

LEMMA InvStep == IInv /\ [Next]_vars => IInv'
BY TypeStep, VersionsStep, DecisionStep, GrantStep DEF IInv

LEMMA Invariant == Spec => []IInv
BY InvInit, InvStep, PTL DEF Spec

\* A caller told it acquired the Lease keeps it until the floor it was given,
\* whatever the other threads, the clock and lost responses do.
THEOREM GrantsAreHonoured == Spec => []GrantHonoured
BY Invariant, PTL DEF IInv

\* With an identity of its own for every thread, the Lease is single-flight.
THEOREM LeaseIsSingleFlight ==
  ASSUME \A p \in Procs : NamesItsOwner(p)
  PROVE  Spec => []SingleFlight
<1>1. IInv => SingleFlight
  <2> SUFFICES ASSUME IInv, NEW p \in Procs, NEW q \in Procs, p # q,
                      Granted(p), Granted(q)
               PROVE  FALSE
      BY DEF SingleFlight
  <2>1. lease.holder = HolderOf[p] /\ lease.holder = HolderOf[q]
        BY DEF IInv, GrantHonoured
  <2> QED BY <2>1 DEF NamesItsOwner
<1> QED BY <1>1, Invariant, PTL
-----------------------------------------------------------------------------
\* Every step of the loop is a step of the register or leaves it alone.
LEMMA RegisterInit == Init => Register!Init
BY DEF Init, Register!Init, NoLease, Left

LEMMA RegisterStep == IInv /\ IInv' /\ [Next]_vars => [Register!Next]_Register!vars
<1> SUFFICES ASSUME IInv, IInv', [Next]_vars PROVE [Register!Next]_Register!vars
    OBVIOUS
<1>0. /\ TypeOK /\ TypeOK'
      /\ now \in Nat /\ lease.floor \in Nat /\ lease'.floor \in Nat
      BY DEF IInv, TypeOK, Leases, LeaseObject, NoLease
<1> USE DEF server
<1>1. ASSUME UNCHANGED <<now, lease>> PROVE [Register!Next]_Register!vars
      BY <1>1 DEF Register!vars, Left
<1>2. ASSUME NEW p \in Procs, PostCreates(p) \/ PostUnanswered(p)
      PROVE  Register!Next
  <2>1. HolderOf[p] \in Holders BY HolderAssumption
  <2>2. lease.floor = 0 /\ lease'.holder = HolderOf[p] /\ now' = now
        BY <1>2 DEF PostCreates, PostUnanswered, Created, NoLease
  <2>3. Left = 0 /\ Left' \in Nat BY <1>0, <2>2 DEF Left
  <2>4. Register!Acquire(HolderOf[p]) BY <2>2, <2>3 DEF Register!Acquire
  <2> QED BY <2>1, <2>4 DEF Register!Next
<1>3. ASSUME NEW p \in Procs, PutStores(p) \/ PutUnanswered(p)
      PROVE  Register!Next
  <2>1. pc[p] = "put" /\ Unconflicted(p) BY <1>3 DEF PutStores, PutUnanswered
  <2>2. /\ snap[p] = lease /\ (lease.floor <= now \/ lease.holder = HolderOf[p])
        /\ lease \in LeaseObject /\ Written(p) \in LeaseObject
        BY <1>0, <2>1, PutRight, WrittenTyped
  <2>3. Written(p).holder = HolderOf[p] /\ Written(p).floor = EffectiveMin(p)
        BY <2>2 DEF Written, LeaseObject
  <2>4. lease'.holder = HolderOf[p] /\ lease'.floor = EffectiveMin(p) /\ now' = now
        BY <1>3, <2>2, <2>3 DEF PutStores, PutUnanswered, Store, LeaseObject
  <2>5. HolderOf[p] \in Holders BY HolderAssumption
  <2>6. Left' \in Nat BY <1>0, <2>4 DEF Left
  <2>7. CASE lease.holder = HolderOf[p]
    <3>1. Register!Rewrite(HolderOf[p]) BY <2>4, <2>6, <2>7 DEF Register!Rewrite
    <3> QED BY <2>5, <3>1 DEF Register!Next
  <2>8. CASE lease.floor <= now
    <3>1. Left = 0 BY <1>0, <2>8 DEF Left
    <3>2. Register!Acquire(HolderOf[p]) BY <2>4, <2>6, <3>1 DEF Register!Acquire
    <3> QED BY <2>5, <3>2 DEF Register!Next
  <2> QED BY <2>2, <2>7, <2>8
<1>4. CASE Tick
  <2>1. now' = now + 1 /\ lease' = lease BY <1>4 DEF Tick
  <2>2. Left' = IF Left = 0 THEN 0 ELSE Left - 1 BY <1>0, <2>1 DEF Left
  <2> QED BY <2>1, <2>2 DEF Register!Next, Register!Tick
<1>5. ASSUME NEW p \in Procs, Step(p) PROVE [Register!Next]_Register!vars
  <2>1. \/ UNCHANGED <<now, lease>>
        \/ PostCreates(p) \/ PostUnanswered(p) \/ PutStores(p) \/ PutUnanswered(p)
        BY <1>5 DEF Step, Call, Get, PostConflicts, Reread, DecideRefuse,
           DecideWrite, PutConflicts, Final, Raise
  <2> QED BY <1>1, <1>2, <1>3, <2>1
<1>6. CASE RecordSleep \/ SleepGet BY <1>1, <1>6 DEF RecordSleep, SleepGet
<1>7. CASE SleepPut
  <2>1. CASE Unconflicted(Reaper)
    <3>1. Reaper \in Procs BY DEF Procs
    <3>2. snap[Reaper] = lease /\ lease \in LeaseObject
          BY <1>0, <2>1, <3>1
             DEF IInv, VersionsInv, Unconflicted, TypeOK, Leases
    <3>3. lease' = [lease EXCEPT !.rv = rev + 1] /\ now' = now
          BY <1>7, <2>1, <3>2 DEF SleepPut, Store
    <3>4. lease'.holder = lease.holder /\ lease'.floor = lease.floor
          BY <3>2, <3>3 DEF LeaseObject
    <3> QED BY <3>3, <3>4 DEF Left, Register!vars
  <2>2. CASE ~Unconflicted(Reaper) BY <1>1, <1>7, <2>2 DEF SleepPut
  <2> QED BY <2>1, <2>2
<1>8. CASE DeleteLease
  <2>1. lease.holder # NoHolder
        BY <1>0, <1>8, NoHolderAssumption
           DEF DeleteLease, TypeOK, Leases, LeaseObject
  <2>2. lease' = NoLease /\ now' = now BY <1>8 DEF DeleteLease
  <2>3. lease'.holder = NoHolder /\ Left' = 0 BY <1>0, <2>2 DEF NoLease, Left
  <2> QED BY <2>1, <2>3 DEF Register!Next, Register!Vanish
<1>9. CASE UNCHANGED vars BY <1>1, <1>9 DEF vars
<1> QED BY <1>4, <1>5, <1>6, <1>7, <1>8, <1>9 DEF Next

\* create_or_update and record_sleep, with all their requests, retries and lost
\* responses, implement the atomic register of WakeLease.tla.
THEOREM LeaseImplementsRegister == Spec => ImplementsWakeLease
<1>1. Spec => []IInv BY Invariant
<1> QED BY <1>1, RegisterInit, RegisterStep, PTL
        DEF Spec, ImplementsWakeLease, Register!Spec

\* A Lease in force changes hands only by being deleted: what the register
\* forbids, the loop never does.
THEOREM ActiveLeaseKept == Spec => ActiveLeaseNotStolen
<1>1. IInv /\ IInv' /\ [Next]_vars => [NotStolen]_vars
  <2> SUFFICES ASSUME IInv, IInv', [Next]_vars, lease # NoLease,
                      ~LeaseExpired(lease)
               PROVE  lease'.holder \in {lease.holder, NoHolder}
      BY DEF NotStolen
  <2>1. [Register!Next]_Register!vars BY RegisterStep
  <2>2. CASE Register!Tick BY <2>2 DEF Register!Tick
  <2>3. ASSUME NEW h \in Holders, Register!Acquire(h) \/ Register!Rewrite(h)
        PROVE  lease'.holder = lease.holder
    <3>1. lease.floor \in Nat /\ now \in Nat
          BY DEF IInv, TypeOK, Leases, LeaseObject, NoLease
    <3>2. Left # 0 BY <3>1 DEF Left, LeaseExpired
    <3> QED BY <2>3, <3>2 DEF Register!Acquire, Register!Rewrite
  <2>4. CASE Register!Vanish BY <2>4 DEF Register!Vanish
  <2>5. CASE UNCHANGED Register!vars BY <2>5 DEF Register!vars
  <2> QED BY <2>1, <2>2, <2>3, <2>4, <2>5 DEF Register!Next
<1> QED BY <1>1, Invariant, PTL DEF Spec, ActiveLeaseNotStolen

\* Nobody but the owner asking for the #312 rewrite ever lowers the floor.
THEOREM FloorLoweredByOwnerOnly == Spec => OnlyOwnerShrinks
<1>1. IInv /\ IInv' /\ [Next]_vars => [LoweredByOwner]_vars
  <2> SUFFICES ASSUME IInv, IInv', [Next]_vars, lease # NoLease, lease' # NoLease,
                      lease'.floor < lease.floor
               PROVE  RewrittenByOwner
      BY DEF LoweredByOwner
  <2> USE DEF server
  <2>0. TypeOK /\ lease \in LeaseObject
        BY DEF IInv, TypeOK, Leases
  <2>1. lease' # lease BY <2>0 DEF LeaseObject
  <2>2. ASSUME NEW p \in Procs, Step(p) PROVE RewrittenByOwner
    <3>1. PutStores(p) \/ PutUnanswered(p)
          BY <2>1, <2>2 DEF Step, Call, Get, PostCreates, PostUnanswered,
             PostConflicts, Reread, DecideRefuse, DecideWrite, PutConflicts, Final,
             Raise
    <3>2. pc[p] = "put" /\ pc'[p] = "idle" /\ Unconflicted(p)
          BY <2>0, <3>1 DEF PutStores, PutUnanswered, Return, Goto, TypeOK
    <3>3. snap[p] = lease /\ Written(p) \in LeaseObject
          BY <2>0, <3>2, PutRight, WrittenTyped
    <3>4. Written(p).floor = EffectiveMin(p) BY <2>0, <3>3 DEF Written, LeaseObject
    <3>5. lease'.floor = EffectiveMin(p)
          BY <3>1, <3>3, <3>4 DEF PutStores, PutUnanswered, Store, LeaseObject
    <3>6. req[p].min \in Nat /\ lease.floor \in Nat
          BY <2>0 DEF TypeOK, Requests, LeaseObject
    <3>7. req[p].shrink /\ lease.holder = HolderOf[p]
          BY <3>3, <3>5, <3>6 DEF EffectiveMin
    <3> QED BY <3>2, <3>7 DEF RewrittenByOwner
  <2>3. ASSUME SleepPut PROVE FALSE
    <3>1. Reaper \in Procs BY DEF Procs
    <3>2. Unconflicted(Reaper) BY <2>1, <2>3 DEF SleepPut
    <3>3. snap[Reaper] = lease
          BY <3>1, <3>2 DEF IInv, VersionsInv, Unconflicted
    <3>4. lease' = [lease EXCEPT !.rv = rev + 1]
          BY <2>3, <3>2, <3>3 DEF SleepPut, Store
    <3> QED BY <2>0, <3>4 DEF LeaseObject
  <2>4. ~(Tick \/ RecordSleep \/ SleepGet \/ DeleteLease \/ UNCHANGED vars)
        BY <2>1 DEF Tick, RecordSleep, SleepGet, DeleteLease, vars
  <2> QED BY <2>2, <2>3, <2>4 DEF Next
<1> QED BY <1>1, Invariant, PTL DEF Spec, OnlyOwnerShrinks
-----------------------------------------------------------------------------
\* Where a thread is in an attempt, and how many more attempts it has.
Trying == {"get", "post", "decide", "reread", "put"}
Place(l) == IF l = "get" THEN 4 ELSE IF l \in {"post", "decide"} THEN 3
            ELSE IF l \in {"reread", "put", "sleepGet"} THEN 2
            ELSE IF l \in {"final", "sleepPut"} THEN 1 ELSE 0
AttemptsLeft(p) == IF pc[p] \in Trying THEN MaxRetries - (attempt[p] + 1) ELSE 0

\* The most steps a thread can still take in its call.
Steps(attempts, place) == 3 * attempts + place
Budget(p) == Steps(AttemptsLeft(p), Place(pc[p]))

\* A step of the thread uses its budget up; no step of another one extends it.
CallAdvances == \A p \in Procs : IF pc'[p] = pc[p] THEN Budget(p)' = Budget(p)
                                 ELSE pc[p] = "idle" \/ Budget(p)' < Budget(p)

AttemptOf(p) == /\ pc[p] \in Trying => attempt[p] < MaxRetries
                /\ pc[p] \in {"idle", "sleepGet", "sleepPut"} => attempt[p] = 0
AttemptInv == \A p \in Procs : AttemptOf(p)

LEMMA StepsFall ==
  ASSUME NEW b \in Nat, NEW x \in 0 .. 4, NEW y \in 0 .. 4
  PROVE  /\ y < x => Steps(b, y) < Steps(b, x)
         /\ b > 0 /\ x = 2 => Steps(b - 1, 4) < Steps(b, x)
         /\ x > 0 => Steps(0, 0) < Steps(b, x)
         /\ \A t \in Nat : b < t => Steps(b, x) <= 3 * t + 1
         /\ Steps(b, x) \in Nat
BY DEF Steps

LEMMA BudgetParts ==
  ASSUME TypeOK, AttemptInv, NEW p \in Procs
  PROVE  /\ pc[p] \in Locations /\ attempt[p] \in Nat
         /\ Place(pc[p]) \in 0 .. 4 /\ (pc[p] # "idle" => Place(pc[p]) > 0)
         /\ AttemptsLeft(p) \in 0 .. MaxRetries - 1
<1>1. pc[p] \in Locations /\ attempt[p] \in Nat BY DEF TypeOK
<1>2. AttemptOf(p) BY DEF AttemptInv
<1>3. AttemptsLeft(p) \in 0 .. MaxRetries - 1
      BY <1>1, <1>2, NumberAssumption DEF AttemptOf, AttemptsLeft
<1> QED BY <1>1, <1>3 DEF Locations, Place

LEMMA CallStep ==
  ASSUME TypeOK, AttemptInv, [Next]_vars, NEW p \in Procs
  PROVE  /\ AttemptOf(p)'
         /\ IF pc'[p] = pc[p] THEN Budget(p)' = Budget(p)
            ELSE pc[p] = "idle" \/ Budget(p)' < Budget(p)
<1> DEFINE Goal == /\ AttemptOf(p)'
                   /\ IF pc'[p] = pc[p] THEN Budget(p)' = Budget(p)
                      ELSE pc[p] = "idle" \/ Budget(p)' < Budget(p)
<1> SUFFICES Goal OBVIOUS
<1>0. /\ pc[p] \in Locations /\ attempt[p] \in Nat /\ AttemptOf(p)
      /\ Place(pc[p]) \in 0 .. 4 /\ (pc[p] # "idle" => Place(pc[p]) > 0)
      /\ AttemptsLeft(p) \in Nat /\ MaxRetries \in Nat \ {0}
      BY BudgetParts, NumberAssumption DEF AttemptInv
<1>1. ASSUME pc'[p] = pc[p], attempt'[p] = attempt[p] PROVE Goal
      BY <1>0, <1>1 DEF AttemptOf, Budget, AttemptsLeft
<1>2. ASSUME pc[p] # "idle", pc'[p] = "idle", attempt'[p] = 0 PROVE Goal
  <2>1. Place(pc'[p]) = 0 /\ AttemptsLeft(p)' = 0
        BY <1>2 DEF Place, AttemptsLeft, Trying
  <2>2. Steps(0, 0) < Steps(AttemptsLeft(p), Place(pc[p])) BY <1>0, <1>2, StepsFall
  <2> QED BY <1>0, <1>2, <2>1, <2>2 DEF AttemptOf, Budget, Trying
<1>3. ASSUME pc[p] \in Trying, pc'[p] \in Trying, attempt'[p] = attempt[p],
             Place(pc'[p]) < Place(pc[p])
      PROVE  Goal
  <2>1. AttemptsLeft(p)' = AttemptsLeft(p) BY <1>3 DEF AttemptsLeft
  <2>2. Place(pc'[p]) \in 0 .. 4 BY DEF Place
  <2>3. Steps(AttemptsLeft(p), Place(pc'[p])) < Steps(AttemptsLeft(p), Place(pc[p]))
        BY <1>0, <1>3, <2>2, StepsFall
  <2> QED BY <1>0, <1>3, <2>1, <2>3 DEF AttemptOf, Budget, Trying
<1>4. ASSUME pc[p] \in {"put", "reread"}, Retry(p) PROVE Goal
  <2>1. /\ Place(pc[p]) = 2 /\ AttemptsLeft(p) = MaxRetries - (attempt[p] + 1)
        /\ attempt[p] < MaxRetries
        BY <1>0, <1>4 DEF Place, AttemptsLeft, AttemptOf, Trying
  <2>2. attempt'[p] = attempt[p] + 1
        /\ pc'[p] = (IF attempt[p] + 1 < MaxRetries THEN "get" ELSE "final")
        BY <1>4 DEF Retry, Goto, TypeOK
  <2>3. CASE attempt[p] + 1 < MaxRetries
    <3>1. /\ pc'[p] = "get" /\ Place(pc'[p]) = 4
          /\ AttemptsLeft(p)' = AttemptsLeft(p) - 1 /\ AttemptsLeft(p) > 0
          BY <1>0, <2>1, <2>2, <2>3 DEF Place, AttemptsLeft, Trying
    <3>2. Steps(AttemptsLeft(p) - 1, 4) < Steps(AttemptsLeft(p), Place(pc[p]))
          BY <1>0, <2>1, <3>1, StepsFall
    <3>3. Budget(p)' < Budget(p) BY <3>1, <3>2 DEF Budget
    <3>4. AttemptOf(p)' BY <1>0, <2>2, <2>3, <3>1 DEF AttemptOf
    <3> QED BY <1>4, <3>1, <3>3, <3>4
  <2>4. CASE ~(attempt[p] + 1 < MaxRetries)
    <3>1. /\ pc'[p] = "final" /\ Place(pc'[p]) = 1
          /\ AttemptsLeft(p)' = 0 /\ AttemptsLeft(p) = 0
          BY <1>0, <2>1, <2>2, <2>4 DEF Place, AttemptsLeft, Trying
    <3>2. Steps(0, 1) < Steps(0, Place(pc[p])) BY <2>1, StepsFall
    <3> QED BY <1>4, <3>1, <3>2 DEF AttemptOf, Budget, Trying
  <2> QED BY <2>3, <2>4
<1>5. ASSUME pc[p] = "idle", pc'[p] \in {"get", "sleepGet"}, attempt'[p] = attempt[p]
      PROVE  Goal
      BY <1>0, <1>5 DEF AttemptOf, Trying
<1>6. ASSUME NEW q \in Procs, Step(q) PROVE Goal
  <2>1. CASE q # p
    <3>1. pc'[p] = pc[p] /\ attempt'[p] = attempt[p]
          BY <1>6, <2>1 DEF Step, Call, Get, PostCreates, PostConflicts, PostUnanswered,
             Reread, DecideRefuse, DecideWrite, PutStores, PutConflicts, PutUnanswered,
             Final, Raise, Return, Retry, Goto, TypeOK
    <3> QED BY <1>1, <3>1
  <2>2. CASE q = p
    <3> USE DEF TypeOK
    <3>1. ASSUME NEW o, NEW l, Return(p, o, l), pc[p] # "idle" PROVE Goal
          BY <1>2, <3>1 DEF Return, Goto
    <3>2. ASSUME NEW d \in Extensions, NEW s \in BOOLEAN, Call(p, d, s) PROVE Goal
          BY <1>5, <3>2 DEF Call, Goto
    <3>3. CASE Get(p) \/ PostConflicts(p) \/ DecideWrite(p)
          BY <1>3, <3>3 DEF Get, PostConflicts, DecideWrite, Goto, Trying, Place
    <3>4. CASE \/ PostCreates(p) \/ PostUnanswered(p) \/ DecideRefuse(p) \/ PutStores(p)
               \/ PutUnanswered(p) \/ Final(p) \/ Raise(p)
          BY <3>1, <3>4 DEF PostCreates, PostUnanswered, DecideRefuse, PutStores,
             PutUnanswered, Final, Raise
    <3>5. CASE Reread(p) \/ PutConflicts(p)
          BY <1>4, <3>1, <3>5 DEF Reread, PutConflicts
    <3> QED BY <1>6, <2>2, <3>2, <3>3, <3>4, <3>5 DEF Step
  <2> QED BY <2>1, <2>2
<1>7. CASE RecordSleep \/ SleepGet \/ SleepPut
  <2>1. CASE p # Reaper
    <3>1. pc'[p] = pc[p] /\ attempt'[p] = attempt[p]
          BY <1>7, <2>1 DEF RecordSleep, SleepGet, SleepPut, Return, Goto, TypeOK
    <3> QED BY <1>1, <3>1
  <2>2. CASE p = Reaper
    <3>1. CASE RecordSleep BY <1>5, <2>2, <3>1 DEF RecordSleep, Goto, TypeOK
    <3>2. CASE SleepGet
      <4>1. CASE lease = NoLease
            BY <1>2, <2>2, <3>2, <4>1 DEF SleepGet, Return, Goto, TypeOK
      <4>2. CASE lease # NoLease
        <5>1. /\ pc[p] = "sleepGet" /\ pc'[p] = "sleepPut" /\ attempt'[p] = attempt[p]
              BY <2>2, <3>2, <4>2 DEF SleepGet, Goto, TypeOK
        <5>2. /\ Place(pc[p]) = 2 /\ Place(pc'[p]) = 1
              /\ AttemptsLeft(p) = 0 /\ AttemptsLeft(p)' = 0
              BY <5>1 DEF Place, AttemptsLeft, Trying
        <5>3. Steps(0, 1) < Steps(0, Place(pc[p])) BY <5>2, StepsFall
        <5> QED BY <1>0, <5>1, <5>2, <5>3 DEF AttemptOf, Budget, Trying
      <4> QED BY <4>1, <4>2
    <3>3. CASE SleepPut BY <1>2, <2>2, <3>3 DEF SleepPut, Return, Goto, TypeOK
    <3> QED BY <1>7, <3>1, <3>2, <3>3
  <2> QED BY <2>1, <2>2
<1>8. CASE Tick \/ DeleteLease BY <1>1, <1>8 DEF Tick, DeleteLease
<1>9. CASE UNCHANGED vars BY <1>1, <1>9 DEF vars
<1> QED BY <1>6, <1>7, <1>8, <1>9 DEF Next

\* create_or_update returns after at most 3 * MaxRetries + 1 requests and decisions
\* of its own, however the other threads, the clock and the administrator move.
THEOREM CallsAreBounded ==
  Spec => /\ [](\A p \in Procs : Budget(p) \in 0 .. 3 * MaxRetries + 1)
          /\ [][CallAdvances]_vars
<1>1. Init => AttemptInv
      BY NumberAssumption DEF Init, AttemptInv, AttemptOf, Trying
<1>2. IInv /\ AttemptInv /\ [Next]_vars => AttemptInv' /\ [CallAdvances]_vars
      BY CallStep DEF IInv, AttemptInv, CallAdvances
<1>3. IInv /\ AttemptInv => \A p \in Procs : Budget(p) \in 0 .. 3 * MaxRetries + 1
  <2> SUFFICES ASSUME IInv, AttemptInv, NEW p \in Procs
               PROVE  Budget(p) \in 0 .. 3 * MaxRetries + 1
      OBVIOUS
  <2>1. /\ AttemptsLeft(p) \in Nat /\ AttemptsLeft(p) < MaxRetries
        /\ Place(pc[p]) \in 0 .. 4 /\ MaxRetries \in Nat
        BY BudgetParts, NumberAssumption DEF IInv
  <2>2. Budget(p) \in Nat /\ Budget(p) <= 3 * MaxRetries + 1
        BY <2>1, StepsFall DEF Budget
  <2> QED BY <2>1, <2>2
<1> QED BY <1>1, <1>2, <1>3, Invariant, PTL DEF Spec
-----------------------------------------------------------------------------
\* No floor, stored, copied or asked for, is further ahead than a caller may ask.
Ahead(b) == /\ lease.floor <= now + b
            /\ \A p \in Procs : snap[p].floor <= now + b /\ req[p].min <= now + b

LEMMA AheadStep ==
  ASSUME NEW b \in Nat, \A d \in Extensions : d <= b,
         IInv, IInv', Ahead(b), [Next]_vars
  PROVE  Ahead(b)'
<1>0. /\ TypeOK /\ now \in Nat /\ now' \in Nat /\ lease.floor \in Nat
      /\ \A p \in Procs : snap[p].floor \in Nat /\ req[p].min \in Nat
      BY DEF IInv, TypeOK, Leases, LeaseObject, NoLease, Requests
<1> USE DEF server
\* A thread that ends its call forgets its copy and its request.
<1>1. ASSUME NEW p \in Procs, now' = now, lease'.floor <= now + b,
             \/ UNCHANGED <<snap, req>>
             \/ \E o, l : Return(p, o, l)
      PROVE  Ahead(b)'
      BY <1>0, <1>1 DEF Ahead, Return, NoLease, NoRequest, TypeOK
<1>2. ASSUME NEW p \in Procs, Unconflicted(p), Store(Written(p)) PROVE lease'.floor <= now + b
  <2>1. /\ Written(p) \in LeaseObject /\ snap[p] \in LeaseObject
        BY <1>0, <1>2, WrittenTyped
  <2>2. Written(p).floor = EffectiveMin(p) BY <2>1 DEF Written, LeaseObject
  <2>3. lease'.floor = EffectiveMin(p) BY <1>2, <2>1, <2>2 DEF Store, LeaseObject
  <2> QED BY <1>0, <2>3 DEF Ahead, EffectiveMin
<1>3. ASSUME NEW p \in Procs, Step(p) PROVE Ahead(b)'
  <2>1. ASSUME NEW d \in Extensions, NEW s \in BOOLEAN, Call(p, d, s)
        PROVE  Ahead(b)'
    <3>1. d \in Nat /\ d <= b BY NumberAssumption
    <3>2. /\ req' = [req EXCEPT ![p] = [min |-> now + d, shrink |-> s]]
          /\ UNCHANGED <<now, lease, snap>>
          BY <2>1 DEF Call
    <3>3. \A q \in Procs : req'[q].min <= now + b
          BY <1>0, <3>1, <3>2 DEF Ahead, TypeOK
    <3> QED BY <1>0, <3>2, <3>3 DEF Ahead
  <2>2. CASE Get(p) BY <1>0, <2>2 DEF Get, Ahead, TypeOK
  <2>3. CASE PostCreates(p) \/ PostUnanswered(p)
    <3>1. lease'.floor = req[p].min /\ now' = now
          BY <2>3 DEF PostCreates, PostUnanswered, Created
    <3>2. lease'.floor <= now + b BY <1>0, <3>1 DEF Ahead
    <3> QED BY <1>1, <2>3, <3>1, <3>2 DEF PostCreates, PostUnanswered
  <2>4. CASE PutStores(p) \/ PutUnanswered(p)
    <3>1. lease'.floor <= now + b BY <1>2, <2>4 DEF PutStores, PutUnanswered
    <3> QED BY <1>1, <2>4, <3>1 DEF PutStores, PutUnanswered
  <2>5. CASE \/ PostConflicts(p) \/ Reread(p) \/ DecideRefuse(p) \/ DecideWrite(p)
             \/ PutConflicts(p) \/ Final(p) \/ Raise(p)
    <3>1. now' = now /\ lease' = lease
          BY <2>5 DEF PostConflicts, Reread, DecideRefuse, DecideWrite, PutConflicts, Final,
             Raise
    <3> QED BY <1>1, <2>5, <3>1 DEF PostConflicts, Reread, DecideRefuse, DecideWrite,
            PutConflicts, Final, Raise, Retry, Ahead
  <2> QED BY <1>3, <2>1, <2>2, <2>3, <2>4, <2>5 DEF Step
<1>4. CASE Tick BY <1>0, <1>4 DEF Tick, Ahead
<1>5. Reaper \in Procs BY DEF Procs
<1>6. CASE RecordSleep BY <1>1, <1>5, <1>6 DEF RecordSleep, Ahead
<1>7. CASE SleepGet
  <2>1. CASE lease = NoLease BY <1>1, <1>5, <1>7, <2>1 DEF SleepGet, Ahead
  <2>2. CASE lease # NoLease BY <1>0, <1>5, <1>7, <2>2 DEF SleepGet, Ahead, TypeOK
  <2> QED BY <2>1, <2>2
<1>8. CASE SleepPut
  <2>1. lease'.floor <= now + b
    <3>1. CASE Unconflicted(Reaper)
      <4>1. snap[Reaper] \in LeaseObject BY <1>0, <1>5, <3>1, WrittenTyped
      <4>2. lease' = [snap[Reaper] EXCEPT !.rv = rev + 1]
            BY <1>8, <3>1 DEF SleepPut, Store
      <4>3. lease'.floor = snap[Reaper].floor BY <4>1, <4>2 DEF LeaseObject
      <4> QED BY <1>5, <4>3 DEF Ahead
    <3>2. CASE ~Unconflicted(Reaper) BY <1>8, <3>2 DEF SleepPut, Ahead
    <3> QED BY <3>1, <3>2
  <2> QED BY <1>1, <1>5, <1>8, <2>1 DEF SleepPut
<1>9. CASE DeleteLease BY <1>0, <1>9 DEF DeleteLease, Ahead, NoLease
<1>10. CASE UNCHANGED vars BY <1>10 DEF vars, Ahead
<1> QED BY <1>3, <1>4, <1>6, <1>7, <1>8, <1>9, <1>10 DEF Next

\* A Lease never outlives its holder's death by more than the longest time a caller
\* asks for (MAX_STARTUP_WAIT): no retry, lost response or record_sleep adds to it.
THEOREM WindowsAreBounded ==
  ASSUME NEW b \in Nat, \A d \in Extensions : d <= b
  PROVE  Spec => [](lease.floor <= now + b)
<1>1. Init => Ahead(b) BY DEF Init, Ahead, NoLease, NoRequest
<1>2. IInv /\ IInv' /\ Ahead(b) /\ [Next]_vars => Ahead(b)' BY AheadStep
<1>3. Ahead(b) => lease.floor <= now + b BY DEF Ahead
<1> QED BY <1>1, <1>2, <1>3, Invariant, PTL DEF Spec
=============================================================================
