----------------------- MODULE LaunchReadyGateProofs -----------------------
(***************************************************************************)
(* The gate of LaunchReadyGate.tla for any number of scale patches and any *)
(* timeout: what one read of a snapshot has established still holds when   *)
(* the next one is made, unless AWX was disturbed in between.              *)
(***************************************************************************)
EXTENDS LaunchReadyGate, TLAPS

\* The Deployment controller has caught up with a Deployment that is awake.
Caught(d) == /\ spec[d] /\ replicaSet[d]
             /\ observed[d] = generation[d]

\* A status that is current was written with the ReplicaSet told.
StatusInv == \A d \in Deployments : observed[d] = generation[d]
                                    => replicaSet[d] = spec[d]

\* What the requests made so far have established.
SnapshotInv ==
  ~disturbed =>
    /\ pc = "webList" => Caught("web")
    /\ pc \in {"taskGet", "taskList", "ping", "auth", "open"} => Settled("web")
    /\ pc = "taskList" => Caught("task")
    /\ pc \in {"ping", "auth", "open"} => Settled("task")

\* A generation counts the scale patches of its own Deployment.
CountInv == \A d \in Deployments : generation[d] <= patches + 1

IInv == TypeOK /\ CountInv /\ StatusInv /\ SnapshotInv
-----------------------------------------------------------------------------
LEMMA InvInit == Init => IInv
<1> SUFFICES ASSUME Init PROVE IInv
    OBVIOUS
<1>1. MaxPatches \in Nat /\ MaxOld \in Nat /\ Timeout \in Nat BY BoundAssumption
<1>2. TypeOK
  <2>1. /\ spec = [d \in Deployments |-> TRUE] /\ replicaSet = [d \in Deployments |-> TRUE]
        /\ active = [d \in Deployments |-> "ready"]
        /\ generation = [d \in Deployments |-> 1] /\ observed = [d \in Deployments |-> 1]
        /\ terminating = [d \in Deployments |-> 0] /\ evicted = [d \in Deployments |-> 0]
        BY DEF Init
  <2>2. 1 \in 1 .. MaxPatches + 1 /\ 0 \in 0 .. MaxOld /\ patches \in 0 .. MaxPatches
        BY <1>1 DEF Init
  <2>3. pc = "off" /\ round = 1 /\ budget = Timeout /\ disturbed = FALSE
        BY DEF Init
  <2>4. /\ pc \in Requests \cup {"off", "open", "closed", "settle", "poll"}
        /\ round \in {1, 2} /\ disturbed \in BOOLEAN
        BY <2>3, Zenon
  <2>5. budget \in 0 .. Timeout BY <1>1, <2>3
  <2> QED BY <2>1, <2>2, <2>4, <2>5 DEF TypeOK
<1>3. CountInv /\ StatusInv /\ SnapshotInv BY DEF Init, CountInv, StatusInv, SnapshotInv
<1> QED BY <1>2, <1>3 DEF IInv

\* Each step keeps the types and bounds; the deadline stops the count of the
\* polls.
LEMMA TypeStep == TypeOK /\ CountInv /\ [Next]_vars => TypeOK'
<1> SUFFICES ASSUME TypeOK, CountInv, [Next]_vars PROVE TypeOK'
    OBVIOUS
<1>0. MaxPatches \in Nat /\ MaxOld \in Nat /\ Timeout \in Nat BY BoundAssumption
<1> USE DEF cluster, gate
<1>1. CASE Gate \/ Red
  <2>1. UNCHANGED cluster
        BY <1>1 DEF Gate, Red, Start, Get, List, PingGreen, AuthGreen, Confirm, Poll
  <2>2. /\ pc' \in Requests \cup {"off", "open", "closed", "settle", "poll"}
        /\ round' \in {1, 2} /\ disturbed' \in BOOLEAN
        BY <1>1 DEF TypeOK, Gate, Red, Start, Get, List, NotGreen, PingGreen,
           AuthGreen, Confirm, Poll, Requests
  <2>3. budget' \in 0 .. Timeout
        BY <1>0, <1>1 DEF TypeOK, Gate, Red, Start, Get, List, PingGreen, AuthGreen,
           Confirm, Poll
  <2>4. /\ UNCHANGED <<spec, generation, observed, replicaSet>>
        /\ UNCHANGED <<active, terminating, evicted, patches>>
        BY <2>1
  <2> QED BY <2>2, <2>3, <2>4 DEF TypeOK
<1>2. ASSUME NEW d \in Deployments, Kubernetes(d) PROVE TypeOK'
  <2>1. ASSUME NEW on \in BOOLEAN, PatchScale(d, on) PROVE TypeOK'
    <3>1. /\ patches' \in 0 .. MaxPatches
          /\ spec' \in [Deployments -> BOOLEAN] /\ disturbed' = TRUE
          /\ UNCHANGED <<observed, replicaSet, active, terminating, evicted>>
          /\ UNCHANGED <<pc, round, budget>>
          BY <1>0, <2>1 DEF PatchScale, TypeOK
    <3>2. generation[d] \in Nat /\ generation[d] + 1 \in 1 .. MaxPatches + 1
          BY <1>0, <2>1 DEF PatchScale, TypeOK, CountInv
    <3>3. /\ generation' \in [Deployments -> 1 .. MaxPatches + 1]
          /\ \A e \in Deployments : observed'[e] <= generation'[e]
          BY <1>0, <2>1, <3>2 DEF PatchScale, TypeOK
    <3> QED BY <3>1, <3>3 DEF TypeOK
  <2>2. CASE DeploymentSync(d) BY <1>0, <2>2 DEF DeploymentSync, TypeOK
  <2>3. CASE CreatePod(d) \/ PodReady(d) BY <2>3 DEF CreatePod, PodReady, TypeOK
  <2>4. CASE DeletePod(d) BY <1>0, <2>4 DEF DeletePod, TypeOK
  <2>5. CASE PodGone(d) BY <1>0, <2>5 DEF PodGone, TypeOK
  <2>6. CASE EvictPod(d) BY <1>0, <2>6 DEF EvictPod, TypeOK
  <2> QED BY <1>2, <2>1, <2>2, <2>3, <2>4, <2>5, <2>6 DEF Kubernetes
<1>3. CASE UNCHANGED vars BY <1>3 DEF vars, TypeOK
<1> QED BY <1>1, <1>2, <1>3 DEF Next

\* Only a scale patch raises a generation, and it is counted.
LEMMA CountStep == TypeOK /\ CountInv /\ [Next]_vars => CountInv'
<1> SUFFICES ASSUME TypeOK, CountInv, [Next]_vars PROVE CountInv'
    OBVIOUS
<1> USE DEF cluster, gate, CountInv
<1>1. ASSUME NEW d \in Deployments, NEW on \in BOOLEAN, PatchScale(d, on)
      PROVE  CountInv'
      BY <1>1, BoundAssumption DEF PatchScale, TypeOK
<1>2. ASSUME NEW d \in Deployments, Kubernetes(d) PROVE CountInv'
      BY <1>1, <1>2 DEF Kubernetes, DeploymentSync, CreatePod, DeletePod, PodReady,
         PodGone, EvictPod
<1>3. CASE Gate \/ Red
      BY <1>3 DEF Gate, Red, Start, Get, List, PingGreen, AuthGreen, Confirm, Poll
<1>4. CASE UNCHANGED vars BY <1>4 DEF vars
<1> QED BY <1>2, <1>3, <1>4 DEF Next

\* A scale patch makes the status stale; only a sync makes it current again.
LEMMA StatusStep == TypeOK /\ StatusInv /\ [Next]_vars => StatusInv'
<1> SUFFICES ASSUME TypeOK, StatusInv, [Next]_vars PROVE StatusInv'
    OBVIOUS
<1> USE DEF cluster, gate, StatusInv
<1>1. ASSUME NEW d \in Deployments, NEW on \in BOOLEAN, PatchScale(d, on)
      PROVE  StatusInv'
      BY <1>1, BoundAssumption DEF PatchScale, TypeOK
<1>2. ASSUME NEW d \in Deployments, DeploymentSync(d) PROVE StatusInv'
      BY <1>2 DEF DeploymentSync, TypeOK
<1>3. ASSUME NEW d \in Deployments, Kubernetes(d) PROVE StatusInv'
      BY <1>1, <1>2, <1>3 DEF Kubernetes, CreatePod, DeletePod, PodReady, PodGone,
         EvictPod
<1>4. CASE Gate \/ Red
      BY <1>4 DEF Gate, Red, Start, Get, List, PingGreen, AuthGreen, Confirm, Poll
<1>5. CASE UNCHANGED vars BY <1>5 DEF vars
<1> QED BY <1>3, <1>4, <1>5 DEF Next

\* No controller undoes what a read has seen: a Deployment that is caught up
\* stays so, and a settled one keeps its Pod.
LEMMA SeenIsStable ==
  ASSUME TypeOK, NEW d \in Deployments, Kubernetes(d), ~disturbed',
         NEW e \in Deployments
  PROVE  (Caught(e) => Caught(e)') /\ (Settled(e) => Settled(e)')
         /\ disturbed' = disturbed /\ pc' = pc
<1> USE DEF cluster, gate, Caught, Settled, TypeOK
<1>1. CASE DeploymentSync(d) BY <1>1 DEF DeploymentSync
<1>2. CASE CreatePod(d) \/ PodReady(d) BY <1>2 DEF CreatePod, PodReady
<1>3. CASE DeletePod(d) BY <1>3 DEF DeletePod
<1>4. CASE PodGone(d) BY <1>4 DEF PodGone
<1>5. ~EvictPod(d) /\ \A on \in BOOLEAN : ~PatchScale(d, on)
      BY DEF EvictPod, PatchScale
<1> QED BY <1>1, <1>2, <1>3, <1>4, <1>5 DEF Kubernetes

LEMMA SnapshotStep == IInv /\ [Next]_vars => SnapshotInv'
<1> SUFFICES ASSUME IInv, [Next]_vars, ~disturbed' PROVE SnapshotInv'
    BY DEF SnapshotInv
<1>0. "web" \in Deployments /\ "task" \in Deployments BY DEF Deployments
<1>1. CASE Gate \/ Red
  <2>1. UNCHANGED cluster
        BY <1>1 DEF Gate, Red, Start, Get, List, PingGreen, AuthGreen, Confirm, Poll
  <2>2. \A d \in Deployments : Caught(d)' = Caught(d) /\ Settled(d)' = Settled(d)
        BY <2>1 DEF Caught, Settled, cluster
  <2>3. CASE Start \/ Confirm \/ Poll \/ Red
        BY <2>3 DEF SnapshotInv, Start, Confirm, Poll, Red, NotGreen
  <2>4. ASSUME NEW d \in Deployments, GetGreen(d) PROVE Caught(d)
        BY <2>4 DEF IInv, TypeOK, StatusInv, GetGreen, StatusCurrent, Caught
  <2>5. ASSUME NEW d \in Deployments, Caught(d), ListGreen(d) PROVE Settled(d)
        BY <2>5 DEF ListGreen, NotDraining, PodsReady, Caught, Settled
  <2>6. CASE Get("web", "webGet", "webList")
        BY <1>0, <2>2, <2>4, <2>6 DEF SnapshotInv, Get, NotGreen
  <2>7. CASE List("web", "webList", "taskGet")
    <3>1. ~disturbed BY <2>7 DEF List
    <3> QED BY <1>0, <2>2, <2>5, <2>7, <3>1 DEF IInv, SnapshotInv, List, NotGreen
  <2>8. CASE Get("task", "taskGet", "taskList")
    <3>1. ~disturbed BY <2>8 DEF Get
    <3> QED BY <1>0, <2>2, <2>4, <2>8, <3>1 DEF IInv, SnapshotInv, Get, NotGreen
  <2>9. CASE List("task", "taskList", "ping")
    <3>1. ~disturbed BY <2>9 DEF List
    <3> QED BY <1>0, <2>2, <2>5, <2>9, <3>1 DEF IInv, SnapshotInv, List, NotGreen
  <2>10. CASE PingGreen \/ AuthGreen
    <3>1. ~disturbed BY <2>10 DEF PingGreen, AuthGreen
    <3> QED BY <1>0, <2>2, <2>10, <3>1 DEF IInv, SnapshotInv, PingGreen, AuthGreen
  <2> QED BY <1>1, <2>3, <2>6, <2>7, <2>8, <2>9, <2>10 DEF Gate
<1>2. ASSUME NEW d \in Deployments, Kubernetes(d) PROVE SnapshotInv'
  <2>1. TypeOK /\ SnapshotInv BY DEF IInv
  <2>2. disturbed' = disturbed /\ pc' = pc BY <1>0, <1>2, <2>1, SeenIsStable
  <2>3. \A e \in Deployments : (Caught(e) => Caught(e)') /\ (Settled(e) => Settled(e)')
        BY <1>2, <2>1, SeenIsStable
  <2> QED BY <1>0, <2>1, <2>2, <2>3 DEF SnapshotInv
<1>3. CASE UNCHANGED vars
      BY <1>3 DEF IInv, SnapshotInv, Caught, Settled, vars, cluster, gate
<1> QED BY <1>1, <1>2, <1>3 DEF Next

LEMMA Invariant == Spec => []IInv
<1>1. IInv /\ [Next]_vars => IInv'
      BY TypeStep, CountStep, StatusStep, SnapshotStep DEF IInv
<1> QED BY <1>1, InvInit, PTL DEF Spec

\* Every state of the gate and of the Deployments has its type; in particular
\* the timeout never goes below zero and a status never overtakes its spec.
THEOREM TypeCorrect == Spec => []TypeOK
<1>1. IInv => TypeOK BY DEF IInv
<1> QED BY <1>1, Invariant, PTL

\* An open gate means that the previous generation is gone from both
\* Deployments, whatever interleaving of requests and controllers led there.
THEOREM GateOpensOnSettled == Spec => []OpenMeansSettled
<1>1. IInv => OpenMeansSettled
      BY DEF IInv, SnapshotInv, OpenMeansSettled, Deployments
<1> QED BY <1>1, Invariant, PTL

\* A snapshot turns red on a Deployment only if that one is not settled, or if
\* AWX was disturbed: each red read has seen what Settled excludes.
THEOREM RefusesUnsettledOnly == Spec => RefusesOnlyUnsettled
<1>1. IInv /\ [Next]_vars => [RefusesUnsettled]_vars
  <2> SUFFICES ASSUME IInv, Next, NEW d \in Deployments, ShutFor(d), pc' = "poll", ~disturbed'
               PROVE  ~Settled(d)
      BY DEF RefusesUnsettled
  <2>1. pc \in Requests BY DEF ShutFor, Requests
  <2>2. ~Red BY DEF Red
  <2>3. \A e \in Deployments : ~Kubernetes(e)
        BY <2>1 DEF Requests, Kubernetes, PatchScale, DeploymentSync, CreatePod, DeletePod,
           PodReady, PodGone, EvictPod, gate
  <2>4. ~GetGreen(d) \/ ~ListGreen(d)
        BY <2>2, <2>3 DEF Next, Gate, Start, Get, List, PingGreen, AuthGreen, Confirm, Poll,
           ShutFor
  <2>5. Settled(d) => GetGreen(d) /\ ListGreen(d)
        BY DEF Settled, GetGreen, ListGreen, StatusCurrent, NotDraining, PodsReady, IInv, TypeOK
  <2> QED BY <2>4, <2>5
<1> QED BY <1>1, Invariant, PTL DEF Spec, RefusesOnlyUnsettled
-----------------------------------------------------------------------------
\* The steps of a request thread from a place in the second snapshot of a pair to
\* its end; the first snapshot comes six requests and a delay before.
Ahead(l) == IF l = "webGet" THEN 7 ELSE IF l = "webList" THEN 6
            ELSE IF l = "taskGet" THEN 5 ELSE IF l = "taskList" THEN 4
            ELSE IF l = "ping" THEN 3 ELSE 2
Place == IF pc \in Requests THEN Ahead(pc) + (IF round = 1 THEN 7 ELSE 0)
         ELSE IF pc = "off" THEN 15 ELSE IF pc = "settle" THEN 8
         ELSE IF pc = "poll" THEN 1 ELSE 0

\* The most steps the thread can still take: fifteen for each poll that is left.
Steps(polls, place) == 15 * polls + place
Rank == Steps(budget, Place)

\* A step of the thread brings the answer closer; Kubernetes never puts it off.
ComesCloser == IF pc' # pc THEN Rank' < Rank ELSE Rank' = Rank

LEMMA PlaceInRange == TypeOK => Place \in 0 .. 15 /\ budget \in Nat
<1> SUFFICES ASSUME TypeOK PROVE Place \in 0 .. 15 /\ budget \in Nat
    OBVIOUS
<1>1. budget \in Nat /\ round \in {1, 2} BY BoundAssumption DEF TypeOK
<1>2. CASE pc \in Requests
  <2>1. Ahead(pc) \in Nat /\ Ahead(pc) <= 7 BY <1>2 DEF Ahead, Requests
  <2> QED BY <1>1, <1>2, <2>1 DEF Place
<1>3. CASE pc \notin Requests BY <1>1, <1>3 DEF Place
<1> QED BY <1>2, <1>3

\* A rank falls with the place, and with every poll.
LEMMA RankFalls ==
  ASSUME NEW b \in Nat, NEW x \in 0 .. 15, NEW y \in 0 .. 15
  PROVE  /\ y < x => Steps(b, y) < Steps(b, x)
         /\ b > 0 /\ 0 < x => Steps(b - 1, y) < Steps(b, x)
BY DEF Steps

LEMMA CloserStep == TypeOK /\ TypeOK' /\ [Next]_vars => ComesCloser
<1> SUFFICES ASSUME TypeOK, TypeOK', [Next]_vars PROVE ComesCloser
    OBVIOUS
<1>0. /\ Place \in 0 .. 15 /\ Place' \in 0 .. 15
      /\ budget \in Nat /\ budget' \in Nat
  <2>1. (TypeOK => Place \in 0 .. 15 /\ budget \in Nat)' BY PlaceInRange, PTL
  <2> QED BY <2>1, PlaceInRange
<1>1. /\ Ahead("webGet") = 7 /\ Ahead("webList") = 6 /\ Ahead("taskGet") = 5
      /\ Ahead("taskList") = 4 /\ Ahead("ping") = 3 /\ Ahead("auth") = 2
      BY DEF Ahead, Requests
<1>2. ASSUME UNCHANGED <<pc, round, budget>> PROVE ComesCloser
      BY <1>2 DEF ComesCloser, Rank, Place
<1>3. ASSUME budget' = budget, Place' < Place, pc' # pc PROVE ComesCloser
  <2>1. Steps(budget', Place') < Steps(budget, Place) BY <1>0, <1>3, RankFalls
  <2> QED BY <1>3, <2>1 DEF ComesCloser, Rank
<1>4. ASSUME pc \in Requests, NotGreen, budget' = budget PROVE ComesCloser
  <2>1. Place >= 2 BY <1>4 DEF Place, Ahead
  <2>2. Place' = 1 /\ pc' # pc BY <1>4 DEF Place, NotGreen, Requests
  <2> QED BY <1>0, <1>3, <1>4, <2>1, <2>2
<1>5. ASSUME NEW d, NEW here, NEW next, Get(d, here, next) \/ List(d, here, next),
             <<here, next>> \in {<<"webGet", "webList">>, <<"webList", "taskGet">>,
                                 <<"taskGet", "taskList">>, <<"taskList", "ping">>}
      PROVE  ComesCloser
  <2>1. pc = here /\ budget' = budget BY <1>5 DEF Get, List
  <2>2. here \in Requests /\ next \in Requests /\ Ahead(here) = Ahead(next) + 1
        /\ here # next /\ Ahead(next) \in Nat
        BY <1>1, <1>5 DEF Requests
  <2>3. CASE NotGreen BY <1>4, <2>1, <2>2, <2>3
  <2>4. CASE pc' = next /\ round' = round
    <3>1. Place' < Place BY <1>0, <2>1, <2>2, <2>4 DEF Place
    <3> QED BY <1>3, <2>1, <2>2, <2>4, <3>1
  <2> QED BY <1>5, <2>3, <2>4 DEF Get, List
<1>6. CASE Gate
  <2>1. CASE Start \/ PingGreen \/ AuthGreen \/ Confirm
    <3>1. budget' = budget BY <2>1 DEF Start, PingGreen, AuthGreen, Confirm
    <3>2. Place' < Place /\ pc' # pc
          BY <1>1, <2>1 DEF Start, PingGreen, AuthGreen, Confirm, Place, Requests, TypeOK
    <3> QED BY <1>3, <3>1, <3>2
  <2>2. CASE Poll
    <3>1. pc = "poll" /\ Place = 1 BY <2>2 DEF Poll, Place, Requests
    <3>2. CASE budget > 0
      <4>1. pc' = "webGet" /\ budget' = budget - 1 BY <2>2, <3>2 DEF Poll
      <4> QED BY <1>0, <3>1, <3>2, <4>1, RankFalls DEF ComesCloser, Rank
    <3>3. CASE ~(budget > 0)
      <4>1. pc' = "closed" /\ budget' = budget BY <2>2, <3>3 DEF Poll
      <4>2. Place' = 0 BY <4>1 DEF Place, Requests
      <4> QED BY <1>3, <3>1, <4>1, <4>2
    <3> QED BY <3>2, <3>3
  <2> QED BY <1>5, <1>6, <2>1, <2>2 DEF Gate
<1>7. CASE Red BY <1>4, <1>7 DEF Red
<1>8. ASSUME NEW d \in Deployments, Kubernetes(d) PROVE ComesCloser
      BY <1>2, <1>8 DEF Kubernetes, PatchScale, DeploymentSync, CreatePod, DeletePod,
         PodReady, PodGone, EvictPod, gate
<1>9. CASE UNCHANGED vars BY <1>2, <1>9 DEF vars, gate
<1> QED BY <1>6, <1>7, <1>8, <1>9 DEF Next

\* wait_awx_ready gives its answer within 15 * (Timeout + 1) steps of its own,
\* however often AWX is scaled, Pods come and go and reads fail meanwhile.
THEOREM AnswerComesCloser ==
  Spec => /\ [](Rank \in 0 .. 15 * (Timeout + 1))
          /\ [][ComesCloser]_vars
<1>1. IInv => Rank \in 0 .. 15 * (Timeout + 1)
  <2> SUFFICES ASSUME IInv PROVE Rank \in 0 .. 15 * (Timeout + 1)
      OBVIOUS
  <2>1. Place \in 0 .. 15 /\ budget \in Nat BY PlaceInRange DEF IInv
  <2>2. budget <= Timeout /\ Timeout \in Nat BY BoundAssumption DEF IInv, TypeOK
  <2>3. \A b \in Nat, t \in Nat, x \in 0 .. 15 : b <= t => Steps(b, x) \in 0 .. 15 * (t + 1)
        BY DEF Steps
  <2> QED BY <2>1, <2>2, <2>3 DEF Rank
<1>2. IInv /\ IInv' /\ [Next]_vars => [ComesCloser]_vars BY CloserStep DEF IInv
<1> QED BY <1>1, <1>2, Invariant, PTL DEF Spec
=============================================================================
