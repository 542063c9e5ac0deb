-------------------------- MODULE LaunchReadyGate --------------------------
(***************************************************************************)
(* wait_awx_ready: the gate an /ensure-awake request passes when two       *)
(* complete snapshots of AWX are green.  A snapshot is a sequence of       *)
(* requests (Deployment and Pods of web, of task, ping, an authenticated   *)
(* read), and the reaper, the operator and the Kubernetes controllers move *)
(* between them.  The controllers are modelled as the comments of          *)
(* _deployment_launch_ready describe them.                                 *)
(***************************************************************************)
EXTENDS Naturals

CONSTANTS MaxPatches,  \* bound: scale patches by the helper and the operator
          MaxOld,      \* bound: terminating, and evicted, Pods per Deployment
          Timeout      \* the timeout argument, in WAKE_POLL_INTERVALs

ASSUME BoundAssumption == {MaxPatches, MaxOld, Timeout} \subseteq Nat /\ MaxOld > 0

Deployments == {"web", "task"}

VARIABLES spec,         \* spec.replicas >= 1
          generation,   \* metadata.generation
          observed,     \* status.observedGeneration
          replicaSet,   \* what the Deployment controller last told the ReplicaSet
          active,       \* the Pod that is neither terminal nor terminating
          terminating,  \* Pods with a deletionTimestamp that are still there
          evicted,      \* Pods left behind in phase Failed
          patches,      \* scale patches so far
          pc,           \* the request of the snapshot made next
          round,        \* 1, or 2 for the confirmation snapshot
          budget,       \* what is left of the timeout
          disturbed     \* history: AWX was scaled, or a Pod or a read lost, since
                        \* the snapshot began

cluster == <<spec, generation, observed, replicaSet, active, terminating, evicted,
             patches>>
gate == <<pc, round, budget, disturbed>>
vars == <<cluster, gate>>

Requests == {"webGet", "webList", "taskGet", "taskList", "ping", "auth"}

TypeOK ==
  /\ spec \in [Deployments -> BOOLEAN] /\ replicaSet \in [Deployments -> BOOLEAN]
  /\ generation \in [Deployments -> 1 .. MaxPatches + 1]
  /\ observed \in [Deployments -> 1 .. MaxPatches + 1]
  /\ active \in [Deployments -> {"none", "starting", "ready"}]
  /\ terminating \in [Deployments -> 0 .. MaxOld]
  /\ evicted \in [Deployments -> 0 .. MaxOld]
  /\ patches \in 0 .. MaxPatches
  /\ pc \in Requests \cup {"off", "open", "closed", "settle", "poll"}
  /\ round \in {1, 2} /\ budget \in 0 .. Timeout /\ disturbed \in BOOLEAN
  /\ \A d \in Deployments : observed[d] <= generation[d]

\* AWX is awake and settled; nobody waits yet.
Init == /\ spec = [d \in Deployments |-> TRUE] /\ replicaSet = spec
        /\ generation = [d \in Deployments |-> 1] /\ observed = generation
        /\ active = [d \in Deployments |-> "ready"]
        /\ terminating = [d \in Deployments |-> 0] /\ evicted = terminating
        /\ patches = 0
        /\ pc = "off" /\ round = 1 /\ budget = Timeout /\ disturbed = FALSE
-----------------------------------------------------------------------------
(* Kubernetes. *)

\* _scale_awx_deployments, or the operator, sets replicas.
PatchScale(d, on) ==
  /\ patches < MaxPatches /\ spec[d] # on
  /\ patches' = patches + 1
  /\ spec' = [spec EXCEPT ![d] = on]
  /\ generation' = [generation EXCEPT ![d] = @ + 1]
  /\ disturbed' = TRUE
  /\ UNCHANGED <<observed, replicaSet, active, terminating, evicted, pc, round, budget>>

\* A sync pass of the Deployment controller.
DeploymentSync(d) ==
  /\ observed[d] < generation[d]
  /\ observed' = [observed EXCEPT ![d] = generation[d]]
  /\ replicaSet' = [replicaSet EXCEPT ![d] = spec[d]]
  /\ UNCHANGED <<spec, generation, active, terminating, evicted, patches, gate>>

\* The ReplicaSet controller counts active Pods only, so a replacement starts
\* while its predecessor is still terminating.
CreatePod(d) ==
  /\ replicaSet[d] /\ active[d] = "none"
  /\ active' = [active EXCEPT ![d] = "starting"]
  /\ UNCHANGED <<spec, generation, observed, replicaSet, terminating, evicted,
                 patches, gate>>

DeletePod(d) ==
  /\ ~replicaSet[d] /\ active[d] # "none" /\ terminating[d] < MaxOld
  /\ active' = [active EXCEPT ![d] = "none"]
  /\ terminating' = [terminating EXCEPT ![d] = @ + 1]
  /\ UNCHANGED <<spec, generation, observed, replicaSet, evicted, patches, gate>>

\* There is no readinessProbe: a Pod is Ready when its container starts.
PodReady(d) ==
  /\ active[d] = "starting"
  /\ active' = [active EXCEPT ![d] = "ready"]
  /\ UNCHANGED <<spec, generation, observed, replicaSet, terminating, evicted,
                 patches, gate>>

PodGone(d) ==
  /\ terminating[d] > 0
  /\ terminating' = [terminating EXCEPT ![d] = @ - 1]
  /\ UNCHANGED <<spec, generation, observed, replicaSet, active, evicted, patches,
                 gate>>

EvictPod(d) ==
  /\ active[d] # "none" /\ evicted[d] < MaxOld
  /\ active' = [active EXCEPT ![d] = "none"]
  /\ evicted' = [evicted EXCEPT ![d] = @ + 1]
  /\ disturbed' = TRUE
  /\ UNCHANGED <<spec, generation, observed, replicaSet, terminating, patches, pc,
                 round, budget>>
-----------------------------------------------------------------------------
(* The gate. *)

\* Fault (#298): readyReplicas, which leaves terminating Pods out, is the signal.
NotDraining_ReadyReplicas(d) == TRUE
\* No Pod that is not in a terminal phase carries a deletionTimestamp.
NotDraining(d) == terminating[d] = 0

\* The controller has seen the latest scale patch.
StatusCurrent(d) == observed[d] >= generation[d]

\* Fault: an evicted Pod counts as one that is not ready yet.
PodsReady_All(d) == active[d] = "ready" /\ evicted[d] = 0
PodsReady(d) == active[d] = "ready"

\* _deployment_launch_ready: first the Deployment, then its Pods.
GetGreen(d) == StatusCurrent(d) /\ spec[d]
ListGreen(d) == NotDraining(d) /\ PodsReady(d)

Start == /\ pc = "off"
         /\ pc' = "webGet" /\ disturbed' = FALSE
         /\ UNCHANGED <<cluster, round, budget>>

\* The snapshot is not green: the first one of a pair is needed again, after
\* WAKE_POLL_INTERVAL.
NotGreen == pc' = "poll" /\ round' = 1

Get(d, here, next) ==
  /\ pc = here
  /\ IF GetGreen(d) THEN pc' = next /\ UNCHANGED round ELSE NotGreen
  /\ UNCHANGED <<cluster, budget, disturbed>>

List(d, here, next) ==
  /\ pc = here
  /\ IF ListGreen(d) THEN pc' = next /\ UNCHANGED round ELSE NotGreen
  /\ UNCHANGED <<cluster, budget, disturbed>>

\* A request that fails, or a body that is malformed, is a signal that is red;
\* so is an AWX API that does not answer, has no capacity or returns a 500.
Red == /\ pc \in Requests
       /\ NotGreen
       /\ disturbed' = TRUE
       /\ UNCHANGED <<cluster, budget>>

PingGreen == /\ pc = "ping"
             /\ pc' = "auth"
             /\ UNCHANGED <<cluster, round, budget, disturbed>>

\* The first green snapshot is followed by STABILIZATION_DELAY, the second
\* opens the gate.
AuthGreen == /\ pc = "auth"
             /\ pc' = IF round = 1 THEN "settle" ELSE "open"
             /\ UNCHANGED <<cluster, round, budget, disturbed>>

Confirm == /\ pc = "settle"
           /\ pc' = "webGet" /\ round' = 2 /\ disturbed' = FALSE
           /\ UNCHANGED <<cluster, budget>>

\* Faults: the deadline is forgotten; the poll goes on past it.
Poll_NoDeadline == /\ pc = "poll"
                   /\ pc' = "webGet" /\ disturbed' = FALSE
                   /\ UNCHANGED <<cluster, round, budget>>
Poll_Overrun == /\ pc = "poll"
                /\ pc' = "webGet" /\ budget' = budget - 1 /\ disturbed' = FALSE
                /\ UNCHANGED <<cluster, round>>

\* WAKE_POLL_INTERVAL has passed; the deadline is looked at here only.
Poll == /\ pc = "poll"
        /\ IF budget > 0
           THEN pc' = "webGet" /\ budget' = budget - 1 /\ disturbed' = FALSE
           ELSE pc' = "closed" /\ UNCHANGED <<budget, disturbed>>
        /\ UNCHANGED <<cluster, round>>

Gate == \/ Start
        \/ Get("web", "webGet", "webList") \/ List("web", "webList", "taskGet")
        \/ Get("task", "taskGet", "taskList") \/ List("task", "taskList", "ping")
        \/ PingGreen \/ AuthGreen \/ Confirm \/ Poll

Kubernetes(d) == \/ \E on \in BOOLEAN : PatchScale(d, on)
                 \/ DeploymentSync(d) \/ CreatePod(d) \/ DeletePod(d)
                 \/ PodReady(d) \/ PodGone(d) \/ EvictPod(d)

Next == Gate \/ Red \/ \E d \in Deployments : Kubernetes(d)

Spec == Init /\ [][Next]_vars

\* The request thread runs on.
FairSpec == Spec /\ WF_vars(Gate)
-----------------------------------------------------------------------------
\* A Deployment that is awake and has no predecessor left: every controller has
\* caught up, so that only another change can take the Pod away.
Settled(d) == /\ spec[d] /\ replicaSet[d] /\ observed[d] = generation[d]
              /\ active[d] = "ready" /\ terminating[d] = 0

\* An open gate means what its docstring says, the previous generation is
\* completely gone, and it stays so until AWX is scaled or a Pod is lost: the
\* separate reads of a snapshot never add up to a state that was not there.
OpenMeansSettled ==
  pc = "open" /\ ~disturbed => \A d \in Deployments : Settled(d)

\* The gate is not shut on a Deployment that is settled: leftovers such as an
\* evicted Pod do not hold /ensure-awake for the whole timeout.
ShutFor(d) == \/ d = "web" /\ pc \in {"webGet", "webList"}
              \/ d = "task" /\ pc \in {"taskGet", "taskList"}
RefusesUnsettled == \A d \in Deployments :
                      ShutFor(d) /\ pc' = "poll" /\ ~disturbed' => ~Settled(d)
RefusesOnlyUnsettled == [][RefusesUnsettled]_vars

\* The request thread gets an answer, however Pods and API behave.
GateAnswers == (pc = "webGet") ~> (pc \in {"open", "closed"})
=============================================================================
