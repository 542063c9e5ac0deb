---------------------------- MODULE AwxAutoscale ----------------------------
(***************************************************************************)
(* The awx-autoscale helper at work: request threads in do_ensure_awake    *)
(* and the idle reaper, writing one AWX resource and two Deployments, with *)
(* the AWX operator, AWX itself and the callers around them.  A call of    *)
(* LeaseManager.create_or_update is one step here: LeaseManager.tla shows  *)
(* that it behaves like an atomic register.                                *)
(*                                                                         *)
(* Time is a Tick, one REAPER_POLL_INTERVAL; instants are kept relative to *)
(* the present (lease.left is min_awake_until - now), so behaviours go on  *)
(* for ever in finitely many states.                                       *)
(***************************************************************************)
EXTENDS Integers, FiniteSets

CONSTANTS Clients,         \* request threads, each with the caller behind it
          Reaper, Nobody,  \* the other names a Lease can carry
          Grace,           \* GRACE_PERIOD in ticks
          MaxStartupWait,  \* MAX_STARTUP_WAIT in ticks
          MaxLag,          \* bound: ticks one pass of the reaper may take
          MaxFaults,       \* bound: failed requests, restarts, foreign activity,
                           \* runs of awx-sleep and awx-wake
          Prompt           \* threads act within the tick, or at most one later

ASSUME TickAssumption == /\ {Grace, MaxStartupWait, MaxLag, MaxFaults} \subseteq Nat
                         /\ MaxLag + 1 < Grace /\ Grace <= MaxStartupWait
                         /\ Prompt \in BOOLEAN
ASSUME NameAssumption == Reaper # Nobody /\ {Reaper, Nobody} \cap Clients = {}

Deployments == {"web", "task"}
On == [d \in Deployments |-> TRUE]
Off == [d \in Deployments |-> FALSE]

VARIABLES lease,     \* holderIdentity and the time left to min_awake_until
          cr,        \* the AWX resource asks for replicas
          dep,       \* spec.replicas >= 1, per Deployment
          up,        \* its Pods serve
          op,        \* the operator's pass: what it read of cr, or none
          jobs,      \* clients with a job running in AWX
          want,      \* clients that need AWX awake
          pc,        \* per client: where its do_ensure_awake is
          budget,    \* per client: ticks left of wait_awx_ready's timeout
          slow,      \* clients whose next step has waited for a tick
          rpc,       \* where the reaper is
          age,       \* ticks since the reaper read `now`
          idle,      \* ticks since idle_since, -1 for None
          rested,    \* it has slept REAPER_POLL_INTERVAL since its last pass
          fresh,     \* history: what changed after the reaper looked at it
          faults,    \* faults and playbook runs so far
          play       \* what a run of awx-sleep or awx-wake does next

cluster == <<cr, dep, up, op, jobs>>
request == <<want, pc, budget, slow>>
reaper == <<rpc, age, idle, rested>>
vars == <<lease, cluster, request, reaper, fresh, faults, play>>

Locations == {"idle", "patchCR", "scaleWeb", "scaleTask", "hold", "holdConfirm",
              "rewrite", "follow", "followConfirm"}
ReaperLocations == {"rest", "floor", "work", "extend", "activity", "sleepCR",
                    "sleepWeb", "sleepTask", "record"}
\* The furthest past a Lease, or an idle period, is told apart.
Oldest == Grace + MaxLag

LeaseType ==
  lease \in [holder : Clients \cup {Reaper, Nobody}, left : -Oldest .. MaxStartupWait]
\* A Deployment scaled to zero serves nothing and runs no job.
ClusterType ==
  /\ cr \in BOOLEAN /\ op \in {"none", "awake", "asleep"} /\ jobs \subseteq Clients
  /\ dep \in [Deployments -> BOOLEAN] /\ up \in [Deployments -> BOOLEAN]
  /\ \A d \in Deployments : up[d] => dep[d]
  /\ jobs # {} => dep["task"]
RequestType == /\ want \subseteq Clients /\ slow \subseteq Clients
               /\ pc \in [Clients -> Locations]
               /\ budget \in [Clients -> 0 .. MaxStartupWait]
ReaperType == rpc \in ReaperLocations /\ age \in 0 .. MaxLag
RestType == rested \in BOOLEAN
IdleType == idle \in -1 .. Oldest
OtherType == /\ fresh \subseteq {"lease", "job"} /\ faults \in 0 .. MaxFaults
             /\ play \in {"none", "asleep", "awake", "awakeTask"}
TypeOK == /\ LeaseType /\ ClusterType /\ RequestType
          /\ ReaperType /\ RestType /\ IdleType /\ OtherType

\* The role deploys the helper beside an AWX that is awake.
Init == /\ lease = [holder |-> Nobody, left |-> -Oldest]
        /\ cr = TRUE /\ dep = On /\ up = On /\ op = "none" /\ jobs = {}
        /\ want = {} /\ pc = [c \in Clients |-> "idle"]
        /\ budget = [c \in Clients |-> 0] /\ slow = {}
        /\ rpc = "rest" /\ age = 0 /\ idle = -1 /\ rested = FALSE
        /\ fresh = {} /\ faults = 0 /\ play = "none"
-----------------------------------------------------------------------------
Later(a, b) == IF a >= b THEN a ELSE b
Expired == lease.left <= 0

\* create_or_update(now + left, h): refused while somebody else's Lease is in
\* force; otherwise h holds it and the window does not shrink.
Acquires(h) == Expired \/ lease.holder = h
\* Fault: the window reaches a grace period further, as leaseDurationSeconds does.
LeaseBeyond(h, left) == lease' = [holder |-> h, left |-> Later(lease.left, left + Grace)]
LeaseTo(h, left) == lease' = [holder |-> h, left |-> Later(lease.left, left)]

\* Fault: the floor is replaced without the owner check.
RewritesAny(h, left) == lease' = [holder |-> h, left |-> left]

\* The same with allow_owner_shrink: the owner's floor is replaced.
Rewrites(h, left) ==
  IF lease.holder = h THEN lease' = [holder |-> h, left |-> left]
  ELSE IF Expired THEN LeaseTo(h, left)
  ELSE UNCHANGED lease

\* A Deployment's spec.replicas is set; Pods that go take their jobs along.
Scale(d, on) == /\ dep' = [dep EXCEPT ![d] = on]
                /\ up' = [up EXCEPT ![d] = @ /\ on]
                /\ jobs' = IF d = "task" /\ ~on THEN {} ELSE jobs

\* check_launch_ready_snapshot, all four signals (LaunchReadyGate.tla).
LaunchReady == up = On

Goto(c, l) == pc' = [pc EXCEPT ![c] = l] /\ slow' = slow \ {c}
\* What changes after the reaper has looked at it in this pass is noted.
Looked(what) == rpc \notin {"rest", "floor"} /\ (what = "job" => rpc # "work")
Arrives(what) == IF what = "lease" THEN lease' # lease ELSE jobs' # jobs
Note == fresh' = fresh \cup {w \in {"lease", "job"} : Looked(w) /\ Arrives(w)}
Counted == faults < MaxFaults /\ faults' = faults + 1
Fault == Counted /\ UNCHANGED play
-----------------------------------------------------------------------------
(* do_ensure_awake, one request thread per client. *)

\* A client needs AWX.
Need(c) == /\ pc[c] = "idle" /\ c \notin want \cup jobs
           /\ want' = want \cup {c}
           /\ UNCHANGED <<lease, cluster, pc, budget, slow, reaper, fresh, faults, play>>

\* Not the holder: wait only.
Refused(c) == Goto(c, "follow") /\ budget' = [budget EXCEPT ![c] = MaxStartupWait]

\* Fault: the wake is patched whoever holds the Lease.
StartAnyway(c) ==
  /\ pc[c] = "idle" /\ c \in want
  /\ IF Acquires(c) THEN LeaseTo(c, MaxStartupWait) ELSE UNCHANGED lease
  /\ Goto(c, "patchCR")
  /\ UNCHANGED <<cluster, want, budget, reaper, faults, play>>
  /\ Note

\* POST /ensure-awake, for the first time or as a retry: under _wake_lock,
\* create_or_update(now + MAX_STARTUP_WAIT).  Every request has a thread, and
\* so a holderIdentity, of its own: a retry is not the holder it was before.
Start(c) ==
  /\ pc[c] = "idle" /\ c \in want
  /\ IF Expired
     THEN LeaseTo(c, MaxStartupWait) /\ Goto(c, "patchCR") /\ UNCHANGED budget
     ELSE Refused(c) /\ UNCHANGED lease
  /\ UNCHANGED <<cluster, want, reaper, faults, play>>
  /\ Note

\* create_or_update runs out of retries although the Lease is free.
RunsOutOfRetries(c) ==
  /\ pc[c] = "idle" /\ c \in want /\ Expired /\ Fault
  /\ Refused(c)
  /\ UNCHANGED <<lease, cluster, want, reaper, fresh>>

\* patch_awx_awake: the resource, then each Deployment.
PatchAwake(c) ==
  /\ pc[c] = "patchCR"
  /\ cr' = TRUE
  /\ Goto(c, "scaleWeb")
  /\ UNCHANGED <<lease, dep, up, op, jobs, want, budget, reaper, fresh, faults, play>>

\* After the resource web is scaled, then task; a failed one is passed over.
AfterScale(c) ==
  IF pc[c] = "scaleWeb"
  THEN Goto(c, "scaleTask") /\ UNCHANGED budget
  ELSE Goto(c, "hold") /\ budget' = [budget EXCEPT ![c] = MaxStartupWait]

ScaleUp(c) ==
  /\ pc[c] \in {"scaleWeb", "scaleTask"}
  /\ Scale(IF pc[c] = "scaleWeb" THEN "web" ELSE "task", TRUE)
  /\ AfterScale(c)
  /\ UNCHANGED <<lease, cr, op, want, reaper, fresh, faults, play>>

ScaleUpFails(c) ==
  /\ pc[c] \in {"scaleWeb", "scaleTask"} /\ Fault
  /\ AfterScale(c)
  /\ UNCHANGED <<lease, cluster, want, reaper, fresh>>

\* wait_awx_ready: a green snapshot before the deadline, and a second one
\* after it; the deadline is not looked at in between.
FirstGreen(c) ==
  /\ pc[c] \in {"hold", "follow"} /\ budget[c] > 0 /\ LaunchReady
  /\ Goto(c, IF pc[c] = "hold" THEN "holdConfirm" ELSE "followConfirm")
  /\ UNCHANGED <<lease, cluster, want, budget, reaper, fresh, faults, play>>

SecondNotGreen(c) ==
  /\ pc[c] \in {"holdConfirm", "followConfirm"} /\ ~LaunchReady
  /\ Goto(c, IF pc[c] = "holdConfirm" THEN "hold" ELSE "follow")
  /\ UNCHANGED <<lease, cluster, want, budget, reaper, fresh, faults, play>>

HolderReady(c) ==
  /\ pc[c] = "holdConfirm" /\ LaunchReady
  /\ Goto(c, "rewrite")
  /\ UNCHANGED <<lease, cluster, want, budget, reaper, fresh, faults, play>>

\* 503: the client is not served, and asks again.
TimeOut(c) ==
  /\ pc[c] \in {"hold", "follow"} /\ budget[c] = 0
  /\ Goto(c, "idle")
  /\ UNCHANGED <<lease, cluster, want, budget, reaper, fresh, faults, play>>

\* 200: the client launches a job, if AWX is still there, or needs none.
Served(c) ==
  /\ Goto(c, "idle")
  /\ want' = want \ {c}
  /\ \/ LaunchReady /\ jobs' = jobs \cup {c}
     \/ jobs' = jobs
  /\ budget' = [budget EXCEPT ![c] = 0]

\* The holder replaces the startup floor by now + GRACE_PERIOD (#312); what
\* create_or_update answers is not looked at.
RewriteFloor(c) ==
  /\ pc[c] = "rewrite"
  /\ Rewrites(c, Grace)
  /\ Served(c)
  /\ Note
  /\ UNCHANGED <<cr, dep, up, op, reaper, faults, play>>

\* It runs out of retries: the floor stays, and the client is served even so.
RewriteRunsOut(c) ==
  /\ pc[c] = "rewrite" /\ Fault
  /\ Served(c)
  /\ UNCHANGED <<lease, cr, dep, up, op, reaper>>
  /\ Note

\* A call raises: the request is over (503, or no response at all), and the
\* Lease stays as it is.  A lost response may hide a rewrite that was stored; a
\* patch that was stored is PatchAwake or ScaleUp first, then this.
RequestDies(c) ==
  /\ pc[c] \in {"patchCR", "scaleWeb", "scaleTask", "rewrite"} /\ Fault
  /\ Goto(c, "idle")
  /\ budget' = [budget EXCEPT ![c] = 0]
  /\ \/ UNCHANGED lease
     \/ pc[c] = "rewrite" /\ Rewrites(c, Grace)
  /\ UNCHANGED <<cluster, want, reaper>>
  /\ Note

\* A caller that was refused the Lease writes nothing.
FollowerReady(c) ==
  /\ pc[c] = "followConfirm" /\ LaunchReady
  /\ Served(c)
  /\ UNCHANGED <<lease, cr, dep, up, op, reaper, faults, play>>
  /\ Note
-----------------------------------------------------------------------------
(* idle_reaper_loop. *)

Pass(l) == rpc' = l /\ UNCHANGED <<age, rested, fresh>>

\* The pass ends and the reaper sleeps; i is the new idle_since.
Rest(i) == rpc' = "rest" /\ age' = 0 /\ idle' = i /\ rested' = FALSE /\ fresh' = {}

\* now = time.time(): every later test of this pass uses this instant.
WakeUp == /\ rpc = "rest" /\ rested
          /\ rpc' = "floor" /\ age' = 0
          /\ UNCHANGED <<lease, cluster, request, idle, rested, fresh, faults, play>>

\* Parked while now < min_awake_until: the idle clock does not run.
\* Faults: the floor is not read; parking leaves idle_since set.
NeverParked == FALSE
Parked == lease.left + age > 0
ParkIdle == Rest(idle)
Park == Rest(-1)

ReadFloor == /\ rpc = "floor"
             /\ IF Parked THEN Park ELSE Pass("work") /\ UNCHANGED idle
             /\ UNCHANGED <<lease, cluster, request, faults, play>>

\* query_awx_work: UNREACHABLE, ACTIVE or IDLE.  An AWX that does not answer is
\* neither slept nor is the Lease taken for it (#103).
\* Fault: it counts as active.
ClaimUnreachable == Pass("extend") /\ UNCHANGED idle
Unreachable == Rest(-1)

QueryWork == /\ rpc = "work"
             /\ IF ~up["web"] THEN Unreachable
                ELSE Pass(IF jobs # {} THEN "extend" ELSE "activity") /\ UNCHANGED idle
             /\ UNCHANGED <<lease, cluster, request, faults, play>>

\* ACTIVE or RECENT: the reaper takes the Lease, if it is free, to now + GRACE.
Extend == /\ rpc = "extend"
          /\ IF Acquires(Reaper) THEN LeaseTo(Reaper, Grace - age) ELSE UNCHANGED lease
          /\ Rest(-1)
          /\ UNCHANGED <<cluster, request, faults, play>>

\* query_awx_activity says QUIET or UNAVAILABLE: idle_since starts, or is
\* compared with the grace period.  UNKNOWN if AWX has gone meanwhile.
\* Fault: idle_since is set again on every quiet pass.
IdleAgain == Rest(age)
IdleStill == Rest(idle)

QuietSoFar == /\ rpc = "activity"
              /\ IF ~up["web"] THEN Rest(-1)
                 ELSE IF idle = -1 THEN Rest(age)
                 ELSE IF idle - age >= Grace THEN Pass("sleepCR") /\ UNCHANGED idle
                 ELSE IdleStill
              /\ UNCHANGED <<lease, cluster, request, faults, play>>

\* RECENT: somebody else drives the AWX API.
RecentActivity == /\ rpc = "activity" /\ up["web"] /\ Fault
                  /\ Pass("extend")
                  /\ UNCHANGED <<lease, cluster, request, idle>>

\* patch_awx_asleep: the resource, then each Deployment, then record_sleep,
\* which leaves holder and floor alone.
SleepCR == /\ rpc = "sleepCR"
           /\ cr' = FALSE
           /\ Pass("sleepWeb")
           /\ UNCHANGED <<lease, dep, up, op, jobs, request, idle, faults, play>>

SleepScale == /\ rpc \in {"sleepWeb", "sleepTask"}
              /\ Scale(IF rpc = "sleepWeb" THEN "web" ELSE "task", FALSE)
              /\ Pass(IF rpc = "sleepWeb" THEN "sleepTask" ELSE "record")
              /\ UNCHANGED <<lease, cr, op, request, idle, faults, play>>

SleepScaleFails == /\ rpc \in {"sleepWeb", "sleepTask"} /\ Fault
                   /\ Pass(IF rpc = "sleepWeb" THEN "sleepTask" ELSE "record")
                   /\ UNCHANGED <<lease, cluster, request, idle>>

RecordSleep == /\ rpc = "record"
               /\ Rest(-1)
               /\ UNCHANGED <<lease, cluster, request, faults, play>>

\* An error in a pass, an extension that runs out of retries, an unreadable AWX
\* or an UNKNOWN activity stream: the idle clock starts again.  The resource patch
\* may have been stored.
ReaperError == /\ rpc # "rest" /\ Fault
               /\ Rest(-1)
               /\ cr' \in {cr, cr /\ rpc # "sleepCR"}
               /\ UNCHANGED <<lease, dep, up, op, jobs, request>>

\* The helper is restarted: threads and idle_since are gone, the Lease is not.
Restart == /\ Fault
           /\ pc' = [c \in Clients |-> "idle"] /\ budget' = [c \in Clients |-> 0]
           /\ slow' = {}
           /\ Rest(-1)
           /\ UNCHANGED <<lease, cluster, want>>
-----------------------------------------------------------------------------
(* The awx-presence role, run by the playbooks awx-sleep and awx-wake.  It    *)
(* takes no Lease and asks for no work; what it waits for at the end changes  *)
(* nothing.                                                                   *)

PresencePatch(on) ==
  /\ play = "none" /\ Counted
  /\ cr' = on
  /\ play' = IF on THEN "awake" ELSE "asleep"
  /\ UNCHANGED <<lease, dep, up, op, jobs, request, reaper, fresh>>

\* Scaling a Deployment may fail, and is then passed over.
ScaleSome(ds, on) ==
  /\ \E some \in SUBSET ds : dep' = [d \in Deployments |-> IF d \in some THEN on ELSE dep[d]]
  /\ up' = [d \in Deployments |-> up[d] /\ dep'[d]]
  /\ jobs' = IF dep'["task"] THEN jobs ELSE {}

\* Both go to zero by one command, and up one after the other.
PresenceScale ==
  /\ \/ play = "asleep" /\ ScaleSome(Deployments, FALSE) /\ play' = "none"
     \/ play = "awake" /\ ScaleSome({"web"}, TRUE) /\ play' = "awakeTask"
     \/ play = "awakeTask" /\ ScaleSome({"task"}, TRUE) /\ play' = "none"
  /\ UNCHANGED <<lease, cr, op, request, reaper, fresh, faults>>
-----------------------------------------------------------------------------
(* The AWX operator, the Pods and the jobs, as the helper's comments describe *)
(* them, and the clock.                                                       *)

\* A reconcile pass reads the resource and, some time later, makes both
\* Deployments what it read.
OperatorReads == /\ op = "none"
                 /\ op' = IF cr THEN "awake" ELSE "asleep"
                 /\ UNCHANGED <<lease, cr, dep, up, jobs, request, reaper, fresh, faults, play>>

OperatorApplies ==
  /\ op # "none"
  /\ op' = "none"
  /\ IF op = "awake" THEN dep' = On /\ UNCHANGED <<up, jobs>>
                     ELSE dep' = Off /\ up' = Off /\ jobs' = {}
  /\ UNCHANGED <<lease, cr, request, reaper, fresh, faults, play>>

Boot(d) == /\ dep[d] /\ ~up[d]
           /\ up' = [up EXCEPT ![d] = TRUE]
           /\ UNCHANGED <<lease, cr, dep, op, jobs, request, reaper, fresh, faults, play>>

JobEnds(c) == /\ c \in jobs
              /\ jobs' = jobs \ {c}
              /\ UNCHANGED <<lease, cr, dep, up, op, request, reaper, fresh, faults, play>>

\* A request thread with something to do; and a client about to ask again.
Working(c) == \/ pc[c] \notin {"idle", "hold", "follow"}
              \/ pc[c] \in {"hold", "follow"} /\ (LaunchReady \/ budget[c] = 0)
Asking(c) == pc[c] = "idle" /\ c \in want

\* The reaper sleeps one tick between passes, and a pass takes MaxLag at most.
\* A request thread does its next step before the second tick, or, with Prompt,
\* before the first.
Tick ==
  /\ IF rpc = "rest" THEN ~rested ELSE age < MaxLag
  /\ Prompt => rpc = "rest" /\ \A c \in Clients : ~Working(c) /\ ~Asking(c)
  /\ \A c \in slow : ~Working(c)
  /\ lease' = [lease EXCEPT !.left = Later(@ - 1, -Oldest)]
  /\ budget' = [c \in Clients |-> Later(budget[c] - 1, 0)]
  /\ age' = IF rpc = "rest" THEN 0 ELSE age + 1
  /\ idle' = IF idle \in {-1, Oldest} THEN idle ELSE idle + 1
  /\ rested' = (rpc = "rest")
  /\ slow' = {c \in Clients : Working(c)}
  /\ UNCHANGED <<cluster, want, pc, rpc, fresh, faults, play>>
-----------------------------------------------------------------------------
Request(c) == \/ Start(c) \/ PatchAwake(c) \/ ScaleUp(c) \/ FirstGreen(c)
              \/ SecondNotGreen(c) \/ HolderReady(c) \/ RewriteFloor(c)
              \/ FollowerReady(c) \/ TimeOut(c)
Reap == \/ WakeUp \/ ReadFloor \/ QueryWork \/ Extend \/ QuietSoFar
        \/ SleepCR \/ SleepScale \/ RecordSleep
Faults == \/ \E c \in Clients : RunsOutOfRetries(c) \/ RequestDies(c)
                              \/ RewriteRunsOut(c) \/ ScaleUpFails(c)
          \/ RecentActivity \/ SleepScaleFails \/ ReaperError \/ Restart
Presence == PresencePatch(TRUE) \/ PresencePatch(FALSE) \/ PresenceScale

Next == \/ \E c \in Clients : Need(c) \/ Request(c) \/ JobEnds(c)
        \/ Reap
        \/ OperatorReads \/ OperatorApplies
        \/ \E d \in Deployments : Boot(d)
        \/ Faults \/ Presence
        \/ Tick

Spec == Init /\ [][Next]_vars

\* Threads are scheduled and a client goes on asking; the operator looks at a
\* resource whose Deployments differ from it and finishes its passes; Pods
\* start; jobs end; time passes.
Unreconciled == dep # (IF cr THEN On ELSE Off)
Fairness == /\ \A c \in Clients : WF_vars(Request(c)) /\ WF_vars(JobEnds(c))
            /\ WF_vars(Reap)
            /\ WF_vars(Unreconciled /\ OperatorReads) /\ WF_vars(OperatorApplies)
            /\ \A d \in Deployments : WF_vars(Boot(d))
            /\ WF_vars(Tick)
FairSpec == Spec /\ Fairness
-----------------------------------------------------------------------------
\* What can be relied on although the reaper decides on what it read earlier
\* in its pass: a sleep patch never ends a Lease that was in force when the
\* pass read the floor, nor a job that was running when it asked AWX.  Only
\* what arrives during the pass is at risk.  (idle_reaper_loop)
SleepsOnKnownIdle ==
  rpc = "sleepCR" /\ rpc' = "sleepWeb"
  => (~Expired => "lease" \in fresh) /\ (jobs # {} => "job" \in fresh)
SleepHarmsOnlyLatecomers == [][SleepsOnKnownIdle]_vars

\* The grace period is counted from the end of the last wake window: unless a
\* new window was opened during the pass, the floor is at least GRACE_PERIOD
\* old when AWX is put to sleep, restarts and failed passes included.
SleepsAfterGrace ==
  rpc = "sleepCR" /\ rpc' = "sleepWeb" /\ "lease" \notin fresh => lease.left <= -Grace
GraceFollowsWindow == [][SleepsAfterGrace]_vars

\* Sleep only when there is no active work and the wake Lease has expired, as
\* the docstring of idle_reaper_loop says.
SleepsWhenIdle == rpc = "sleepCR" /\ rpc' = "sleepWeb" => Expired /\ jobs = {}
SleepOnlyWhenIdle == [][SleepsWhenIdle]_vars

\* The thread about to rewrite the floor is still the holder from its acquire,
\* as the comment in do_ensure_awake says.
StillHolder == \A c \in Clients : pc[c] = "rewrite" => lease.holder = c

\* Only the owner of the Lease patches AWX awake, and it still is the owner, of a
\* window still open, when it sends the last of its three patches: so no two
\* threads ever patch at once, whatever process they are of.  It holds as long as
\* three patches take less than MAX_STARTUP_WAIT, as threads that are Prompt, or
\* late by a tick each and a wait of more than three, see to.  ("Ownership
\* semantics" in the docstring of do_ensure_awake.)
Patching(c) == pc[c] \in {"patchCR", "scaleWeb", "scaleTask"}
OnlyHolderPatches == \A c \in Clients : Patching(c) => lease.holder = c /\ ~Expired

\* Request threads and reaper use the Lease as the register that LeaseManager
\* implements: nobody here takes a window in force from its holder, or shortens
\* it for somebody else.  (do_ensure_awake and idle_reaper_loop, whose calls of
\* create_or_update are single steps of this module.)
Register == INSTANCE WakeLease WITH Holders <- Clients \cup {Reaper}, NoHolder <- Nobody,
                                    holder <- lease.holder, left <- Later(lease.left, 0)
UsesWakeLease == Register!Spec

\* While clients need AWX some of them are served, again and again: no dead or
\* failed holder, no reaper Lease, no late sleep and no stale operator pass
\* keeps AWX down for ever.  (One client may be unlucky for ever, if others are
\* served each time just before AWX is taken away.)
Serves(c) == c \in want /\ c \notin want'
WakeEventually == <>[](want # {}) => []<><<\E c \in Clients : Serves(c)>>_vars

\* Scale to zero: once nobody needs AWX, it is put to sleep and stays so.
NobodyNeedsIt == want = {} /\ jobs = {}
ScaleToZero == <>[]NobodyNeedsIt => <>[](~cr /\ dep = Off)
=============================================================================
