# A verification project for dmf-infra

`dmf-infra` provisions and runs a k3s lab: Ansible roles and playbooks for about
thirty services, and the Python programs that do what a task list cannot. Most
task lists are sequential and declarative. What interleaves, fails half-way and
is retried lives in the Python: the **awx-autoscale helper**, which wakes AWX on
demand and puts it to sleep, and the **approle_lifecycle** library, which issues
and delivers OpenBao SecretIDs; and in a few task lists that handle secrets which
exist once: the **OpenBao bootstrap** and the **credential rotations**. This
directory models those parts in TLA+, checks them with TLC and proves theorems
about them with TLAPS.

Paths below are relative to `src/k3s-lab-bootstrap/`.

## 1. Inventory

| Component | State it keeps | Operations | What is hard | What makes it correct |
|---|---|---|---|---|
| Wake Lease: `LeaseManager` in `roles/stack/operator/awx-autoscale/files/awx_autoscale_helper.py` | one Kubernetes Lease: holderIdentity, annotation min_awake_until, resourceVersion | `get`, `create_or_update`, `record_sleep` | compare-and-set over a copy; 409s, lost responses, used-up retries, deletion | an acquire that was granted holds; nobody else's window is taken or shortened |
| Wake requests and idle reaper (same file: `do_ensure_awake`, `idle_reaper_loop`, `patch_awx_*`) | the AWX resource, two Deployments, idle_since | POST /ensure-awake, a reaper pass | threads decide on values read earlier; the operator reconciles late; calls fail between two patches; the helper restarts | AWX is woken for those who ask, not slept under those who use it, and sleeps in the end |
| Launch readiness gate (same file: `wait_awx_ready`, `_deployment_launch_ready`) | none; reads Deployments, Pods and the AWX API | two snapshots of six requests | reads are not atomic; the previous generation drains behind the new one | an open gate means that the old Pods are gone and the new ones are ready |
| Setup-only issuance: `lib/approle_lifecycle/setup_only.py`, `transports.py`, `born_inventory_cli.py` | receipt ConfigMap, claim Lease, issuer token, SecretID, AppRole token | one run: validate, claim, login, issue, use, destroy, revoke | every call may fail before or after it took effect, be interrupted, or be the last | a receipt is good for one SecretID, which is destroyed or spoken of |
| Delivery adapters and ExternalSecret gate: `lib/approle_lifecycle/adapters.py`; the role `roles/base/object-storage-credentials` beside them | keys of Secrets and KV v2 records, each with a transaction marker; ExternalSecret status | `has_marker`, `deliver`, `check`; the role's steps 4 to 11 | check-and-set conflicts, lost answers, reruns that pass over what has a marker, other writers of the same objects | a marker says what was delivered; a delivery keeps other keys; a pass means a refresh after the delivery |
| Registry: `lib/approle_lifecycle/registry.py` | a static JSON file | validate, thresholds | little | pure functions |
| OpenBao bootstrap: `roles/stack/operator/openbao/tasks/main.yml` | OpenBao storage and seal, root token, users, break-glass file, five custody shares | init, save, distribute, unseal, create users, save, verify, revoke root | every secret exists once; a stop between any two tasks, and reruns that skip what a fresh run does | nobody is locked out; root goes only when it is not needed |
| Credential rotations: `playbooks/vertical-orchestration/100-eso.yml`, `110-eso-secret-rotation.yml`, `120-ops-admin-rotation.yml` | the same, and ESO's Kubernetes Secret | push, new SecretID, new operator password by a generated root token | the file is read at the start and written at the end; one step of several fails | ESO's Secret holds an issued SecretID; the file keeps what it must |
| awx-presence and the sleep/wake playbooks: `roles/stack/operator/awx-presence`, `playbooks/awx-*.yml` | the AWX resource, the Deployments | patch, scale, wait | writes beside the helper without the Lease | the helper still wakes and sleeps AWX in the end |
| born inventory, OpenBao session: `roles/common/*` | Ansible facts | call the CLI above | little | not modelled |
| zot mirror script, Forgejo identity audit, passkey invitation, ntfy bridge | none, or one transaction | a copy, a report, an invitation, a forward | little | not modelled |
| Base roles, NetBox and Forgejo bootstrap, repository tooling | manifests, text | apply, lint | none that TLC reaches | not modelled |

### How the parts interact

* Callers (dmf-cms, playbooks) POST `/ensure-awake`. Each request is a thread of
  the helper. A thread that acquires the Lease patches the AWX resource and
  scales two Deployments; one that does not only waits. Both pass the readiness
  gate. The reaper thread reads the same Lease, asks AWX for work, and patches
  the other way. The AWX operator copies the resource into the Deployments,
  minutes later.
* dmf-cms writes a receipt; a run of `born_inventory_cli.py` turns it into a
  claim, asks OpenBao for a SecretID, uses it once and removes it. Two runs meet
  only in the claim, a Lease that can be created once.
* The playbooks awx-sleep and awx-wake write the same resource and Deployments as
  the helper, at the operator's pleasure.
* The delivery adapters and the role object-storage-credentials meet in an
  eso-binding record and in a Secret of ESO; ESO refreshes what it reads with it.
* The OpenBao role, 100-eso, 110 and 120 meet in OpenBao and in the break-glass
  file, which each reads when it begins and some write when they end.

The list of hazards, each at its line with the properties that cover it, is in
`PROJECT.json`.

## 2. Modules

    WakeLease       <--refines--  LeaseManager       <--proofs--  LeaseManagerProofs
    WakeLease       <--refines--  AwxAutoscale       <--proofs--  AwxAutoscaleProofs
                                  LaunchReadyGate    <--proofs--  LaunchReadyGateProofs
    OneTimeRequest  <--refines--  SetupOnlyIssuance  <--proofs--  SetupOnlyIssuanceProofs
    StampedStore    <--refines--  ApproleDelivery    <--proofs--  ApproleDeliveryProofs
    KeyEscrow       <--refines--  OpenBaoBootstrap   <--proofs--  OpenBaoBootstrapProofs

`WakeLease` joins two levels of one component. It is a register with a holder and
the time left of its window, which only time and the holder shorten. LeaseManager,
the loop request by request, implements it; AwxAutoscale, where a call of that
loop is one step, asks no more of it (`UsesWakeLease`). The register counts time
relative to the present, because AwxAutoscale does, and LeaseManager's floor and
clock are mapped to that (`Left`).

`MC*.tla` give TLC its symmetry sets and function constants. In every component
module the definitions marked *Fault* are plausible bugs: they are not part of
the specification, and exist so that each property can be seen to fail.

### LeaseManager

One thread is a value of `pc`; each request to the API server is one action. `snap`
is the local `existing`, `req` the arguments, `attempt` the loop variable,
`outcome` and `ret` what the caller got. The server compares `rv`
(resourceVersion); `uid` tells apart a Lease that was deleted and created again.

* `Get`, `PostCreates`, `PostConflicts`, `Reread`: lines 221-258.
* `DecideRefuse`, `DecideWrite`: the owner check at 278, made on the copy, with
  `time.time()` read after the GET. `EffectiveMin` is 282-289.
* `PutStores`, `PutConflicts`, `Final`: 298-312.
* `PostUnanswered`, `PutUnanswered`: the write is stored, the response lost.
  `Raise`: any other exception, at any request.
* `RecordSleep`, `SleepGet`, `SleepPut`: 338-350, the PUT of a whole copy.

`Left` is what is left of the floor, for `WakeLease`.

`HolderOf` gives each thread its holderIdentity. The properties that need an
identity per thread say so (`NamesItsOwner`); `_wake_lock` is left out, so the
theorems do not rest on it.

### AwxAutoscale

A client is a caller with the request thread that serves it. Clock values are
relative: `lease.left` is min_awake_until minus now, and `Tick` is one
REAPER_POLL_INTERVAL. A pass of the reaper keeps the `now` it read at its start;
`age` is how old that is, so `Parked` is `now < min_awake` with the old `now`.
`fresh` is a history variable: what changed after this pass looked at it. It is
empty again when the pass is over.

* `Start`, `PatchAwake`, `ScaleUp`, `HolderReady`, `RewriteFloor`,
  `FollowerReady`, `TimeOut` are `do_ensure_awake` in its order. A retry comes
  from a new thread with a new name, so it is refused while the Lease of its
  predecessor is in force. The flag returned by the rewrite is dropped, as in
  the code.
* `WakeUp`, `ReadFloor`, `QueryWork`, `QuietSoFar`, `Extend`, `SleepCR`,
  `SleepScale`, `RecordSleep` are a pass of `idle_reaper_loop`, one action per
  request.
* Faults: a call that raises (`RequestDies`, `ReaperError`), one that is passed
  over (`ScaleUpFails`, `SleepScaleFails`), retries used up, at the acquire
  (`RunsOutOfRetries`: refused) or at the rewrite (`RewriteRunsOut`: the client is
  served and the floor stays), a restart of the helper, activity of somebody else.
* `PresencePatch` and `PresenceScale` are a run of awx-presence by awx-sleep or
  awx-wake: it patches the resource, then scales each Deployment, which may fail
  and is then passed over. It takes no Lease and asks for no work, so it may
  undo a wake or a sleep of the helper at any point. A run may also stop after
  its patch; nothing forces its next step.
* External: the operator reads the resource and applies what it read later
  (`OperatorReads`, `OperatorApplies`); Pods start (`Boot`); jobs end.

### LaunchReadyGate

`_deployment_launch_ready` as `Get` and `List`, for web, then task, then ping,
then the authenticated read, twice. The controllers act between any two reads:
the ReplicaSet controller counts active Pods only, so that a replacement runs
beside its terminating predecessor, which is #298. `disturbed` is history: AWX
was scaled, or a Pod or a read lost, since the snapshot began.

### SetupOnlyIssuance

A run is one process; each call to Kubernetes or OpenBao is an action with its
outcomes: done, failed before it took effect, or failed after (response lost).
`failure` is the exception kept until cleanup is done, `problem` what cleanup
could not do, `issued` what the create response said, `says` what the final
message says of the SecretID. `Kill` ends the process anywhere. Receipts are
`genuine` or `defective` (every field check of `validate_receipt` is one
verdict, the expiry apart). An interrupt arrives in a call.

### ApproleDelivery

A transaction goes over the destinations of its target, passes over one that has
its marker (`Look`), delivers to the others and then reads the ExternalSecret
gate, one namespace at a time (`GateReads`). The caller of the adapters is not in
the repository, only its tests are; the module's head says what is taken of it,
and `AllDelivered`, its step from the last destination to the gate, is external.
A SecretID is named by its transaction.

* `ReadRecord`, `WriteRecord` are the two calls of
  `OpenBaoKv2RecordDestination.deliver`: `copy` is what `read_kv2` returned,
  `Merged` the merge, `Current` the check-and-set. `PatchSecret` is the one call
  of `KubernetesSecretKeyDestination.deliver`.
* `Delivered` has both outcomes of a write that took effect: the answer arrives
  or is lost. `Abort` is any failure without effect; `Retry` begins again.
* `RoleChecks` to `RoleApplies` are steps 4 to 11 of object-storage-credentials:
  a `kv put` that replaces the record, and a merge into the Secret that leaves the
  annotations of an earlier delivery, which `rewritten` remembers.
* Other writers set other keys, ESO refreshes or fails to, and an ExternalSecret
  may be applied with another store while its status is of the refresh before.

### OpenBaoBootstrap

Every secret (keys, passwords, SecretIDs, generated root tokens) is named by the
playbook run that made it, 0 for none. One playbook runs at a time; `pc` is its
next task, `mem` its facts, `fresh` whether this run initialises, which is the
`openbao_init_raw.changed` that guards half of the tasks. `Stop` ends a run at any
task, after it or before; the operator then runs anything again.

* `Load` to `RevokeRoot` are the role in its order. `Load` has the two ways a
  run is mistaken: a status that could not be read counts as not initialised, and
  a file that could not be read as none.
* `StartEsoPush` and `PushFile` are 100-eso, which reads the file, and its role
  external-secrets, which writes ESO's Secret. `StartEsoRotation` to
  `PersistSecretId` are 110, `StartOpsRotation` to `RevokeTemp` are 120.
* `Finish` is what a playbook still does after its last change. A `Stop` there is
  a run that failed although the change took effect: a lost answer of the
  revocation, for one.
* The surroundings: a new pod starts sealed, the volume is deleted between runs,
  custody places are mounted and unmounted.

## 3. Runs

| Run | Question | Bounds | Result |
|---|---|---|---|
| `lease_manager` | Is the compare-and-set loop a register that honours grants? | 2 wakers and the reaper, 3 calls, 2 retries, time 0..3, 1 deletion | holds |
| `lease_shared_name` | ... also if two threads share a name? | the same, one name | `SingleFlight` fails |
| `awx_safety` | What can a sleep hit, and is the Lease used as the register it is? | 2 clients, Grace 3, startup 3, a pass takes at most 1 tick, 1 fault | holds |
| `awx_liveness` | Is AWX woken, by the holder only, and slept in the end? | 2 clients, Grace 2, startup 3, 1 fault, prompt threads | holds |
| `awx_sleep` | Does the docstring of the reaper hold? | no fault | `SleepOnlyWhenIdle` fails |
| `awx_holder` | Is the rewriter still the holder? | no fault | `StillHolder` fails |
| `launch_gate` | Does the gate open on, and refuse, the right states? | 4 scale patches, 2 leftovers, 1 poll | holds |
| `setup_only` | Is a receipt good for one SecretID that leaves nothing behind? | 2 runs, 2 requests | holds |
| `setup_residue` | Does every message speak of its residue? | the same | `ResidueStated` fails |
| `approle_delivery` | Can markers and gate be believed? | 2 transactions, 1 record, 1 Secret, 2 ExternalSecrets, 1 restart, 1 foreign act, time 0..1 | holds |
| `openbao_bootstrap` | Does any stop, rerun or rotation lose what is needed? | 4 playbook runs | holds |
| `openbao_shares` | Does "plug it in and re-run" distribute the shares? | 2 playbook runs | `PluggedInRerunDistributes` fails |

The bounds are the least at which the cases happen. Two threads and the reaper
are three writers: one that reads, one that overtakes it, one that takes over
from that. Three calls let a thread be refused, retry and rewrite. Two attempts
reach both the retry and its end. One deletion gives a Lease a second uid.
Grace exceeds a pass of the reaper and the startup wait is no less than Grace,
as with the deployed 300 s, 60 s and 1200 s. Four scale patches are down and up
of both Deployments during one snapshot pair; two leftovers are a terminating
Pod whose replacement is terminating too. Two runs may share a request or not
(`req` is any function). `MaxFaults` counts the runs of awx-presence too, so that
one such run meets every state of helper and reaper. In `approle_delivery` two
transactions and one foreign act make three writers of the record; a restart
makes a transaction meet its own markers, and those of the other; one second is
enough for a refresh to be before, in, or after that of the delivery. In
`openbao_bootstrap` four runs are a bootstrap that is interrupted, another after
the volume is deleted, and two rotations, or a rotation that stops and the push
of what it left.

What the violations show, with the lines they contradict, is under `findings` in
`PROJECT.json`. Each is a disagreement of a comment or docstring with the code:

1. The reaper does not re-read floor or work before it patches, so a wake
   acquired during a pass is put to sleep. `SleepHarmsOnlyLatecomers` is the
   promise that does hold.
2. A request thread whose readiness arrives at the deadline rewrites a floor it
   may hold no longer; the answer is ignored and the caller gets its 200.
3. Holder identities coincide across Pods, because they are the pid (1) and a
   thread name.
4. A failed token revocation hides the message that a SecretID may remain.
   `SilentOnlyIfRevokeFails` is the promise that does hold: this is the only
   combination of failures an error is silent about.
5. The OpenBao role asks the operator to plug the USB in and run it again, but
   the second run, which does not initialise, skips the tasks that write the
   shares (and fails later, at the login of users nobody has created). The way
   out is to delete the volume and begin anew.

What the properties except is worth as much as what they say. `OnlyHolderPatches`
needs three patches to take less than the startup wait: `awx_liveness` checks it
with threads that act within the tick, and the theorem covers threads that are
late by a tick each if the wait is more than three of them (deployed: 1200 s, in
ticks of 60 s); with a wait of three, the bound of `awx_safety`, the third patch
may come when the Lease has run out. `AccountsReachable` lets the operator's
password in the file be an old one while a rotation (120) is half done: the file
then has what another rotation needs, which is the keys and a password to read.
`MarkerTruth` is
false for a Secret that object-storage-credentials wrote after a delivery: the
annotations stay. `OneKeyEach` is an assumption: `validate` in `registry.py` would
take a target with two keys of one object, and the marker of the first would then
stand for the second. `GateMeansRefreshed` excepts an ExternalSecret that changed
stores, whose `refreshTime` may be of the store before; and a refresh counts that
began before the delivery and ended after it. `RootsAreOfBrokenRuns` does not say
that an interrupted bootstrap is ever rid of its root token: a rerun ends normally
and leaves it (`docs/openbao-bootstrap-security-model.md`, line 130, says that the
root token exists only during the first bootstrap).

Deadlock checking is off in `lease_manager`, `launch_gate`, `setup_only`,
`approle_delivery` and `openbao_bootstrap` (and the violation runs beside them):
calls, polls, transactions and runs are finite, and when all have ended nothing is
left to do. `AwxAutoscale` never stops, and is checked.

### Fairness

`awx_liveness`: weak fairness of each request thread and its caller's retry, of
the reaper thread, of each Pod's start and each job's end, of time, and of an
operator pass while the Deployments differ from the resource; the thread
scheduler, the kubelet and the operator's watch justify these. `Prompt` adds
that threads with something to do act within the tick: one tick stands for a
minute. Nothing bounds how late an operator pass or a Pod is. Under this
`WakeEventually` says that clients are served again and again while any wants
AWX; for a single client that is freedom from starvation. It does *not* hold for
each of several clients: a stale operator pass that hits after one client is
served and before the next one's confirmation can do so for ever. `ScaleToZero`
assumes what `MaxFaults` bounds: an activity stream that is unreadable for ever
keeps AWX awake, as the code's own comment accepts.

Runs of awx-presence are not fair: one may be left between its patch and its
scaling for ever, and the operator then applies the patch.

`launch_gate`: weak fairness of the request thread only.

`approle_delivery` and `openbao_bootstrap` state no liveness: who calls the adapters
is not in the repository, and whether a playbook is run again is the operator's
choice.

## 4. Proofs

TLAPS checks these for all values of the constants: any number of threads,
runs, requests, retries, calls, patches, polls, transactions and objects.

* **LeaseManagerProofs.** `IInv` is `TypeOK`, `VersionsInv`, `DecisionInv` and
  `GrantHonoured`. `GrantHonoured` alone is not inductive: a PUT may be under way
  whose decision was made on an older copy. `VersionsInv` says that a copy is no
  newer than the server's revision and that equal revisions mean equal objects
  (which is what the resourceVersion check buys); `DecisionInv` that a thread at
  its PUT found its copy run out or its own, which stays so, as time only moves
  on. From these: `GrantsAreHonoured`, `LeaseIsSingleFlight` (assuming an
  identity per thread, the assumption the run `lease_shared_name` drops),
  `ActiveLeaseKept`, `FloorLoweredByOwnerOnly`, and `LeaseImplementsRegister`:
  every step of the loop is a step of `WakeLease` or leaves it alone.
  `CallsAreBounded` gives each call a budget of `3 * MaxRetries + 1` steps which
  each of its steps uses up and no step of another thread extends. It is the safety
  core of termination, and needs that an attempt is counted before it is made
  (`AttemptInv`). `WindowsAreBounded` says that no floor is further ahead than the
  longest extension a caller asks for; the copies, requests and PUTs under way have
  to be bounded along with it (`Ahead`).
* **LaunchReadyGateProofs.** `GateOpensOnSettled` needs three parts: `CountInv`
  (generations count patches), `StatusInv` (a Deployment whose status is current
  has told its ReplicaSet its spec) and `SnapshotInv`, which follows the second
  snapshot read by read: what was seen green stays so until `disturbed`. The last
  works because, with the status current, no controller can take the Pod away.
  `RefusesUnsettledOnly` is the converse, read by read. `AnswerComesCloser` is
  what is left of `GateAnswers` without fairness: a rank of at most
  `15 * (Timeout + 1)`, fifteen steps for each poll, that every step of the thread
  lowers and no act of Kubernetes raises.
* **SetupOnlyIssuanceProofs.** `IInv` is `TypeOK` and, of every run, `Good`. The
  properties speak of ends and of uses, and hold there because of what earlier
  calls established, so `Good` follows a run from call to call: `ClaimOf` (past
  the claim a run holds the Lease and has a genuine receipt), `EarlyOf` (before
  the response it has no SecretID and knows none), `IssuedOf` (what the response
  confirmed is so), `CleanOf` (what cleanup has done by each of its calls) and
  `EndOf` (the properties themselves). `TypeOK` has the part that relates the
  runs: OpenBao knows only the run that created the Lease of its request. Since
  a Lease is created once, steps of one run leave `Good` of the others alone.
  From these: `ResultsAreClean`, `UseIsBounded`, `AccessorsAreDestroyed`,
  `BoundsAreHonest`, and `RequestsAreOneTime`: every step of every run is a step
  of `OneTimeRequest` or leaves it alone. `SilenceIsExplained` needs one part more
  (`ResidueOf`): a run that cleans up without an accessor keeps the failure of the
  issue call to the end, and has only its token to revoke.

* **AwxAutoscaleProofs.** `IInv` is `TypeOK`, `FloorInv`, `JobInv`, `WindowInv` and
  `IdleInv`. `SleepHarmsOnlyLatecomers` speaks of what is true at the patch; `FloorInv` and
  `JobInv` carry it from the reading of the floor and of the work to there: what
  is open or running meanwhile is in `fresh`. `GraceFollowsWindow` needs more than one
  pass. `WindowInv`: a window opened after the floor was read has a grace period
  ahead. `IdleInv`: no window ended after `idle_since` was set, unless a newer one is
  known (`fresh`) or will still be open when the next pass reads the floor
  (`SeenNextTime`), because a pass and its delay are shorter than Grace; that pass
  then drops `idle_since`. `HelperUsesRegister` is the refinement: each step is a step
  of `WakeLease` or leaves it alone. That a request thread's rewrite, the reaper's
  extension and the clock keep to it is proved step by step. `PatchersHoldTheLease` carries through
  the three patches who holds the Lease and how much is left of it at least
  (`PatchInv`): a step may be one tick late, so three ticks may go by, and the
  theorem assumes that the startup wait is longer, or that threads are `Prompt`
  (`LongEnough`). Nobody else can take the Lease meanwhile, and only its own thread
  rewrites it.
* **ApproleDeliveryProofs.** The marker is true because key and stamp are written in one
  call: for a record that is the checked write, so the invariant has to say that a
  copy whose version is current is the record itself (as in LeaseManager). What a
  transaction need not see to any more it has reached, and whoever is stamped on an
  object reached it, which is `NoneSkipped`. For the gate: what is refreshed later
  than `since` was refreshed after `AllDelivered`. `DeliveriesAreAtomic` is the
  refinement: read, merge and checked write are one `Deliver` of `StampedStore`.
* **OpenBaoBootstrapProofs.** `IInv` is `TypeOK`, the three invariants, and
  `NameInv` (a run's secrets have a name nobody used before), `FileInv` (only the
  file's keys unseal this storage, and what a rerun or a rotation read is what the
  file has still), `FreshInv` (what the initialising run has done by each of its
  tasks: the file has the keys from `artifact` on, share n is in custody after
  its task, a reconciler's password in `mem` is the one to be saved), `EsoInv`
  (once root is gone the file's SecretID is an issued one) and `OpsInv` (a file with
  keys has a password of the operator, a storage with one has its keys in the file,
  and only a rotation between its two writes has the two differ). Together:
  `NobodyIsLockedOut`, `RevocationIsSafe`, `CompleteRunsLeaveNoRoot`,
  `OnlyIssuedIsPushed` and the refinement `KeysAreEscrowed`.

The assumptions are those stated in the modules (`ASSUME`), evaluated by TLC on
every run; `LongEnough`, the bound of `WindowsAreBounded` and the identities of
`NamesItsOwner` are hypotheses of the theorems that name them. Only
model-checked, since liveness and ENABLED are outside the prover:
`WakeEventually`, `ScaleToZero`, `GateAnswers`. Every invariant and every action
or refinement property that a passing run checks is also a theorem; the two rank
theorems (`CallsAreBounded`, `AnswerComesCloser`) leave, of the termination of
calls and polls, only that threads are scheduled. The properties of the
violation runs are not theorems: they do not hold.

## 5. Not modelled

* AwxAutoscale takes a Lease call as one step; LeaseManager shows that it is one
  in effect, and `UsesWakeLease` that the helper keeps to the register both share.
  It leaves out identities that coincide (see `lease_shared_name`),
  callers that hang up while their thread goes on, the HTTP probes, and
  wall-clock jumps.
* LaunchReadyGate takes a Deployment to have one Pod, and the AWX API's answer
  to be free: nothing is claimed of it.
* SetupOnlyIssuance leaves out the content of messages beyond what they say of
  the bound, the comparison of the types and numbers of a create response (its
  verdict is an input), interrupts between two calls, and several SecretIDs per
  call. A receipt may expire after `validate_receipt`; no property forbids the use
  then, as the code looks at the expiry once.
* ApproleDelivery leaves out the target version beside the transaction in a
  marker, malformed destinations, and the two gates (ClusterSecretStore, Secret
  key) that by their own docstrings accept nothing. ESO's token cache is not
  there: the code claims nothing of authentication.
* OpenBaoBootstrap has one posture, that of `defaults/main.yml`, and leaves out
  the TTL of SecretIDs (`PushedIsIssued` says issued, not still in force),
  policies, engines and the capability checks (each may fail, which `Stop` is),
  the born-inventory AppRole, which is made and saved like the ESO one, and
  `setup-issuer.yml`. A task list run by two operators at a time is left out: the
  repository has nothing against it, and promises nothing.
* `registry.py` and the Forgejo audit are pure functions of data read before: they
  have no order of steps to get wrong, and their own tests enumerate the cases.
  The passkey invitation is one Django transaction, the ntfy bridge forwards
  one request, the zot mirror copies a list again from the start. The roles around
  the issuance choose a branch by a variable. The rest is manifests, API calls that
  create what is missing, and repository tooling.
