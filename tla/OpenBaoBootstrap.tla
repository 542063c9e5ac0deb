-------------------------- MODULE OpenBaoBootstrap --------------------------
(***************************************************************************)
(* The OpenBao role (tasks/main.yml) and the playbooks that work on the    *)
(* same break-glass file: 100-eso, 110-eso-secret-rotation and             *)
(* 120-ops-admin-rotation.  They run one at a time and may stop at any     *)
(* task; then the operator runs one of them again.  Between and during     *)
(* runs the pod restarts and custody mounts come and go, and the storage   *)
(* may be deleted between runs.                                            *)
(*                                                                         *)
(* Every secret is named by the run that made it, 0 for none.  The posture *)
(* is that of defaults/main.yml: five shares, distribution enabled, root   *)
(* token disposed of.  The born-inventory AppRole goes the way of the ESO  *)
(* one and is left out.                                                    *)
(***************************************************************************)
EXTENDS Naturals

CONSTANT MaxRuns   \* bound: playbook runs
ASSUME RunsAssumption == MaxRuns \in Nat

Runs == 1 .. MaxRuns
Reconcilers == {"policy", "approle"}
Users == Reconcilers \cup {"ops"}
Places == {"juicefs", "keychain", "usb"}
Shares == 1 .. 5
Home == [s \in Shares |-> IF s <= 2 THEN "juicefs" ELSE IF s = 3 THEN "keychain" ELSE "usb"]

\* The break-glass file; no file is one without keys.
Files == [keys : 0 .. MaxRuns, users : [Users -> 0 .. MaxRuns], eso : 0 .. MaxRuns]
NoUsers == [u \in Users |-> 0]
NoFile == [keys |-> 0, users |-> NoUsers, eso |-> 0]

VARIABLES keys,      \* OpenBao: its unseal keys, 0 when not initialised
          sealed,
          root,      \* the initial root token: none, live or revoked
          temps,     \* live root tokens generated from shares
          users,     \* userpass users and their passwords
          issued,    \* SecretIDs of the ESO AppRole
          file,      \* the break-glass file
          kube,      \* the SecretID in ESO's Kubernetes Secret
          custody,   \* per share: what is in its custody place
          mounted,   \* custody places that can be written
          run,       \* runs so far; the current or last one
          pc,        \* its next task
          mem,       \* its facts: what is to be the break-glass file
          fresh,     \* it has initialised, or is about to
          number,    \* the next share it writes
          broken,    \* history: runs that did not end normally
          ready      \* history: all places mounted since the run began

openbao == <<keys, sealed, root, temps, users, issued>>
outside == <<file, kube, custody, mounted>>
process == <<pc, mem, fresh, number>>
vars == <<openbao, outside, process, run, broken, ready>>

Bootstrap == {"init", "artifact", "check", "share", "unseal", "login", "eso",
              "ops", "policy", "approle", "save", "verify", "revoke"}
EsoPush == {"pushFile"}
EsoRotation == {"newId", "push", "persistId"}
OpsRotation == {"generate", "setOps", "persistOps", "revokeTemp"}

TypeOK ==
  /\ keys \in 0 .. MaxRuns /\ sealed \in BOOLEAN
  /\ root \in {"none", "live", "revoked"} /\ temps \subseteq Runs
  /\ users \in [Users -> 0 .. MaxRuns] /\ issued \subseteq Runs
  /\ file \in Files /\ kube \in 0 .. MaxRuns
  /\ custody \in [Shares -> 0 .. MaxRuns] /\ mounted \subseteq Places
  /\ run \in 0 .. MaxRuns
  /\ pc \in Bootstrap \cup EsoPush \cup EsoRotation \cup OpsRotation \cup {"tail", "idle"}
  /\ mem \in Files /\ fresh \in BOOLEAN /\ number \in Shares
  /\ broken \subseteq Runs /\ ready \in BOOLEAN
  \* A storage has a root token once it is initialised; its tokens, users and
  \* SecretIDs are its own.
  /\ (root = "none") = (keys = 0)
  /\ keys = 0 => sealed /\ temps = {} /\ users = NoUsers /\ issued = {}

Init ==
  /\ keys = 0 /\ sealed = TRUE /\ root = "none" /\ temps = {} /\ users = NoUsers /\ issued = {}
  /\ file = NoFile /\ kube = 0 /\ custody = [s \in Shares |-> 0] /\ mounted \in SUBSET Places
  /\ run = 0 /\ pc = "idle" /\ mem = NoFile /\ fresh = FALSE /\ number = 1
  /\ broken = {} /\ ready = FALSE
-----------------------------------------------------------------------------
Go(from, to) == pc = from /\ pc' = to
Begin(to) == /\ Go("idle", to)
             /\ run < MaxRuns /\ run' = run + 1
             /\ ready' = (mounted = Places)
Goes(from, to) == Go(from, to) /\ UNCHANGED <<run, broken, ready>>

\* The tasks after the last one that changes something here.
Finish == Goes("tail", "idle") /\ UNCHANGED <<openbao, outside, mem, fresh, number>>

\* A task fails, with no effect or after it; the run ends there.
Stop ==
  /\ pc # "idle" /\ pc' = "idle"
  /\ broken' = broken \cup {run}
  /\ UNCHANGED <<openbao, outside, mem, fresh, number, run, ready>>
-----------------------------------------------------------------------------
(* The role. *)

\* Reconcilers' passwords are made only for a fresh init, operator's always.
Makes(found, u, new) == found.users[u] = 0 /\ (u = "ops" \/ new)

\* The facts a run begins with.
Facts(found, new) ==
  [found EXCEPT !.users = [u \in Users |-> IF Makes(found, u, new) THEN run + 1 ELSE found.users[u]]]

\* The status and the file are read.  A failed status counts as not initialised,
\* a failed read as no file.
Load ==
  /\ \E found \in {file, NoFile}, new \in {TRUE, keys = 0} :
       /\ fresh' = new /\ mem' = Facts(found, new)
       /\ Begin(IF new THEN "init" ELSE "unseal")
  /\ number' = 1
  /\ UNCHANGED <<openbao, outside, broken>>

\* `operator init` fails when OpenBao is initialised.
RunInit ==
  /\ Goes("init", "artifact") /\ keys = 0
  /\ keys' = run /\ root' = "live"
  /\ mem' = [mem EXCEPT !.keys = run]
  /\ UNCHANGED <<sealed, temps, users, issued, outside, fresh, number>>

\* The recovery artifact: no AppRole credentials yet.
Artifact == [mem EXCEPT !.eso = 0]

SaveArtifact ==
  /\ Goes("artifact", "check")
  /\ file' = Artifact
  /\ UNCHANGED <<openbao, kube, custody, mounted, mem, fresh, number>>

\* Fault: the loop over the shares is one short.
LastButOne(s) == s = 4
Last(s) == s = 5

CheckPlaces ==
  /\ Goes("check", "share") /\ mounted = Places
  /\ UNCHANGED <<openbao, outside, mem, fresh, number>>

WriteShare ==
  /\ pc = "share" /\ Home[number] \in mounted
  /\ custody' = [custody EXCEPT ![number] = mem.keys]
  /\ \/ ~Last(number) /\ number' = number + 1 /\ UNCHANGED pc
     \/ Last(number) /\ pc' = "unseal" /\ UNCHANGED number
  /\ UNCHANGED <<openbao, file, kube, mounted, mem, fresh, run, broken, ready>>

\* Without keys the first task fails on the empty list; an OpenBao that is not
\* sealed takes any keys.
Unseal ==
  /\ Goes("unseal", IF fresh THEN "eso" ELSE "login")
  /\ mem.keys # 0 /\ (sealed => mem.keys = keys)
  /\ sealed' = FALSE
  /\ UNCHANGED <<keys, root, temps, users, issued, outside, mem, fresh, number>>

\* On a rerun both reconcilers must log in; the policies are applied.
Login ==
  /\ Goes("login", "save") /\ ~sealed
  /\ \A u \in Reconcilers : mem.users[u] # 0 /\ mem.users[u] = users[u]
  /\ UNCHANGED <<openbao, outside, mem, fresh, number>>

\* Fault: a SecretID that was read from the file is kept.
KeptId == IF mem.eso # 0 THEN mem.eso ELSE run
NewId == run

\* On a fresh init, engines, policies, and the ESO AppRole with a SecretID,
CreateEso ==
  /\ Goes("eso", "ops") /\ ~sealed
  /\ issued' = issued \cup {run}
  /\ mem' = [mem EXCEPT !.eso = NewId]
  /\ UNCHANGED <<keys, sealed, root, temps, users, outside, fresh, number>>

\* and the users, one after the other.
Upsert(u, to) ==
  /\ Goes(u, to) /\ ~sealed
  /\ users' = [users EXCEPT ![u] = mem.users[u]]
  /\ UNCHANGED <<keys, sealed, root, temps, issued, outside, mem, fresh, number>>

\* Fault: the keys are those of this run's init.
InitKeysOnly == [mem EXCEPT !.keys = IF fresh THEN mem.keys ELSE 0]
Composed == mem

\* The file is written on every run.
SaveFile ==
  /\ Goes("save", "verify")
  /\ file' = Composed
  /\ UNCHANGED <<openbao, kube, custody, mounted, mem, fresh, number>>

\* Fault: nobody disposes of the root token.
NoDisposal == "tail"
AfterVerify == IF fresh THEN "revoke" ELSE "tail"

\* The operator must log in; a rerun has nothing to revoke.
Verify ==
  /\ Goes("verify", AfterVerify) /\ ~sealed
  /\ mem.users["ops"] = users["ops"]
  /\ UNCHANGED <<openbao, outside, mem, fresh, number>>

\* What the command answers is looked at in the next task: a Stop at "tail" is also
\* the lost answer of a revocation that took effect.
RevokeRoot ==
  /\ Goes("revoke", "tail") /\ ~sealed
  /\ root' = "revoked"
  /\ UNCHANGED <<keys, sealed, temps, users, issued, outside, mem, fresh, number>>
-----------------------------------------------------------------------------
(* The other playbooks read the file first, and fail if there is none. *)

Read(to) == /\ file.keys # 0 /\ mem' = file
            /\ Begin(to)
            /\ UNCHANGED <<openbao, fresh, number, broken>>

\* 100-eso reads the file,
StartEsoPush == Read("pushFile") /\ UNCHANGED outside

\* and its role puts the SecretID into the Secret, if there was one.
PushFile ==
  /\ Goes("pushFile", "tail") /\ mem.eso # 0
  /\ kube' = mem.eso
  /\ UNCHANGED <<openbao, file, custody, mounted, mem, fresh, number>>

\* 110: the operator logs in and there is a Secret,
StartEsoRotation ==
  /\ Read("newId") /\ ~sealed /\ kube # 0
  /\ file.users["ops"] # 0 /\ file.users["ops"] = users["ops"]
  /\ UNCHANGED outside

NewSecretId ==
  /\ Goes("newId", "push") /\ ~sealed
  /\ issued' = issued \cup {run}
  /\ UNCHANGED <<keys, sealed, root, temps, users, outside, mem, fresh, number>>

\* a new SecretID goes into the Secret first
PushSecretId ==
  /\ Goes("push", "persistId")
  /\ kube' = run
  /\ UNCHANGED <<openbao, file, custody, mounted, mem, fresh, number>>

\* and then, with what was read of the rest, into the file.
PersistSecretId ==
  /\ Goes("persistId", "tail")
  /\ file' = [mem EXCEPT !.eso = run]
  /\ UNCHANGED <<openbao, kube, custody, mounted, mem, fresh, number>>

\* 120 needs an operator's password and shares in the file,
StartOpsRotation ==
  /\ Read("generate") /\ file.users["ops"] # 0
  /\ UNCHANGED outside

\* Fault: OpenBao takes the shares of another storage.
AnyShares == TRUE
Quorum == ~sealed /\ mem.keys = keys

\* generates a root token with the shares,
GenerateRoot ==
  /\ Goes("generate", "setOps") /\ Quorum
  /\ temps' = temps \cup {run}
  /\ UNCHANGED <<keys, sealed, root, users, issued, outside, mem, fresh, number>>

SetOpsPassword ==
  /\ Goes("setOps", "persistOps") /\ ~sealed
  /\ users' = [users EXCEPT !["ops"] = run]
  /\ UNCHANGED <<keys, sealed, root, temps, issued, outside, mem, fresh, number>>

\* Fault: only what this playbook reads is kept.
OpsOnly == [NoFile EXCEPT !.keys = mem.keys, !.users["ops"] = run]
RotatedOps == [mem EXCEPT !.users["ops"] = run]

PersistOpsPassword ==
  /\ Goes("persistOps", "revokeTemp")
  /\ file' = RotatedOps
  /\ UNCHANGED <<openbao, kube, custody, mounted, mem, fresh, number>>

RevokeTemp ==
  /\ Goes("revokeTemp", "tail") /\ ~sealed
  /\ temps' = temps \ {run}
  /\ UNCHANGED <<keys, sealed, root, users, issued, outside, mem, fresh, number>>
-----------------------------------------------------------------------------
(* The surroundings. *)

\* A new pod starts sealed.
PodRestart ==
  /\ ~sealed /\ sealed' = TRUE
  /\ UNCHANGED <<keys, root, temps, users, issued, outside, process, run, broken, ready>>

\* The OpenBao volume is deleted, the break-glass file and custody are not.
Rebuild ==
  /\ keys # 0 /\ pc = "idle"
  /\ keys' = 0 /\ sealed' = TRUE /\ root' = "none" /\ temps' = {}
  /\ users' = NoUsers /\ issued' = {}
  /\ UNCHANGED <<outside, process, run, broken, ready>>

Plug(p) ==
  /\ p \notin mounted /\ mounted' = mounted \cup {p}
  /\ UNCHANGED <<openbao, file, kube, custody, process, run, broken, ready>>

Unplug(p) ==
  /\ p \in mounted /\ mounted' = mounted \ {p} /\ ready' = FALSE
  /\ UNCHANGED <<openbao, file, kube, custody, process, run, broken>>
-----------------------------------------------------------------------------
Role == \/ Load \/ RunInit \/ SaveArtifact \/ CheckPlaces \/ WriteShare \/ Unseal
        \/ Login \/ CreateEso
        \/ Upsert("ops", "policy") \/ Upsert("policy", "approle") \/ Upsert("approle", "save")
        \/ SaveFile \/ Verify \/ RevokeRoot
Rotation == \/ StartEsoPush \/ PushFile \/ StartEsoRotation \/ NewSecretId \/ PushSecretId
            \/ PersistSecretId \/ StartOpsRotation \/ GenerateRoot \/ SetOpsPassword
            \/ PersistOpsPassword \/ RevokeTemp
Surroundings == PodRestart \/ Rebuild \/ \E p \in Places : Plug(p) \/ Unplug(p)

Next == Role \/ Rotation \/ Finish \/ Stop \/ Surroundings

Spec == Init /\ [][Next]_vars
-----------------------------------------------------------------------------
\* Runs that may have left something half done.
Unfinished == broken \cup IF pc = "idle" THEN {} ELSE {run}

\* No run locks anybody out, wherever it stops.  A reconciler that exists has its
\* password in the file: nothing could make that anew once root is gone.  The
\* operator's is in the file unless a rotation (120) is going on or stopped half
\* way, and then the file has what another rotation needs.
AccountsReachable ==
  /\ \A u \in Reconcilers : users[u] # 0 => file.users[u] = users[u]
  /\ users["ops"] # 0 =>
       \/ file.users["ops"] = users["ops"]
       \/ users["ops"] \in Unfinished /\ file.keys = keys /\ file.users["ops"] # 0

\* The root token of a storage is given up only when nothing needs it any more:
\* the file has the keys, both reconcilers log in, and all five shares are in
\* custody.  Later rotations, reruns and crashes do not take that away.
RevokedMeansRecoverable ==
  root = "revoked" =>
    /\ file.keys = keys /\ \A s \in Shares : custody[s] = keys
    /\ \A u \in Reconcilers : users[u] # 0 /\ file.users[u] = users[u]

\* A run that ends normally leaves no root token: those alive belong to a run
\* that is going on, or to one that was interrupted and has left its own.
RootsAreOfBrokenRuns ==
  /\ temps \subseteq Unfinished
  /\ root = "live" => keys \in Unfinished

\* Once the root token is gone, whatever is written to ESO's Secret is a
\* SecretID of this storage, by a rotation (110) or from the file (100-eso),
\* in whatever order they are run and interrupted.
PushedIsIssued == [][root = "revoked" /\ kube' # kube => kube' \in issued]_vars

\* The keys of a storage reach the file before it has a user and never leave
\* it again; the root token is given up only with the keys in the file.
phase == IF keys = 0 THEN "blank"
         ELSE IF file.keys # keys THEN "bare"
         ELSE IF root = "live" THEN "escrowed" ELSE "handedOver"
Escrow == INSTANCE KeyEscrow WITH used <- users # NoUsers
ImplementsKeyEscrow == Escrow!Spec

\* Task "Fail if OPENBAO_A USB is missing" (main.yml:463) tells the operator
\* to plug the USB in and run the role again.  A run that began with every
\* place mounted, and has passed the tasks that write the shares, has the
\* shares of this OpenBao in custody.
PluggedInRerunDistributes ==
  ready /\ pc \in {"login", "save", "verify"} =>
    \A s \in Shares : custody[s] = keys
=============================================================================
