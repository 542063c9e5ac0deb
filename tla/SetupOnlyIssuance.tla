------------------------- MODULE SetupOnlyIssuance -------------------------
(***************************************************************************)
(* The fresh-on-rerun SecretID path: runs of born_inventory_cli.py, each   *)
(* one process executing issue_use_revoke of setup_only.py through the     *)
(* kubectl transports.  Every call to Kubernetes or OpenBao is a step; it  *)
(* may fail before or after it took effect, be interrupted, or be the last *)
(* thing the process does.  An interrupt arrives in a call, which is where *)
(* a run spends its time.                                                  *)
(***************************************************************************)
EXTENDS Naturals

CONSTANTS Runs,      \* processes, each for one request
          Requests,  \* request ids
          NoRun      \* nobody has claimed the request

ASSUME NoRunAssumption == NoRun \notin Runs

VARIABLES receipt,  \* the ConfigMap request-<id>: does validate_receipt accept it?
          expired,  \* requests whose expires_at has passed
          claim,    \* the Lease claim-<id>: the run that created it
          pc,       \* per run: the call it makes next
          req,      \* per run: its request id
          copy,     \* per run: the receipt it has read
          token,    \* per run: its issuer token, at OpenBao
          secret,   \* per run: its SecretID, at OpenBao
          issued,   \* per run: what the create response told it
          reader,   \* per run: the AppRole token of its use function, at OpenBao
          failure,  \* per run: the exception kept until cleanup is done
          problem,  \* per run: what cleanup could not do
          outcome,  \* per run: how it ended
          says      \* per run: what its last message says of the SecretID

world == <<receipt, expired, claim>>
bao == <<token, secret, reader>>
run == <<pc, req, copy, issued, failure, problem, outcome, says>>
vars == <<world, bao, run>>

Locations == {"idle", "roleId", "receipt", "validate", "claim", "login", "issue",
              "confirm", "use", "read", "leave", "destroy", "revoke", "finish", "ended"}
Tokens == {"none", "live", "dead"}
Secrets == [state : {"none", "usable", "gone"}, bounded : BOOLEAN]
NoSecret == [state |-> "none", bounded |-> FALSE]

\* A create response has an accessor, or the transport rejects it; confirmed:
\* secret_id_ttl and secret_id_num_uses are exactly what was asked for.
Responses == [accessor : BOOLEAN, secret : BOOLEAN, confirmed : BOOLEAN]
NoResponse == [accessor |-> FALSE, secret |-> FALSE, confirmed |-> FALSE]

Interrupts == {"interrupt"}
Failures == {"none", "early", "issue", "bounded", "use"} \cup Interrupts

TypeOK ==
  /\ receipt \in [Requests -> {"none", "genuine", "defective"}]
  /\ expired \subseteq Requests
  /\ claim \in [Requests -> Runs \cup {NoRun}]
  /\ pc \in [Runs -> Locations]
  /\ req \in [Runs -> Requests]
  /\ copy \in [Runs -> {"none", "genuine", "defective"}]
  /\ token \in [Runs -> Tokens] /\ reader \in [Runs -> Tokens]
  /\ secret \in [Runs -> Secrets]
  /\ issued \in [Runs -> Responses]
  /\ failure \in [Runs -> Failures]
  /\ problem \in [Runs -> SUBSET {"secret", "token"}]
  /\ outcome \in [Runs -> {"none", "result", "error", "interrupt", "killed"}]
  /\ says \in [Runs -> {"nothing", "bounded", "unconfirmed"}]
  \* OpenBao knows no run but the one that claimed its request.
  /\ \A p \in Runs : claim[req[p]] # p =>
       token[p] = "none" /\ secret[p].state = "none" /\ reader[p] = "none"

Init ==
  /\ receipt = [r \in Requests |-> "none"] /\ expired = {}
  /\ claim = [r \in Requests |-> NoRun]
  /\ pc = [p \in Runs |-> "idle"]
  /\ req \in [Runs -> Requests]
  /\ copy = [p \in Runs |-> "none"]
  /\ token = [p \in Runs |-> "none"] /\ reader = [p \in Runs |-> "none"]
  /\ secret = [p \in Runs |-> NoSecret]
  /\ issued = [p \in Runs |-> NoResponse]
  /\ failure = [p \in Runs |-> "none"]
  /\ problem = [p \in Runs |-> {}]
  /\ outcome = [p \in Runs |-> "none"]
  /\ says = [p \in Runs |-> "nothing"]
-----------------------------------------------------------------------------
(* The console, the clock and OpenBao. *)

\* dmf-cms writes an immutable receipt; it is not written again.
WriteReceipt(r, kind) ==
  /\ receipt[r] = "none"
  /\ receipt' = [receipt EXCEPT ![r] = kind]
  /\ UNCHANGED <<expired, claim, bao, run>>

ReceiptExpires(r) ==
  /\ receipt[r] # "none" /\ r \notin expired
  /\ expired' = expired \cup {r}
  /\ UNCHANGED <<receipt, claim, bao, run>>

\* The issuer's token lives for minutes, an AppRole token for its ttl.
TokenExpires(p) ==
  /\ \/ token[p] = "live" /\ token' = [token EXCEPT ![p] = "dead"] /\ UNCHANGED reader
     \/ reader[p] = "live" /\ reader' = [reader EXCEPT ![p] = "dead"] /\ UNCHANGED token
  /\ UNCHANGED <<world, secret, run>>

SecretExpires(p) ==
  /\ secret[p].state = "usable" /\ secret[p].bounded
  /\ secret' = [secret EXCEPT ![p].state = "gone"]
  /\ UNCHANGED <<world, token, reader, run>>
-----------------------------------------------------------------------------
Goto(p, l) == pc' = [pc EXCEPT ![p] = l]

\* An exception outside the cleanup frame ends the run at once.
Fail(p) == /\ Goto(p, "ended")
           /\ failure' = [failure EXCEPT ![p] = "early"]
           /\ outcome' \in {[outcome EXCEPT ![p] = o] : o \in {"error", "interrupt"}}
           /\ UNCHANGED <<req, copy, issued, problem, says>>

\* An exception inside it is kept, and cleanup begins.
Keep(p, f) == /\ failure' = [failure EXCEPT ![p] = f]
              /\ Goto(p, IF issued[p].accessor THEN "destroy" ELSE "revoke")
              /\ UNCHANGED <<req, copy, issued, problem, outcome, says>>

Continue(p, l) == /\ Goto(p, l)
                  /\ UNCHANGED <<req, copy, issued, failure, problem, outcome, says>>

Begin(p) == /\ pc[p] = "idle" /\ Continue(p, "roleId")
            /\ UNCHANGED <<world, bao>>

\* run_setup: the role id, from --role-id or the published ConfigMap, comes
\* before the receipt.
RoleId(p) == /\ pc[p] = "roleId"
             /\ Continue(p, "receipt") \/ Fail(p)
             /\ UNCHANGED <<world, bao>>

\* get_receipt and kube_system_uid.
ReadReceipt(p) ==
  /\ pc[p] = "receipt"
  /\ \/ /\ copy' = [copy EXCEPT ![p] = receipt[req[p]]]
        /\ Goto(p, "validate")
        /\ UNCHANGED <<req, issued, failure, problem, outcome, says>>
     \/ Fail(p)
  /\ UNCHANGED <<world, bao>>

Validate(p) ==
  /\ pc[p] = "validate"
  /\ IF copy[p] = "genuine" /\ req[p] \notin expired THEN Continue(p, "claim") ELSE Fail(p)
  /\ UNCHANGED <<world, bao>>

Claimed(p) == claim' = [claim EXCEPT ![req[p]] = p]

\* create_claim: created; the Lease is there already; or an error that leaves
\* it unknown whether the Lease was created.
ClaimCreated(p) ==
  /\ pc[p] = "claim" /\ claim[req[p]] = NoRun
  /\ Claimed(p)
  /\ Continue(p, "login") \/ Fail(p)
  /\ UNCHANGED <<receipt, expired, bao>>

\* Fault: a claim that exists is taken for the run's own.
ClaimTakenOver(p) ==
  /\ pc[p] = "claim" /\ claim[req[p]] # NoRun
  /\ Continue(p, "login")
  /\ UNCHANGED <<world, bao>>

ClaimConflict(p) ==
  /\ pc[p] = "claim" /\ claim[req[p]] # NoRun
  /\ Fail(p)
  /\ UNCHANGED <<world, bao>>

ClaimFails(p) ==
  /\ pc[p] = "claim" /\ Fail(p)
  /\ UNCHANGED <<world, bao>>

\* _login: the TokenRequest and the login; a token may be issued and its
\* response lost.
Login(p) ==
  /\ pc[p] = "login"
  /\ token' = [token EXCEPT ![p] = "live"]
  /\ Continue(p, "issue") \/ Fail(p)
  /\ UNCHANGED <<world, secret, reader>>

LoginFails(p) ==
  /\ pc[p] = "login" /\ Fail(p)
  /\ UNCHANGED <<world, bao>>

\* OpenBao mints a SecretID; whether it holds the bounds that were asked for
\* is up to the issuer policy.
Mint(p, b) == /\ token[p] = "live"
              /\ secret' = [secret EXCEPT ![p] = [state |-> "usable", bounded |-> b]]
              /\ UNCHANGED <<token, reader>>

\* The response: it confirms no bound that the SecretID does not have.
IssueAnswered(p) ==
  /\ pc[p] = "issue"
  /\ \E b, s, c \in BOOLEAN :
       /\ c => b
       /\ Mint(p, b)
       /\ issued' = [issued EXCEPT ![p] = [accessor |-> TRUE, secret |-> s, confirmed |-> c]]
  /\ Goto(p, "confirm")
  /\ UNCHANGED <<world, req, copy, failure, problem, outcome, says>>

\* An error, an interrupt, a lost response, or one without an accessor.
IssueFails(p, f) ==
  /\ pc[p] = "issue"
  /\ (\E b \in BOOLEAN : Mint(p, b)) \/ UNCHANGED bao
  /\ Keep(p, f)
  /\ UNCHANGED world

\* Fault: the bounds are not looked at.
Usable(i) == i.secret
\* _confirm_bounds accepts the response.
Confirmed(i) == i.secret /\ i.confirmed

Confirm(p) ==
  /\ pc[p] = "confirm"
  /\ IF Confirmed(issued[p]) THEN Continue(p, "use")
     ELSE Keep(p, IF issued[p].confirmed THEN "bounded" ELSE "issue")
  /\ UNCHANGED <<world, bao>>

\* use(secret_id): an AppRole login, which uses a one-use SecretID up, a KV
\* read and, in a finally block, the revocation of the AppRole token.
LoggedIn(p) ==
  /\ secret[p].state = "usable"
  /\ secret' = IF secret[p].bounded THEN [secret EXCEPT ![p].state = "gone"] ELSE secret
  /\ reader' = [reader EXCEPT ![p] = "live"]
  /\ UNCHANGED token

UseLogin(p) ==
  /\ pc[p] = "use" /\ LoggedIn(p)
  /\ Continue(p, "read")
  /\ UNCHANGED world

UseLoginFails(p, f) ==
  /\ pc[p] = "use"
  /\ LoggedIn(p) \/ UNCHANGED bao
  /\ Keep(p, f)
  /\ UNCHANGED world

UseRead(p) ==
  /\ pc[p] = "read"
  /\ \/ reader[p] = "live" /\ Continue(p, "leave")
     \/ \E f \in {"use"} \cup Interrupts :
          /\ failure' = [failure EXCEPT ![p] = f]
          /\ Goto(p, "leave")
          /\ UNCHANGED <<req, copy, issued, problem, outcome, says>>
  /\ UNCHANGED <<world, bao>>

\* The finally block; an exception here takes the place of an earlier one.
UseLeaves(p) ==
  /\ pc[p] = "leave"
  /\ \/ /\ reader[p] = "live"
        /\ reader' = [reader EXCEPT ![p] = "dead"]
        /\ Continue(p, "destroy") \/ \E f \in {"use"} \cup Interrupts : Keep(p, f)
     \/ UNCHANGED reader /\ \E f \in {"use"} \cup Interrupts : Keep(p, f)
  /\ UNCHANGED <<world, token, secret>>

\* _destroy, first the accessor.  OpenBao may not know the accessor of a
\* SecretID that is used up.
Destroyed(p) == /\ token[p] = "live"
                /\ secret' = [secret EXCEPT ![p].state = "gone"]

Destroy(p) ==
  /\ pc[p] = "destroy" /\ Destroyed(p)
  /\ Continue(p, "revoke")
  /\ UNCHANGED <<world, token, reader>>

\* A cleanup call that fails, or is interrupted, is noted, and cleanup goes on.
Note(p, what, l) ==
  /\ problem' = [problem EXCEPT ![p] = @ \cup {what}]
  /\ \E f \in {failure[p]} \cup Interrupts : failure' = [failure EXCEPT ![p] = f]
  /\ Goto(p, l)
  /\ UNCHANGED <<req, copy, issued, outcome, says>>

\* Fault: the destroy call is best effort.
DestroyIgnored(p) ==
  /\ pc[p] = "destroy"
  /\ Continue(p, "revoke")
  /\ UNCHANGED <<world, bao>>

DestroyFails(p) ==
  /\ pc[p] = "destroy"
  /\ Destroyed(p) \/ UNCHANGED secret
  /\ Note(p, "secret", "revoke")
  /\ UNCHANGED <<world, token, reader>>

Revoke(p) ==
  /\ pc[p] = "revoke" /\ token[p] = "live"
  /\ token' = [token EXCEPT ![p] = "dead"]
  /\ Continue(p, "finish")
  /\ UNCHANGED <<world, secret, reader>>

RevokeFails(p) ==
  /\ pc[p] = "revoke"
  /\ token' \in {token, [token EXCEPT ![p] = "dead"]}
  /\ Note(p, "token", "finish")
  /\ UNCHANGED <<world, secret, reader>>

\* Fault: a failed cleanup is reported as far as it hides no result.
OutcomeOfUse(p) == IF failure[p] \in Interrupts THEN "interrupt"
                   ELSE IF failure[p] # "none" THEN "error" ELSE "result"
\* What issue_use_revoke ends with.
Outcome(p) == IF failure[p] \in Interrupts THEN "interrupt"
              ELSE IF problem[p] # {} \/ failure[p] # "none" THEN "error"
              ELSE "result"

\* Fault: what was asked for is taken for granted.
ResidueAsAsked(i) == IF i.accessor THEN "bounded" ELSE "unconfirmed"
\* _residue.
Residue(i) == IF i.confirmed THEN "bounded" ELSE "unconfirmed"

\* Fault: only a response that arrived is worth a word.
MessageOfResponse(p) ==
  IF failure[p] \in Interrupts THEN IF problem[p] = {} THEN "nothing" ELSE "unconfirmed"
  ELSE IF "secret" \in problem[p] THEN Residue(issued[p])
  ELSE IF problem[p] # {} \/ ~issued[p].accessor THEN "nothing"
  ELSE IF failure[p] = "issue" THEN "unconfirmed"
  ELSE IF failure[p] = "bounded" THEN "bounded" ELSE "nothing"
\* What the message the run ends with says: the interrupt's note, the cleanup
\* problem, which takes the place of the failure, or the failure.
Message(p) ==
  IF failure[p] \in Interrupts THEN IF problem[p] = {} THEN "nothing" ELSE "unconfirmed"
  ELSE IF "secret" \in problem[p] THEN Residue(issued[p])
  ELSE IF problem[p] # {} THEN "nothing"
  ELSE IF failure[p] = "issue" THEN "unconfirmed"
  ELSE IF failure[p] = "bounded" THEN "bounded" ELSE "nothing"

Finish(p) ==
  /\ pc[p] = "finish"
  /\ outcome' = [outcome EXCEPT ![p] = Outcome(p)]
  /\ says' = [says EXCEPT ![p] = Message(p)]
  /\ Goto(p, "ended")
  /\ UNCHANGED <<world, bao, req, copy, issued, failure, problem>>

\* The process dies.
Kill(p) ==
  /\ pc[p] \notin {"idle", "ended"}
  /\ Goto(p, "ended")
  /\ outcome' = [outcome EXCEPT ![p] = "killed"]
  /\ UNCHANGED <<world, bao, req, copy, issued, failure, problem, says>>
-----------------------------------------------------------------------------
Step(p) ==
  \/ Begin(p) \/ RoleId(p) \/ ReadReceipt(p) \/ Validate(p)
  \/ ClaimCreated(p) \/ ClaimConflict(p) \/ ClaimFails(p)
  \/ Login(p) \/ LoginFails(p)
  \/ IssueAnswered(p) \/ \E f \in {"issue"} \cup Interrupts : IssueFails(p, f)
  \/ Confirm(p)
  \/ UseLogin(p) \/ \E f \in {"use"} \cup Interrupts : UseLoginFails(p, f)
  \/ UseRead(p) \/ UseLeaves(p)
  \/ Destroy(p) \/ DestroyFails(p) \/ Revoke(p) \/ RevokeFails(p)
  \/ Finish(p) \/ Kill(p)

Next == \/ \E p \in Runs : Step(p) \/ TokenExpires(p) \/ SecretExpires(p)
        \/ \E r \in Requests : \/ \E k \in {"genuine", "defective"} : WriteReceipt(r, k)
                               \/ ReceiptExpires(r)

Spec == Init /\ [][Next]_vars
-----------------------------------------------------------------------------
\* A request is good for one SecretID, whichever runs share it, crash, lose a
\* response or are started again (claim once, mint once).
Minted == {r \in Requests : \E p \in Runs : req[p] = r /\ secret[p].state # "none"}
OneTime == INSTANCE OneTimeRequest
             WITH taken <- {r \in Requests : claim[r] # NoRun},
                  minted <- Minted,
                  usable <- {r \in Requests : \E p \in Runs :
                               req[p] = r /\ secret[p].state = "usable"}
ImplementsOneTimeRequest == OneTime!Spec

\* A run that prints a token has left nothing behind: its SecretID is gone and
\* both of its OpenBao tokens are revoked.
ResultMeansClean ==
  \A p \in Runs : outcome[p] = "result" =>
    secret[p].state = "gone" /\ token[p] = "dead" /\ reader[p] = "dead"

\* A SecretID that is used was minted under the run's own claim of a genuine
\* receipt and within the bounds of one use and one hour.
UsedWithinBounds ==
  \A p \in Runs : reader[p] # "none" =>
    claim[req[p]] = p /\ receipt[req[p]] = "genuine" /\ secret[p].bounded

\* Every exit path a process survives destroys the accessor it knows, or the
\* run says that it could not.
Survived(p) == pc[p] = "ended" /\ outcome[p] # "killed"
AccessorDestroyed ==
  \A p \in Runs : Survived(p) /\ issued[p].accessor =>
    \/ secret[p].state = "gone"
    \/ "secret" \in problem[p] /\ says[p] # "nothing"

\* A message never promises the bound of one use and one hour for a SecretID
\* that does not have it.
BoundIsHonest ==
  \A p \in Runs : says[p] = "bounded" => secret[p].bounded

\* One error is silent about a SecretID that is still usable: the create
\* response was lost and the issuer token could not be revoked either.  No other
\* combination of failures, in use or in cleanup, is.
SilentOnlyIfRevokeFails ==
  \A p \in Runs : Survived(p) /\ outcome[p] = "error" /\ secret[p].state = "usable" =>
    says[p] # "nothing" \/ (~issued[p].accessor /\ problem[p] = {"token"})

\* The messages say "unconfirmed" whenever the response did not confirm the
\* bound, as the docstring of setup_only.py says: an error that leaves a usable
\* SecretID behind says something about it.
ResidueStated ==
  \A p \in Runs : pc[p] = "ended" /\ outcome[p] = "error" /\ secret[p].state = "usable" =>
    says[p] # "nothing"
=============================================================================
