---------------------- MODULE SetupOnlyIssuanceProofs ----------------------
(***************************************************************************)
(* Proofs about SetupOnlyIssuance, for any number of runs and requests.    *)
(***************************************************************************)
EXTENDS SetupOnlyIssuance, TLAPS

\* The type invariant by parts: the world, OpenBao, the runs, and who OpenBao
\* knows.
WorldTyped == /\ receipt \in [Requests -> {"none", "genuine", "defective"}]
              /\ expired \subseteq Requests
              /\ claim \in [Requests -> Runs \cup {NoRun}]
BaoTyped == /\ token \in [Runs -> Tokens] /\ reader \in [Runs -> Tokens]
            /\ secret \in [Runs -> Secrets]
RunTyped == /\ pc \in [Runs -> Locations]
            /\ req \in [Runs -> Requests]
            /\ copy \in [Runs -> {"none", "genuine", "defective"}]
            /\ issued \in [Runs -> Responses]
            /\ failure \in [Runs -> Failures]
            /\ problem \in [Runs -> SUBSET {"secret", "token"}]
            /\ outcome \in [Runs -> {"none", "result", "error", "interrupt", "killed"}]
            /\ says \in [Runs -> {"nothing", "bounded", "unconfirmed"}]
Owned == \A p \in Runs : claim[req[p]] # p =>
           token[p] = "none" /\ secret[p].state = "none" /\ reader[p] = "none"

\* Where a run has no response yet, and where it holds its claim.
Before == {"idle", "roleId", "receipt", "validate", "claim", "login", "issue"}
Held == {"login", "issue", "confirm", "use", "read", "leave", "destroy", "revoke",
         "finish"}

\* A run past its claim holds it, for a receipt that it found genuine; one with
\* an AppRole token has been there.
ClaimOf(p) ==
  /\ pc[p] \in Held => claim[req[p]] = p
  /\ pc[p] \in Held \cup {"claim"} => copy[p] = "genuine"
  /\ reader[p] # "none" => copy[p] = "genuine"
  /\ copy[p] = "genuine" => receipt[req[p]] = "genuine"

\* Nothing is known before the response, and nothing is said before the end.
EarlyOf(p) ==
  /\ pc[p] \in Before => /\ secret[p].state = "none" /\ reader[p] = "none"
                         /\ issued[p] = NoResponse /\ failure[p] = "none"
  /\ pc[p] # "ended" => outcome[p] = "none" /\ says[p] = "nothing"

\* What the response told the run is so, and what it does with the SecretID
\* follows from it.
IssuedOf(p) ==
  /\ issued[p].confirmed => secret[p].bounded
  /\ issued[p].accessor => secret[p].state # "none"
  /\ pc[p] \in {"confirm", "use", "read", "leave", "destroy"} => issued[p].accessor
  /\ pc[p] = "use" => issued[p].confirmed
  /\ reader[p] # "none" => secret[p].bounded /\ secret[p].state = "gone"
  /\ failure[p] = "bounded" => issued[p].confirmed

\* What a run without failure or problem has cleaned up so far.
CleanOf(p) ==
  /\ pc[p] \in {"destroy", "revoke", "finish"} /\ failure[p] = "none" => reader[p] = "dead"
  /\ pc[p] \in {"revoke", "finish"} /\ failure[p] = "none" /\ problem[p] = {} =>
       secret[p].state = "gone"
  /\ pc[p] = "finish" /\ problem[p] = {} => token[p] = "dead"
  /\ pc[p] \in {"revoke", "finish"} /\ issued[p].accessor =>
       secret[p].state = "gone" \/ "secret" \in problem[p]

\* How a run ends: ResultMeansClean, AccessorDestroyed and BoundIsHonest of it.
EndOf(p) ==
  /\ outcome[p] = "result" =>
       secret[p].state = "gone" /\ token[p] = "dead" /\ reader[p] = "dead"
  /\ Survived(p) /\ issued[p].accessor =>
       \/ secret[p].state = "gone"
       \/ "secret" \in problem[p] /\ says[p] # "nothing"
  /\ says[p] = "bounded" => secret[p].bounded

\* All of it, of one run.
Good(p) == ClaimOf(p) /\ EarlyOf(p) /\ IssuedOf(p) /\ CleanOf(p) /\ EndOf(p)

\* What a step of another run leaves of a run.
Untouched(q) == /\ pc'[q] = pc[q] /\ copy'[q] = copy[q] /\ issued'[q] = issued[q]
                /\ failure'[q] = failure[q] /\ problem'[q] = problem[q]
                /\ outcome'[q] = outcome[q] /\ says'[q] = says[q]
                /\ token'[q] = token[q] /\ secret'[q] = secret[q]
                /\ reader'[q] = reader[q]

\* The inductive invariant of the issuance.
IInv == TypeOK /\ \A p \in Runs : Good(p)
-----------------------------------------------------------------------------
\* The parts make up the type invariant.
LEMMA TypeParts == TypeOK <=> WorldTyped /\ BaoTyped /\ RunTyped /\ Owned
  BY DEF TypeOK, WorldTyped, BaoTyped, RunTyped, Owned

\* A step of a run changes nothing of the world but its own claim, once.
LEMMA StepWorld ==
  ASSUME NEW p \in Runs, Step(p)
  PROVE  /\ receipt' = receipt /\ expired' = expired /\ req' = req
         /\ \/ claim' = claim
            \/ claim[req[p]] = NoRun /\ claim' = [claim EXCEPT ![req[p]] = p]
  <1> DEFINE Goal == /\ receipt' = receipt /\ expired' = expired /\ req' = req
                     /\ \/ claim' = claim
                        \/ /\ claim[req[p]] = NoRun
                           /\ claim' = [claim EXCEPT ![req[p]] = p]
  <1> SUFFICES Goal OBVIOUS
  <1>1. CASE Begin(p)
    BY <1>1 DEF Begin, Continue, Goto, world, bao
  <1>2. CASE RoleId(p)
    BY <1>2 DEF RoleId, Continue, Fail, Goto, world, bao
  <1>3. CASE ReadReceipt(p)
    BY <1>3 DEF ReadReceipt, Fail, Goto, world, bao
  <1>4. CASE Validate(p)
    BY <1>4 DEF Validate, Continue, Fail, Goto, world, bao
  <1>5. CASE ClaimCreated(p)
    BY <1>5 DEF ClaimCreated, Claimed, Continue, Fail, Goto, world, bao
  <1>6. CASE ClaimConflict(p)
    BY <1>6 DEF ClaimConflict, Fail, Goto, world, bao
  <1>7. CASE ClaimFails(p)
    BY <1>7 DEF ClaimFails, Fail, Goto, world, bao
  <1>8. CASE Login(p)
    BY <1>8 DEF Login, Continue, Fail, Goto, world, bao
  <1>9. CASE LoginFails(p)
    BY <1>9 DEF LoginFails, Fail, Goto, world, bao
  <1>10. CASE IssueAnswered(p)
    BY <1>10 DEF IssueAnswered, Mint, Goto, world, bao
  <1>11. ASSUME NEW f \in {"issue"} \cup Interrupts, IssueFails(p, f) PROVE Goal
    BY <1>11 DEF IssueFails, Mint, Keep, Goto, world, bao
  <1>12. CASE Confirm(p)
    BY <1>12 DEF Confirm, Confirmed, Continue, Keep, Goto, world, bao
  <1>13. CASE UseLogin(p)
    BY <1>13 DEF UseLogin, LoggedIn, Continue, Goto, world, bao
  <1>14. ASSUME NEW f \in {"use"} \cup Interrupts, UseLoginFails(p, f) PROVE Goal
    BY <1>14 DEF UseLoginFails, LoggedIn, Keep, Goto, world, bao
  <1>15. CASE UseRead(p)
    BY <1>15 DEF UseRead, Continue, Goto, world, bao
  <1>16. CASE UseLeaves(p)
    BY <1>16 DEF UseLeaves, Continue, Keep, Goto, world, bao
  <1>17. CASE Destroy(p)
    BY <1>17 DEF Destroy, Destroyed, Continue, Goto, world, bao
  <1>18. CASE DestroyFails(p)
    BY <1>18 DEF DestroyFails, Destroyed, Note, Goto, world, bao
  <1>19. CASE Revoke(p)
    BY <1>19 DEF Revoke, Continue, Goto, world, bao
  <1>20. CASE RevokeFails(p)
    BY <1>20 DEF RevokeFails, Note, Goto, world, bao
  <1>21. CASE Finish(p)
    BY <1>21 DEF Finish, Goto, world, bao
  <1>22. CASE Kill(p)
    BY <1>22 DEF Kill, Goto, world, bao
  <1> QED BY <1>1, <1>2, <1>3, <1>4, <1>5, <1>6, <1>7, <1>8, <1>9, <1>10, <1>11,
         <1>12, <1>13, <1>14, <1>15, <1>16, <1>17, <1>18, <1>19, <1>20, <1>21,
         <1>22 DEF Step

\* A step of a run keeps the other runs as they are, with what OpenBao has of
\* them.
LEMMA StepOthers ==
  ASSUME BaoTyped, RunTyped, NEW p \in Runs, Step(p), NEW q \in Runs, q # p
  PROVE  Untouched(q)
  <1>1. CASE Begin(p)
    BY <1>1 DEF Begin, Continue, Goto, world, bao, run, BaoTyped, RunTyped,
         Untouched
  <1>2. CASE RoleId(p)
    BY <1>2 DEF RoleId, Continue, Fail, Goto, world, bao, run, BaoTyped,
         RunTyped, Untouched
  <1>3. CASE ReadReceipt(p)
    BY <1>3 DEF ReadReceipt, Fail, Goto, world, bao, run, BaoTyped, RunTyped,
         Untouched
  <1>4. CASE Validate(p)
    BY <1>4 DEF Validate, Continue, Fail, Goto, world, bao, run, BaoTyped,
         RunTyped, Untouched
  <1>5. CASE ClaimCreated(p)
    BY <1>5 DEF ClaimCreated, Claimed, Continue, Fail, Goto, world, bao, run,
         BaoTyped, RunTyped, Untouched
  <1>6. CASE ClaimConflict(p)
    BY <1>6 DEF ClaimConflict, Fail, Goto, world, bao, run, BaoTyped, RunTyped,
         Untouched
  <1>7. CASE ClaimFails(p)
    BY <1>7 DEF ClaimFails, Fail, Goto, world, bao, run, BaoTyped, RunTyped,
         Untouched
  <1>8. CASE Login(p)
    BY <1>8 DEF Login, Continue, Fail, Goto, world, bao, run, BaoTyped,
         RunTyped, Untouched
  <1>9. CASE LoginFails(p)
    BY <1>9 DEF LoginFails, Fail, Goto, world, bao, run, BaoTyped, RunTyped,
         Untouched
  <1>10. CASE IssueAnswered(p)
    BY <1>10 DEF IssueAnswered, Mint, Goto, world, bao, run, BaoTyped, RunTyped,
         Untouched
  <1>11. ASSUME NEW f \in {"issue"} \cup Interrupts, IssueFails(p, f) PROVE Untouched(q)
    BY <1>11 DEF IssueFails, Mint, Keep, Goto, world, bao, run, BaoTyped,
         RunTyped, Untouched
  <1>12. CASE Confirm(p)
    BY <1>12 DEF Confirm, Confirmed, Continue, Keep, Goto, world, bao, run,
         BaoTyped, RunTyped, Untouched
  <1>13. CASE UseLogin(p)
    BY <1>13 DEF UseLogin, LoggedIn, Continue, Goto, world, bao, run, BaoTyped,
         RunTyped, Untouched
  <1>14. ASSUME NEW f \in {"use"} \cup Interrupts, UseLoginFails(p, f) PROVE Untouched(q)
    BY <1>14 DEF UseLoginFails, LoggedIn, Keep, Goto, world, bao, run, BaoTyped,
         RunTyped, Untouched
  <1>15. CASE UseRead(p)
    BY <1>15 DEF UseRead, Continue, Goto, world, bao, run, BaoTyped, RunTyped,
         Untouched
  <1>16. CASE UseLeaves(p)
    BY <1>16 DEF UseLeaves, Continue, Keep, Goto, world, bao, run, BaoTyped,
         RunTyped, Untouched
  <1>17. CASE Destroy(p)
    BY <1>17 DEF Destroy, Destroyed, Continue, Goto, world, bao, run, BaoTyped,
         RunTyped, Untouched
  <1>18. CASE DestroyFails(p)
    BY <1>18 DEF DestroyFails, Destroyed, Note, Goto, world, bao, run, BaoTyped,
         RunTyped, Untouched
  <1>19. CASE Revoke(p)
    BY <1>19 DEF Revoke, Continue, Goto, world, bao, run, BaoTyped, RunTyped,
         Untouched
  <1>20. CASE RevokeFails(p)
    BY <1>20 DEF RevokeFails, Note, Goto, world, bao, run, BaoTyped, RunTyped,
         Untouched
  <1>21. CASE Finish(p)
    BY <1>21 DEF Finish, Goto, world, bao, run, BaoTyped, RunTyped, Untouched
  <1>22. CASE Kill(p)
    BY <1>22 DEF Kill, Goto, world, bao, run, BaoTyped, RunTyped, Untouched
  <1> QED BY <1>1, <1>2, <1>3, <1>4, <1>5, <1>6, <1>7, <1>8, <1>9, <1>10, <1>11,
         <1>12, <1>13, <1>14, <1>15, <1>16, <1>17, <1>18, <1>19, <1>20, <1>21,
         <1>22 DEF Step

\* The ways a step ends keep the types of a run's variables.
LEMMA WaysTyped ==
  ASSUME RunTyped, NEW p \in Runs, NEW l \in Locations
  PROVE  /\ Continue(p, l) => RunTyped'
         /\ Fail(p) => RunTyped'
         /\ \A f \in Failures : Keep(p, f) => RunTyped'
  <1> USE DEF Locations, Responses, Failures, Interrupts
  <1>1. Continue(p, l) => RunTyped'
    BY DEF RunTyped, Continue, Goto
  <1>2. Fail(p) => RunTyped'
    BY DEF RunTyped, Fail, Goto
  <1>3. ASSUME NEW f \in Failures, Keep(p, f) PROVE RunTyped'
    BY <1>3 DEF RunTyped, Keep, Goto
  <1> QED BY <1>1, <1>2, <1>3

\* A run ends and speaks in one of the ways there are.
LEMMA EndTyped ==
  ASSUME NEW p \in Runs
  PROVE  /\ Outcome(p) \in {"none", "result", "error", "interrupt", "killed"}
         /\ Message(p) \in {"nothing", "bounded", "unconfirmed"}
  BY DEF Outcome, Message, Residue

\* The variables of a run keep their types.
LEMMA StepRunTyped ==
  ASSUME RunTyped, WorldTyped, NEW p \in Runs, Step(p)
  PROVE  RunTyped'
  <1> USE DEF Locations, Responses, Failures, Interrupts
  <1>1. CASE Begin(p)
    BY <1>1, WaysTyped DEF Begin, Locations
  <1>2. CASE RoleId(p)
    BY <1>2, WaysTyped DEF RoleId, Locations
  <1>3. CASE ReadReceipt(p)
    <2>1. CASE Fail(p) BY <2>1, WaysTyped DEF Locations
    <2>2. CASE /\ copy' = [copy EXCEPT ![p] = receipt[req[p]]]
               /\ Goto(p, "validate")
               /\ UNCHANGED <<req, issued, failure, problem, outcome, says>>
      BY <2>2 DEF Goto, RunTyped, WorldTyped
    <2> QED BY <1>3, <2>1, <2>2 DEF ReadReceipt
  <1>4. CASE Validate(p)
    BY <1>4, WaysTyped DEF Validate, Locations
  <1>5. CASE ClaimCreated(p)
    BY <1>5, WaysTyped DEF ClaimCreated, Locations
  <1>6. CASE ClaimConflict(p)
    BY <1>6, WaysTyped DEF ClaimConflict, Locations
  <1>7. CASE ClaimFails(p)
    BY <1>7, WaysTyped DEF ClaimFails, Locations
  <1>8. CASE Login(p)
    BY <1>8, WaysTyped DEF Login, Locations
  <1>9. CASE LoginFails(p)
    BY <1>9, WaysTyped DEF LoginFails, Locations
  <1>10. CASE IssueAnswered(p)
    BY <1>10 DEF IssueAnswered, Mint, Goto, world, bao, RunTyped, WorldTyped
  <1>11. ASSUME NEW f \in {"issue"} \cup Interrupts, IssueFails(p, f) PROVE RunTyped'
    BY <1>11 DEF IssueFails, Mint, Keep, Goto, world, bao, RunTyped, WorldTyped
  <1>12. CASE Confirm(p)
    BY <1>12 DEF Confirm, Confirmed, Continue, Keep, Goto, world, bao, RunTyped,
         WorldTyped
  <1>13. CASE UseLogin(p)
    BY <1>13 DEF UseLogin, LoggedIn, Continue, Goto, world, bao, RunTyped,
         WorldTyped
  <1>14. ASSUME NEW f \in {"use"} \cup Interrupts, UseLoginFails(p, f) PROVE RunTyped'
    BY <1>14 DEF UseLoginFails, LoggedIn, Keep, Goto, world, bao, RunTyped,
         WorldTyped
  <1>15. CASE UseRead(p)
    BY <1>15 DEF UseRead, Continue, Goto, world, bao, RunTyped, WorldTyped
  <1>16. CASE UseLeaves(p)
    <2>1. Continue(p, "destroy") \/ \E f \in {"use"} \cup Interrupts : Keep(p, f)
      BY <1>16 DEF UseLeaves
    <2> QED BY <2>1, WaysTyped
  <1>17. CASE Destroy(p)
    BY <1>17 DEF Destroy, Destroyed, Continue, Goto, world, bao, RunTyped,
         WorldTyped
  <1>18. CASE DestroyFails(p)
    BY <1>18 DEF DestroyFails, Destroyed, Note, Goto, world, bao, RunTyped,
         WorldTyped
  <1>19. CASE Revoke(p)
    BY <1>19 DEF Revoke, Continue, Goto, world, bao, RunTyped, WorldTyped
  <1>20. CASE RevokeFails(p)
    BY <1>20 DEF RevokeFails, Note, Goto, world, bao, RunTyped, WorldTyped
  <1>21. CASE Finish(p)
    BY <1>21, EndTyped DEF Finish, Goto, RunTyped
  <1>22. CASE Kill(p)
    BY <1>22 DEF Kill, Goto, world, bao, RunTyped, WorldTyped
  <1> QED BY <1>1, <1>2, <1>3, <1>4, <1>5, <1>6, <1>7, <1>8, <1>9, <1>10, <1>11,
         <1>12, <1>13, <1>14, <1>15, <1>16, <1>17, <1>18, <1>19, <1>20, <1>21,
         <1>22 DEF Step

\* So do OpenBao's.
LEMMA StepBaoTyped ==
  ASSUME BaoTyped, NEW p \in Runs, Step(p)
  PROVE  BaoTyped'
  <1> USE DEF Tokens, Secrets
  <1>1. CASE Begin(p)
    BY <1>1 DEF Begin, Continue, Goto, world, bao, BaoTyped
  <1>2. CASE RoleId(p)
    BY <1>2 DEF RoleId, Continue, Fail, Goto, world, bao, BaoTyped
  <1>3. CASE ReadReceipt(p)
    BY <1>3 DEF ReadReceipt, Fail, Goto, world, bao, BaoTyped
  <1>4. CASE Validate(p)
    BY <1>4 DEF Validate, Continue, Fail, Goto, world, bao, BaoTyped
  <1>5. CASE ClaimCreated(p)
    BY <1>5 DEF ClaimCreated, Claimed, Continue, Fail, Goto, world, bao,
         BaoTyped
  <1>6. CASE ClaimConflict(p)
    BY <1>6 DEF ClaimConflict, Fail, Goto, world, bao, BaoTyped
  <1>7. CASE ClaimFails(p)
    BY <1>7 DEF ClaimFails, Fail, Goto, world, bao, BaoTyped
  <1>8. CASE Login(p)
    BY <1>8 DEF Login, Continue, Fail, Goto, world, bao, BaoTyped
  <1>9. CASE LoginFails(p)
    BY <1>9 DEF LoginFails, Fail, Goto, world, bao, BaoTyped
  <1>10. CASE IssueAnswered(p)
    BY <1>10 DEF IssueAnswered, Mint, Goto, world, bao, BaoTyped
  <1>11. ASSUME NEW f \in {"issue"} \cup Interrupts, IssueFails(p, f) PROVE BaoTyped'
    BY <1>11 DEF IssueFails, Mint, Keep, Goto, world, bao, BaoTyped
  <1>12. CASE Confirm(p)
    BY <1>12 DEF Confirm, Confirmed, Continue, Keep, Goto, world, bao, BaoTyped
  <1>13. CASE UseLogin(p)
    BY <1>13 DEF UseLogin, LoggedIn, Continue, Goto, world, bao, BaoTyped
  <1>14. ASSUME NEW f \in {"use"} \cup Interrupts, UseLoginFails(p, f) PROVE BaoTyped'
    BY <1>14 DEF UseLoginFails, LoggedIn, Keep, Goto, world, bao, BaoTyped
  <1>15. CASE UseRead(p)
    BY <1>15 DEF UseRead, Continue, Goto, world, bao, BaoTyped
  <1>16. CASE UseLeaves(p)
    BY <1>16 DEF UseLeaves, Continue, Keep, Goto, world, bao, BaoTyped
  <1>17. CASE Destroy(p)
    BY <1>17 DEF Destroy, Destroyed, Continue, Goto, world, bao, BaoTyped
  <1>18. CASE DestroyFails(p)
    BY <1>18 DEF DestroyFails, Destroyed, Note, Goto, world, bao, BaoTyped
  <1>19. CASE Revoke(p)
    BY <1>19 DEF Revoke, Continue, Goto, world, bao, BaoTyped
  <1>20. CASE RevokeFails(p)
    BY <1>20 DEF RevokeFails, Note, Goto, world, bao, BaoTyped
  <1>21. CASE Finish(p)
    BY <1>21 DEF Finish, Goto, world, bao, BaoTyped
  <1>22. CASE Kill(p)
    BY <1>22 DEF Kill, Goto, world, bao, BaoTyped
  <1> QED BY <1>1, <1>2, <1>3, <1>4, <1>5, <1>6, <1>7, <1>8, <1>9, <1>10, <1>11,
         <1>12, <1>13, <1>14, <1>15, <1>16, <1>17, <1>18, <1>19, <1>20, <1>21,
         <1>22 DEF Step

\* Nothing happens at OpenBao for a run that does not hold its claim.
LEMMA StepHeld ==
  ASSUME NEW p \in Runs, Step(p)
  PROVE  bao' = bao \/ pc[p] \in Held
  <1>1. CASE Begin(p)
    BY <1>1 DEF Begin, Continue, Goto, world, bao, run, Held
  <1>2. CASE RoleId(p)
    BY <1>2 DEF RoleId, Continue, Fail, Goto, world, bao, run, Held
  <1>3. CASE ReadReceipt(p)
    BY <1>3 DEF ReadReceipt, Fail, Goto, world, bao, run, Held
  <1>4. CASE Validate(p)
    BY <1>4 DEF Validate, Continue, Fail, Goto, world, bao, run, Held
  <1>5. CASE ClaimCreated(p)
    BY <1>5 DEF ClaimCreated, Claimed, Continue, Fail, Goto, world, bao, run,
         Held
  <1>6. CASE ClaimConflict(p)
    BY <1>6 DEF ClaimConflict, Fail, Goto, world, bao, run, Held
  <1>7. CASE ClaimFails(p)
    BY <1>7 DEF ClaimFails, Fail, Goto, world, bao, run, Held
  <1>8. CASE Login(p)
    BY <1>8 DEF Login, Continue, Fail, Goto, world, bao, run, Held
  <1>9. CASE LoginFails(p)
    BY <1>9 DEF LoginFails, Fail, Goto, world, bao, run, Held
  <1>10. CASE IssueAnswered(p)
    BY <1>10 DEF IssueAnswered, Mint, Goto, world, bao, run, Held
  <1>11. ASSUME NEW f \in {"issue"} \cup Interrupts, IssueFails(p, f)
         PROVE  bao' = bao \/ pc[p] \in Held
    BY <1>11 DEF IssueFails, Mint, Keep, Goto, world, bao, run, Held
  <1>12. CASE Confirm(p)
    BY <1>12 DEF Confirm, Confirmed, Continue, Keep, Goto, world, bao, run, Held
  <1>13. CASE UseLogin(p)
    BY <1>13 DEF UseLogin, LoggedIn, Continue, Goto, world, bao, run, Held
  <1>14. ASSUME NEW f \in {"use"} \cup Interrupts, UseLoginFails(p, f)
         PROVE  bao' = bao \/ pc[p] \in Held
    BY <1>14 DEF UseLoginFails, LoggedIn, Keep, Goto, world, bao, run, Held
  <1>15. CASE UseRead(p)
    BY <1>15 DEF UseRead, Continue, Goto, world, bao, run, Held
  <1>16. CASE UseLeaves(p)
    BY <1>16 DEF UseLeaves, Continue, Keep, Goto, world, bao, run, Held
  <1>17. CASE Destroy(p)
    BY <1>17 DEF Destroy, Destroyed, Continue, Goto, world, bao, run, Held
  <1>18. CASE DestroyFails(p)
    BY <1>18 DEF DestroyFails, Destroyed, Note, Goto, world, bao, run, Held
  <1>19. CASE Revoke(p)
    BY <1>19 DEF Revoke, Continue, Goto, world, bao, run, Held
  <1>20. CASE RevokeFails(p)
    BY <1>20 DEF RevokeFails, Note, Goto, world, bao, run, Held
  <1>21. CASE Finish(p)
    BY <1>21 DEF Finish, Goto, world, bao, run, Held
  <1>22. CASE Kill(p)
    BY <1>22 DEF Kill, Goto, world, bao, run, Held
  <1> QED BY <1>1, <1>2, <1>3, <1>4, <1>5, <1>6, <1>7, <1>8, <1>9, <1>10, <1>11,
         <1>12, <1>13, <1>14, <1>15, <1>16, <1>17, <1>18, <1>19, <1>20, <1>21,
         <1>22 DEF Step

\* OpenBao goes on knowing only those that claimed.
LEMMA StepOwned ==
  ASSUME TypeOK, \A q \in Runs : Good(q), NEW p \in Runs, Step(p)
  PROVE  Owned'
  <1>1. WorldTyped /\ BaoTyped /\ RunTyped /\ Owned
    BY TypeParts
  <1>2. SUFFICES ASSUME NEW q \in Runs, claim'[req'[q]] # q
                 PROVE  token'[q] = "none" /\ secret'[q].state = "none" /\ reader'[q] = "none"
    BY DEF Owned
  <1>3. claim[req[q]] # q
    BY <1>1, <1>2, StepWorld, NoRunAssumption DEF WorldTyped, RunTyped
  <1>4. token[q] = "none" /\ secret[q].state = "none" /\ reader[q] = "none"
    BY <1>1, <1>3 DEF Owned
  <1>5. CASE q = p
    <2>1. pc[p] \notin Held BY <1>3, <1>5 DEF Good, ClaimOf
    <2>2. bao' = bao BY <2>1, StepHeld
    <2> QED BY <1>4, <2>2 DEF bao
  <1>6. CASE q # p
    BY <1>1, <1>4, <1>6, StepOthers DEF Untouched
  <1> QED BY <1>5, <1>6

\* A step of another run leaves a run as good as it was.
LEMMA StepGoodOthers ==
  ASSUME TypeOK, NEW p \in Runs, Step(p), NEW q \in Runs, q # p, Good(q)
  PROVE  Good(q)'
  <1>1. WorldTyped /\ BaoTyped /\ RunTyped
    BY TypeParts
  <1>2. Untouched(q)
    BY <1>1, StepOthers
  <1>3. receipt' = receipt /\ req' = req /\ (claim[req[q]] = q => claim'[req[q]] = q)
    BY <1>1, StepWorld, NoRunAssumption DEF WorldTyped, RunTyped
  <1>4. ClaimOf(q)' BY <1>2, <1>3 DEF Good, ClaimOf, Untouched
  <1>5. EarlyOf(q)' BY <1>2 DEF Good, EarlyOf, Untouched
  <1>6. IssuedOf(q)' BY <1>2 DEF Good, IssuedOf, Untouched
  <1>7. CleanOf(q)' BY <1>2 DEF Good, CleanOf, Untouched
  <1>8. EndOf(q)' BY <1>2 DEF Good, EndOf, Untouched, Survived
  <1> QED BY <1>4, <1>5, <1>6, <1>7, <1>8 DEF Good

\* A run's own step: its claim and its receipt.
LEMMA StepClaim ==
  ASSUME WorldTyped, BaoTyped, RunTyped, NEW p \in Runs, Step(p), Good(p)
  PROVE  ClaimOf(p)'
  <1>1. CASE Begin(p)
    BY <1>1 DEF Begin, Continue, Goto, world, bao, run, WorldTyped, BaoTyped,
         RunTyped, Good, ClaimOf, EarlyOf, Held, Before
  <1>2. CASE RoleId(p)
    BY <1>2 DEF RoleId, Continue, Fail, Goto, world, bao, run, WorldTyped,
         BaoTyped, RunTyped, Good, ClaimOf, EarlyOf, Held, Before
  <1>3. CASE ReadReceipt(p)
    BY <1>3 DEF ReadReceipt, Fail, Goto, world, bao, run, WorldTyped, BaoTyped,
         RunTyped, Good, ClaimOf, EarlyOf, Held, Before
  <1>4. CASE Validate(p)
    BY <1>4 DEF Validate, Continue, Fail, Goto, world, bao, run, WorldTyped,
         BaoTyped, RunTyped, Good, ClaimOf, EarlyOf, Held, Before
  <1>5. CASE ClaimCreated(p)
    BY <1>5 DEF ClaimCreated, Claimed, Continue, Fail, Goto, world, bao, run,
         WorldTyped, BaoTyped, RunTyped, Good, ClaimOf, EarlyOf, Held, Before
  <1>6. CASE ClaimConflict(p)
    BY <1>6 DEF ClaimConflict, Fail, Goto, world, bao, run, WorldTyped,
         BaoTyped, RunTyped, Good, ClaimOf, EarlyOf, Held, Before
  <1>7. CASE ClaimFails(p)
    BY <1>7 DEF ClaimFails, Fail, Goto, world, bao, run, WorldTyped, BaoTyped,
         RunTyped, Good, ClaimOf, EarlyOf, Held, Before
  <1>8. CASE Login(p)
    BY <1>8 DEF Login, Continue, Fail, Goto, world, bao, run, WorldTyped,
         BaoTyped, RunTyped, Good, ClaimOf, EarlyOf, Held, Before
  <1>9. CASE LoginFails(p)
    BY <1>9 DEF LoginFails, Fail, Goto, world, bao, run, WorldTyped, BaoTyped,
         RunTyped, Good, ClaimOf, EarlyOf, Held, Before
  <1>10. CASE IssueAnswered(p)
    BY <1>10 DEF IssueAnswered, Mint, Goto, world, bao, run, WorldTyped,
         BaoTyped, RunTyped, Good, ClaimOf, EarlyOf, Held, Before
  <1>11. ASSUME NEW f \in {"issue"} \cup Interrupts, IssueFails(p, f) PROVE ClaimOf(p)'
    BY <1>11 DEF IssueFails, Mint, Keep, Goto, world, bao, run, WorldTyped,
         BaoTyped, RunTyped, Good, ClaimOf, EarlyOf, Held, Before
  <1>12. CASE Confirm(p)
    BY <1>12 DEF Confirm, Confirmed, Continue, Keep, Goto, world, bao, run,
         WorldTyped, BaoTyped, RunTyped, Good, ClaimOf, EarlyOf, Held, Before
  <1>13. CASE UseLogin(p)
    BY <1>13 DEF UseLogin, LoggedIn, Continue, Goto, world, bao, run,
         WorldTyped, BaoTyped, RunTyped, Good, ClaimOf, EarlyOf, Held, Before
  <1>14. ASSUME NEW f \in {"use"} \cup Interrupts, UseLoginFails(p, f) PROVE ClaimOf(p)'
    BY <1>14 DEF UseLoginFails, LoggedIn, Keep, Goto, world, bao, run,
         WorldTyped, BaoTyped, RunTyped, Good, ClaimOf, EarlyOf, Held, Before
  <1>15. CASE UseRead(p)
    BY <1>15 DEF UseRead, Continue, Goto, world, bao, run, WorldTyped, BaoTyped,
         RunTyped, Good, ClaimOf, EarlyOf, Held, Before
  <1>16. CASE UseLeaves(p)
    BY <1>16 DEF UseLeaves, Continue, Keep, Goto, world, bao, run, WorldTyped,
         BaoTyped, RunTyped, Good, ClaimOf, EarlyOf, Held, Before
  <1>17. CASE Destroy(p)
    BY <1>17 DEF Destroy, Destroyed, Continue, Goto, world, bao, run,
         WorldTyped, BaoTyped, RunTyped, Good, ClaimOf, EarlyOf, Held, Before
  <1>18. CASE DestroyFails(p)
    BY <1>18 DEF DestroyFails, Destroyed, Note, Goto, world, bao, run,
         WorldTyped, BaoTyped, RunTyped, Good, ClaimOf, EarlyOf, Held, Before
  <1>19. CASE Revoke(p)
    BY <1>19 DEF Revoke, Continue, Goto, world, bao, run, WorldTyped, BaoTyped,
         RunTyped, Good, ClaimOf, EarlyOf, Held, Before
  <1>20. CASE RevokeFails(p)
    BY <1>20 DEF RevokeFails, Note, Goto, world, bao, run, WorldTyped, BaoTyped,
         RunTyped, Good, ClaimOf, EarlyOf, Held, Before
  <1>21. CASE Finish(p)
    BY <1>21 DEF Finish, Goto, world, bao, run, WorldTyped, BaoTyped, RunTyped,
         Good, ClaimOf, EarlyOf, Held, Before
  <1>22. CASE Kill(p)
    BY <1>22 DEF Kill, Goto, world, bao, run, WorldTyped, BaoTyped, RunTyped,
         Good, ClaimOf, EarlyOf, Held, Before
  <1> QED BY <1>1, <1>2, <1>3, <1>4, <1>5, <1>6, <1>7, <1>8, <1>9, <1>10, <1>11,
         <1>12, <1>13, <1>14, <1>15, <1>16, <1>17, <1>18, <1>19, <1>20, <1>21,
         <1>22 DEF Step

\* A run's own step: before the response, and before the end.
LEMMA StepEarly ==
  ASSUME BaoTyped, RunTyped, NEW p \in Runs, Step(p), Good(p)
  PROVE  EarlyOf(p)'
  <1>1. CASE Begin(p)
    BY <1>1 DEF Begin, Continue, Goto, world, bao, run, BaoTyped, RunTyped,
         Good, EarlyOf, Before
  <1>2. CASE RoleId(p)
    BY <1>2 DEF RoleId, Continue, Fail, Goto, world, bao, run, BaoTyped,
         RunTyped, Good, EarlyOf, Before
  <1>3. CASE ReadReceipt(p)
    BY <1>3 DEF ReadReceipt, Fail, Goto, world, bao, run, BaoTyped, RunTyped,
         Good, EarlyOf, Before
  <1>4. CASE Validate(p)
    BY <1>4 DEF Validate, Continue, Fail, Goto, world, bao, run, BaoTyped,
         RunTyped, Good, EarlyOf, Before
  <1>5. CASE ClaimCreated(p)
    BY <1>5 DEF ClaimCreated, Claimed, Continue, Fail, Goto, world, bao, run,
         BaoTyped, RunTyped, Good, EarlyOf, Before
  <1>6. CASE ClaimConflict(p)
    BY <1>6 DEF ClaimConflict, Fail, Goto, world, bao, run, BaoTyped, RunTyped,
         Good, EarlyOf, Before
  <1>7. CASE ClaimFails(p)
    BY <1>7 DEF ClaimFails, Fail, Goto, world, bao, run, BaoTyped, RunTyped,
         Good, EarlyOf, Before
  <1>8. CASE Login(p)
    BY <1>8 DEF Login, Continue, Fail, Goto, world, bao, run, BaoTyped,
         RunTyped, Good, EarlyOf, Before
  <1>9. CASE LoginFails(p)
    BY <1>9 DEF LoginFails, Fail, Goto, world, bao, run, BaoTyped, RunTyped,
         Good, EarlyOf, Before
  <1>10. CASE IssueAnswered(p)
    BY <1>10 DEF IssueAnswered, Mint, Goto, world, bao, run, BaoTyped, RunTyped,
         Good, EarlyOf, Before
  <1>11. ASSUME NEW f \in {"issue"} \cup Interrupts, IssueFails(p, f) PROVE EarlyOf(p)'
    BY <1>11 DEF IssueFails, Mint, Keep, Goto, world, bao, run, BaoTyped,
         RunTyped, Good, EarlyOf, Before
  <1>12. CASE Confirm(p)
    BY <1>12 DEF Confirm, Confirmed, Continue, Keep, Goto, world, bao, run,
         BaoTyped, RunTyped, Good, EarlyOf, Before
  <1>13. CASE UseLogin(p)
    BY <1>13 DEF UseLogin, LoggedIn, Continue, Goto, world, bao, run, BaoTyped,
         RunTyped, Good, EarlyOf, Before
  <1>14. ASSUME NEW f \in {"use"} \cup Interrupts, UseLoginFails(p, f) PROVE EarlyOf(p)'
    BY <1>14 DEF UseLoginFails, LoggedIn, Keep, Goto, world, bao, run, BaoTyped,
         RunTyped, Good, EarlyOf, Before
  <1>15. CASE UseRead(p)
    BY <1>15 DEF UseRead, Continue, Goto, world, bao, run, BaoTyped, RunTyped,
         Good, EarlyOf, Before
  <1>16. CASE UseLeaves(p)
    BY <1>16 DEF UseLeaves, Continue, Keep, Goto, world, bao, run, BaoTyped,
         RunTyped, Good, EarlyOf, Before
  <1>17. CASE Destroy(p)
    BY <1>17 DEF Destroy, Destroyed, Continue, Goto, world, bao, run, BaoTyped,
         RunTyped, Good, EarlyOf, Before
  <1>18. CASE DestroyFails(p)
    BY <1>18 DEF DestroyFails, Destroyed, Note, Goto, world, bao, run, BaoTyped,
         RunTyped, Good, EarlyOf, Before
  <1>19. CASE Revoke(p)
    BY <1>19 DEF Revoke, Continue, Goto, world, bao, run, BaoTyped, RunTyped,
         Good, EarlyOf, Before
  <1>20. CASE RevokeFails(p)
    BY <1>20 DEF RevokeFails, Note, Goto, world, bao, run, BaoTyped, RunTyped,
         Good, EarlyOf, Before
  <1>21. CASE Finish(p)
    BY <1>21 DEF Finish, Goto, world, bao, run, BaoTyped, RunTyped, Good,
         EarlyOf, Before
  <1>22. CASE Kill(p)
    BY <1>22 DEF Kill, Goto, world, bao, run, BaoTyped, RunTyped, Good, EarlyOf,
         Before
  <1> QED BY <1>1, <1>2, <1>3, <1>4, <1>5, <1>6, <1>7, <1>8, <1>9, <1>10, <1>11,
         <1>12, <1>13, <1>14, <1>15, <1>16, <1>17, <1>18, <1>19, <1>20, <1>21,
         <1>22 DEF Step

\* A run's own step: the response.
LEMMA StepIssued ==
  ASSUME BaoTyped, RunTyped, NEW p \in Runs, Step(p), Good(p)
  PROVE  IssuedOf(p)'
  <1> USE DEF NoResponse, Responses, Secrets, Interrupts
  <1>1. CASE Begin(p)
    BY <1>1 DEF Begin, Continue, Goto, world, bao, run, BaoTyped, RunTyped,
         Good, EarlyOf, IssuedOf, Before
  <1>2. CASE RoleId(p)
    BY <1>2 DEF RoleId, Continue, Fail, Goto, world, bao, run, BaoTyped,
         RunTyped, Good, EarlyOf, IssuedOf, Before
  <1>3. CASE ReadReceipt(p)
    BY <1>3 DEF ReadReceipt, Fail, Goto, world, bao, run, BaoTyped, RunTyped,
         Good, EarlyOf, IssuedOf, Before
  <1>4. CASE Validate(p)
    BY <1>4 DEF Validate, Continue, Fail, Goto, world, bao, run, BaoTyped,
         RunTyped, Good, EarlyOf, IssuedOf, Before
  <1>5. CASE ClaimCreated(p)
    BY <1>5 DEF ClaimCreated, Claimed, Continue, Fail, Goto, world, bao, run,
         BaoTyped, RunTyped, Good, EarlyOf, IssuedOf, Before
  <1>6. CASE ClaimConflict(p)
    BY <1>6 DEF ClaimConflict, Fail, Goto, world, bao, run, BaoTyped, RunTyped,
         Good, EarlyOf, IssuedOf, Before
  <1>7. CASE ClaimFails(p)
    BY <1>7 DEF ClaimFails, Fail, Goto, world, bao, run, BaoTyped, RunTyped,
         Good, EarlyOf, IssuedOf, Before
  <1>8. CASE Login(p)
    BY <1>8 DEF Login, Continue, Fail, Goto, world, bao, run, BaoTyped,
         RunTyped, Good, EarlyOf, IssuedOf, Before
  <1>9. CASE LoginFails(p)
    BY <1>9 DEF LoginFails, Fail, Goto, world, bao, run, BaoTyped, RunTyped,
         Good, EarlyOf, IssuedOf, Before
  <1>10. CASE IssueAnswered(p)
    BY <1>10 DEF IssueAnswered, Mint, Goto, world, bao, run, BaoTyped, RunTyped,
         Good, EarlyOf, IssuedOf, Before
  <1>11. ASSUME NEW f \in {"issue"} \cup Interrupts, IssueFails(p, f) PROVE IssuedOf(p)'
    BY <1>11 DEF IssueFails, Mint, Keep, Goto, world, bao, run, BaoTyped,
         RunTyped, Good, EarlyOf, IssuedOf, Before
  <1>12. CASE Confirm(p)
    BY <1>12 DEF Confirm, Confirmed, Continue, Keep, Goto, world, bao, run,
         BaoTyped, RunTyped, Good, EarlyOf, IssuedOf, Before
  <1>13. CASE UseLogin(p)
    BY <1>13 DEF UseLogin, LoggedIn, Continue, Goto, world, bao, run, BaoTyped,
         RunTyped, Good, EarlyOf, IssuedOf, Before
  <1>14. ASSUME NEW f \in {"use"} \cup Interrupts, UseLoginFails(p, f) PROVE IssuedOf(p)'
    BY <1>14 DEF UseLoginFails, LoggedIn, Keep, Goto, world, bao, run, BaoTyped,
         RunTyped, Good, EarlyOf, IssuedOf, Before
  <1>15. CASE UseRead(p)
    BY <1>15 DEF UseRead, Continue, Goto, world, bao, run, BaoTyped, RunTyped,
         Good, EarlyOf, IssuedOf, Before
  <1>16. CASE UseLeaves(p)
    BY <1>16 DEF UseLeaves, Continue, Keep, Goto, world, bao, run, BaoTyped,
         RunTyped, Good, EarlyOf, IssuedOf, Before
  <1>17. CASE Destroy(p)
    BY <1>17 DEF Destroy, Destroyed, Continue, Goto, world, bao, run, BaoTyped,
         RunTyped, Good, EarlyOf, IssuedOf, Before
  <1>18. CASE DestroyFails(p)
    BY <1>18 DEF DestroyFails, Destroyed, Note, Goto, world, bao, run, BaoTyped,
         RunTyped, Good, EarlyOf, IssuedOf, Before
  <1>19. CASE Revoke(p)
    BY <1>19 DEF Revoke, Continue, Goto, world, bao, run, BaoTyped, RunTyped,
         Good, EarlyOf, IssuedOf, Before
  <1>20. CASE RevokeFails(p)
    BY <1>20 DEF RevokeFails, Note, Goto, world, bao, run, BaoTyped, RunTyped,
         Good, EarlyOf, IssuedOf, Before
  <1>21. CASE Finish(p)
    BY <1>21 DEF Finish, Goto, world, bao, run, BaoTyped, RunTyped, Good,
         EarlyOf, IssuedOf, Before
  <1>22. CASE Kill(p)
    BY <1>22 DEF Kill, Goto, world, bao, run, BaoTyped, RunTyped, Good, EarlyOf,
         IssuedOf, Before
  <1> QED BY <1>1, <1>2, <1>3, <1>4, <1>5, <1>6, <1>7, <1>8, <1>9, <1>10, <1>11,
         <1>12, <1>13, <1>14, <1>15, <1>16, <1>17, <1>18, <1>19, <1>20, <1>21,
         <1>22 DEF Step

\* A run's own step: the cleanup.
LEMMA StepClean ==
  ASSUME BaoTyped, RunTyped, NEW p \in Runs, Step(p), Good(p)
  PROVE  CleanOf(p)'
  <1> USE DEF NoResponse, Responses, Secrets, Interrupts
  <1>1. CASE Begin(p)
    BY <1>1 DEF Begin, Continue, Goto, world, bao, run, BaoTyped, RunTyped,
         Good, EarlyOf, IssuedOf, CleanOf, Before
  <1>2. CASE RoleId(p)
    BY <1>2 DEF RoleId, Continue, Fail, Goto, world, bao, run, BaoTyped,
         RunTyped, Good, EarlyOf, IssuedOf, CleanOf, Before
  <1>3. CASE ReadReceipt(p)
    BY <1>3 DEF ReadReceipt, Fail, Goto, world, bao, run, BaoTyped, RunTyped,
         Good, EarlyOf, IssuedOf, CleanOf, Before
  <1>4. CASE Validate(p)
    BY <1>4 DEF Validate, Continue, Fail, Goto, world, bao, run, BaoTyped,
         RunTyped, Good, EarlyOf, IssuedOf, CleanOf, Before
  <1>5. CASE ClaimCreated(p)
    BY <1>5 DEF ClaimCreated, Claimed, Continue, Fail, Goto, world, bao, run,
         BaoTyped, RunTyped, Good, EarlyOf, IssuedOf, CleanOf, Before
  <1>6. CASE ClaimConflict(p)
    BY <1>6 DEF ClaimConflict, Fail, Goto, world, bao, run, BaoTyped, RunTyped,
         Good, EarlyOf, IssuedOf, CleanOf, Before
  <1>7. CASE ClaimFails(p)
    BY <1>7 DEF ClaimFails, Fail, Goto, world, bao, run, BaoTyped, RunTyped,
         Good, EarlyOf, IssuedOf, CleanOf, Before
  <1>8. CASE Login(p)
    BY <1>8 DEF Login, Continue, Fail, Goto, world, bao, run, BaoTyped,
         RunTyped, Good, EarlyOf, IssuedOf, CleanOf, Before
  <1>9. CASE LoginFails(p)
    BY <1>9 DEF LoginFails, Fail, Goto, world, bao, run, BaoTyped, RunTyped,
         Good, EarlyOf, IssuedOf, CleanOf, Before
  <1>10. CASE IssueAnswered(p)
    BY <1>10 DEF IssueAnswered, Mint, Goto, world, bao, run, BaoTyped, RunTyped,
         Good, EarlyOf, IssuedOf, CleanOf, Before
  <1>11. ASSUME NEW f \in {"issue"} \cup Interrupts, IssueFails(p, f) PROVE CleanOf(p)'
    BY <1>11 DEF IssueFails, Mint, Keep, Goto, world, bao, run, BaoTyped,
         RunTyped, Good, EarlyOf, IssuedOf, CleanOf, Before
  <1>12. CASE Confirm(p)
    BY <1>12 DEF Confirm, Confirmed, Continue, Keep, Goto, world, bao, run,
         BaoTyped, RunTyped, Good, EarlyOf, IssuedOf, CleanOf, Before
  <1>13. CASE UseLogin(p)
    BY <1>13 DEF UseLogin, LoggedIn, Continue, Goto, world, bao, run, BaoTyped,
         RunTyped, Good, EarlyOf, IssuedOf, CleanOf, Before
  <1>14. ASSUME NEW f \in {"use"} \cup Interrupts, UseLoginFails(p, f) PROVE CleanOf(p)'
    BY <1>14 DEF UseLoginFails, LoggedIn, Keep, Goto, world, bao, run, BaoTyped,
         RunTyped, Good, EarlyOf, IssuedOf, CleanOf, Before
  <1>15. CASE UseRead(p)
    BY <1>15 DEF UseRead, Continue, Goto, world, bao, run, BaoTyped, RunTyped,
         Good, EarlyOf, IssuedOf, CleanOf, Before
  <1>16. CASE UseLeaves(p)
    BY <1>16 DEF UseLeaves, Continue, Keep, Goto, world, bao, run, BaoTyped,
         RunTyped, Good, EarlyOf, IssuedOf, CleanOf, Before
  <1>17. CASE Destroy(p)
    BY <1>17 DEF Destroy, Destroyed, Continue, Goto, world, bao, run, BaoTyped,
         RunTyped, Good, EarlyOf, IssuedOf, CleanOf, Before
  <1>18. CASE DestroyFails(p)
    BY <1>18 DEF DestroyFails, Destroyed, Note, Goto, world, bao, run, BaoTyped,
         RunTyped, Good, EarlyOf, IssuedOf, CleanOf, Before
  <1>19. CASE Revoke(p)
    BY <1>19 DEF Revoke, Continue, Goto, world, bao, run, BaoTyped, RunTyped,
         Good, EarlyOf, IssuedOf, CleanOf, Before
  <1>20. CASE RevokeFails(p)
    BY <1>20 DEF RevokeFails, Note, Goto, world, bao, run, BaoTyped, RunTyped,
         Good, EarlyOf, IssuedOf, CleanOf, Before
  <1>21. CASE Finish(p)
    BY <1>21 DEF Finish, Goto, world, bao, run, BaoTyped, RunTyped, Good,
         EarlyOf, IssuedOf, CleanOf, Before
  <1>22. CASE Kill(p)
    BY <1>22 DEF Kill, Goto, world, bao, run, BaoTyped, RunTyped, Good, EarlyOf,
         IssuedOf, CleanOf, Before
  <1> QED BY <1>1, <1>2, <1>3, <1>4, <1>5, <1>6, <1>7, <1>8, <1>9, <1>10, <1>11,
         <1>12, <1>13, <1>14, <1>15, <1>16, <1>17, <1>18, <1>19, <1>20, <1>21,
         <1>22 DEF Step

\* The last message names what could not be destroyed, and promises no bound
\* that was not confirmed.
LEMMA MessageSays ==
  ASSUME NEW p \in Runs, issued[p].confirmed => secret[p].bounded,
         failure[p] = "bounded" => issued[p].confirmed
  PROVE  /\ "secret" \in problem[p] => Message(p) # "nothing"
         /\ Message(p) = "bounded" => secret[p].bounded
  BY DEF Message, Residue, Interrupts

\* A run's own step: the end.
LEMMA StepEnd ==
  ASSUME BaoTyped, RunTyped, NEW p \in Runs, Step(p), Good(p)
  PROVE  EndOf(p)'
  <1> USE DEF NoResponse, Responses, Secrets, Interrupts
  <1>1. CASE Begin(p)
    BY <1>1 DEF Begin, Continue, Goto, world, bao, run, BaoTyped, RunTyped,
         Good, EarlyOf, IssuedOf, CleanOf, EndOf, Survived, Before
  <1>2. CASE RoleId(p)
    BY <1>2 DEF RoleId, Continue, Fail, Goto, world, bao, run, BaoTyped,
         RunTyped, Good, EarlyOf, IssuedOf, CleanOf, EndOf, Survived, Before
  <1>3. CASE ReadReceipt(p)
    BY <1>3 DEF ReadReceipt, Fail, Goto, world, bao, run, BaoTyped, RunTyped,
         Good, EarlyOf, IssuedOf, CleanOf, EndOf, Survived, Before
  <1>4. CASE Validate(p)
    BY <1>4 DEF Validate, Continue, Fail, Goto, world, bao, run, BaoTyped,
         RunTyped, Good, EarlyOf, IssuedOf, CleanOf, EndOf, Survived, Before
  <1>5. CASE ClaimCreated(p)
    BY <1>5 DEF ClaimCreated, Claimed, Continue, Fail, Goto, world, bao, run,
         BaoTyped, RunTyped, Good, EarlyOf, IssuedOf, CleanOf, EndOf, Survived,
         Before
  <1>6. CASE ClaimConflict(p)
    BY <1>6 DEF ClaimConflict, Fail, Goto, world, bao, run, BaoTyped, RunTyped,
         Good, EarlyOf, IssuedOf, CleanOf, EndOf, Survived, Before
  <1>7. CASE ClaimFails(p)
    BY <1>7 DEF ClaimFails, Fail, Goto, world, bao, run, BaoTyped, RunTyped,
         Good, EarlyOf, IssuedOf, CleanOf, EndOf, Survived, Before
  <1>8. CASE Login(p)
    BY <1>8 DEF Login, Continue, Fail, Goto, world, bao, run, BaoTyped,
         RunTyped, Good, EarlyOf, IssuedOf, CleanOf, EndOf, Survived, Before
  <1>9. CASE LoginFails(p)
    BY <1>9 DEF LoginFails, Fail, Goto, world, bao, run, BaoTyped, RunTyped,
         Good, EarlyOf, IssuedOf, CleanOf, EndOf, Survived, Before
  <1>10. CASE IssueAnswered(p)
    BY <1>10 DEF IssueAnswered, Mint, Goto, world, bao, run, BaoTyped, RunTyped,
         Good, EarlyOf, IssuedOf, CleanOf, EndOf, Survived, Before
  <1>11. ASSUME NEW f \in {"issue"} \cup Interrupts, IssueFails(p, f) PROVE EndOf(p)'
    BY <1>11 DEF IssueFails, Mint, Keep, Goto, world, bao, run, BaoTyped,
         RunTyped, Good, EarlyOf, IssuedOf, CleanOf, EndOf, Survived, Before
  <1>12. CASE Confirm(p)
    BY <1>12 DEF Confirm, Confirmed, Continue, Keep, Goto, world, bao, run,
         BaoTyped, RunTyped, Good, EarlyOf, IssuedOf, CleanOf, EndOf, Survived,
         Before
  <1>13. CASE UseLogin(p)
    BY <1>13 DEF UseLogin, LoggedIn, Continue, Goto, world, bao, run, BaoTyped,
         RunTyped, Good, EarlyOf, IssuedOf, CleanOf, EndOf, Survived, Before
  <1>14. ASSUME NEW f \in {"use"} \cup Interrupts, UseLoginFails(p, f) PROVE EndOf(p)'
    BY <1>14 DEF UseLoginFails, LoggedIn, Keep, Goto, world, bao, run, BaoTyped,
         RunTyped, Good, EarlyOf, IssuedOf, CleanOf, EndOf, Survived, Before
  <1>15. CASE UseRead(p)
    BY <1>15 DEF UseRead, Continue, Goto, world, bao, run, BaoTyped, RunTyped,
         Good, EarlyOf, IssuedOf, CleanOf, EndOf, Survived, Before
  <1>16. CASE UseLeaves(p)
    BY <1>16 DEF UseLeaves, Continue, Keep, Goto, world, bao, run, BaoTyped,
         RunTyped, Good, EarlyOf, IssuedOf, CleanOf, EndOf, Survived, Before
  <1>17. CASE Destroy(p)
    BY <1>17 DEF Destroy, Destroyed, Continue, Goto, world, bao, run, BaoTyped,
         RunTyped, Good, EarlyOf, IssuedOf, CleanOf, EndOf, Survived, Before
  <1>18. CASE DestroyFails(p)
    BY <1>18 DEF DestroyFails, Destroyed, Note, Goto, world, bao, run, BaoTyped,
         RunTyped, Good, EarlyOf, IssuedOf, CleanOf, EndOf, Survived, Before
  <1>19. CASE Revoke(p)
    BY <1>19 DEF Revoke, Continue, Goto, world, bao, run, BaoTyped, RunTyped,
         Good, EarlyOf, IssuedOf, CleanOf, EndOf, Survived, Before
  <1>20. CASE RevokeFails(p)
    BY <1>20 DEF RevokeFails, Note, Goto, world, bao, run, BaoTyped, RunTyped,
         Good, EarlyOf, IssuedOf, CleanOf, EndOf, Survived, Before
  <1>21. CASE Finish(p)
    <2>1. /\ outcome' = [outcome EXCEPT ![p] = Outcome(p)]
          /\ says' = [says EXCEPT ![p] = Message(p)] /\ pc[p] = "finish"
          /\ UNCHANGED <<token, secret, reader, issued, problem>>
      BY <1>21 DEF Finish, bao
    <2>2. outcome'[p] = Outcome(p) /\ says'[p] = Message(p)
      BY <2>1 DEF RunTyped
    <2>3. Outcome(p) = "result" => failure[p] = "none" /\ problem[p] = {}
      BY DEF Outcome
    <2>4. /\ "secret" \in problem[p] => Message(p) # "nothing"
          /\ Message(p) = "bounded" => secret[p].bounded
      BY MessageSays DEF Good, IssuedOf
    <2> QED BY <2>1, <2>2, <2>3, <2>4 DEF Good, CleanOf, EndOf, Survived
  <1>22. CASE Kill(p)
    BY <1>22 DEF Kill, Goto, world, bao, run, BaoTyped, RunTyped, Good, EarlyOf,
         IssuedOf, CleanOf, EndOf, Survived, Before
  <1> QED BY <1>1, <1>2, <1>3, <1>4, <1>5, <1>6, <1>7, <1>8, <1>9, <1>10, <1>11,
         <1>12, <1>13, <1>14, <1>15, <1>16, <1>17, <1>18, <1>19, <1>20, <1>21,
         <1>22 DEF Step

\* The console, the clock and OpenBao keep the types and who is known.
Environment ==
  \/ \E p \in Runs : TokenExpires(p) \/ SecretExpires(p)
  \/ \E r \in Requests : \/ \E k \in {"genuine", "defective"} : WriteReceipt(r, k)
                         \/ ReceiptExpires(r)

\* Its steps keep every type, and OpenBao still knows only those that claimed.
LEMMA EnvironmentTyped ==
  ASSUME TypeOK, Environment
  PROVE  TypeOK'
  <1>1. WorldTyped /\ BaoTyped /\ RunTyped /\ Owned
    BY TypeParts
  <1>2. ASSUME NEW p \in Runs, TokenExpires(p) PROVE TypeOK'
    <2>1. WorldTyped' /\ RunTyped'
      BY <1>1, <1>2 DEF TokenExpires, world, run, WorldTyped, RunTyped
    <2>2. BaoTyped'
      BY <1>1, <1>2 DEF TokenExpires, BaoTyped, Tokens
    <2>3. Owned'
      BY <1>1, <1>2 DEF TokenExpires, world, run, BaoTyped, Owned
    <2> QED BY <2>1, <2>2, <2>3, TypeParts DEF TypeOK, WorldTyped, BaoTyped, RunTyped, Owned
  <1>3. ASSUME NEW p \in Runs, SecretExpires(p) PROVE TypeOK'
    <2>1. WorldTyped' /\ RunTyped'
      BY <1>1, <1>3 DEF SecretExpires, world, run, WorldTyped, RunTyped
    <2>2. BaoTyped'
      BY <1>1, <1>3 DEF SecretExpires, BaoTyped, Secrets
    <2>3. Owned'
      BY <1>1, <1>3 DEF SecretExpires, world, run, BaoTyped, Owned, Secrets
    <2> QED BY <2>1, <2>2, <2>3, TypeParts DEF TypeOK, WorldTyped, BaoTyped, RunTyped, Owned
  <1>4. ASSUME NEW r \in Requests, NEW k \in {"genuine", "defective"}, WriteReceipt(r, k)
        PROVE  TypeOK'
    <2>1. WorldTyped'
      BY <1>1, <1>4 DEF WriteReceipt, WorldTyped
    <2>2. BaoTyped' /\ RunTyped' /\ Owned'
      BY <1>1, <1>4 DEF WriteReceipt, bao, run, BaoTyped, RunTyped, Owned
    <2> QED BY <2>1, <2>2 DEF TypeOK, WorldTyped, BaoTyped, RunTyped, Owned
  <1>5. ASSUME NEW r \in Requests, ReceiptExpires(r) PROVE TypeOK'
    <2>1. WorldTyped'
      BY <1>1, <1>5 DEF ReceiptExpires, WorldTyped
    <2>2. BaoTyped' /\ RunTyped' /\ Owned'
      BY <1>1, <1>5 DEF ReceiptExpires, bao, run, BaoTyped, RunTyped, Owned
    <2> QED BY <2>1, <2>2 DEF TypeOK, WorldTyped, BaoTyped, RunTyped, Owned
  <1> QED BY <1>2, <1>3, <1>4, <1>5 DEF Environment

\* They leave a run as good as it was: a token or SecretID that expires is gone
\* like one that was destroyed, and a receipt is written once.
LEMMA EnvironmentGood ==
  ASSUME TypeOK, Environment, NEW q \in Runs, Good(q)
  PROVE  Good(q)'
  <1>1. WorldTyped /\ BaoTyped /\ RunTyped /\ Owned
    BY TypeParts
  <1>2. ASSUME NEW p \in Runs, TokenExpires(p) PROVE Good(q)'
    BY <1>1, <1>2 DEF TokenExpires, world, run, BaoTyped, Good, ClaimOf, EarlyOf,
         IssuedOf, CleanOf, EndOf, Survived
  <1>3. ASSUME NEW p \in Runs, SecretExpires(p) PROVE Good(q)'
    <2>1. secret' = [secret EXCEPT ![p] = [secret[p] EXCEPT !.state = "gone"]]
      BY <1>3 DEF SecretExpires
    <2>2. /\ secret'[q].bounded = secret[q].bounded
          /\ \/ secret'[q].state = secret[q].state
             \/ secret[q].state = "usable" /\ secret'[q].state = "gone"
      <3>1. CASE q = p
        BY <1>1, <1>3, <2>1, <3>1 DEF SecretExpires, BaoTyped, Secrets
      <3>2. CASE q # p
        BY <1>1, <2>1, <3>2 DEF BaoTyped
      <3> QED BY <3>1, <3>2
    <2> QED BY <1>3, <2>2 DEF SecretExpires, world, run, Good, ClaimOf, EarlyOf,
              IssuedOf, CleanOf, EndOf, Survived
  <1>4. ASSUME NEW r \in Requests, NEW k \in {"genuine", "defective"}, WriteReceipt(r, k)
        PROVE  Good(q)'
    <2>1. receipt[req[q]] = "genuine" => receipt'[req[q]] = "genuine"
      BY <1>1, <1>4 DEF WriteReceipt, WorldTyped, RunTyped
    <2> QED BY <1>4, <2>1 DEF WriteReceipt, bao, run, Good, ClaimOf, EarlyOf,
              IssuedOf, CleanOf, EndOf, Survived
  <1>5. ASSUME NEW r \in Requests, ReceiptExpires(r) PROVE Good(q)'
    BY <1>5 DEF ReceiptExpires, bao, run, Good, ClaimOf, EarlyOf, IssuedOf,
         CleanOf, EndOf, Survived
  <1> QED BY <1>2, <1>3, <1>4, <1>5 DEF Environment
-----------------------------------------------------------------------------
\* Before any run has begun, the invariant holds.
LEMMA InvInit == Init => IInv
  <1> SUFFICES ASSUME Init PROVE IInv OBVIOUS
  <1>1. TypeOK
    BY DEF Init, TypeOK, NoSecret, NoResponse, Secrets, Responses, Failures,
         Interrupts, Locations, Tokens
  <1>2. ASSUME NEW p \in Runs PROVE Good(p)
    BY DEF Init, NoSecret, NoResponse, Good, ClaimOf, EarlyOf, IssuedOf, CleanOf,
         EndOf, Survived, Held, Before
  <1> QED BY <1>1, <1>2 DEF IInv

\* Every step keeps it: of the run itself, of another one, of the environment.
LEMMA InvStep == IInv /\ [Next]_vars => IInv'
  <1> SUFFICES ASSUME IInv, [Next]_vars PROVE IInv' OBVIOUS
  <1>1. TypeOK /\ \A q \in Runs : Good(q)
    BY DEF IInv
  <1>2. WorldTyped /\ BaoTyped /\ RunTyped /\ Owned
    BY <1>1, TypeParts
  <1>3. ASSUME NEW p \in Runs, Step(p) PROVE IInv'
    <2>1. WorldTyped'
      BY <1>2, <1>3, StepWorld DEF WorldTyped, RunTyped
    <2>2. BaoTyped' /\ RunTyped' /\ Owned'
      BY <1>1, <1>2, <1>3, StepBaoTyped, StepRunTyped, StepOwned
    <2>3. TypeOK'
      BY <2>1, <2>2 DEF TypeOK, WorldTyped, BaoTyped, RunTyped, Owned
    <2>4. Good(p)'
      BY <1>1, <1>2, <1>3, StepClaim, StepEarly, StepIssued, StepClean, StepEnd DEF Good
    <2>5. ASSUME NEW q \in Runs PROVE Good(q)'
      BY <1>1, <1>3, <2>4, StepGoodOthers
    <2> QED BY <2>3, <2>5 DEF IInv
  <1>4. CASE Environment
    BY <1>1, <1>4, EnvironmentTyped, EnvironmentGood DEF IInv
  <1>5. CASE UNCHANGED vars
    BY <1>1, <1>5 DEF IInv, vars, world, bao, run, TypeOK, Good, ClaimOf, EarlyOf,
         IssuedOf, CleanOf, EndOf, Survived
  <1> QED BY <1>3, <1>4, <1>5 DEF Next, Environment

\* Hence it holds throughout.
LEMMA Invariant == Spec => []IInv
  BY InvInit, InvStep, PTL DEF Spec
-----------------------------------------------------------------------------
\* Types, and that OpenBao knows no run but the one that claimed its request.
THEOREM TypeCorrect == Spec => []TypeOK
  <1>1. IInv => TypeOK BY DEF IInv
  <1> QED BY <1>1, Invariant, PTL

\* A run that prints a token has left nothing behind.
THEOREM ResultsAreClean == Spec => []ResultMeansClean
  <1>1. IInv => ResultMeansClean BY DEF IInv, Good, EndOf, ResultMeansClean
  <1> QED BY <1>1, Invariant, PTL

\* A SecretID is used under the run's own claim of a genuine receipt and within
\* one use and one hour.
THEOREM UseIsBounded == Spec => []UsedWithinBounds
  <1>1. IInv => UsedWithinBounds
    BY DEF IInv, TypeOK, Good, ClaimOf, IssuedOf, UsedWithinBounds
  <1> QED BY <1>1, Invariant, PTL

\* A known accessor is destroyed, or the run says that it is not.
THEOREM AccessorsAreDestroyed == Spec => []AccessorDestroyed
  <1>1. IInv => AccessorDestroyed BY DEF IInv, Good, EndOf, AccessorDestroyed
  <1> QED BY <1>1, Invariant, PTL

\* No message promises a bound that the SecretID does not have.
THEOREM BoundsAreHonest == Spec => []BoundIsHonest
  <1>1. IInv => BoundIsHonest BY DEF IInv, Good, EndOf, BoundIsHonest
  <1> QED BY <1>1, Invariant, PTL

-----------------------------------------------------------------------------
(* Which error is silent about a usable SecretID. *)

Silence(p) ==
  Survived(p) /\ outcome[p] = "error" /\ secret[p].state = "usable" =>
    says[p] # "nothing" \/ (~issued[p].accessor /\ problem[p] = {"token"})

\* A run that cleans up without an accessor has only its token to revoke, and
\* keeps the failure of the issue call, or an interrupt, until the end.
ResidueOf(p) ==
  /\ pc[p] \in Before => problem[p] = {}
  /\ pc[p] \in {"revoke", "finish"} /\ ~issued[p].accessor =>
       failure[p] \in {"issue"} \cup Interrupts /\ "secret" \notin problem[p]
  /\ Silence(p)

\* A run's own step.
LEMMA StepResidue ==
  ASSUME BaoTyped, RunTyped, NEW p \in Runs, Step(p), Good(p), EndOf(p)', ResidueOf(p)
  PROVE  ResidueOf(p)'
  <1> USE DEF NoResponse, Responses, Secrets, Interrupts
  <1>1. CASE Begin(p)
    BY <1>1 DEF Begin, Continue, Goto, world, bao, run, BaoTyped, RunTyped,
         ResidueOf, Silence, Survived, Before, Good, EarlyOf, IssuedOf
  <1>2. CASE RoleId(p)
    BY <1>2 DEF RoleId, Continue, Fail, Goto, world, bao, run, BaoTyped,
         RunTyped, ResidueOf, Silence, Survived, Before, Good, EarlyOf,
         IssuedOf
  <1>3. CASE ReadReceipt(p)
    BY <1>3 DEF ReadReceipt, Fail, Goto, world, bao, run, BaoTyped,
         RunTyped, ResidueOf, Silence, Survived, Before, Good, EarlyOf,
         IssuedOf
  <1>4. CASE Validate(p)
    BY <1>4 DEF Validate, Continue, Fail, Goto, world, bao, run, BaoTyped,
         RunTyped, ResidueOf, Silence, Survived, Before, Good, EarlyOf,
         IssuedOf
  <1>5. CASE ClaimCreated(p)
    BY <1>5 DEF ClaimCreated, Claimed, Continue, Fail, Goto, world, bao,
         run, BaoTyped, RunTyped, ResidueOf, Silence, Survived, Before,
         Good, EarlyOf, IssuedOf
  <1>6. CASE ClaimConflict(p)
    BY <1>6 DEF ClaimConflict, Fail, Goto, world, bao, run, BaoTyped,
         RunTyped, ResidueOf, Silence, Survived, Before, Good, EarlyOf,
         IssuedOf
  <1>7. CASE ClaimFails(p)
    BY <1>7 DEF ClaimFails, Fail, Goto, world, bao, run, BaoTyped, RunTyped,
         ResidueOf, Silence, Survived, Before, Good, EarlyOf, IssuedOf
  <1>8. CASE Login(p)
    BY <1>8 DEF Login, Continue, Fail, Goto, world, bao, run, BaoTyped,
         RunTyped, ResidueOf, Silence, Survived, Before, Good, EarlyOf,
         IssuedOf
  <1>9. CASE LoginFails(p)
    BY <1>9 DEF LoginFails, Fail, Goto, world, bao, run, BaoTyped, RunTyped,
         ResidueOf, Silence, Survived, Before, Good, EarlyOf, IssuedOf
  <1>10. CASE IssueAnswered(p)
    BY <1>10 DEF IssueAnswered, Mint, Goto, world, bao, run, BaoTyped,
         RunTyped, ResidueOf, Silence, Survived, Before, Good, EarlyOf,
         IssuedOf
  <1>11. ASSUME NEW f \in {"issue"} \cup Interrupts, IssueFails(p, f) PROVE ResidueOf(p)'
    BY <1>11 DEF IssueFails, Mint, Keep, Goto, world, bao, run, BaoTyped,
         RunTyped, ResidueOf, Silence, Survived, Before, Good, EarlyOf,
         IssuedOf
  <1>12. CASE Confirm(p)
    BY <1>12 DEF Confirm, Confirmed, Continue, Keep, Goto, world, bao, run,
         BaoTyped, RunTyped, ResidueOf, Silence, Survived, Before, Good,
         EarlyOf, IssuedOf
  <1>13. CASE UseLogin(p)
    BY <1>13 DEF UseLogin, LoggedIn, Continue, Goto, world, bao, run,
         BaoTyped, RunTyped, ResidueOf, Silence, Survived, Before, Good,
         EarlyOf, IssuedOf
  <1>14. ASSUME NEW f \in {"use"} \cup Interrupts, UseLoginFails(p, f) PROVE ResidueOf(p)'
    BY <1>14 DEF UseLoginFails, LoggedIn, Keep, Goto, world, bao, run,
         BaoTyped, RunTyped, ResidueOf, Silence, Survived, Before, Good,
         EarlyOf, IssuedOf
  <1>15. CASE UseRead(p)
    BY <1>15 DEF UseRead, Continue, Goto, world, bao, run, BaoTyped,
         RunTyped, ResidueOf, Silence, Survived, Before, Good, EarlyOf,
         IssuedOf
  <1>16. CASE UseLeaves(p)
    BY <1>16 DEF UseLeaves, Continue, Keep, Goto, world, bao, run, BaoTyped,
         RunTyped, ResidueOf, Silence, Survived, Before, Good, EarlyOf,
         IssuedOf
  <1>17. CASE Destroy(p)
    BY <1>17 DEF Destroy, Destroyed, Continue, Goto, world, bao, run,
         BaoTyped, RunTyped, ResidueOf, Silence, Survived, Before, Good,
         EarlyOf, IssuedOf
  <1>18. CASE DestroyFails(p)
    BY <1>18 DEF DestroyFails, Destroyed, Note, Goto, world, bao, run,
         BaoTyped, RunTyped, ResidueOf, Silence, Survived, Before, Good,
         EarlyOf, IssuedOf
  <1>19. CASE Revoke(p)
    BY <1>19 DEF Revoke, Continue, Goto, world, bao, run, BaoTyped,
         RunTyped, ResidueOf, Silence, Survived, Before, Good, EarlyOf,
         IssuedOf
  <1>20. CASE RevokeFails(p)
    BY <1>20 DEF RevokeFails, Note, Goto, world, bao, run, BaoTyped,
         RunTyped, ResidueOf, Silence, Survived, Before, Good, EarlyOf,
         IssuedOf
  <1>21. CASE Finish(p)
    <2>1. /\ outcome' = [outcome EXCEPT ![p] = Outcome(p)]
          /\ says' = [says EXCEPT ![p] = Message(p)]
          /\ pc[p] = "finish" /\ pc' = [pc EXCEPT ![p] = "ended"]
          /\ UNCHANGED <<token, secret, reader, issued, failure, problem>>
      BY <1>21 DEF Finish, Goto, bao
    <2>2. outcome'[p] = Outcome(p) /\ says'[p] = Message(p) /\ pc'[p] = "ended"
      BY <2>1 DEF RunTyped
    <2>3. Outcome(p) = "error" => failure[p] \notin Interrupts
      BY DEF Outcome
    <2>4. CASE issued[p].accessor
      BY <2>1, <2>2, <2>4 DEF EndOf, ResidueOf, Silence, Survived, Before
    <2>5. CASE ~issued[p].accessor
      <3>1. Outcome(p) = "error" => failure[p] = "issue" /\ "secret" \notin problem[p]
        BY <2>1, <2>3, <2>5 DEF ResidueOf
      <3>2. problem[p] \subseteq {"secret", "token"}
        BY DEF RunTyped
      <3>3. Outcome(p) = "error" => problem[p] = {} \/ problem[p] = {"token"}
        BY <3>1, <3>2
      <3>4. Outcome(p) = "error" => Message(p) # "nothing" \/ problem[p] = {"token"}
        BY <2>3, <3>1, <3>3 DEF Message
      <3> QED BY <2>1, <2>2, <2>5, <3>4 DEF ResidueOf, Silence, Survived, Before
    <2> QED BY <2>4, <2>5
  <1>22. CASE Kill(p)
    BY <1>22 DEF Kill, Goto, world, bao, run, BaoTyped, RunTyped, ResidueOf,
         Silence, Survived, Before, Good, EarlyOf, IssuedOf
  <1> QED BY <1>1, <1>2, <1>3, <1>4, <1>5, <1>6, <1>7, <1>8, <1>9, <1>10, <1>11,
         <1>12, <1>13, <1>14, <1>15, <1>16, <1>17, <1>18, <1>19, <1>20, <1>21,
         <1>22 DEF Step

\* An expiry can only take the SecretID away.
LEMMA EnvironmentResidue ==
  ASSUME TypeOK, Environment, NEW q \in Runs, ResidueOf(q)
  PROVE  ResidueOf(q)'
  <1>1. BaoTyped
    BY TypeParts
  <1>2. ASSUME NEW p \in Runs, TokenExpires(p) PROVE ResidueOf(q)'
    BY <1>2 DEF TokenExpires, world, run, ResidueOf, Silence, Survived
  <1>3. ASSUME NEW p \in Runs, SecretExpires(p) PROVE ResidueOf(q)'
    <2>1. secret'[q].state = "usable" => secret[q].state = "usable"
      BY <1>1, <1>3 DEF SecretExpires, BaoTyped, Secrets
    <2> QED BY <1>3, <2>1 DEF SecretExpires, world, run, ResidueOf, Silence, Survived
  <1>4. ASSUME NEW r \in Requests,
               ReceiptExpires(r) \/ \E k \in {"genuine", "defective"} : WriteReceipt(r, k)
        PROVE  ResidueOf(q)'
    BY <1>4 DEF WriteReceipt, ReceiptExpires, bao, run, ResidueOf, Silence, Survived
  <1> QED BY <1>2, <1>3, <1>4 DEF Environment

\* Every step keeps it.
LEMMA NextResidue ==
  IInv /\ IInv' /\ (\A p \in Runs : ResidueOf(p)) /\ [Next]_vars
    => (\A p \in Runs : ResidueOf(p))'
  <1> SUFFICES ASSUME IInv, IInv', \A p \in Runs : ResidueOf(p), [Next]_vars,
                      NEW q \in Runs
               PROVE  ResidueOf(q)'
    OBVIOUS
  <1>1. BaoTyped /\ RunTyped /\ Good(q) /\ EndOf(q)' /\ TypeOK
    BY TypeParts DEF IInv, Good
  <1>2. ASSUME NEW p \in Runs, Step(p) PROVE ResidueOf(q)'
    <2>1. CASE q = p
      BY <1>1, <1>2, <2>1, StepResidue
    <2>2. CASE q # p
      BY <1>1, <1>2, <2>2, StepOthers DEF Untouched, ResidueOf, Silence, Survived
    <2> QED BY <2>1, <2>2
  <1>3. CASE Environment
    BY <1>1, <1>3, EnvironmentResidue
  <1>4. CASE UNCHANGED vars
    BY <1>4 DEF vars, bao, run, ResidueOf, Silence, Survived
  <1> QED BY <1>2, <1>3, <1>4 DEF Next, Environment

\* The only error that is silent about a usable SecretID follows a create
\* response that was lost and a revocation that failed.
THEOREM SilenceIsExplained == Spec => []SilentOnlyIfRevokeFails
  <1>1. Init => \A p \in Runs : ResidueOf(p)
    BY DEF Init, NoSecret, ResidueOf, Silence, Survived
  <1>2. (\A p \in Runs : ResidueOf(p)) => SilentOnlyIfRevokeFails
    BY DEF ResidueOf, Silence, SilentOnlyIfRevokeFails
  <1> QED BY <1>1, <1>2, NextResidue, Invariant, PTL DEF Spec

-----------------------------------------------------------------------------
(* The runs implement the one-time request. *)

\* The state of the one-time request that the runs make, and its steps.
Taken == {r \in Requests : claim[r] # NoRun}
StillUsable == {r \in Requests : \E p \in Runs : req[p] = r /\ secret[p].state = "usable"}
OneTimeStep == [OneTime!Next]_<<Taken, Minted, StillUsable>>

\* One request has one SecretID: OpenBao knows the run that claimed it.
LEMMA SoleSecret ==
  ASSUME Owned, NEW p \in Runs, NEW q \in Runs, req[p] = req[q],
         secret[p].state # "none", secret[q].state # "none"
  PROVE  p = q
  BY DEF Owned

\* A step that leaves Leases, requests and SecretIDs alone is a stutter.
LEMMA KeptStutters ==
  ASSUME claim' = claim, req' = req, secret' = secret
  PROVE  OneTimeStep
  BY DEF OneTimeStep, Taken, Minted, StillUsable

\* The creation of the Lease takes the request.
LEMMA ClaimTakes ==
  ASSUME WorldTyped, RunTyped, NEW p \in Runs, claim[req[p]] = NoRun,
         claim' = [claim EXCEPT ![req[p]] = p], req' = req, secret' = secret
  PROVE  OneTimeStep
  <1>1. req[p] \in Requests /\ req[p] \notin Taken
    BY DEF RunTyped, Taken
  <1>2. Taken' = Taken \cup {req[p]}
    BY NoRunAssumption DEF WorldTyped, RunTyped, Taken
  <1>3. Minted' = Minted /\ StillUsable' = StillUsable
    BY DEF Minted, StillUsable
  <1>4. PICK r \in Requests : r = req[p]
    BY <1>1
  <1>5. OneTime!Take(r)
    BY <1>1, <1>2, <1>3, <1>4 DEF OneTime!Take, Taken, StillUsable
  <1>6. OneTime!Next
    BY <1>5 DEF OneTime!Next
  <1> QED BY <1>6 DEF OneTimeStep

\* The SecretID of the run that holds the claim is the request's first.
LEMMA MintMints ==
  ASSUME WorldTyped, RunTyped, BaoTyped, Owned, NEW p \in Runs, NEW b \in BOOLEAN,
         secret[p].state = "none", claim[req[p]] = p, claim' = claim, req' = req,
         secret' = [secret EXCEPT ![p] = [state |-> "usable", bounded |-> b]]
  PROVE  OneTimeStep
  <1>1. req[p] \in Requests /\ req[p] \in Taken
    BY NoRunAssumption DEF RunTyped, Taken
  <1>2. ASSUME NEW q \in Runs, req[q] = req[p] PROVE secret[q].state = "none"
    BY <1>2 DEF Owned
  <1>3. req[p] \notin Minted
    BY <1>2 DEF Minted
  <1>4. /\ secret'[p].state = "usable"
        /\ \A q \in Runs : q # p => secret'[q] = secret[q]
    BY DEF BaoTyped
  <1>5. Taken' = Taken
    BY DEF Taken
  <1>6. Minted' = Minted \cup {req[p]}
    BY <1>1, <1>4 DEF Minted
  <1>7. StillUsable' = StillUsable \cup {req[p]}
    BY <1>1, <1>4 DEF StillUsable
  <1>8. PICK r \in Requests : r = req[p]
    BY <1>1
  <1>9. OneTime!Mint(r)
    BY <1>1, <1>3, <1>5, <1>6, <1>7, <1>8 DEF OneTime!Mint, Taken, StillUsable
  <1>10. OneTime!Next
    BY <1>9 DEF OneTime!Next
  <1> QED BY <1>10 DEF OneTimeStep

\* A SecretID that is used up, destroyed or expired leaves its request none.
LEMMA GoneRetires ==
  ASSUME RunTyped, BaoTyped, Owned, NEW p \in Runs, secret[p].state # "none",
         claim' = claim, req' = req,
         secret' = [secret EXCEPT ![p].state = "gone"]
  PROVE  OneTimeStep
  <1>1. /\ secret'[p].state = "gone"
        /\ \A q \in Runs : q # p => secret'[q] = secret[q]
    BY DEF BaoTyped, Secrets
  <1>2. Taken' = Taken /\ Minted' = Minted
    BY <1>1 DEF Taken, Minted
  <1>3. CASE secret[p].state = "usable"
    <2>1. req[p] \in Requests /\ req[p] \in StillUsable
      BY <1>3 DEF RunTyped, StillUsable
    <2>2. ASSUME NEW q \in Runs, req[q] = req[p], secret'[q].state = "usable"
          PROVE  FALSE
      BY <1>1, <2>2, SoleSecret
    <2>3. StillUsable' = StillUsable \ {req[p]}
      BY <1>1, <1>3, <2>2 DEF StillUsable
    <2>4. PICK r \in Requests : r = req[p]
      BY <2>1
    <2>5. OneTime!Retire(r)
      BY <1>2, <2>1, <2>3, <2>4 DEF OneTime!Retire, Taken, StillUsable
    <2>6. OneTime!Next
      BY <2>5 DEF OneTime!Next
    <2> QED BY <2>6 DEF OneTimeStep
  <1>4. CASE secret[p].state # "usable"
    <2>1. StillUsable' = StillUsable
      BY <1>1, <1>4 DEF StillUsable
    <2> QED BY <1>2, <2>1 DEF OneTimeStep
  <1> QED BY <1>3, <1>4

\* Every step of a run is one of the request's, or a stutter.
LEMMA StepOneTime ==
  ASSUME WorldTyped, BaoTyped, RunTyped, Owned, NEW p \in Runs, Step(p), Good(p)
  PROVE  OneTimeStep
  <1>1. CASE Begin(p)
    BY <1>1, KeptStutters DEF Begin, Continue, Goto, world, bao, run
  <1>2. CASE RoleId(p)
    BY <1>2, KeptStutters DEF RoleId, Continue, Fail, Goto, world, bao, run
  <1>3. CASE ReadReceipt(p)
    BY <1>3, KeptStutters DEF ReadReceipt, Fail, Goto, world, bao, run
  <1>4. CASE Validate(p)
    BY <1>4, KeptStutters DEF Validate, Continue, Fail, Goto, world, bao, run
  <1>5. CASE ClaimCreated(p)
    BY <1>5, ClaimTakes DEF ClaimCreated, Claimed, Continue, Fail, bao
  <1>6. CASE ClaimConflict(p)
    BY <1>6, KeptStutters DEF ClaimConflict, Fail, Goto, world, bao, run
  <1>7. CASE ClaimFails(p)
    BY <1>7, KeptStutters DEF ClaimFails, Fail, Goto, world, bao, run
  <1>8. CASE Login(p)
    BY <1>8, KeptStutters DEF Login, Continue, Fail, Goto, world, bao, run
  <1>9. CASE LoginFails(p)
    BY <1>9, KeptStutters DEF LoginFails, Fail, Goto, world, bao, run
  <1>10. CASE IssueAnswered(p)
    <2>2. secret[p].state = "none" /\ claim[req[p]] = p
      BY <1>10 DEF IssueAnswered, Good, ClaimOf, EarlyOf, Before, Held
    <2>3. claim' = claim /\ req' = req
      BY <1>10 DEF IssueAnswered, world
    <2> QED BY <1>10, <2>2, <2>3, MintMints DEF IssueAnswered, Mint
  <1>11. ASSUME NEW f \in {"issue"} \cup Interrupts, IssueFails(p, f) PROVE OneTimeStep
    <2>2. secret[p].state = "none" /\ claim[req[p]] = p
      BY <1>11 DEF IssueFails, Good, ClaimOf, EarlyOf, Before, Held
    <2>3. claim' = claim /\ req' = req
      BY <1>11 DEF IssueFails, Keep, world
    <2>4. CASE \E b \in BOOLEAN : Mint(p, b)
      BY <2>2, <2>3, <2>4, MintMints DEF Mint
    <2>5. CASE UNCHANGED bao
      BY <2>3, <2>5, KeptStutters DEF bao
    <2> QED BY <1>11, <2>4, <2>5 DEF IssueFails
  <1>12. CASE Confirm(p)
    BY <1>12, KeptStutters DEF Confirm, Continue, Keep, Goto, world, bao, run
  <1>13. CASE UseLogin(p)
    <2>1. claim' = claim /\ req' = req
      BY <1>13 DEF UseLogin, Continue, world
    <2>2. CASE LoggedIn(p) /\ secret[p].bounded
      BY <1>13, <2>1, <2>2, GoneRetires DEF LoggedIn
    <2>3. CASE secret' = secret
      BY <2>1, <2>3, KeptStutters
    <2> QED BY <1>13, <2>2, <2>3 DEF UseLogin, LoggedIn, bao
  <1>14. ASSUME NEW f \in {"use"} \cup Interrupts, UseLoginFails(p, f) PROVE OneTimeStep
    <2>1. claim' = claim /\ req' = req
      BY <1>14 DEF UseLoginFails, Keep, world
    <2>2. CASE LoggedIn(p) /\ secret[p].bounded
      BY <1>14, <2>1, <2>2, GoneRetires DEF LoggedIn
    <2>3. CASE secret' = secret
      BY <2>1, <2>3, KeptStutters
    <2> QED BY <1>14, <2>2, <2>3 DEF UseLoginFails, LoggedIn, bao
  <1>15. CASE UseRead(p)
    BY <1>15, KeptStutters DEF UseRead, Continue, Goto, world, bao, run
  <1>16. CASE UseLeaves(p)
    BY <1>16, KeptStutters DEF UseLeaves, Continue, Keep, Goto, world, bao, run
  <1>17. CASE Destroy(p)
    <2>1. claim' = claim /\ req' = req
      BY <1>17 DEF Destroy, Continue, world
    <2>2. CASE Destroyed(p)
      BY <1>17, <2>1, <2>2, GoneRetires DEF Destroy, Destroyed, Good, IssuedOf
    <2>3. CASE secret' = secret
      BY <2>1, <2>3, KeptStutters
    <2> QED BY <1>17, <2>2, <2>3 DEF Destroy, Destroyed
  <1>18. CASE DestroyFails(p)
    <2>1. claim' = claim /\ req' = req
      BY <1>18 DEF DestroyFails, Note, world
    <2>2. CASE Destroyed(p)
      BY <1>18, <2>1, <2>2, GoneRetires DEF DestroyFails, Destroyed, Good, IssuedOf
    <2>3. CASE secret' = secret
      BY <2>1, <2>3, KeptStutters
    <2> QED BY <1>18, <2>2, <2>3 DEF DestroyFails, Destroyed
  <1>19. CASE Revoke(p)
    BY <1>19, KeptStutters DEF Revoke, Continue, Goto, world, bao, run
  <1>20. CASE RevokeFails(p)
    BY <1>20, KeptStutters DEF RevokeFails, Note, Goto, world, bao, run
  <1>21. CASE Finish(p)
    BY <1>21, KeptStutters DEF Finish, Goto, world, bao, run
  <1>22. CASE Kill(p)
    BY <1>22, KeptStutters DEF Kill, Goto, world, bao, run
  <1> QED BY <1>1, <1>2, <1>3, <1>4, <1>5, <1>6, <1>7, <1>8, <1>9, <1>10, <1>11,
         <1>12, <1>13, <1>14, <1>15, <1>16, <1>17, <1>18, <1>19, <1>20, <1>21,
         <1>22 DEF Step

\* So is every step of the specification.
LEMMA NextOneTime == IInv /\ [Next]_vars => OneTimeStep
  <1> SUFFICES ASSUME IInv, [Next]_vars PROVE OneTimeStep OBVIOUS
  <1>1. WorldTyped /\ BaoTyped /\ RunTyped /\ Owned /\ \A p \in Runs : Good(p)
    BY TypeParts DEF IInv
  <1>2. ASSUME NEW p \in Runs, Step(p) PROVE OneTimeStep
    BY <1>1, <1>2, StepOneTime
  <1>3. ASSUME NEW p \in Runs, SecretExpires(p) PROVE OneTimeStep
    BY <1>1, <1>3, GoneRetires DEF SecretExpires, world, run
  <1>4. ASSUME NEW p \in Runs, TokenExpires(p) PROVE OneTimeStep
    BY <1>4, KeptStutters DEF TokenExpires, world, run
  <1>5. ASSUME NEW r \in Requests,
               ReceiptExpires(r) \/ \E k \in {"genuine", "defective"} : WriteReceipt(r, k)
        PROVE  OneTimeStep
    BY <1>5, KeptStutters DEF WriteReceipt, ReceiptExpires, bao, run
  <1>6. CASE UNCHANGED vars
    BY <1>6, KeptStutters DEF vars, world, bao, run
  <1> QED BY <1>2, <1>3, <1>4, <1>5, <1>6 DEF Next

\* Before any run has begun, no request is taken.
LEMMA InitOneTime == Init => OneTime!Init
  BY DEF Init, OneTime!Init, Minted, NoSecret

\* A request is good for one SecretID, whichever runs share it, crash, lose a
\* response or are started again.
THEOREM RequestsAreOneTime == Spec => ImplementsOneTimeRequest
  <1>1. OneTimeStep => [OneTime!Next]_<<{r \in Requests : claim[r] # NoRun}, Minted,
          {r \in Requests : \E p \in Runs : req[p] = r /\ secret[p].state = "usable"}>>
    BY DEF OneTimeStep, Taken, StillUsable
  <1>2. IInv /\ [Next]_vars => [OneTime!Next]_<<{r \in Requests : claim[r] # NoRun}, Minted,
          {r \in Requests : \E p \in Runs : req[p] = r /\ secret[p].state = "usable"}>>
    BY <1>1, NextOneTime
  <1> QED BY <1>2, InitOneTime, Invariant, PTL DEF Spec, ImplementsOneTimeRequest, OneTime!Spec

=============================================================================
