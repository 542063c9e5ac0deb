----------------------- MODULE OpenBaoBootstrapProofs -----------------------
(***************************************************************************)
(* The bootstrap of OpenBaoBootstrap.tla for any number of runs: what the  *)
(* break-glass file and custody hold of a storage, wherever runs stop.     *)
(***************************************************************************)
EXTENDS OpenBaoBootstrap, TLAPS

\* A run that has initialised the storage, in the tasks after that.
Initialising == fresh /\ pc \in Bootstrap \ {"init"}
FreshOnly == {"init", "artifact", "check", "share", "eso", "ops", "policy", "approle", "revoke"}
Rerun == ~fresh /\ pc \in {"unseal", "login", "save", "verify"}
Rotating == pc \in EsoPush \cup EsoRotation \cup (OpsRotation \ {"revokeTemp"})

\* Names are given once: nothing is older than it is.
NameInv ==
  /\ keys <= run /\ file.keys <= run /\ mem.keys <= run /\ \A i \in temps : i <= run
  /\ pc # "idle" => run # 0 /\ (Initialising \/ keys < run \/ pc = "tail")
  /\ pc \in {"init", "artifact"} => file.keys < run
  /\ pc # "idle" /\ run \in temps => pc \in {"setOps", "persistOps", "revokeTemp"}
  /\ pc = "tail" /\ root = "live" => keys # run

\* Only the keys in the file unseal, and only a run itself changes the file it
\* has read.
FileInv ==
  /\ ~sealed => file.keys = keys
  /\ Rotating => mem = file
  /\ Rerun => \/ pc = "unseal" /\ mem.keys = 0
              \/ /\ mem.keys = file.keys /\ mem.eso = file.eso
                 /\ \A u \in Reconcilers : mem.users[u] = file.users[u]
                 /\ pc # "unseal" => mem.keys = keys

\* What the run that initialises has done so far.
FreshInv ==
  /\ pc \in FreshOnly => fresh /\ \A u \in Users : mem.users[u] # 0
  /\ pc = "login" => ~fresh
  /\ pc \in {"init", "artifact", "check"} => number = 1
  /\ Initialising =>
       /\ keys = run /\ mem.keys = run /\ root = "live"
       /\ \A u \in Users : mem.users[u] # 0 /\ users[u] \in {0, mem.users[u]}
       /\ pc = "artifact" => users = NoUsers
       /\ pc # "artifact" => file.keys = run /\ \A u \in Users : file.users[u] = mem.users[u]
       /\ pc = "share" => \A s \in Shares : s < number => custody[s] = run
       /\ pc \notin {"artifact", "check", "share"} => \A s \in Shares : custody[s] = run
       /\ pc \in {"ops", "policy", "approle", "save", "verify", "revoke"} => mem.eso \in issued
       /\ pc \in {"approle", "save", "verify", "revoke"} => users["policy"] # 0
       /\ pc \in {"save", "verify", "revoke"} => users["approle"] # 0
       /\ pc \in {"verify", "revoke"} => file.eso \in issued

\* The SecretID in the file is of this storage once the root token is gone.
EsoInv ==
  /\ root = "revoked" => file.eso \in issued
  /\ pc \in {"push", "persistId"} => run \in issued

\* The reconcilers' half of AccountsReachable.
ReconcilersReachable == \A u \in Reconcilers : users[u] # 0 => file.users[u] = users[u]

\* The operator's half, and what it rests on: the file that has the keys has a
\* password of the operator, and only a run of 120, between its two writes, has
\* another one than the storage.
OpsReachable ==
  users["ops"] # 0 =>
    \/ file.users["ops"] = users["ops"]
    \/ users["ops"] \in Unfinished /\ file.keys = keys /\ file.users["ops"] # 0
OpsInv ==
  /\ file.keys # 0 => file.users["ops"] # 0
  /\ users["ops"] # 0 => file.keys = keys
  /\ Rerun => (pc = "unseal" /\ mem.keys = 0) \/ mem.users["ops"] = file.users["ops"]
  /\ pc = "persistOps" => users["ops"] = run
  /\ pc \in EsoRotation \cup {"revokeTemp"} => users["ops"] = file.users["ops"]
  /\ pc \in {"pushFile", "tail"} => users["ops"] \in {0, file.users["ops"]} \cup broken
  /\ OpsReachable

IInv == /\ TypeOK /\ NameInv /\ FileInv /\ FreshInv /\ EsoInv
        /\ ReconcilersReachable /\ OpsInv
        /\ RevokedMeansRecoverable /\ RootsAreOfBrokenRuns
-----------------------------------------------------------------------------
\* What is of the files' type.
LEMMA FileTypes ==
  /\ NoFile \in Files /\ NoUsers \in [Users -> 0 .. MaxRuns] /\ MaxRuns \in Nat
  /\ \A f \in Files : /\ f.keys \in 0 .. MaxRuns /\ f.eso \in 0 .. MaxRuns
                       /\ f.users \in [Users -> 0 .. MaxRuns]
  /\ \A f \in Files, i \in 0 .. MaxRuns, g \in [Users -> 0 .. MaxRuns] :
       /\ [f EXCEPT !.keys = i] \in Files /\ [f EXCEPT !.eso = i] \in Files
       /\ [f EXCEPT !.users = g] \in Files
       /\ [f EXCEPT !.users["ops"] = i] \in Files
  BY RunsAssumption DEF Files, NoFile, NoUsers, Users

\* What the run has after it has read the file.
LEMMA LoadFacts ==
  ASSUME TypeOK, Load
  PROVE  /\ pc = "idle" /\ pc' = IF fresh' THEN "init" ELSE "unseal"
         /\ run' = run + 1 /\ run' # 0 /\ (~fresh' => keys # 0)
         /\ \E found \in {file, NoFile} : mem'.keys = found.keys /\ mem'.eso = found.eso
              /\ \A u \in Users : mem'.users[u] = IF Makes(found, u, fresh') THEN run + 1
                                                  ELSE found.users[u]
<1>1. PICK found \in {file, NoFile}, new \in {TRUE, keys = 0} :
        /\ fresh' = new /\ mem' = Facts(found, new) /\ Begin(IF new THEN "init" ELSE "unseal")
      BY DEF Load
<1>2. found \in Files BY FileTypes DEF TypeOK
<1>3. mem'.keys = found.keys /\ mem'.eso = found.eso
      /\ mem'.users = [u \in Users |-> IF Makes(found, u, new) THEN run + 1 ELSE found.users[u]]
      BY <1>1, <1>2 DEF Facts, Files
<1>4. pc = "idle" /\ run' = run + 1 /\ run' # 0
      BY <1>1, FileTypes DEF Begin, Go, TypeOK
<1>5. pc' = IF fresh' THEN "init" ELSE "unseal"
      BY <1>1 DEF Begin, Go
<1>6. ~fresh' => keys # 0
  <2>1. new = TRUE \/ new = (keys = 0) OBVIOUS
  <2>2. fresh' = new BY <1>1
  <2> QED BY <2>1, <2>2
<1> QED BY <1>1, <1>3, <1>4, <1>5, <1>6

\* A file with one field changed.
LEMMA EditFacts ==
  \A f \in Files, i \in 0 .. MaxRuns :
    /\ [f EXCEPT !.keys = i].keys = i /\ [f EXCEPT !.keys = i].eso = f.eso
    /\ [f EXCEPT !.keys = i].users = f.users
    /\ [f EXCEPT !.eso = i].eso = i /\ [f EXCEPT !.eso = i].keys = f.keys
    /\ [f EXCEPT !.eso = i].users = f.users
    /\ [f EXCEPT !.users["ops"] = i].keys = f.keys /\ [f EXCEPT !.users["ops"] = i].eso = f.eso
    /\ \A u \in Reconcilers : [f EXCEPT !.users["ops"] = i].users[u] = f.users[u]
  BY DEF Files, Users, Reconcilers

\* What the types say of numbers and files, in this state and the next.
LEMMA RangeFacts ==
  ASSUME TypeOK
  PROVE  /\ keys \in Nat /\ run \in Nat /\ file.keys \in Nat /\ mem.keys \in Nat
         /\ \A i \in temps : i \in Nat
         /\ \A u \in Users : file.users[u] \in Nat /\ mem.users[u] \in Nat /\ users[u] \in Nat
  BY FileTypes DEF TypeOK, Runs

\* A step keeps the types.
LEMMA TypeStep == TypeOK /\ NameInv /\ FreshInv /\ [Next]_vars => TypeOK'
<1> SUFFICES ASSUME TypeOK, NameInv, FreshInv, [Next]_vars PROVE TypeOK'
    OBVIOUS
<1> USE DEF openbao, outside, process, TypeOK, Runs, Users, Reconcilers,
   Bootstrap, EsoPush, EsoRotation, OpsRotation, NameInv
<1>1. CASE Load
  <2>1. PICK found \in {file, NoFile}, new \in {TRUE, keys = 0} :
          /\ fresh' = new /\ mem' = Facts(found, new)
          /\ Begin(IF new THEN "init" ELSE "unseal")
        BY <1>1 DEF Load
  <2>2. found \in Files /\ new \in BOOLEAN BY FileTypes DEF TypeOK
  <2>3. run' = run + 1 /\ run' \in 0 .. MaxRuns /\ pc' \in {"init", "unseal"} /\ ready' \in BOOLEAN
        BY <2>1, FileTypes DEF Begin, Go, TypeOK
  <2>4. [u \in Users |-> IF Makes(found, u, new) THEN run + 1 ELSE found.users[u]]
          \in [Users -> 0 .. MaxRuns]
        BY <2>2, <2>3, FileTypes
  <2>5. mem' \in Files BY <2>1, <2>2, <2>4, FileTypes DEF Facts
  <2> QED BY <1>1, <2>1, <2>2, <2>3, <2>5 DEF Load, Shares
<1>2. CASE RunInit
      BY <1>2, FileTypes DEF RunInit, Goes, Go
<1>3. CASE SaveArtifact
  <2>1. mem \in Files /\ 0 \in 0 .. MaxRuns BY FileTypes DEF TypeOK
  <2>2. Artifact \in Files BY <2>1, FileTypes DEF Artifact
  <2> QED BY <1>3, <2>2 DEF SaveArtifact, Goes, Go
<1>4. CASE CheckPlaces \/ Login
      BY <1>4 DEF CheckPlaces, Login, Goes, Go
<1>5. CASE WriteShare
  <2>1. number' \in Shares /\ pc' \in {"share", "unseal"}
        BY <1>5 DEF WriteShare, Last, TypeOK, Shares
  <2>2. custody' \in [Shares -> 0 .. MaxRuns]
        BY <1>5, FileTypes DEF WriteShare, TypeOK
  <2> QED BY <1>5, <2>1, <2>2 DEF WriteShare
<1>6. CASE Unseal
      BY <1>6 DEF Unseal, Goes, Go
<1>7. CASE CreateEso
  <2>1. run \in Runs /\ run \in 0 .. MaxRuns BY <1>7 DEF CreateEso, Goes, Go, TypeOK, NameInv, Runs
  <2>2. mem' \in Files /\ issued' \subseteq Runs
        BY <1>7, <2>1, FileTypes DEF CreateEso, NewId, TypeOK
  <2>3. keys # 0 BY <1>7 DEF CreateEso, TypeOK
  <2> QED BY <1>7, <2>2, <2>3 DEF CreateEso, Goes, Go
<1>8. CASE Upsert("ops", "policy") \/ Upsert("policy", "approle") \/ Upsert("approle", "save")
      BY <1>8, FileTypes DEF Upsert, Goes, Go
<1>9. CASE SaveFile
      BY <1>9 DEF SaveFile, Composed, Goes, Go
<1>10. CASE Verify
      BY <1>10 DEF Verify, AfterVerify, Goes, Go
<1>11. CASE RevokeRoot
      BY <1>11 DEF RevokeRoot, Goes, Go
<1>12. CASE PushFile
      BY <1>12, FileTypes DEF PushFile, Goes, Go
<1>13. CASE StartEsoRotation
      BY <1>13, FileTypes DEF StartEsoRotation, Read, Begin, Go
<1>14. CASE StartOpsRotation
      BY <1>14, FileTypes DEF StartOpsRotation, Read, Begin, Go
<1>15. CASE NewSecretId \/ PushSecretId
      BY <1>15, FileTypes DEF NewSecretId, PushSecretId, Goes, Go
<1>16. CASE PersistSecretId
      BY <1>16, FileTypes DEF PersistSecretId, Goes, Go
<1>17. CASE GenerateRoot
      BY <1>17 DEF GenerateRoot, Quorum, Goes, Go
<1>18. CASE SetOpsPassword
      BY <1>18 DEF SetOpsPassword, Goes, Go
<1>19. CASE PersistOpsPassword
      BY <1>19, FileTypes DEF PersistOpsPassword, RotatedOps, Goes, Go
<1>20. CASE RevokeTemp
      BY <1>20 DEF RevokeTemp, Goes, Go
<1>21. CASE Stop
      BY <1>21 DEF Stop
<1>22. CASE PodRestart
      BY <1>22 DEF PodRestart
<1>23. CASE Rebuild
      BY <1>23, FileTypes DEF Rebuild
<1>24. ASSUME NEW p \in Places, Plug(p) \/ Unplug(p) PROVE TypeOK'
      BY <1>24 DEF Plug, Unplug
<1>25. CASE UNCHANGED vars BY <1>25 DEF vars
<1>26. CASE StartEsoPush
      BY <1>26, FileTypes DEF StartEsoPush, Read, Begin, Go
<1>27. CASE Finish
      BY <1>27, FileTypes DEF Finish, Goes, Go
<1> QED BY <1>1, <1>2, <1>3, <1>4, <1>5, <1>6, <1>7, <1>8, <1>9, <1>10, <1>11,
       <1>12, <1>13, <1>14, <1>15, <1>16, <1>17, <1>18, <1>19, <1>20, <1>21,
       <1>22, <1>23, <1>24, <1>25, <1>26, <1>27 DEF Next, Role, Rotation, Surroundings

\* A run has the newest name, and only it has made what bears that name.
LEMMA NameStep == TypeOK /\ TypeOK' /\ NameInv /\ FileInv /\ FreshInv /\
          [Next]_vars => NameInv'
<1> SUFFICES ASSUME TypeOK, TypeOK', NameInv, FileInv, FreshInv, [Next]_vars
             PROVE  NameInv'
    OBVIOUS
<1> USE DEF openbao, outside, process, NameInv, FileInv, FreshInv,
   Initialising, Rerun, Rotating, Users, Reconcilers, Bootstrap, EsoPush, EsoRotation,
   OpsRotation
<1>1. CASE Load
  <2>1. /\ pc = "idle" /\ pc' = IF fresh' THEN "init" ELSE "unseal"
        /\ run' = run + 1 /\ run' # 0 /\ (~fresh' => keys # 0)
        BY <1>1, LoadFacts
  <2>2. \E found \in {file, NoFile} : mem'.keys = found.keys /\ mem'.eso = found.eso
          /\ \A u \in Users : mem'.users[u] = IF Makes(found, u, fresh') THEN run + 1 ELSE found.users[u]
        BY <1>1, LoadFacts
  <2> QED BY <1>1, <2>1, <2>2, RangeFacts DEF Load, NameInv, Initialising, NoFile
<1>2. CASE RunInit
  <2>1. mem'.keys = run /\ mem'.eso = mem.eso /\ mem'.users = mem.users
        BY <1>2, EditFacts DEF RunInit, TypeOK
  <2> QED BY <1>2, <2>1, RangeFacts DEF RunInit, Goes, Go, NameInv, FreshInv, FreshOnly,
          Initialising, Bootstrap
<1>3. CASE SaveArtifact
      BY <1>3 DEF SaveArtifact, Artifact, Goes, Go
<1>4. CASE CheckPlaces \/ Login
      BY <1>4 DEF CheckPlaces, Login, Goes, Go
<1>5. CASE WriteShare
      BY <1>5 DEF WriteShare, Last
<1>6. CASE Unseal
      BY <1>6 DEF Unseal, Goes, Go
<1>7. CASE CreateEso
      BY <1>7 DEF CreateEso, NewId, Goes, Go
<1>8. CASE Upsert("ops", "policy") \/ Upsert("policy", "approle") \/ Upsert("approle", "save")
      BY <1>8 DEF Upsert, Goes, Go
<1>9. CASE SaveFile
      BY <1>9 DEF SaveFile, Composed, Goes, Go
<1>10. CASE Verify
      BY <1>10, RangeFacts DEF Verify, AfterVerify, Goes, Go
<1>11. CASE RevokeRoot
      BY <1>11 DEF RevokeRoot, Goes, Go
<1>12. CASE PushFile
      BY <1>12, RangeFacts DEF PushFile, Goes, Go
<1>13. CASE StartEsoRotation
      BY <1>13, RangeFacts DEF StartEsoRotation, Read, Begin, Go
<1>14. CASE StartOpsRotation
      BY <1>14, RangeFacts DEF StartOpsRotation, Read, Begin, Go
<1>15. CASE NewSecretId \/ PushSecretId
      BY <1>15 DEF NewSecretId, PushSecretId, Goes, Go
<1>16. CASE PersistSecretId
      BY <1>16, RangeFacts DEF PersistSecretId, Goes, Go
<1>17. CASE GenerateRoot
      BY <1>17, RangeFacts DEF GenerateRoot, Quorum, Goes, Go
<1>18. CASE SetOpsPassword
      BY <1>18 DEF SetOpsPassword, Goes, Go
<1>19. CASE PersistOpsPassword
      BY <1>19 DEF PersistOpsPassword, RotatedOps, Goes, Go
<1>20. CASE RevokeTemp
      BY <1>20, RangeFacts DEF RevokeTemp, Goes, Go
<1>21. CASE Stop
      BY <1>21 DEF Stop
<1>22. CASE PodRestart
      BY <1>22 DEF PodRestart
<1>23. CASE Rebuild
      BY <1>23, RangeFacts DEF Rebuild
<1>24. ASSUME NEW p \in Places, Plug(p) \/ Unplug(p) PROVE NameInv'
      BY <1>24 DEF Plug, Unplug
<1>25. CASE UNCHANGED vars BY <1>25 DEF vars
<1>26. CASE StartEsoPush
      BY <1>26, RangeFacts DEF StartEsoPush, Read, Begin, Go
<1>27. CASE Finish
      BY <1>27, RangeFacts DEF Finish, Goes, Go
<1> QED BY <1>1, <1>2, <1>3, <1>4, <1>5, <1>6, <1>7, <1>8, <1>9, <1>10, <1>11,
       <1>12, <1>13, <1>14, <1>15, <1>16, <1>17, <1>18, <1>19, <1>20, <1>21,
       <1>22, <1>23, <1>24, <1>25, <1>26, <1>27 DEF Next, Role, Rotation, Surroundings

\* The file is what opens the storage, and a rerun or a rotation has read it.
LEMMA FileStep == TypeOK /\ TypeOK' /\ NameInv /\ FileInv /\ FreshInv /\
          [Next]_vars => FileInv'
<1> SUFFICES ASSUME TypeOK, TypeOK', NameInv, FileInv, FreshInv, [Next]_vars
             PROVE  FileInv'
    OBVIOUS
<1> USE DEF openbao, outside, process, NameInv, FileInv, FreshInv,
   Initialising, Rerun, Rotating, FreshOnly, Users, Reconcilers, Bootstrap,
   EsoPush, EsoRotation, OpsRotation
<1>1. CASE Load
  <2>1. /\ pc = "idle" /\ pc' = IF fresh' THEN "init" ELSE "unseal"
        /\ run' = run + 1 /\ run' # 0 /\ (~fresh' => keys # 0)
        BY <1>1, LoadFacts
  <2>2. \E found \in {file, NoFile} : mem'.keys = found.keys /\ mem'.eso = found.eso
          /\ \A u \in Users : mem'.users[u] = IF Makes(found, u, fresh') THEN run + 1 ELSE found.users[u]
        BY <1>1, LoadFacts
  <2> QED BY <1>1, <2>1, <2>2, RangeFacts DEF Load, FileInv, Rerun, Rotating, EsoPush, EsoRotation,
          OpsRotation, NoFile, Makes, Users, Reconcilers
<1>2. CASE RunInit
  <2>1. mem'.keys = run /\ mem'.eso = mem.eso /\ mem'.users = mem.users
        BY <1>2, EditFacts DEF RunInit, TypeOK
  <2> QED BY <1>2, <2>1, RangeFacts DEF RunInit, Goes, Go, FileInv, Rerun, Rotating,
          EsoPush, EsoRotation, OpsRotation, TypeOK
<1>3. CASE SaveArtifact
      BY <1>3 DEF SaveArtifact, Artifact, Goes, Go
<1>4. CASE CheckPlaces \/ Login
      BY <1>4 DEF CheckPlaces, Login, Goes, Go
<1>5. CASE WriteShare
      BY <1>5 DEF WriteShare, Last
<1>6. CASE Unseal
      BY <1>6 DEF Unseal, Goes, Go
<1>7. CASE CreateEso
      BY <1>7 DEF CreateEso, NewId, Goes, Go
<1>8. CASE Upsert("ops", "policy") \/ Upsert("policy", "approle") \/ Upsert("approle", "save")
      BY <1>8 DEF Upsert, Goes, Go
<1>9. CASE SaveFile
      BY <1>9 DEF SaveFile, Composed, Goes, Go
<1>10. CASE Verify
      BY <1>10 DEF Verify, AfterVerify, Goes, Go
<1>11. CASE RevokeRoot
      BY <1>11 DEF RevokeRoot, Goes, Go
<1>12. CASE PushFile
      BY <1>12 DEF PushFile, Goes, Go
<1>13. CASE StartEsoRotation
      BY <1>13 DEF StartEsoRotation, Read, Begin, Go
<1>14. CASE StartOpsRotation
      BY <1>14 DEF StartOpsRotation, Read, Begin, Go
<1>15. CASE NewSecretId \/ PushSecretId
      BY <1>15 DEF NewSecretId, PushSecretId, Goes, Go
<1>16. CASE PersistSecretId
      BY <1>16 DEF PersistSecretId, Goes, Go
<1>17. CASE GenerateRoot
      BY <1>17 DEF GenerateRoot, Quorum, Goes, Go
<1>18. CASE SetOpsPassword
      BY <1>18 DEF SetOpsPassword, Goes, Go
<1>19. CASE PersistOpsPassword
      BY <1>19 DEF PersistOpsPassword, RotatedOps, Goes, Go
<1>20. CASE RevokeTemp
      BY <1>20 DEF RevokeTemp, Goes, Go
<1>21. CASE Stop
      BY <1>21 DEF Stop
<1>22. CASE PodRestart
      BY <1>22 DEF PodRestart
<1>23. CASE Rebuild
      BY <1>23 DEF Rebuild
<1>24. ASSUME NEW p \in Places, Plug(p) \/ Unplug(p) PROVE FileInv'
      BY <1>24 DEF Plug, Unplug
<1>25. CASE UNCHANGED vars BY <1>25 DEF vars
<1>26. CASE StartEsoPush
      BY <1>26 DEF StartEsoPush, Read, Begin, Go
<1>27. CASE Finish
      BY <1>27 DEF Finish, Goes, Go
<1> QED BY <1>1, <1>2, <1>3, <1>4, <1>5, <1>6, <1>7, <1>8, <1>9, <1>10, <1>11,
       <1>12, <1>13, <1>14, <1>15, <1>16, <1>17, <1>18, <1>19, <1>20, <1>21,
       <1>22, <1>23, <1>24, <1>25, <1>26, <1>27 DEF Next, Role, Rotation, Surroundings

\* The SecretID in the file stays good once the root token is gone.
LEMMA EsoStep == TypeOK /\ TypeOK' /\ NameInv /\ FileInv /\ FreshInv /\ EsoInv
          /\ [Next]_vars => EsoInv'
<1> SUFFICES ASSUME TypeOK, TypeOK', NameInv, FileInv, FreshInv, EsoInv,
                    [Next]_vars
             PROVE  EsoInv'
    OBVIOUS
<1> USE DEF openbao, outside, process, TypeOK, FileInv, EsoInv, FreshInv,
   Initialising, Rerun, Rotating, FreshOnly, Users, Reconcilers, Bootstrap,
   EsoPush, EsoRotation, OpsRotation
<1>1. CASE Load
      BY <1>1 DEF Load, Facts, Begin, Go
<1>2. CASE RunInit
      BY <1>2 DEF RunInit, Goes, Go
<1>3. CASE SaveArtifact
      BY <1>3 DEF SaveArtifact, Artifact, Goes, Go
<1>4. CASE CheckPlaces \/ Login
      BY <1>4 DEF CheckPlaces, Login, Goes, Go
<1>5. CASE WriteShare
      BY <1>5 DEF WriteShare, Last
<1>6. CASE Unseal
      BY <1>6 DEF Unseal, Goes, Go
<1>7. CASE CreateEso
      BY <1>7 DEF CreateEso, NewId, Goes, Go
<1>8. CASE Upsert("ops", "policy") \/ Upsert("policy", "approle") \/ Upsert("approle", "save")
      BY <1>8 DEF Upsert, Goes, Go
<1>9. CASE SaveFile
      BY <1>9 DEF SaveFile, Composed, Goes, Go
<1>10. CASE Verify
      BY <1>10 DEF Verify, AfterVerify, Goes, Go
<1>11. CASE RevokeRoot
      BY <1>11 DEF RevokeRoot, Goes, Go
<1>12. CASE PushFile
      BY <1>12 DEF PushFile, Goes, Go
<1>13. CASE StartEsoRotation
      BY <1>13 DEF StartEsoRotation, Read, Begin, Go
<1>14. CASE StartOpsRotation
      BY <1>14 DEF StartOpsRotation, Read, Begin, Go
<1>15. CASE NewSecretId \/ PushSecretId
      BY <1>15 DEF NewSecretId, PushSecretId, Goes, Go
<1>16. CASE PersistSecretId
      BY <1>16 DEF PersistSecretId, Goes, Go
<1>17. CASE GenerateRoot
      BY <1>17 DEF GenerateRoot, Quorum, Goes, Go
<1>18. CASE SetOpsPassword
      BY <1>18 DEF SetOpsPassword, Goes, Go
<1>19. CASE PersistOpsPassword
      BY <1>19 DEF PersistOpsPassword, RotatedOps, Goes, Go
<1>20. CASE RevokeTemp
      BY <1>20 DEF RevokeTemp, Goes, Go
<1>21. CASE Stop
      BY <1>21 DEF Stop
<1>22. CASE PodRestart
      BY <1>22 DEF PodRestart
<1>23. CASE Rebuild
      BY <1>23 DEF Rebuild
<1>24. ASSUME NEW p \in Places, Plug(p) \/ Unplug(p) PROVE EsoInv'
      BY <1>24 DEF Plug, Unplug
<1>25. CASE UNCHANGED vars BY <1>25 DEF vars
<1>26. CASE StartEsoPush
      BY <1>26 DEF StartEsoPush, Read, Begin, Go
<1>27. CASE Finish
      BY <1>27 DEF Finish, Goes, Go
<1> QED BY <1>1, <1>2, <1>3, <1>4, <1>5, <1>6, <1>7, <1>8, <1>9, <1>10, <1>11,
       <1>12, <1>13, <1>14, <1>15, <1>16, <1>17, <1>18, <1>19, <1>20, <1>21,
       <1>22, <1>23, <1>24, <1>25, <1>26, <1>27 DEF Next, Role, Rotation, Surroundings

\* A run that ends normally has disposed of its root tokens.
LEMMA RootsStep == TypeOK /\ TypeOK' /\ NameInv /\ FreshInv /\
          RootsAreOfBrokenRuns /\ [Next]_vars => RootsAreOfBrokenRuns'
<1> SUFFICES ASSUME TypeOK, TypeOK', NameInv, FreshInv, RootsAreOfBrokenRuns,
                    [Next]_vars
             PROVE  RootsAreOfBrokenRuns'
    OBVIOUS
<1> USE DEF openbao, outside, process, NameInv, FreshInv, FreshOnly,
   Initialising, RootsAreOfBrokenRuns, Unfinished, Users, Reconcilers, Bootstrap,
   EsoPush, EsoRotation, OpsRotation
<1>1. CASE Load
      BY <1>1 DEF Load, Facts, Begin, Go
<1>2. CASE RunInit
      BY <1>2 DEF RunInit, Goes, Go
<1>3. CASE SaveArtifact
      BY <1>3 DEF SaveArtifact, Artifact, Goes, Go
<1>4. CASE CheckPlaces \/ Login
      BY <1>4 DEF CheckPlaces, Login, Goes, Go
<1>5. CASE WriteShare
      BY <1>5 DEF WriteShare, Last
<1>6. CASE Unseal
      BY <1>6 DEF Unseal, Goes, Go
<1>7. CASE CreateEso
      BY <1>7 DEF CreateEso, NewId, Goes, Go
<1>8. CASE Upsert("ops", "policy") \/ Upsert("policy", "approle") \/ Upsert("approle", "save")
      BY <1>8 DEF Upsert, Goes, Go
<1>9. CASE SaveFile
      BY <1>9 DEF SaveFile, Composed, Goes, Go
<1>10. CASE Verify
      BY <1>10, RangeFacts DEF Verify, AfterVerify, Goes, Go
<1>11. CASE RevokeRoot
      BY <1>11 DEF RevokeRoot, Goes, Go
<1>12. CASE PushFile
      BY <1>12, RangeFacts DEF PushFile, Goes, Go
<1>13. CASE StartEsoRotation
      BY <1>13 DEF StartEsoRotation, Read, Begin, Go
<1>14. CASE StartOpsRotation
      BY <1>14 DEF StartOpsRotation, Read, Begin, Go
<1>15. CASE NewSecretId \/ PushSecretId
      BY <1>15 DEF NewSecretId, PushSecretId, Goes, Go
<1>16. CASE PersistSecretId
      BY <1>16, RangeFacts DEF PersistSecretId, Goes, Go
<1>17. CASE GenerateRoot
      BY <1>17 DEF GenerateRoot, Quorum, Goes, Go
<1>18. CASE SetOpsPassword
      BY <1>18 DEF SetOpsPassword, Goes, Go
<1>19. CASE PersistOpsPassword
      BY <1>19 DEF PersistOpsPassword, RotatedOps, Goes, Go
<1>20. CASE RevokeTemp
      BY <1>20, RangeFacts DEF RevokeTemp, Goes, Go
<1>21. CASE Stop
      BY <1>21 DEF Stop
<1>22. CASE PodRestart
      BY <1>22 DEF PodRestart
<1>23. CASE Rebuild
      BY <1>23 DEF Rebuild
<1>24. ASSUME NEW p \in Places, Plug(p) \/ Unplug(p) PROVE RootsAreOfBrokenRuns'
      BY <1>24 DEF Plug, Unplug
<1>25. CASE UNCHANGED vars BY <1>25 DEF vars
<1>26. CASE StartEsoPush
      BY <1>26, RangeFacts DEF StartEsoPush, Read, Begin, Go
<1>27. CASE Finish
      BY <1>27, RangeFacts DEF Finish, Goes, Go
<1> QED BY <1>1, <1>2, <1>3, <1>4, <1>5, <1>6, <1>7, <1>8, <1>9, <1>10, <1>11,
       <1>12, <1>13, <1>14, <1>15, <1>16, <1>17, <1>18, <1>19, <1>20, <1>21,
       <1>22, <1>23, <1>24, <1>25, <1>26, <1>27 DEF Next, Role, Rotation, Surroundings

\* What the run that initialises has done, task by task.
LEMMA FreshStep == TypeOK /\ TypeOK' /\ NameInv /\ FileInv /\ FreshInv /\
          [Next]_vars => FreshInv'
<1> SUFFICES ASSUME TypeOK, TypeOK', NameInv, FileInv, FreshInv, [Next]_vars
             PROVE  FreshInv'
    OBVIOUS
<1> USE DEF openbao, outside, process, TypeOK, NameInv, FreshInv, FreshOnly,
   Initialising, Makes, Runs, Shares, NoFile, NoUsers, Users, Reconcilers,
   Bootstrap, EsoPush, EsoRotation, OpsRotation
<1>1. CASE Load
      BY <1>1 DEF Load, Facts, Begin, Go
<1>2. CASE RunInit
      BY <1>2 DEF RunInit, Goes, Go
<1>3. CASE SaveArtifact
      BY <1>3 DEF SaveArtifact, Artifact, Goes, Go
<1>4. CASE CheckPlaces \/ Login
      BY <1>4 DEF CheckPlaces, Login, Goes, Go
<1>5. CASE WriteShare
      BY <1>5 DEF WriteShare, Last
<1>6. CASE Unseal
      BY <1>6 DEF Unseal, Goes, Go
<1>7. CASE CreateEso
      BY <1>7 DEF CreateEso, NewId, Goes, Go
<1>8. CASE Upsert("ops", "policy") \/ Upsert("policy", "approle") \/ Upsert("approle", "save")
      BY <1>8 DEF Upsert, Goes, Go
<1>9. CASE SaveFile
      BY <1>9 DEF SaveFile, Composed, Goes, Go
<1>10. CASE Verify
      BY <1>10 DEF Verify, AfterVerify, Goes, Go
<1>11. CASE RevokeRoot
      BY <1>11 DEF RevokeRoot, Goes, Go
<1>12. CASE PushFile
      BY <1>12 DEF PushFile, Goes, Go
<1>13. CASE StartEsoRotation
      BY <1>13 DEF StartEsoRotation, Read, Begin, Go
<1>14. CASE StartOpsRotation
      BY <1>14 DEF StartOpsRotation, Read, Begin, Go
<1>15. CASE NewSecretId \/ PushSecretId
      BY <1>15 DEF NewSecretId, PushSecretId, Goes, Go
<1>16. CASE PersistSecretId
      BY <1>16 DEF PersistSecretId, Goes, Go
<1>17. CASE GenerateRoot
      BY <1>17 DEF GenerateRoot, Quorum, Goes, Go
<1>18. CASE SetOpsPassword
      BY <1>18 DEF SetOpsPassword, Goes, Go
<1>19. CASE PersistOpsPassword
      BY <1>19 DEF PersistOpsPassword, RotatedOps, Goes, Go
<1>20. CASE RevokeTemp
      BY <1>20 DEF RevokeTemp, Goes, Go
<1>21. CASE Stop
      BY <1>21 DEF Stop
<1>22. CASE PodRestart
      BY <1>22 DEF PodRestart
<1>23. CASE Rebuild
      BY <1>23 DEF Rebuild
<1>24. ASSUME NEW p \in Places, Plug(p) \/ Unplug(p) PROVE FreshInv'
      BY <1>24 DEF Plug, Unplug
<1>25. CASE UNCHANGED vars BY <1>25 DEF vars
<1>26. CASE StartEsoPush
      BY <1>26 DEF StartEsoPush, Read, Begin, Go
<1>27. CASE Finish
      BY <1>27 DEF Finish, Goes, Go
<1> QED BY <1>1, <1>2, <1>3, <1>4, <1>5, <1>6, <1>7, <1>8, <1>9, <1>10, <1>11,
       <1>12, <1>13, <1>14, <1>15, <1>16, <1>17, <1>18, <1>19, <1>20, <1>21,
       <1>22, <1>23, <1>24, <1>25, <1>26, <1>27 DEF Next, Role, Rotation, Surroundings

\* The reconcilers' passwords stay in the file.
LEMMA ReachStep == TypeOK /\ TypeOK' /\ NameInv /\ FileInv /\ FreshInv /\
          ReconcilersReachable /\ [Next]_vars => ReconcilersReachable'
<1> SUFFICES ASSUME TypeOK, TypeOK', NameInv, FileInv, FreshInv,
                    ReconcilersReachable, [Next]_vars
             PROVE  ReconcilersReachable'
    OBVIOUS
<1> USE DEF openbao, outside, process, TypeOK, FileInv, FreshInv, FreshOnly,
   Initialising, Rerun, Rotating, ReconcilersReachable, NoUsers, Users,
   Reconcilers, Bootstrap, EsoPush, EsoRotation, OpsRotation
<1>1. CASE Load
      BY <1>1 DEF Load, Facts, Begin, Go
<1>2. CASE RunInit
      BY <1>2 DEF RunInit, Goes, Go
<1>3. CASE SaveArtifact
      BY <1>3 DEF SaveArtifact, Artifact, Goes, Go
<1>4. CASE CheckPlaces \/ Login
      BY <1>4 DEF CheckPlaces, Login, Goes, Go
<1>5. CASE WriteShare
      BY <1>5 DEF WriteShare, Last
<1>6. CASE Unseal
      BY <1>6 DEF Unseal, Goes, Go
<1>7. CASE CreateEso
      BY <1>7 DEF CreateEso, NewId, Goes, Go
<1>8. CASE Upsert("ops", "policy") \/ Upsert("policy", "approle") \/ Upsert("approle", "save")
      BY <1>8 DEF Upsert, Goes, Go
<1>9. CASE SaveFile
      BY <1>9 DEF SaveFile, Composed, Goes, Go
<1>10. CASE Verify
      BY <1>10 DEF Verify, AfterVerify, Goes, Go
<1>11. CASE RevokeRoot
      BY <1>11 DEF RevokeRoot, Goes, Go
<1>12. CASE PushFile
      BY <1>12 DEF PushFile, Goes, Go
<1>13. CASE StartEsoRotation
      BY <1>13 DEF StartEsoRotation, Read, Begin, Go
<1>14. CASE StartOpsRotation
      BY <1>14 DEF StartOpsRotation, Read, Begin, Go
<1>15. CASE NewSecretId \/ PushSecretId
      BY <1>15 DEF NewSecretId, PushSecretId, Goes, Go
<1>16. CASE PersistSecretId
      BY <1>16 DEF PersistSecretId, Goes, Go
<1>17. CASE GenerateRoot
      BY <1>17 DEF GenerateRoot, Quorum, Goes, Go
<1>18. CASE SetOpsPassword
      BY <1>18 DEF SetOpsPassword, Goes, Go
<1>19. CASE PersistOpsPassword
      BY <1>19 DEF PersistOpsPassword, RotatedOps, Goes, Go
<1>20. CASE RevokeTemp
      BY <1>20 DEF RevokeTemp, Goes, Go
<1>21. CASE Stop
      BY <1>21 DEF Stop
<1>22. CASE PodRestart
      BY <1>22 DEF PodRestart
<1>23. CASE Rebuild
      BY <1>23 DEF Rebuild
<1>24. ASSUME NEW p \in Places, Plug(p) \/ Unplug(p) PROVE ReconcilersReachable'
      BY <1>24 DEF Plug, Unplug
<1>25. CASE UNCHANGED vars BY <1>25 DEF vars
<1>26. CASE StartEsoPush
      BY <1>26 DEF StartEsoPush, Read, Begin, Go
<1>27. CASE Finish
      BY <1>27 DEF Finish, Goes, Go
<1> QED BY <1>1, <1>2, <1>3, <1>4, <1>5, <1>6, <1>7, <1>8, <1>9, <1>10, <1>11,
       <1>12, <1>13, <1>14, <1>15, <1>16, <1>17, <1>18, <1>19, <1>20, <1>21,
       <1>22, <1>23, <1>24, <1>25, <1>26, <1>27 DEF Next, Role, Rotation, Surroundings

\* The operator's password is in the file, or on its way there.
LEMMA OpsStep == TypeOK /\ TypeOK' /\ NameInv /\ FileInv /\ FreshInv /\
          OpsInv /\ [Next]_vars => OpsInv'
<1> SUFFICES ASSUME TypeOK, TypeOK', NameInv, FileInv, FreshInv,
                    OpsInv, [Next]_vars
             PROVE  OpsInv'
    OBVIOUS
<1> USE DEF openbao, outside, process, TypeOK, FileInv, FreshInv, FreshOnly,
   Initialising, Rerun, Rotating, OpsInv, OpsReachable, Unfinished, NoUsers, Users,
   Reconcilers, Bootstrap, EsoPush, EsoRotation, OpsRotation
<1>1. CASE Load
  <2>1. /\ pc = "idle" /\ pc' = IF fresh' THEN "init" ELSE "unseal"
        /\ run' = run + 1 /\ run' # 0 /\ (~fresh' => keys # 0)
        BY <1>1, LoadFacts
  <2>2. PICK found \in {file, NoFile} :
          /\ mem'.keys = found.keys
          /\ \A u \in Users : mem'.users[u] = IF Makes(found, u, fresh') THEN run + 1 ELSE found.users[u]
        BY <1>1, LoadFacts
  <2>3. file' = file /\ users' = users /\ keys' = keys /\ broken' = broken
        BY <1>1 DEF Load
  <2>4. Rerun' => (pc' = "unseal" /\ mem'.keys = 0) \/ mem'.users["ops"] = file'.users["ops"]
    <3>1. CASE found = NoFile BY <2>1, <2>2, <3>1 DEF NoFile
    <3>2. CASE found = file /\ file.keys # 0 BY <2>2, <2>3, <3>2 DEF Makes
    <3>3. CASE found = file /\ file.keys = 0 BY <2>1, <2>2, <3>3
    <3> QED BY <3>1, <3>2, <3>3
  <2> QED BY <2>1, <2>3, <2>4
<1>2. CASE RunInit
      BY <1>2 DEF RunInit, Goes, Go
<1>3. CASE SaveArtifact
      BY <1>3 DEF SaveArtifact, Artifact, Goes, Go
<1>4. CASE CheckPlaces \/ Login
      BY <1>4 DEF CheckPlaces, Login, Goes, Go
<1>5. CASE WriteShare
      BY <1>5 DEF WriteShare, Last
<1>6. CASE Unseal
      BY <1>6 DEF Unseal, Goes, Go
<1>7. CASE CreateEso
      BY <1>7 DEF CreateEso, NewId, Goes, Go
<1>8. CASE Upsert("ops", "policy") \/ Upsert("policy", "approle") \/ Upsert("approle", "save")
      BY <1>8 DEF Upsert, Goes, Go
<1>9. CASE SaveFile
      BY <1>9 DEF SaveFile, Composed, Goes, Go
<1>10. CASE Verify
      BY <1>10 DEF Verify, AfterVerify, Goes, Go
<1>11. CASE RevokeRoot
      BY <1>11 DEF RevokeRoot, Goes, Go
<1>12. CASE PushFile
      BY <1>12 DEF PushFile, Goes, Go
<1>13. CASE StartEsoRotation
      BY <1>13 DEF StartEsoRotation, Read, Begin, Go
<1>14. CASE StartOpsRotation
      BY <1>14 DEF StartOpsRotation, Read, Begin, Go
<1>15. CASE NewSecretId \/ PushSecretId
      BY <1>15 DEF NewSecretId, PushSecretId, Goes, Go
<1>16. CASE PersistSecretId
      BY <1>16 DEF PersistSecretId, Goes, Go
<1>17. CASE GenerateRoot
      BY <1>17 DEF GenerateRoot, Quorum, Goes, Go
<1>18. CASE SetOpsPassword
      BY <1>18 DEF SetOpsPassword, Goes, Go
<1>19. CASE PersistOpsPassword
  <2>1. run # 0 /\ run \in 0 .. MaxRuns /\ mem = file
        BY <1>19 DEF PersistOpsPassword, Goes, Go, NameInv
  <2>2. file'.users["ops"] = run /\ file'.keys = file.keys
        BY <1>19, <2>1 DEF PersistOpsPassword, RotatedOps, Files
  <2> QED BY <1>19, <2>1, <2>2 DEF PersistOpsPassword, Goes, Go
<1>20. CASE RevokeTemp
      BY <1>20 DEF RevokeTemp, Goes, Go
<1>21. CASE Stop
      BY <1>21 DEF Stop
<1>22. CASE PodRestart
      BY <1>22 DEF PodRestart
<1>23. CASE Rebuild
      BY <1>23 DEF Rebuild
<1>24. ASSUME NEW p \in Places, Plug(p) \/ Unplug(p) PROVE OpsInv'
      BY <1>24 DEF Plug, Unplug
<1>25. CASE UNCHANGED vars BY <1>25 DEF vars
<1>26. CASE StartEsoPush
      BY <1>26 DEF StartEsoPush, Read, Begin, Go
<1>27. CASE Finish
      BY <1>27 DEF Finish, Goes, Go
<1> QED BY <1>1, <1>2, <1>3, <1>4, <1>5, <1>6, <1>7, <1>8, <1>9, <1>10, <1>11,
       <1>12, <1>13, <1>14, <1>15, <1>16, <1>17, <1>18, <1>19, <1>20, <1>21,
       <1>22, <1>23, <1>24, <1>25, <1>26, <1>27 DEF Next, Role, Rotation, Surroundings

\* What was escrowed when the root token was given up stays escrowed.
LEMMA RecoverStep == TypeOK /\ TypeOK' /\ NameInv /\ FileInv /\ FreshInv /\
          RevokedMeansRecoverable /\ [Next]_vars => RevokedMeansRecoverable'
<1> SUFFICES ASSUME TypeOK, TypeOK', NameInv, FileInv, FreshInv,
                    RevokedMeansRecoverable, [Next]_vars
             PROVE  RevokedMeansRecoverable'
    OBVIOUS
<1> USE DEF openbao, outside, process, TypeOK, FileInv, FreshInv, FreshOnly,
   Initialising, Rerun, Rotating, RevokedMeansRecoverable, Users, Reconcilers,
   Bootstrap, EsoPush, EsoRotation, OpsRotation
<1>1. CASE Load
      BY <1>1 DEF Load, Facts, Begin, Go
<1>2. CASE RunInit
      BY <1>2 DEF RunInit, Goes, Go
<1>3. CASE SaveArtifact
      BY <1>3 DEF SaveArtifact, Artifact, Goes, Go
<1>4. CASE CheckPlaces \/ Login
      BY <1>4 DEF CheckPlaces, Login, Goes, Go
<1>5. CASE WriteShare
      BY <1>5 DEF WriteShare, Last
<1>6. CASE Unseal
      BY <1>6 DEF Unseal, Goes, Go
<1>7. CASE CreateEso
      BY <1>7 DEF CreateEso, NewId, Goes, Go
<1>8. CASE Upsert("ops", "policy") \/ Upsert("policy", "approle") \/ Upsert("approle", "save")
      BY <1>8 DEF Upsert, Goes, Go
<1>9. CASE SaveFile
      BY <1>9 DEF SaveFile, Composed, Goes, Go
<1>10. CASE Verify
      BY <1>10 DEF Verify, AfterVerify, Goes, Go
<1>11. CASE RevokeRoot
      BY <1>11 DEF RevokeRoot, Goes, Go
<1>12. CASE PushFile
      BY <1>12 DEF PushFile, Goes, Go
<1>13. CASE StartEsoRotation
      BY <1>13 DEF StartEsoRotation, Read, Begin, Go
<1>14. CASE StartOpsRotation
      BY <1>14 DEF StartOpsRotation, Read, Begin, Go
<1>15. CASE NewSecretId \/ PushSecretId
      BY <1>15 DEF NewSecretId, PushSecretId, Goes, Go
<1>16. CASE PersistSecretId
      BY <1>16 DEF PersistSecretId, Goes, Go
<1>17. CASE GenerateRoot
      BY <1>17 DEF GenerateRoot, Quorum, Goes, Go
<1>18. CASE SetOpsPassword
      BY <1>18 DEF SetOpsPassword, Goes, Go
<1>19. CASE PersistOpsPassword
      BY <1>19 DEF PersistOpsPassword, RotatedOps, Goes, Go
<1>20. CASE RevokeTemp
      BY <1>20 DEF RevokeTemp, Goes, Go
<1>21. CASE Stop
      BY <1>21 DEF Stop
<1>22. CASE PodRestart
      BY <1>22 DEF PodRestart
<1>23. CASE Rebuild
      BY <1>23 DEF Rebuild
<1>24. ASSUME NEW p \in Places, Plug(p) \/ Unplug(p) PROVE RevokedMeansRecoverable'
      BY <1>24 DEF Plug, Unplug
<1>25. CASE UNCHANGED vars BY <1>25 DEF vars
<1>26. CASE StartEsoPush
      BY <1>26 DEF StartEsoPush, Read, Begin, Go
<1>27. CASE Finish
      BY <1>27 DEF Finish, Goes, Go
<1> QED BY <1>1, <1>2, <1>3, <1>4, <1>5, <1>6, <1>7, <1>8, <1>9, <1>10, <1>11,
       <1>12, <1>13, <1>14, <1>15, <1>16, <1>17, <1>18, <1>19, <1>20, <1>21,
       <1>22, <1>23, <1>24, <1>25, <1>26, <1>27 DEF Next, Role, Rotation, Surroundings

-----------------------------------------------------------------------------
\* All of the invariant holds at the beginning,
LEMMA InvInit == Init => IInv
<1> SUFFICES ASSUME Init PROVE IInv
    OBVIOUS
<1> USE DEF Init
<1>1. TypeOK
  <2>1. 0 \in 0 .. MaxRuns /\ 1 \in Shares BY FileTypes DEF Shares
  <2>2. [s \in Shares |-> 0] \in [Shares -> 0 .. MaxRuns] BY <2>1
  <2> QED BY FileTypes, <2>1, <2>2 DEF TypeOK
<1>2. NameInv BY FileTypes DEF NameInv, NoFile
<1>3. FileInv BY DEF FileInv, Rotating, Rerun, EsoPush, EsoRotation, OpsRotation
<1>4. FreshInv BY DEF FreshInv, FreshOnly, Initialising, Bootstrap
<1>5. EsoInv BY DEF EsoInv
<1>6. ReconcilersReachable /\ OpsInv
      BY DEF ReconcilersReachable, OpsInv, OpsReachable, Rerun, NoUsers, NoFile, Users,
         EsoRotation
<1>7. RevokedMeansRecoverable /\ RootsAreOfBrokenRuns
      BY DEF RevokedMeansRecoverable, RootsAreOfBrokenRuns, Unfinished
<1> QED BY <1>1, <1>2, <1>3, <1>4, <1>5, <1>6, <1>7 DEF IInv

\* and every step keeps it.
LEMMA InvStep == IInv /\ [Next]_vars => IInv'
<1> SUFFICES ASSUME IInv, [Next]_vars PROVE IInv'
    OBVIOUS
<1>1. /\ TypeOK /\ NameInv /\ FileInv /\ FreshInv /\ EsoInv
      /\ ReconcilersReachable /\ OpsInv /\ RevokedMeansRecoverable /\ RootsAreOfBrokenRuns
      BY DEF IInv
<1>2. TypeOK' BY <1>1, TypeStep
<1>3. NameInv' BY <1>1, <1>2, NameStep
<1>4. FileInv' BY <1>1, <1>2, FileStep
<1>5. FreshInv' BY <1>1, <1>2, FreshStep
<1>6. EsoInv' BY <1>1, <1>2, EsoStep
<1>7. ReconcilersReachable' BY <1>1, <1>2, ReachStep
<1>8. RevokedMeansRecoverable' BY <1>1, <1>2, RecoverStep
<1>9. RootsAreOfBrokenRuns' BY <1>1, <1>2, RootsStep
<1>10. OpsInv' BY <1>1, <1>2, OpsStep
<1> QED BY <1>2, <1>3, <1>4, <1>5, <1>6, <1>7, <1>8, <1>9, <1>10 DEF IInv

\* What goes into ESO's Secret: the file's SecretID, or the one just made.
LEMMA PushedStep ==
  IInv /\ [Next]_vars => (root = "revoked" /\ kube' # kube => kube' \in issued)
<1> SUFFICES ASSUME IInv, [Next]_vars, root = "revoked", kube' # kube PROVE kube' \in issued
    OBVIOUS
<1> USE DEF openbao, outside, process
<1>1. CASE Role
      BY <1>1 DEF Role, Load, RunInit, SaveArtifact, CheckPlaces, WriteShare, Unseal, Login,
         CreateEso, Upsert, SaveFile, Verify, RevokeRoot
<1>2. CASE PushFile BY <1>2 DEF PushFile, Goes, Go, IInv, FileInv, Rotating, EsoPush, EsoInv
<1>3. CASE PushSecretId BY <1>3 DEF PushSecretId, Goes, Go, IInv, EsoInv
<1>4. CASE Rotation /\ ~PushFile /\ ~PushSecretId
      BY <1>4 DEF Rotation, StartEsoPush, StartEsoRotation, NewSecretId, PersistSecretId,
         StartOpsRotation, GenerateRoot, SetOpsPassword, PersistOpsPassword, RevokeTemp
<1>5. CASE Finish \/ Stop \/ Surroundings
      BY <1>5 DEF Finish, Stop, Surroundings, PodRestart, Rebuild, Plug, Unplug
<1>6. CASE UNCHANGED vars BY <1>6 DEF vars
<1> QED BY <1>1, <1>2, <1>3, <1>4, <1>5, <1>6 DEF Next

\* A step that leaves the keys, the file's keys, the root token and the users
\* alone is nothing to the escrow.
LEMMA EscrowStutter ==
  ASSUME UNCHANGED <<keys, root, users>>, file'.keys = file.keys
  PROVE  UNCHANGED <<phase, users # NoUsers>>
  BY DEF phase

\* The steps of the bootstrap are those of the escrow, or nothing to it.
LEMMA EscrowStep ==
  IInv /\ IInv' /\ [Next]_vars => [Escrow!Next]_<<phase, users # NoUsers>>
<1> SUFFICES ASSUME IInv, IInv', [Next]_vars
             PROVE  [Escrow!Next]_<<phase, users # NoUsers>>
    OBVIOUS
<1> USE DEF openbao, outside, process
<1>1. CASE RunInit
  <2>1. phase = "blank" /\ phase' = "bare"
        BY <1>1, RangeFacts DEF RunInit, Goes, Go, phase, IInv, NameInv, TypeOK
  <2> QED BY <1>1, <2>1 DEF RunInit, Escrow!Next, Escrow!Initialise
<1>2. CASE SaveArtifact
  <2>1. keys = run /\ mem.keys = run /\ root = "live" /\ file.keys # keys /\ keys # 0
        BY <1>2, RangeFacts DEF SaveArtifact, Goes, Go, IInv, FreshInv, NameInv, Initialising,
           FreshOnly, Bootstrap
  <2>2. file'.keys = keys
        BY <1>2, <2>1 DEF SaveArtifact, Artifact, IInv, TypeOK, Files
  <2>3. phase = "bare" /\ phase' = "escrowed"
        BY <1>2, <2>1, <2>2 DEF SaveArtifact, phase
  <2> QED BY <1>2, <2>3 DEF SaveArtifact, Escrow!Next, Escrow!Escrow
<1>3. CASE Upsert("ops", "policy") \/ Upsert("policy", "approle") \/ Upsert("approle", "save")
  <2>1. PICK u \in Users : /\ pc = u /\ users' = [users EXCEPT ![u] = mem.users[u]]
                           /\ UNCHANGED <<keys, root, file>>
        BY <1>3 DEF Upsert, Goes, Go, Users, Reconcilers
  <2>2. mem.users[u] # 0 /\ keys = run /\ file.keys = keys /\ root = "live" /\ keys # 0
        BY <2>1 DEF IInv, TypeOK, FreshInv, Initialising, FreshOnly, Bootstrap, Users, Reconcilers
  <2>3. (users # NoUsers)' = TRUE
        BY <2>1, <2>2 DEF IInv, TypeOK, NoUsers
  <2> QED BY <2>1, <2>2, <2>3 DEF phase, Escrow!Next, Escrow!Use
<1>4. CASE SetOpsPassword
  <2>1. file.keys = keys /\ keys # 0 /\ run # 0
        BY <1>4 DEF SetOpsPassword, Goes, Go, IInv, TypeOK, FileInv, NameInv
  <2>2. phase \in {"escrowed", "handedOver"} /\ phase' = phase
        BY <1>4, <2>1 DEF SetOpsPassword, phase
  <2>3. (users # NoUsers)' = TRUE
        BY <1>4, <2>1 DEF SetOpsPassword, IInv, TypeOK, NoUsers, Users
  <2> QED BY <2>2, <2>3 DEF Escrow!Next, Escrow!Use
<1>5. CASE RevokeRoot
  <2>1. keys = run /\ file.keys = keys /\ root = "live" /\ keys # 0 /\ users["policy"] # 0
        BY <1>5 DEF RevokeRoot, Goes, Go, IInv, TypeOK, FreshInv, Initialising, FreshOnly, Bootstrap
  <2>2. users # NoUsers BY <2>1 DEF NoUsers, Users, Reconcilers
  <2>3. phase = "escrowed" /\ phase' = "handedOver" BY <1>5, <2>1 DEF RevokeRoot, phase
  <2> QED BY <1>5, <2>2, <2>3 DEF RevokeRoot, Escrow!Next, Escrow!HandOver
<1>6. CASE Rebuild
      BY <1>6 DEF Rebuild, phase, Escrow!Next, Escrow!Wipe
<1>7. CASE SaveFile
  <2>1. file'.keys = file.keys
        BY <1>7 DEF SaveFile, Composed, Goes, Go, IInv, FileInv, FreshInv, Initialising, Rerun, Bootstrap
  <2> QED BY <1>7, <2>1, EscrowStutter DEF SaveFile
<1>8. CASE PersistSecretId \/ PersistOpsPassword
  <2>1. mem = file /\ file'.keys = mem.keys
        BY <1>8 DEF PersistSecretId, PersistOpsPassword, RotatedOps, Goes, Go, IInv, TypeOK,
           Files, FileInv, Rotating, EsoPush, EsoRotation, OpsRotation
  <2> QED BY <1>8, <2>1, EscrowStutter DEF PersistSecretId, PersistOpsPassword
<1>9. CASE Load \/ CheckPlaces \/ WriteShare \/ Unseal \/ Login \/ CreateEso \/ Verify
      BY <1>9, EscrowStutter DEF Load, CheckPlaces, WriteShare, Unseal, Login, CreateEso, Verify
<1>10. CASE \/ StartEsoPush \/ PushFile \/ StartEsoRotation \/ NewSecretId \/ PushSecretId
            \/ StartOpsRotation \/ GenerateRoot \/ RevokeTemp
      BY <1>10, EscrowStutter DEF StartEsoPush, PushFile, StartEsoRotation, Read, NewSecretId,
         PushSecretId, StartOpsRotation, GenerateRoot, RevokeTemp
<1>11. CASE Finish \/ Stop \/ PodRestart \/ \E p \in Places : Plug(p) \/ Unplug(p)
      BY <1>11, EscrowStutter DEF Finish, Stop, PodRestart, Plug, Unplug
<1>12. CASE UNCHANGED vars BY <1>12, EscrowStutter DEF vars
<1> QED BY <1>1, <1>2, <1>3, <1>4, <1>5, <1>6, <1>7, <1>8, <1>9, <1>10, <1>11, <1>12
        DEF Next, Role, Rotation, Surroundings
-----------------------------------------------------------------------------
\* The invariant holds in every state of every execution, for any number of runs.
THEOREM Invariant == Spec => []IInv
<1> QED BY InvInit, InvStep, PTL DEF Spec

\* Every variable keeps its type; a storage that is not initialised has nothing.
THEOREM TypeCorrect == Spec => []TypeOK
<1>1. IInv => TypeOK BY DEF IInv
<1> QED BY <1>1, Invariant, PTL

\* Wherever the runs of the role and the rotations stop, nobody is locked out:
\* the break-glass file has the passwords of the reconcilers, and the operator's
\* or what another rotation needs to make it anew.
THEOREM NobodyIsLockedOut == Spec => []AccountsReachable
<1>1. IInv => AccountsReachable
      BY DEF IInv, ReconcilersReachable, OpsInv, OpsReachable, AccountsReachable
<1> QED BY <1>1, Invariant, PTL

\* Once the root token is revoked, the file opens the storage, the reconcilers
\* log in and the five shares are in custody, for as long as the storage lives.
THEOREM RevocationIsSafe == Spec => []RevokedMeansRecoverable
<1>1. IInv => RevokedMeansRecoverable BY DEF IInv
<1> QED BY <1>1, Invariant, PTL

\* A root token that is alive belongs to the run going on, or to one that was
\* interrupted.
THEOREM CompleteRunsLeaveNoRoot == Spec => []RootsAreOfBrokenRuns
<1>1. IInv => RootsAreOfBrokenRuns BY DEF IInv
<1> QED BY <1>1, Invariant, PTL

\* Neither 100-eso nor 110 ever writes a SecretID of an earlier storage, or one
\* that was never issued, once the root token is gone.
THEOREM OnlyIssuedIsPushed == Spec => PushedIsIssued
<1>1. IInv /\ [Next]_vars => [root = "revoked" /\ kube' # kube => kube' \in issued]_vars
      BY PushedStep
<1> QED BY <1>1, Invariant, PTL DEF Spec, PushedIsIssued

\* The bootstrap implements KeyEscrow: the keys are in the file before the
\* storage has a user, and the root token is given up only then.
THEOREM KeysAreEscrowed == Spec => ImplementsKeyEscrow
<1>1. Init => Escrow!Init BY DEF Init, phase, Escrow!Init
<1> QED BY <1>1, EscrowStep, Invariant, PTL DEF Spec, ImplementsKeyEscrow, Escrow!Spec
=============================================================================
