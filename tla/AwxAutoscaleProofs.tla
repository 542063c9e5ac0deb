------------------------- MODULE AwxAutoscaleProofs -------------------------
(***************************************************************************)
(* The idle reaper of AwxAutoscale.tla for any clients, grace period,      *)
(* startup wait and length of a pass: what it still knows when it puts AWX *)
(* to sleep, of what it read earlier in the pass.                          *)
(***************************************************************************)
EXTENDS AwxAutoscale, TLAPS

\* The reaper has read the floor in this pass.
Judging == rpc \notin {"rest", "floor"}

\* It went on since the floor had passed at the instant `now`.
FloorInv == Judging => "lease" \in fresh \/ lease.left + age <= 0

\* It went on since AWX had no job.
JobInv == rpc \in {"activity", "sleepCR"} => "job" \in fresh \/ jobs = {}

\* A window opened after the floor was read has a grace period ahead.
WindowInv == "lease" \in fresh => Judging /\ lease.left + age >= Grace

\* No window ended after the idle clock was started, unless one was opened since:
\* it is known to be new, or still seen at the next reading of the floor, since a
\* pass and the rest after it are shorter than the grace period.
SeenNextTime ==
  \/ rpc = "rest" /\ lease.left >= Grace - MaxLag - (IF rested THEN 1 ELSE 0)
  \/ rpc = "floor" /\ lease.left + age >= Grace - MaxLag - 1
IdleInv ==
  /\ idle # -1 => lease.left <= -idle \/ "lease" \in fresh \/ SeenNextTime
  /\ rpc = "sleepCR" => idle >= Grace

IInv == TypeOK /\ FloorInv /\ JobInv /\ WindowInv /\ IdleInv
-----------------------------------------------------------------------------
\* The bounds are numbers.
LEMMA Bounds ==
  /\ Grace \in Nat /\ MaxStartupWait \in Nat /\ MaxLag \in Nat /\ MaxFaults \in Nat /\ Oldest \in Nat
  /\ MaxLag + 1 < Grace /\ Grace <= MaxStartupWait /\ Oldest = Grace + MaxLag
  BY TickAssumption DEF Oldest

\* What the types say of the numbers in a state.
LEMMA Numbers ==
  ASSUME TypeOK
  PROVE  /\ lease.left \in Int /\ lease.left >= -Oldest /\ lease.left <= MaxStartupWait
         /\ lease.holder \in Clients \cup {Reaper, Nobody}
         /\ age \in Nat /\ age <= MaxLag /\ idle \in Int /\ idle >= -1 /\ idle <= Oldest
         /\ faults \in Nat
  BY Bounds DEF TypeOK, LeaseType, ReaperType, RestType, IdleType, OtherType

\* A Lease with a floor in its range.
LEMMA Leases ==
  ASSUME TypeOK, NEW h \in Clients \cup {Reaper, Nobody}, NEW left \in Int,
         left >= -Oldest, left <= MaxStartupWait
  PROVE  /\ [holder |-> h, left |-> left]
              \in [holder : Clients \cup {Reaper, Nobody}, left : -Oldest .. MaxStartupWait]
         /\ Later(lease.left, left) \in Int /\ Later(lease.left, left) >= left
         /\ Later(lease.left, left) >= lease.left
         /\ Later(lease.left, left) <= MaxStartupWait
         /\ Later(lease.left, left) >= -Oldest
  BY Bounds, Numbers DEF Later

\* A tick brings the floor closer, down to the bound.
LEMMA Ticks ==
  ASSUME TypeOK, Tick
  PROVE  /\ lease'.left \in Int /\ lease'.left >= lease.left - 1 /\ lease'.left >= -Oldest
         /\ lease'.left <= MaxStartupWait
         /\ IF lease.left = -Oldest THEN lease'.left = -Oldest ELSE lease'.left = lease.left - 1
         /\ lease' \in [holder : Clients \cup {Reaper, Nobody}, left : -Oldest .. MaxStartupWait]
<1> DEFINE left == Later(lease.left - 1, -Oldest)
<1>1. /\ left \in Int /\ left >= lease.left - 1 /\ left >= -Oldest /\ left <= MaxStartupWait
      /\ IF lease.left = -Oldest THEN left = -Oldest ELSE left = lease.left - 1
      BY Bounds, Numbers DEF Later
<1>2. left \in -Oldest .. MaxStartupWait BY <1>1, Bounds
<1>3. lease' = [lease EXCEPT !.left = left] BY DEF Tick
<1>4. lease'.left = left BY <1>3 DEF TypeOK, LeaseType
<1>5. lease' \in [holder : Clients \cup {Reaper, Nobody}, left : -Oldest .. MaxStartupWait]
      BY <1>2, <1>3 DEF TypeOK, LeaseType
<1> QED BY <1>1, <1>4, <1>5

\* Every step keeps the types.
LEMMA TypeStep == TypeOK /\ [Next]_vars => TypeOK'
<1> SUFFICES ASSUME TypeOK, [Next]_vars PROVE TypeOK'
    OBVIOUS
<1> USE DEF cluster, request, reaper, TypeOK, LeaseType, ClusterType,
   RequestType, ReaperType, RestType, IdleType, OtherType, Locations,
   ReaperLocations, Deployments
<1>1. ASSUME NEW c \in Clients, Need(c) PROVE TypeOK'
  <2>1. RequestType' BY <1>1, Bounds DEF Need
  <2> QED BY <1>1, <2>1 DEF Need
<1>2. ASSUME NEW c \in Clients, Start(c) PROVE TypeOK'
  <2>1. LeaseType' BY <1>2, Bounds, Numbers, Leases DEF Start, Refused, Goto,
          LeaseTo
  <2>2. RequestType' BY <1>2, Bounds DEF Start, Refused, Goto, LeaseTo
  <2>3. OtherType' BY <1>2, Bounds DEF Start, Note, Looked, Arrives
  <2> QED BY <1>2, <2>1, <2>2, <2>3 DEF Start
<1>3. ASSUME NEW c \in Clients, RunsOutOfRetries(c) PROVE TypeOK'
  <2>1. RequestType' BY <1>3, Bounds DEF RunsOutOfRetries, Refused, Goto, Fault,
          Counted
  <2>2. OtherType' BY <1>3, Bounds DEF RunsOutOfRetries, Refused, Goto, Fault,
          Counted
  <2> QED BY <1>3, <2>1, <2>2 DEF RunsOutOfRetries
<1>4. ASSUME NEW c \in Clients, PatchAwake(c) PROVE TypeOK'
  <2>1. ClusterType' BY <1>4 DEF PatchAwake, Goto
  <2>2. RequestType' BY <1>4, Bounds DEF PatchAwake, Goto
  <2> QED BY <1>4, <2>1, <2>2 DEF PatchAwake
<1>5. ASSUME NEW c \in Clients, ScaleUp(c) PROVE TypeOK'
  <2>1. ClusterType' BY <1>5 DEF ScaleUp, Scale, AfterScale, Goto
  <2>2. RequestType' BY <1>5, Bounds DEF ScaleUp, Scale, AfterScale, Goto
  <2> QED BY <1>5, <2>1, <2>2 DEF ScaleUp
<1>6. ASSUME NEW c \in Clients, ScaleUpFails(c) PROVE TypeOK'
  <2>1. RequestType' BY <1>6, Bounds DEF ScaleUpFails, AfterScale, Goto, Fault,
          Counted
  <2>2. OtherType' BY <1>6, Bounds DEF ScaleUpFails, AfterScale, Goto, Fault,
          Counted
  <2> QED BY <1>6, <2>1, <2>2 DEF ScaleUpFails
<1>7. ASSUME NEW c \in Clients,
             FirstGreen(c) \/ SecondNotGreen(c) \/ HolderReady(c) \/
             TimeOut(c)
      PROVE  TypeOK'
  <2>1. RequestType' BY <1>7, Bounds DEF FirstGreen, SecondNotGreen, HolderReady,
          TimeOut, Goto
  <2> QED BY <1>7, <2>1 DEF FirstGreen, SecondNotGreen, HolderReady, TimeOut
<1>8. ASSUME NEW c \in Clients, RewriteFloor(c) PROVE TypeOK'
  <2>1. LeaseType' BY <1>8, Bounds, Numbers, Leases DEF RewriteFloor, Rewrites,
          LeaseTo, Expired, Served, Goto
  <2>2. ClusterType' BY <1>8 DEF RewriteFloor, Served, LaunchReady, On, Goto
  <2>3. RequestType' BY <1>8, Bounds DEF RewriteFloor, Rewrites, LeaseTo,
          Expired, Served, Goto
  <2>4. OtherType' BY <1>8, Bounds DEF RewriteFloor, Note, Looked, Arrives
  <2> QED BY <1>8, <2>1, <2>2, <2>3, <2>4 DEF RewriteFloor
<1>9. ASSUME NEW c \in Clients, RequestDies(c) PROVE TypeOK'
  <2>1. LeaseType' BY <1>9, Bounds, Numbers, Leases DEF RequestDies, Rewrites,
          LeaseTo, Expired, Goto, Fault, Counted
  <2>2. RequestType' BY <1>9, Bounds DEF RequestDies, Rewrites, LeaseTo, Expired,
          Goto, Fault, Counted
  <2>3. OtherType'
    <3>1. fresh' \subseteq {"lease", "job"} BY <1>9 DEF RequestDies, Note, Looked, Arrives
    <3>2. faults' \in 0 .. MaxFaults BY <1>9, Bounds DEF RequestDies, Fault, Counted
    <3>3. play' = play BY <1>9 DEF RequestDies, Fault
    <3> QED BY <3>1, <3>2, <3>3
  <2> QED BY <1>9, <2>1, <2>2, <2>3 DEF RequestDies
<1>10. ASSUME NEW c \in Clients, FollowerReady(c) PROVE TypeOK'
  <2>1. ClusterType' BY <1>10 DEF FollowerReady, Served, LaunchReady, On, Goto
  <2>2. RequestType' BY <1>10, Bounds DEF FollowerReady, Served, Goto
  <2>3. OtherType' BY <1>10, Bounds DEF FollowerReady, Note, Looked, Arrives
  <2> QED BY <1>10, <2>1, <2>2, <2>3 DEF FollowerReady
<1>10a. ASSUME NEW c \in Clients, RewriteRunsOut(c) PROVE TypeOK'
  <2>1. ClusterType' BY <1>10a DEF RewriteRunsOut, Served, LaunchReady, On, Goto
  <2>2. RequestType' BY <1>10a, Bounds DEF RewriteRunsOut, Served, Goto
  <2>3. OtherType'
    <3>1. fresh' \subseteq {"lease", "job"} BY <1>10a DEF RewriteRunsOut, Note
    <3>2. faults' \in 0 .. MaxFaults BY <1>10a, Bounds DEF RewriteRunsOut, Fault, Counted
    <3>3. play' = play BY <1>10a DEF RewriteRunsOut, Fault
    <3> QED BY <3>1, <3>2, <3>3
  <2> QED BY <1>10a, <2>1, <2>2, <2>3 DEF RewriteRunsOut
<1>11. CASE WakeUp
  <2>1. ReaperType' BY <1>11, Bounds DEF WakeUp
  <2> QED BY <1>11, <2>1 DEF WakeUp
<1>12. CASE ReadFloor
  <2>1. ReaperType' BY <1>12, Bounds DEF ReadFloor, Parked, Park, Pass, Rest
  <2>2. RestType' BY <1>12 DEF ReadFloor, Parked, Park, Pass, Rest
  <2>3. IdleType' BY <1>12, Bounds, Numbers DEF ReadFloor, Parked, Park, Pass,
          Rest
  <2>4. OtherType' BY <1>12, Bounds DEF ReadFloor, Parked, Park, Pass, Rest
  <2> QED BY <1>12, <2>1, <2>2, <2>3, <2>4 DEF ReadFloor
<1>13. CASE QueryWork
  <2>1. ReaperType' BY <1>13, Bounds DEF QueryWork, Unreachable, Pass, Rest
  <2>2. RestType' BY <1>13 DEF QueryWork, Unreachable, Pass, Rest
  <2>3. IdleType' BY <1>13, Bounds, Numbers DEF QueryWork, Unreachable, Pass, Rest
  <2>4. OtherType' BY <1>13, Bounds DEF QueryWork, Unreachable, Pass, Rest
  <2> QED BY <1>13, <2>1, <2>2, <2>3, <2>4 DEF QueryWork
<1>14. CASE Extend
  <2>1. LeaseType' BY <1>14, Bounds, Numbers, Leases DEF Extend, LeaseTo, Rest
  <2>2. ReaperType' BY <1>14, Bounds DEF Extend, LeaseTo, Rest
  <2>3. RestType' BY <1>14 DEF Extend, LeaseTo, Rest
  <2>4. IdleType' BY <1>14, Bounds, Numbers DEF Extend, LeaseTo, Rest
  <2>5. OtherType' BY <1>14, Bounds DEF Extend, IdleStill, LeaseTo, Pass, Rest
  <2> QED BY <1>14, <2>1, <2>2, <2>3, <2>4, <2>5 DEF Extend
<1>15. CASE QuietSoFar
  <2>1. ReaperType' BY <1>15, Bounds DEF QuietSoFar, IdleStill, Pass, Rest
  <2>2. RestType' BY <1>15 DEF QuietSoFar, IdleStill, Pass, Rest
  <2>3. IdleType' BY <1>15, Bounds, Numbers DEF QuietSoFar, IdleStill, Pass, Rest
  <2>4. OtherType' BY <1>15, Bounds DEF QuietSoFar, IdleStill, LeaseTo, Pass, Rest
  <2> QED BY <1>15, <2>1, <2>2, <2>3, <2>4 DEF QuietSoFar
<1>16. CASE RecentActivity
  <2>1. ReaperType' BY <1>16, Bounds DEF RecentActivity, Pass, Fault, Counted
  <2>2. OtherType' BY <1>16, Bounds DEF RecentActivity, Pass, Fault, Counted
  <2> QED BY <1>16, <2>1, <2>2 DEF RecentActivity, Pass
<1>17. CASE SleepCR
  <2>1. ClusterType' BY <1>17 DEF SleepCR, Pass
  <2>2. ReaperType' BY <1>17, Bounds DEF SleepCR, Pass
  <2> QED BY <1>17, <2>1, <2>2 DEF SleepCR, Pass
<1>18. CASE SleepScaleFails
  <2>1. ReaperType' BY <1>18, Bounds DEF SleepScaleFails, Pass, Fault, Counted
  <2>2. OtherType' BY <1>18, Bounds DEF SleepScaleFails, Pass, Fault, Counted
  <2> QED BY <1>18, <2>1, <2>2 DEF SleepScaleFails, Pass
<1>19. CASE SleepScale
  <2>1. ClusterType' BY <1>19 DEF SleepScale, Scale, Pass
  <2>2. ReaperType' BY <1>19, Bounds DEF SleepScale, Scale, Pass
  <2> QED BY <1>19, <2>1, <2>2 DEF SleepScale, Pass
<1>20. CASE RecordSleep
  <2>1. ReaperType' BY <1>20, Bounds DEF RecordSleep, Rest
  <2>2. RestType' BY <1>20 DEF RecordSleep, Rest
  <2>3. IdleType' BY <1>20, Bounds, Numbers DEF RecordSleep, Rest
  <2>4. OtherType' BY <1>20, Bounds DEF RecordSleep, IdleStill, LeaseTo, Pass, Rest
  <2> QED BY <1>20, <2>1, <2>2, <2>3, <2>4 DEF RecordSleep
<1>21. CASE ReaperError
  <2>1. ClusterType' BY <1>21 DEF ReaperError, Rest, Fault, Counted
  <2>2. ReaperType' BY <1>21, Bounds DEF ReaperError, Rest, Fault, Counted
  <2>3. RestType' BY <1>21 DEF ReaperError, Rest, Fault, Counted
  <2>4. IdleType' BY <1>21, Bounds, Numbers DEF ReaperError, Rest, Fault, Counted
  <2>5. OtherType' BY <1>21, Bounds DEF ReaperError, Rest, Fault, Counted
  <2> QED BY <1>21, <2>1, <2>2, <2>3, <2>4, <2>5 DEF ReaperError
<1>22. CASE Restart
  <2>1. RequestType' BY <1>22, Bounds DEF Restart, Rest, Fault, Counted
  <2>2. ReaperType' BY <1>22, Bounds DEF Restart, Rest, Fault, Counted
  <2>3. RestType' BY <1>22 DEF Restart, Rest, Fault, Counted
  <2>4. IdleType' BY <1>22, Bounds, Numbers DEF Restart, Rest, Fault, Counted
  <2>5. OtherType' BY <1>22, Bounds DEF Restart, Rest, Fault, Counted
  <2> QED BY <1>22, <2>1, <2>2, <2>3, <2>4, <2>5 DEF Restart
<1>23. ASSUME NEW on \in BOOLEAN, PresencePatch(on) PROVE TypeOK'
  <2>1. ClusterType' BY <1>23 DEF PresencePatch, Counted
  <2>2. OtherType' BY <1>23, Bounds DEF PresencePatch, Counted
  <2> QED BY <1>23, <2>1, <2>2 DEF PresencePatch
<1>24. CASE PresenceScale
  <2>1. ClusterType'
    <3>0. PICK ds \in SUBSET Deployments, on \in BOOLEAN : ScaleSome(ds, on)
          BY <1>24 DEF PresenceScale
    <3>1. dep' \in [Deployments -> BOOLEAN]
      <4>1. PICK some \in SUBSET ds :
              dep' = [d \in Deployments |-> IF d \in some THEN on ELSE dep[d]]
            BY <3>0 DEF ScaleSome
      <4> QED BY <4>1
    <3>2. up' = [d \in Deployments |-> up[d] /\ dep'[d]] BY <3>0 DEF ScaleSome
    <3>3. /\ up' \in [Deployments -> BOOLEAN]
          /\ \A d \in Deployments : up'[d] => dep'[d]
          BY <3>1, <3>2
    <3>4. jobs' = (IF dep'["task"] THEN jobs ELSE {}) /\ UNCHANGED <<cr, op>>
          BY <1>24, <3>0 DEF PresenceScale, ScaleSome
    <3>5. jobs' \subseteq Clients /\ (jobs' # {} => dep'["task"]) BY <3>4
    <3> QED BY <3>1, <3>3, <3>4, <3>5
  <2>2. OtherType' BY <1>24, Bounds DEF PresenceScale, ScaleSome
  <2> QED BY <1>24, <2>1, <2>2 DEF PresenceScale
<1>25. CASE OperatorReads
  <2>1. ClusterType' BY <1>25 DEF OperatorReads
  <2> QED BY <1>25, <2>1 DEF OperatorReads
<1>26. CASE OperatorApplies
  <2>1. ClusterType' BY <1>26 DEF OperatorApplies, On, Off
  <2> QED BY <1>26, <2>1 DEF OperatorApplies
<1>27. ASSUME NEW d \in Deployments, Boot(d) PROVE TypeOK'
  <2>1. ClusterType' BY <1>27 DEF Boot
  <2> QED BY <1>27, <2>1 DEF Boot
<1>28. ASSUME NEW c \in Clients, JobEnds(c) PROVE TypeOK'
  <2>1. ClusterType' BY <1>28 DEF JobEnds
  <2> QED BY <1>28, <2>1 DEF JobEnds
<1>29. CASE Tick
  <2>1. LeaseType' BY <1>29, Ticks DEF Tick
  <2>2. RequestType' BY <1>29, Bounds DEF Tick, Later, Working
  <2>3. ReaperType' BY <1>29, Bounds DEF Tick
  <2>4. RestType' BY <1>29 DEF Tick
  <2>5. IdleType' BY <1>29, Bounds, Numbers DEF Tick
  <2> QED BY <1>29, <2>1, <2>2, <2>3, <2>4, <2>5 DEF Tick
<1>30. CASE UNCHANGED vars BY <1>30 DEF vars
<1> QED BY <1>1, <1>2, <1>3, <1>4, <1>5, <1>6, <1>7, <1>8, <1>9, <1>10, <1>11,
       <1>12, <1>13, <1>14, <1>15, <1>16, <1>17, <1>18, <1>19, <1>20, <1>21,
       <1>22, <1>23, <1>24, <1>25, <1>26, <1>27, <1>28, <1>29, <1>30, <1>10a DEF Next,
       Request, Reap, Faults, Presence

\* What the reaper knows of the floor.
LEMMA FloorStep == TypeOK /\ FloorInv /\ [Next]_vars => FloorInv'
<1> SUFFICES ASSUME TypeOK, FloorInv, [Next]_vars PROVE FloorInv'
    OBVIOUS
<1> USE DEF cluster, request, reaper, FloorInv, Judging
<1>1. ASSUME NEW c \in Clients,
             Need(c) \/ RunsOutOfRetries(c) \/ PatchAwake(c) \/ ScaleUp(c) \/
             ScaleUpFails(c)
      PROVE  FloorInv'
      BY <1>1 DEF Need, RunsOutOfRetries, Refused, PatchAwake, ScaleUp,
         ScaleUpFails, Scale, AfterScale, Goto, Fault, Counted
<1>2. ASSUME NEW c \in Clients,
             FirstGreen(c) \/ SecondNotGreen(c) \/ HolderReady(c) \/
             TimeOut(c) \/ JobEnds(c)
      PROVE  FloorInv'
      BY <1>2 DEF FirstGreen, SecondNotGreen, HolderReady, TimeOut, JobEnds,
         Goto
<1>3. ASSUME NEW c \in Clients, Start(c) PROVE FloorInv'
      BY <1>3 DEF Start, Refused, Goto, LeaseTo, Note, Looked, Arrives
<1>4. ASSUME NEW c \in Clients, RewriteFloor(c) PROVE FloorInv'
      BY <1>4 DEF RewriteFloor, Rewrites, LeaseTo, Expired, Served, Goto,
         Note, Looked, Arrives
<1>5. ASSUME NEW c \in Clients, RequestDies(c) PROVE FloorInv'
      BY <1>5 DEF RequestDies, Rewrites, LeaseTo, Expired, Goto, Fault,
         Counted, Note, Looked, Arrives
<1>6. ASSUME NEW c \in Clients, FollowerReady(c) \/ RewriteRunsOut(c) PROVE FloorInv'
      BY <1>6 DEF FollowerReady, RewriteRunsOut, Fault, Counted, Served, Goto, Note, Looked, Arrives
<1>7. CASE WakeUp
      BY <1>7 DEF WakeUp
<1>8. CASE ReadFloor
      BY <1>8, Numbers DEF ReadFloor, Parked, Park, Pass, Rest
<1>9. CASE QueryWork
      BY <1>9 DEF QueryWork, Unreachable, Pass, Rest
<1>10. CASE Extend
      BY <1>10 DEF Extend, LeaseTo, Rest
<1>11. CASE QuietSoFar
      BY <1>11 DEF QuietSoFar, IdleStill, Pass, Rest
<1>12. CASE RecentActivity \/ SleepCR \/ SleepScale \/ SleepScaleFails
      BY <1>12 DEF RecentActivity, SleepCR, SleepScale, SleepScaleFails,
         Scale, Pass, Fault, Counted
<1>13. CASE RecordSleep \/ ReaperError \/ Restart
      BY <1>13 DEF RecordSleep, ReaperError, Restart, Rest, Fault, Counted
<1>14. CASE OperatorReads \/ OperatorApplies
      BY <1>14 DEF OperatorReads, OperatorApplies
<1>15. CASE PresenceScale
      BY <1>15 DEF PresenceScale, ScaleSome
<1>16. ASSUME NEW on \in BOOLEAN, PresencePatch(on) PROVE FloorInv'
      BY <1>16 DEF PresencePatch, Counted
<1>17. ASSUME NEW d \in Deployments, Boot(d) PROVE FloorInv'
      BY <1>17 DEF Boot
<1>18. CASE Tick
      BY <1>18, Bounds, Numbers, Ticks DEF Tick
<1>19. CASE UNCHANGED vars BY <1>19 DEF vars
<1> QED BY <1>1, <1>2, <1>3, <1>4, <1>5, <1>6, <1>7, <1>8, <1>9, <1>10, <1>11,
       <1>12, <1>13, <1>14, <1>15, <1>16, <1>17, <1>18, <1>19 DEF Next,
       Request, Reap, Faults, Presence

\* What it knows of the jobs.
LEMMA JobStep == TypeOK /\ JobInv /\ [Next]_vars => JobInv'
<1> SUFFICES ASSUME TypeOK, JobInv, [Next]_vars PROVE JobInv'
    OBVIOUS
<1> USE DEF cluster, request, reaper, JobInv
<1>1. ASSUME NEW c \in Clients,
             Need(c) \/ RunsOutOfRetries(c) \/ PatchAwake(c) \/ ScaleUp(c) \/
             ScaleUpFails(c)
      PROVE  JobInv'
      BY <1>1 DEF Need, RunsOutOfRetries, Refused, PatchAwake, ScaleUp,
         ScaleUpFails, Scale, AfterScale, Goto, Fault, Counted
<1>2. ASSUME NEW c \in Clients,
             FirstGreen(c) \/ SecondNotGreen(c) \/ HolderReady(c) \/
             TimeOut(c) \/ JobEnds(c)
      PROVE  JobInv'
      BY <1>2 DEF FirstGreen, SecondNotGreen, HolderReady, TimeOut, JobEnds,
         Goto
<1>3. ASSUME NEW c \in Clients, Start(c) PROVE JobInv'
      BY <1>3 DEF Start, Refused, Goto, LeaseTo, Note, Looked, Arrives
<1>4. ASSUME NEW c \in Clients, RewriteFloor(c) PROVE JobInv'
      BY <1>4 DEF RewriteFloor, Rewrites, LeaseTo, Expired, Served, Goto,
         Note, Looked, Arrives
<1>5. ASSUME NEW c \in Clients, RequestDies(c) PROVE JobInv'
      BY <1>5 DEF RequestDies, Rewrites, LeaseTo, Expired, Goto, Fault,
         Counted, Note, Looked, Arrives
<1>6. ASSUME NEW c \in Clients, FollowerReady(c) \/ RewriteRunsOut(c) PROVE JobInv'
      BY <1>6 DEF FollowerReady, RewriteRunsOut, Fault, Counted, Served, Goto, Note, Looked, Arrives
<1>7. CASE WakeUp
      BY <1>7 DEF WakeUp
<1>8. CASE ReadFloor
      BY <1>8 DEF ReadFloor, Parked, Park, Pass, Rest
<1>9. CASE QueryWork
      BY <1>9 DEF QueryWork, Unreachable, Pass, Rest
<1>10. CASE Extend
      BY <1>10 DEF Extend, LeaseTo, Rest
<1>11. CASE QuietSoFar
      BY <1>11 DEF QuietSoFar, IdleStill, Pass, Rest
<1>12. CASE RecentActivity \/ SleepCR \/ SleepScale \/ SleepScaleFails
      BY <1>12 DEF RecentActivity, SleepCR, SleepScale, SleepScaleFails,
         Scale, Pass, Fault, Counted
<1>13. CASE RecordSleep \/ ReaperError \/ Restart
      BY <1>13 DEF RecordSleep, ReaperError, Restart, Rest, Fault, Counted
<1>14. CASE OperatorReads \/ OperatorApplies
      BY <1>14 DEF OperatorReads, OperatorApplies
<1>15. CASE PresenceScale
      BY <1>15 DEF PresenceScale, ScaleSome
<1>16. ASSUME NEW on \in BOOLEAN, PresencePatch(on) PROVE JobInv'
      BY <1>16 DEF PresencePatch, Counted
<1>17. ASSUME NEW d \in Deployments, Boot(d) PROVE JobInv'
      BY <1>17 DEF Boot
<1>18. CASE Tick
      BY <1>18 DEF Tick
<1>19. CASE UNCHANGED vars BY <1>19 DEF vars
<1> QED BY <1>1, <1>2, <1>3, <1>4, <1>5, <1>6, <1>7, <1>8, <1>9, <1>10, <1>11,
       <1>12, <1>13, <1>14, <1>15, <1>16, <1>17, <1>18, <1>19 DEF Next,
       Request, Reap, Faults, Presence

\* A new window stays in sight.
LEMMA WindowStep == TypeOK /\ FloorInv /\ WindowInv /\ IdleInv /\ [Next]_vars
          => WindowInv'
<1> SUFFICES ASSUME TypeOK, FloorInv, WindowInv, IdleInv, [Next]_vars
             PROVE  WindowInv'
    OBVIOUS
<1> USE DEF cluster, request, reaper, FloorInv, WindowInv, IdleInv, SeenNextTime, Judging
<1>1. ASSUME NEW c \in Clients,
             Need(c) \/ RunsOutOfRetries(c) \/ PatchAwake(c) \/ ScaleUp(c) \/
             ScaleUpFails(c)
      PROVE  WindowInv'
      BY <1>1 DEF Need, RunsOutOfRetries, Refused, PatchAwake, ScaleUp,
         ScaleUpFails, Scale, AfterScale, Goto, Fault, Counted
<1>2. ASSUME NEW c \in Clients,
             FirstGreen(c) \/ SecondNotGreen(c) \/ HolderReady(c) \/
             TimeOut(c) \/ JobEnds(c)
      PROVE  WindowInv'
      BY <1>2 DEF FirstGreen, SecondNotGreen, HolderReady, TimeOut, JobEnds,
         Goto
<1>3. ASSUME NEW c \in Clients, Start(c) PROVE WindowInv'
      BY <1>3, Bounds, Numbers, Leases DEF Start, Refused, Goto, LeaseTo, Note, Looked, Arrives
<1>4. ASSUME NEW c \in Clients, RewriteFloor(c) PROVE WindowInv'
      BY <1>4, Bounds, Numbers, Leases DEF RewriteFloor, Rewrites, LeaseTo,
         Expired, Served, Goto, Note, Looked, Arrives
<1>5. ASSUME NEW c \in Clients, RequestDies(c) PROVE WindowInv'
      BY <1>5, Bounds, Numbers, Leases DEF RequestDies, Rewrites, LeaseTo,
         Expired, Goto, Fault, Counted, Note, Looked, Arrives
<1>6. ASSUME NEW c \in Clients, FollowerReady(c) \/ RewriteRunsOut(c) PROVE WindowInv'
      BY <1>6 DEF FollowerReady, RewriteRunsOut, Fault, Counted, Served, Goto, Note, Looked, Arrives
<1>7. CASE WakeUp
      BY <1>7, Bounds, Numbers DEF WakeUp
<1>8. CASE ReadFloor
      BY <1>8 DEF ReadFloor, Parked, Park, Pass, Rest
<1>9. CASE QueryWork
      BY <1>9 DEF QueryWork, Unreachable, Pass, Rest
<1>10. CASE Extend
      BY <1>10 DEF Extend, LeaseTo, Rest
<1>11. CASE QuietSoFar
      BY <1>11, Bounds, Numbers DEF QuietSoFar, IdleStill, Pass, Rest
<1>12. CASE RecentActivity \/ SleepCR \/ SleepScale \/ SleepScaleFails
      BY <1>12 DEF RecentActivity, SleepCR, SleepScale, SleepScaleFails,
         Scale, Pass, Fault, Counted
<1>13. CASE RecordSleep \/ ReaperError \/ Restart
      BY <1>13 DEF RecordSleep, ReaperError, Restart, Rest, Fault, Counted
<1>14. CASE OperatorReads \/ OperatorApplies
      BY <1>14 DEF OperatorReads, OperatorApplies
<1>15. CASE PresenceScale
      BY <1>15 DEF PresenceScale, ScaleSome
<1>16. ASSUME NEW on \in BOOLEAN, PresencePatch(on) PROVE WindowInv'
      BY <1>16 DEF PresencePatch, Counted
<1>17. ASSUME NEW d \in Deployments, Boot(d) PROVE WindowInv'
      BY <1>17 DEF Boot
<1>18. CASE Tick
  <2>1. /\ age \in Nat /\ rpc' = rpc /\ fresh' = fresh /\ (idle' # -1 => idle # -1)
        /\ rpc = "rest" => ~rested /\ rested'
        /\ rpc # "rest" => age' = age + 1
        BY <1>18, Numbers DEF Tick
  <2> QED BY <1>18, <2>1, Bounds, Numbers, Ticks
<1>19. CASE UNCHANGED vars BY <1>19 DEF vars
<1> QED BY <1>1, <1>2, <1>3, <1>4, <1>5, <1>6, <1>7, <1>8, <1>9, <1>10, <1>11,
       <1>12, <1>13, <1>14, <1>15, <1>16, <1>17, <1>18, <1>19 DEF Next,
       Request, Reap, Faults, Presence

\* The idle clock starts after the last window.
LEMMA IdleStep == TypeOK /\ FloorInv /\ WindowInv /\ IdleInv /\ [Next]_vars =>
          IdleInv'
<1> SUFFICES ASSUME TypeOK, FloorInv, WindowInv, IdleInv, [Next]_vars
             PROVE  IdleInv'
    OBVIOUS
<1> USE DEF cluster, request, reaper, FloorInv, WindowInv, IdleInv, SeenNextTime, Judging
<1>1. ASSUME NEW c \in Clients,
             Need(c) \/ RunsOutOfRetries(c) \/ PatchAwake(c) \/ ScaleUp(c) \/
             ScaleUpFails(c)
      PROVE  IdleInv'
      BY <1>1 DEF Need, RunsOutOfRetries, Refused, PatchAwake, ScaleUp,
         ScaleUpFails, Scale, AfterScale, Goto, Fault, Counted
<1>2. ASSUME NEW c \in Clients,
             FirstGreen(c) \/ SecondNotGreen(c) \/ HolderReady(c) \/
             TimeOut(c) \/ JobEnds(c)
      PROVE  IdleInv'
      BY <1>2 DEF FirstGreen, SecondNotGreen, HolderReady, TimeOut, JobEnds,
         Goto
<1>3. ASSUME NEW c \in Clients, Start(c) PROVE IdleInv'
      BY <1>3, Bounds, Numbers, Leases DEF Start, Refused, Goto, LeaseTo, Note, Looked, Arrives
<1>4. ASSUME NEW c \in Clients, RewriteFloor(c) PROVE IdleInv'
      BY <1>4, Bounds, Numbers, Leases DEF RewriteFloor, Rewrites, LeaseTo, Expired, Served, Goto,
         Note, Looked, Arrives
<1>5. ASSUME NEW c \in Clients, RequestDies(c) PROVE IdleInv'
      BY <1>5, Bounds, Numbers, Leases DEF RequestDies, Rewrites, LeaseTo, Expired, Goto, Fault,
         Counted, Note, Looked, Arrives
<1>6. ASSUME NEW c \in Clients, FollowerReady(c) \/ RewriteRunsOut(c) PROVE IdleInv'
      BY <1>6 DEF FollowerReady, RewriteRunsOut, Fault, Counted, Served, Goto, Note, Looked, Arrives
<1>7. CASE WakeUp
      BY <1>7, Bounds, Numbers DEF WakeUp
<1>8. CASE ReadFloor
      BY <1>8, Bounds, Numbers DEF ReadFloor, Parked, Park, Pass, Rest
<1>9. CASE QueryWork
      BY <1>9 DEF QueryWork, Unreachable, Pass, Rest
<1>10. CASE Extend
      BY <1>10 DEF Extend, LeaseTo, Rest
<1>11. CASE QuietSoFar
      BY <1>11, Bounds, Numbers DEF QuietSoFar, IdleStill, Pass, Rest
<1>12. CASE RecentActivity \/ SleepCR \/ SleepScale \/ SleepScaleFails
      BY <1>12 DEF RecentActivity, SleepCR, SleepScale, SleepScaleFails,
         Scale, Pass, Fault, Counted
<1>13. CASE RecordSleep \/ ReaperError \/ Restart
      BY <1>13 DEF RecordSleep, ReaperError, Restart, Rest, Fault, Counted
<1>14. CASE OperatorReads \/ OperatorApplies
      BY <1>14 DEF OperatorReads, OperatorApplies
<1>15. CASE PresenceScale
      BY <1>15 DEF PresenceScale, ScaleSome
<1>16. ASSUME NEW on \in BOOLEAN, PresencePatch(on) PROVE IdleInv'
      BY <1>16 DEF PresencePatch, Counted
<1>17. ASSUME NEW d \in Deployments, Boot(d) PROVE IdleInv'
      BY <1>17 DEF Boot
<1>18. CASE Tick
  <2>1. /\ age \in Nat /\ rpc' = rpc /\ fresh' = fresh
        /\ rpc = "rest" => ~rested /\ rested'
        /\ rpc # "rest" => age' = age + 1
        BY <1>18, Numbers DEF Tick
  <2>2. /\ idle' = IF idle = -1 \/ idle = Oldest THEN idle ELSE idle + 1
        /\ idle' # -1 => idle # -1
        BY <1>18, Bounds, Numbers DEF Tick
  <2>3. lease.left <= -idle /\ idle # -1 => lease'.left <= -idle'
        BY <1>18, <2>2, Bounds, Numbers, Ticks
  <2>4. SeenNextTime => SeenNextTime' BY <1>18, <2>1, Bounds, Numbers, Ticks
  <2>5. rpc' = "sleepCR" => idle' >= Grace BY <2>1, <2>2, Bounds, Numbers
  <2> HIDE DEF SeenNextTime
  <2> QED BY <2>1, <2>2, <2>3, <2>4, <2>5
<1>19. CASE UNCHANGED vars BY <1>19 DEF vars
<1> QED BY <1>1, <1>2, <1>3, <1>4, <1>5, <1>6, <1>7, <1>8, <1>9, <1>10, <1>11,
       <1>12, <1>13, <1>14, <1>15, <1>16, <1>17, <1>18, <1>19 DEF Next,
       Request, Reap, Faults, Presence

-----------------------------------------------------------------------------
\* The reaper's invariant holds at the beginning, and every step keeps it.
LEMMA InvInit == Init => IInv
<1> SUFFICES ASSUME Init PROVE IInv
    OBVIOUS
<1> USE DEF Init
<1>1. LeaseType
  <2>1. -Oldest \in -Oldest .. MaxStartupWait BY Bounds
  <2> QED BY <2>1 DEF LeaseType
<1>2. ClusterType BY DEF ClusterType, On, Deployments
<1>3. RequestType BY Bounds DEF RequestType, Locations
<1>4. ReaperType /\ IdleType /\ RestType /\ OtherType
  <2>1. ReaperType BY Bounds DEF ReaperType, ReaperLocations
  <2>2. IdleType BY Bounds DEF IdleType
  <2>3. RestType BY DEF RestType
  <2>4. OtherType BY Bounds DEF OtherType
  <2> QED BY <2>1, <2>2, <2>3, <2>4
<1>5. FloorInv /\ JobInv /\ WindowInv /\ IdleInv
      BY DEF FloorInv, Judging, JobInv, WindowInv, IdleInv, SeenNextTime
<1> QED BY <1>1, <1>2, <1>3, <1>4, <1>5 DEF IInv, TypeOK

LEMMA InvStep == IInv /\ [Next]_vars => IInv'
  BY TypeStep, FloorStep, JobStep, WindowStep, IdleStep DEF IInv

\* The invariant holds in every state of every execution, whatever the clients,
\* the grace period and the length of a pass.
THEOREM Invariant == Spec => []IInv
<1> QED BY InvInit, InvStep, PTL DEF Spec

\* Every variable keeps its type; a Deployment at zero runs no job.
THEOREM TypeCorrect == Spec => []TypeOK
<1>1. IInv => TypeOK BY DEF IInv
<1> QED BY <1>1, Invariant, PTL

\* A sleep patch of the reaper ends only windows and jobs that were new in its
\* own pass.
THEOREM SleepHarmsLatecomersOnly == Spec => SleepHarmsOnlyLatecomers
<1>1. IInv => SleepsOnKnownIdle
  <2> SUFFICES ASSUME IInv, rpc = "sleepCR"
               PROVE  (~Expired => "lease" \in fresh) /\ (jobs # {} => "job" \in fresh)
      BY DEF SleepsOnKnownIdle
  <2> QED BY Numbers DEF IInv, FloorInv, Judging, JobInv, Expired
<1>2. IInv /\ [Next]_vars => [SleepsOnKnownIdle]_vars BY <1>1
<1> QED BY <1>2, Invariant, PTL DEF Spec, SleepHarmsOnlyLatecomers

\* A sleep patch comes a grace period or more after the end of the last window
\* that was not opened during the pass.
THEOREM GraceIsKept == Spec => GraceFollowsWindow
<1>1. IInv => SleepsAfterGrace
  <2> SUFFICES ASSUME IInv, rpc = "sleepCR", "lease" \notin fresh PROVE lease.left <= -Grace
      BY DEF SleepsAfterGrace
  <2> QED BY Bounds, Numbers DEF IInv, IdleInv, SeenNextTime
<1>2. IInv /\ [Next]_vars => [SleepsAfterGrace]_vars BY <1>1
<1> QED BY <1>2, Invariant, PTL DEF Spec, GraceFollowsWindow
-----------------------------------------------------------------------------
\* Who writes the Lease: one that holds it, or finds it run out.  A request thread
\* that does is about to patch with the whole startup wait ahead, or at its end.
Writes(h) == /\ Expired \/ lease.holder = h
             /\ lease' = [holder |-> h, left |-> lease'.left]
             /\ lease'.left \in Int
             /\ h \in Clients => ~Patching(h)' \/ lease'.left = MaxStartupWait

LEMMA LeaseStep ==
  ASSUME TypeOK, [Next]_vars
  PROVE  lease' = lease \/ Tick \/ \E h \in Clients \cup {Reaper} : Writes(h)
<1> USE DEF cluster, request, reaper
<1>1. ASSUME NEW c \in Clients, Start(c)
      PROVE  lease' = lease \/ Writes(c)
  <2>1. CASE Expired
    <3>1. Later(lease.left, MaxStartupWait) = MaxStartupWait
          BY <2>1, Bounds, Numbers DEF Later, Expired
    <3> QED BY <1>1, <2>1, <3>1, Bounds DEF Start, LeaseTo, Writes
  <2>2. CASE ~Expired BY <1>1, <2>2 DEF Start
  <2> QED BY <2>1, <2>2
<1>2. ASSUME NEW c \in Clients, Rewrites(c, Grace), pc' = [pc EXCEPT ![c] = "idle"]
      PROVE  lease' = lease \/ Writes(c)
  <2>1. ~Patching(c)' BY <1>2 DEF TypeOK, RequestType, Patching
  <2>2. Later(lease.left, Grace) \in Int BY Bounds, Leases
  <2> QED BY <1>2, <2>1, <2>2, Bounds DEF Rewrites, LeaseTo, Writes
<1>3. ASSUME NEW c \in Clients, RewriteFloor(c) \/ RequestDies(c)
      PROVE  lease' = lease \/ Writes(c)
      BY <1>2, <1>3 DEF RewriteFloor, RequestDies, Served, Goto
<1>4. CASE Extend
  <2>1. Grace - age \in Int /\ Grace - age >= -Oldest /\ Grace - age <= MaxStartupWait
        BY Bounds, Numbers
  <2>2. Later(lease.left, Grace - age) \in Int BY <2>1, Leases
  <2>3. Reaper \notin Clients BY NameAssumption
  <2> QED BY <1>4, <2>2, <2>3 DEF Extend, Acquires, LeaseTo, Writes
<1>5. ASSUME NEW c \in Clients,
             \/ Need(c) \/ RunsOutOfRetries(c) \/ PatchAwake(c) \/ ScaleUp(c)
             \/ ScaleUpFails(c) \/ FirstGreen(c) \/ SecondNotGreen(c)
             \/ HolderReady(c) \/ FollowerReady(c) \/ RewriteRunsOut(c) \/ TimeOut(c)
             \/ JobEnds(c)
      PROVE  lease' = lease
      BY <1>5 DEF Need, RunsOutOfRetries, PatchAwake, ScaleUp, ScaleUpFails,
         FirstGreen, SecondNotGreen, HolderReady, FollowerReady, RewriteRunsOut, TimeOut, JobEnds
<1>6. CASE \/ WakeUp \/ ReadFloor \/ QueryWork \/ QuietSoFar \/ RecentActivity
           \/ SleepCR \/ SleepScale \/ SleepScaleFails \/ RecordSleep
           \/ ReaperError \/ Restart
      BY <1>6 DEF WakeUp, ReadFloor, QueryWork, QuietSoFar, RecentActivity, SleepCR,
         SleepScale, SleepScaleFails, RecordSleep, ReaperError, Restart
<1>7. CASE \/ OperatorReads \/ OperatorApplies \/ PresenceScale
           \/ \E on \in BOOLEAN : PresencePatch(on)
           \/ \E d \in Deployments : Boot(d)
      BY <1>7 DEF OperatorReads, OperatorApplies, PresenceScale, PresencePatch, Boot
<1>8. CASE UNCHANGED vars BY <1>8 DEF vars
<1> QED BY <1>1, <1>3, <1>4, <1>5, <1>6, <1>7, <1>8
        DEF Next, Request, Reap, Faults, Presence

\* Request threads and reaper keep to the register of WakeLease.tla.
LEMMA RegisterStep ==
  ASSUME TypeOK, TypeOK', [Next]_vars
  PROVE  [Register!Next]_Register!vars
<1> DEFINE left == Later(lease.left, 0)
<1>0. left \in Nat /\ left' \in Nat /\ (Expired <=> left = 0)
  <2>1. lease.left \in Int BY Numbers
  <2>2. lease'.left \in Int BY DEF TypeOK, LeaseType, Oldest
  <2> QED BY <2>1, <2>2 DEF Later, Expired
<1>1. CASE lease' = lease BY <1>1 DEF Register!vars, Later
<1>2. CASE Tick
  <2>1. left' = IF left = 0 THEN 0 ELSE left - 1
        BY <1>2, Bounds, Numbers, Ticks DEF Later
  <2>2. lease'.holder = lease.holder BY <1>2 DEF Tick, TypeOK, LeaseType
  <2> QED BY <2>1, <2>2 DEF Register!Next, Register!Tick
<1>3. ASSUME NEW h \in Clients \cup {Reaper}, Writes(h) PROVE Register!Next
  <2>1. lease'.holder = h BY <1>3 DEF Writes
  <2>2. CASE lease.holder = h
    <3>1. Register!Rewrite(h) BY <1>0, <2>1, <2>2 DEF Register!Rewrite
    <3> QED BY <3>1 DEF Register!Next
  <2>3. CASE Expired
    <3>1. Register!Acquire(h) BY <1>0, <2>1, <2>3 DEF Register!Acquire
    <3> QED BY <3>1 DEF Register!Next
  <2> QED BY <1>3, <2>2, <2>3 DEF Writes
<1> QED BY <1>1, <1>2, <1>3, LeaseStep

\* The helper asks no more of the Lease than the register that LeaseManager
\* implements: it takes no window in force from its holder.
THEOREM HelperUsesRegister == Spec => UsesWakeLease
<1>1. Init => Register!Init
  <2> SUFFICES ASSUME Init PROVE Register!Init
      OBVIOUS
  <2>1. lease.holder = Nobody /\ lease.left = -Oldest BY DEF Init
  <2> QED BY <2>1, Bounds DEF Register!Init, Later
<1>2. IInv /\ IInv' /\ [Next]_vars => [Register!Next]_Register!vars
      BY RegisterStep DEF IInv
<1> QED BY <1>1, <1>2, Invariant, PTL DEF Spec, UsesWakeLease, Register!Spec
-----------------------------------------------------------------------------
\* The ticks a thread can have met since it opened its window: it is one of `slow`
\* after the first in a place, and never meets a second there.
Met(c) == (IF pc[c] = "patchCR" THEN 0 ELSE IF pc[c] = "scaleWeb" THEN 1 ELSE 2)
          + (IF c \in slow THEN 1 ELSE 0)
PatchInv ==
  \A c \in Clients : Patching(c) =>
    /\ lease.holder = c
    /\ lease.left >= MaxStartupWait - (IF Prompt THEN 0 ELSE Met(c))

\* The startup wait is longer than three patches, each over before its second
\* tick: it is 20 ticks of 60 seconds as deployed.
LongEnough == Prompt \/ MaxStartupWait > 3

LEMMA PatchersHold ==
  ASSUME TypeOK, LongEnough, PatchInv, NEW c \in Clients, Patching(c)
  PROVE  lease.holder = c /\ ~Expired
<1>1. MaxStartupWait > 0 BY Bounds
<1>2. Met(c) \in 0 .. 3 BY DEF Met
<1>3. lease.left > 0 BY <1>1, <1>2, Bounds, Numbers DEF LongEnough, PatchInv
<1> QED BY <1>3, Numbers DEF PatchInv, Expired

\* A thread that patches after a step has just opened its window, or patched before.
LEMMA PatchingStep ==
  ASSUME TypeOK, [Next]_vars, ~Tick, NEW c \in Clients, Patching(c)'
  PROVE  \/ lease'.holder = c /\ lease'.left = MaxStartupWait
         \/ Patching(c) /\ Met(c)' >= Met(c)
<1> USE DEF cluster, request, reaper, Patching, Met
<1>0. /\ pc \in [Clients -> Locations]
      /\ Met(c) \in 0 .. 3 /\ Met(c)' \in 0 .. 3
      BY DEF TypeOK, RequestType
<1>same. ASSUME pc'[c] = pc[c], (c \in slow)' = (c \in slow)
      PROVE  Patching(c) /\ Met(c)' >= Met(c)
      BY <1>0, <1>same
<1>1. ASSUME NEW d \in Clients, Start(d)
      PROVE  \/ lease'.holder = c /\ lease'.left = MaxStartupWait
             \/ Patching(c) /\ Met(c)' >= Met(c)
  <2>1. CASE d = c /\ Expired
    <3>1. Later(lease.left, MaxStartupWait) = MaxStartupWait
          BY <2>1, Bounds, Numbers DEF Later, Expired
    <3> QED BY <1>1, <2>1, <3>1 DEF Start, LeaseTo
  <2>2. CASE d = c /\ ~Expired BY <1>0, <1>1, <2>2 DEF Start, Refused, Goto
  <2>3. CASE d # c BY <1>0, <1>1, <2>3 DEF Start, Refused, Goto
  <2> QED BY <2>1, <2>2, <2>3
<1>2. ASSUME NEW d \in Clients, PatchAwake(d) \/ ScaleUp(d) \/ ScaleUpFails(d)
      PROVE  Patching(c) /\ Met(c)' >= Met(c)
  <2> USE <1>0, <1>2 DEF PatchAwake, ScaleUp, ScaleUpFails, AfterScale, Goto
  <2>1. CASE d = c
    <3>1. \/ pc[c] = "patchCR" /\ pc'[c] = "scaleWeb"
          \/ pc[c] = "scaleWeb" /\ pc'[c] = "scaleTask"
          BY <2>1
    <3> QED BY <3>1
  <2>2. CASE d # c
    <3>1. pc'[c] = pc[c] /\ slow' = slow \ {d} BY <2>2
    <3> QED BY <1>same, <2>2, <3>1
  <2> QED BY <2>1, <2>2
<1>3. ASSUME NEW d \in Clients,
             \/ RunsOutOfRetries(d) \/ FirstGreen(d) \/ SecondNotGreen(d)
             \/ HolderReady(d) \/ TimeOut(d) \/ RewriteFloor(d) \/ FollowerReady(d)
             \/ RewriteRunsOut(d) \/ RequestDies(d)
      PROVE  Patching(c) /\ Met(c)' >= Met(c)
      BY <1>0, <1>3 DEF RunsOutOfRetries, Refused, FirstGreen, SecondNotGreen,
         HolderReady, TimeOut, RewriteFloor, RewriteRunsOut, FollowerReady, Served,
         RequestDies, Goto
<1>4. ASSUME NEW d \in Clients, Need(d) \/ JobEnds(d)
      PROVE  Patching(c) /\ Met(c)' >= Met(c)
      BY <1>same, <1>4 DEF Need, JobEnds
<1>5. CASE \/ WakeUp \/ ReadFloor \/ QueryWork \/ QuietSoFar \/ Extend \/ RecentActivity
           \/ SleepCR \/ SleepScale \/ SleepScaleFails \/ RecordSleep \/ ReaperError
      BY <1>same, <1>5 DEF WakeUp, ReadFloor, QueryWork, QuietSoFar, Extend, RecentActivity,
         SleepCR, SleepScale, SleepScaleFails, RecordSleep, ReaperError
<1>6. CASE \/ OperatorReads \/ OperatorApplies \/ PresenceScale
           \/ \E on \in BOOLEAN : PresencePatch(on)
           \/ \E d \in Deployments : Boot(d)
      BY <1>same, <1>6 DEF OperatorReads, OperatorApplies, PresenceScale, PresencePatch, Boot
<1>7. ~Restart BY DEF Restart
<1>8. CASE UNCHANGED vars BY <1>same, <1>8 DEF vars
<1> QED BY <1>1, <1>2, <1>3, <1>4, <1>5, <1>6, <1>7, <1>8
        DEF Next, Request, Reap, Faults, Presence

LEMMA PatchStep ==
  ASSUME TypeOK, LongEnough, PatchInv, [Next]_vars
  PROVE  PatchInv'
<1> SUFFICES ASSUME NEW c \in Clients, Patching(c)'
             PROVE  /\ lease'.holder = c
                    /\ lease'.left >= MaxStartupWait - (IF Prompt THEN 0 ELSE Met(c)')
    BY DEF PatchInv
<1>0. Met(c) \in 0 .. 3 /\ Met(c)' \in 0 .. 3 BY DEF Met
<1>1. CASE Tick
  <2>1. pc' = pc /\ lease'.holder = lease.holder
        BY <1>1 DEF Tick, TypeOK, LeaseType
  <2>2. Patching(c) /\ Working(c) BY <2>1 DEF Patching, Working
  <2>3. ~Prompt BY <1>1, <2>2 DEF Tick
  <2>4. c \notin slow /\ c \in slow' BY <1>1, <2>2 DEF Tick
  <2>5. Met(c)' = Met(c) + 1 BY <2>1, <2>4 DEF Met
  <2>6. lease'.left \in Int /\ lease'.left >= lease.left - 1 BY <1>1, Ticks
  <2> QED BY <1>0, <2>1, <2>2, <2>3, <2>5, <2>6, Bounds, Numbers DEF PatchInv
<1>2. CASE ~Tick /\ lease'.holder = c /\ lease'.left = MaxStartupWait
      BY <1>0, <1>2, Bounds
<1>3. CASE ~Tick /\ Patching(c) /\ Met(c)' >= Met(c)
  <2>1. lease.holder = c /\ ~Expired BY <1>3, PatchersHold
  <2>2. CASE lease' = lease
        BY <1>0, <1>3, <2>2, Bounds, Numbers DEF PatchInv
  <2>3. ASSUME NEW h \in Clients \cup {Reaper}, Writes(h)
        PROVE  lease'.holder = c /\ lease'.left = MaxStartupWait
        BY <2>1, <2>3 DEF Writes
  <2> QED BY <1>0, <1>3, <2>2, <2>3, LeaseStep, Bounds
<1> QED BY <1>1, <1>2, <1>3, PatchingStep

\* Whoever patches AWX awake holds the Lease, and its window is open: if three
\* patches fit into the startup wait.
THEOREM PatchersHoldTheLease ==
  ASSUME LongEnough
  PROVE  Spec => []OnlyHolderPatches
<1>1. Init => PatchInv BY DEF Init, PatchInv, Patching
<1>2. IInv /\ PatchInv /\ [Next]_vars => PatchInv' BY PatchStep DEF IInv
<1>3. IInv /\ PatchInv => OnlyHolderPatches
      BY PatchersHold DEF IInv, OnlyHolderPatches
<1> QED BY <1>1, <1>2, <1>3, Invariant, PTL DEF Spec
=============================================================================
