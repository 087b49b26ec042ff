------------------------- MODULE ProcessEngineProofs -------------------------
(***************************************************************************)
(* Theorems about ProcessEngine, for every definition and any number of    *)
(* runs and restarts.                                                      *)
(***************************************************************************)
EXTENDS ProcessEngine, FiniteSetTheorems, TLAPS

USE DEF Record, ExecutionStatus, StepStatus

(* The records the operators build are records.                            *)
LEMMA RecordNew ==
  ASSUME NEW st \in ExecutionStatus
  PROVE  NewRecord(st) \in Record
  BY DEF NewRecord

LEMMA RecordUpdates ==
  ASSUME NEW c \in Record, NEW s \in Steps, NEW st \in StepStatus, NEW es \in ExecutionStatus
  PROVE  /\ WithStatus(c, es) \in Record
         /\ WithStep(c, s, st) \in Record
         /\ Resumed(c) \in Record
         /\ Completed(c, s) \in Record
<1>1. WithStatus(c, es) \in Record
  BY DEF WithStatus
<1>2. WithStep(c, s, st) \in Record
  BY DEF WithStep
<1>3. Resumed(c) \in Record
  BY DEF Resumed
<1>4. Completed(c, s) \in Record
  <2> DEFINE n == Cardinality(StepsIn(c, {"completed"}))
  <2>1. n \in Nat
    BY StepsFinite, FS_Subset, FS_CardinalityType DEF StepsIn
  <2>2. Completed(c, s) = [c EXCEPT !.step[s] = "completed", !.doneAt[s] = n + 1]
    BY DEF Completed
  <2>3. n + 1 \in Nat
    BY <2>1
  <2> DEFINE k == n + 1
  <2> HIDE DEF k
  <2>4. [c EXCEPT !.step[s] = "completed", !.doneAt[s] = k] \in Record
    BY <2>3 DEF k
  <2> QED BY <2>2, <2>4 DEF k
<1> QED BY <1>1, <1>2, <1>3, <1>4

(* The shared moves of a run keep the types.                               *)
LEMMA EndRunType ==
  ASSUME RunsTypeOK, NEW r \in Runs, EndRun(r)
  PROVE  RunsTypeOK'
BY RecordNew DEF RunsTypeOK, EndRun, NoRecord, NoTasks, NoTries, TaskState, RunState

LEMMA SpawnType ==
  ASSUME RunsTypeOK, NEW r \in Runs, NEW c \in Record, NEW where \in RunState,
         Spawn(r, c, where), turn' \in Runs \union {Nobody}
  PROVE  RunsTypeOK'
BY DEF RunsTypeOK, Spawn

LEMMA LeaveStepType ==
  ASSUME RunsTypeOK, NEW r \in Runs, NEW s \in Steps, NEW c \in Record,
         NEW left \in SUBSET Steps, LeaveStep(r, s, c, left)
  PROVE  RunsTypeOK'
<1>1. CASE Alone(r) /\ c.status \in {"failed", "cancelled"}
  BY <1>1, EndRunType DEF LeaveStep
<1>2. CASE ~(Alone(r) /\ c.status \in {"failed", "cancelled"})
  <2>1. /\ mem' = [mem EXCEPT ![r] = c]
        /\ task' = [task EXCEPT ![r][s] = "none"]
        /\ pc' = [pc EXCEPT ![r] = "loop"] \/ pc' = pc
        /\ turn' \in {r, Nobody}
        /\ rollback' = [rollback EXCEPT ![r] = left]
        /\ batch' = batch /\ tries' = tries
    BY <1>2, Zenon DEF LeaveStep, HandsOver
  <2> QED BY <2>1 DEF RunsTypeOK, TaskState, RunState
<1> QED BY <1>1, <1>2

LEMMA StepRaisesType ==
  ASSUME RunsTypeOK, NEW r \in Runs, NEW s \in Steps, NEW c \in Record, StepRaises(r, s, c)
  PROVE  RunsTypeOK'
<1>1. CASE Alone(r)
  BY <1>1, EndRunType DEF StepRaises
<1>2. CASE ~Alone(r)
  <2>1. /\ mem' = [mem EXCEPT ![r] = c]
        /\ task' = [task EXCEPT ![r][s] = "none"]
        /\ turn' = Nobody
        /\ UNCHANGED <<pc, batch, tries, rollback>>
    BY <1>2, Zenon DEF StepRaises
  <2> QED BY <2>1 DEF RunsTypeOK, TaskState
<1> QED BY <1>1, <1>2

LEMMA StayInStepType ==
  ASSUME RunsTypeOK, NEW r \in Runs, NEW s \in Steps, NEW c \in Record,
         NEW ts \in TaskState, NEW next \in Runs \union {Nobody}, StayInStep(r, s, ts, c, next),
         tries' \in [Runs -> [Steps -> Nat]], rollback' \in [Runs -> SUBSET Steps]
  PROVE  RunsTypeOK'
BY DEF StayInStep, RunsTypeOK

(* What each group of actions does to the types.                           *)
LEMMA StartType ==
  ASSUME TypeOK, NEW r \in Runs, StartExecution(r) \/ StartInline(r)
  PROVE  TypeOK'
<1>1. NewRecord("pending") \in Record /\ NoRecord \in Record
  BY RecordNew DEF NoRecord
<1>2. CASE StartExecution(r)
  <2>1. RunsTypeOK'
    BY <1>1, <1>2, SpawnType DEF StartExecution, TypeOK, RunsTypeOK, RunState
  <2> QED BY <1>1, <1>2, <2>1 DEF StartExecution, TypeOK, EnvTypeOK, envVars
<1>3. CASE StartInline(r)
  <2>1. RunsTypeOK'
    BY <1>1, <1>3, SpawnType DEF StartInline, TypeOK, RunState
  <2> QED BY <1>1, <1>3, <2>1 DEF StartInline, TypeOK, EnvTypeOK, envVars
<1> QED BY <1>2, <1>3

LEMMA ResumeType ==
  ASSUME TypeOK, NEW r \in Runs, NEW c \in Record, Resume(r, c)
  PROVE  TypeOK'
<1>1. CASE c.status \in {"completed", "cancelled"}
  <2>1. EndRun(r) /\ UNCHANGED <<db, envVars, undone>>
    BY <1>1 DEF Resume
  <2> QED BY <2>1, EndRunType DEF TypeOK, EnvTypeOK, envVars
<1>2. CASE c.status \notin {"completed", "cancelled"}
  <2> DEFINE d == IF c.status = "paused" THEN Resumed(c) ELSE c
  <2>1. d \in Record
    <3>1. CASE Steps = {}
      BY <3>1 DEF Resumed
    <3>2. CASE Steps # {}
      BY <3>2, RecordUpdates
    <3> QED BY <3>1, <3>2
  <2>2. /\ mem' = [mem EXCEPT ![r] = d]
        /\ db' \in {db, d}
        /\ pc' = [pc EXCEPT ![r] = "entering"] /\ turn' = r
        /\ UNCHANGED <<batch, task, tries, rollback, envVars, undone>>
    BY <1>2 DEF Resume
  <2> HIDE DEF d
  <2> QED BY <2>1, <2>2 DEF TypeOK, RunsTypeOK, EnvTypeOK, RunState, envVars
<1> QED BY <1>1, <1>2

LEMMA LoopType ==
  ASSUME TypeOK, NEW r \in Runs,
         \/ EnterRun(r) \/ LoopStops(r) \/ LoopFails(r) \/ LoopCompletes(r)
         \/ LoopSleeps(r) \/ Poll(r) \/ LoopDispatches(r) \/ Gathered(r)
  PROVE  TypeOK'
<1> USE DEF TypeOK
<1>1. \A es \in ExecutionStatus : WithStatus(mem[r], es) \in Record
  BY DEF WithStatus, RunsTypeOK
<1>2. CASE EnterRun(r)
  BY <1>1, <1>2 DEF EnterRun, RunsTypeOK, EnvTypeOK, RunState, envVars
<1>3. CASE LoopStops(r)
  BY <1>3, EndRunType DEF LoopStops, EnvTypeOK, envVars
<1>4. CASE LoopFails(r)
  <2>1. db' \in {db, WithStatus(mem[r], "failed")}
    BY <1>4 DEF LoopFails
  <2>2. RunsTypeOK'
    <3>1. CASE EndRun(r)
      BY <3>1, EndRunType
    <3>2. CASE ~EndRun(r)
      <4>1. /\ mem' = [mem EXCEPT ![r] = WithStatus(mem[r], "failed")]
            /\ pc' = [pc EXCEPT ![r] = "compensating"]
            /\ rollback' = [rollback EXCEPT ![r] = ToCompensate(mem[r])]
            /\ turn' = Nobody
            /\ UNCHANGED <<batch, task, tries>>
        BY <1>4, <3>2, Zenon DEF LoopFails
      <4>2. ToCompensate(mem[r]) \in SUBSET Steps
        BY DEF ToCompensate, StepsIn
      <4> QED BY <1>1, <4>1, <4>2 DEF RunsTypeOK, RunState
    <3> QED BY <3>1, <3>2
  <2> QED BY <1>1, <1>4, <2>1, <2>2 DEF LoopFails, EnvTypeOK, envVars
<1>5. CASE LoopCompletes(r)
  <2>1. db' \in {db, WithStatus(mem[r], "completed")} /\ EndRun(r)
    BY <1>5 DEF LoopCompletes
  <2> QED BY <1>1, <1>5, <2>1, EndRunType DEF LoopCompletes, EnvTypeOK, envVars
<1>6. CASE LoopSleeps(r)
  BY <1>6 DEF LoopSleeps, RunsTypeOK, EnvTypeOK, RunState, envVars
<1>7. CASE Poll(r)
  BY <1>7 DEF Poll, RunsTypeOK, EnvTypeOK, RunState, envVars
<1>8. CASE LoopDispatches(r)
  BY <1>8 DEF LoopDispatches, ReadySteps, NoTries, RunsTypeOK, EnvTypeOK, RunState, TaskState, envVars
<1>9. CASE Gathered(r)
  <2>1. RunsTypeOK'
    <3>1. CASE EndRun(r)
      BY <3>1, EndRunType
    <3>2. CASE ~EndRun(r)
      BY <1>9, <3>2 DEF Gathered, RunsTypeOK, RunState
    <3> QED BY <3>1, <3>2
  <2> QED BY <1>9, <2>1 DEF Gathered, EnvTypeOK, envVars
<1> QED BY <1>2, <1>3, <1>4, <1>5, <1>6, <1>7, <1>8, <1>9

LEMMA StepType ==
  ASSUME TypeOK, NEW r \in Runs, NEW s \in Steps, StepOf(r, s)
  PROVE  TypeOK'
<1> USE DEF TypeOK
<1>1. \A st \in StepStatus, es \in ExecutionStatus :
        /\ mem[r] \in Record
        /\ WithStatus(mem[r], es) \in Record
        /\ WithStep(mem[r], s, st) \in Record
        /\ WithStatus(WithStep(mem[r], s, st), es) \in Record
  <2>1. mem[r] \in Record
    BY DEF RunsTypeOK
  <2> HIDE DEF TypeOK, Record, StepStatus, ExecutionStatus
  <2> TAKE st \in StepStatus, es \in ExecutionStatus
  <2>2. WithStatus(mem[r], es) \in Record /\ WithStep(mem[r], s, st) \in Record
    BY <2>1, RecordUpdates
  <2>3. WithStatus(WithStep(mem[r], s, st), es) \in Record
    BY <2>2, RecordUpdates
  <2> QED BY <2>1, <2>2, <2>3
<1>2. Completed(mem[r], s) \in Record
  BY RecordUpdates DEF RunsTypeOK
<1>3. rollback[r] \in SUBSET Steps /\ ToCompensate(WithStatus(mem[r], "failed")) \in SUBSET Steps
  BY DEF RunsTypeOK, ToCompensate, StepsIn
<1>4. tries \in [Runs -> [Steps -> Nat]] /\ rollback \in [Runs -> SUBSET Steps]
  BY DEF RunsTypeOK
<1>5. CASE SkipStep(r, s)
  <2>1. db' = WithStep(mem[r], s, "skipped")
        /\ LeaveStep(r, s, WithStep(mem[r], s, "skipped"), rollback[r])
        /\ UNCHANGED <<envVars, undone>>
    BY <1>5 DEF SkipStep
  <2>2. RunsTypeOK'
    BY <1>1, <1>3, <2>1, LeaveStepType
  <2> QED BY <1>1, <2>1, <2>2 DEF EnvTypeOK, envVars
<1>6. CASE ExecuteStep(r, s)
  <2>1. db' = WithStep(mem[r], s, "running")
        /\ StayInStep(r, s, "executing", WithStep(mem[r], s, "running"), HandsOver(r, s))
        /\ tries' = [tries EXCEPT ![r][s] = 1]
        /\ UNCHANGED <<rollback, envVars, undone>>
    BY <1>6 DEF ExecuteStep
  <2>2. HandsOver(r, s) \in Runs \union {Nobody}
    BY Zenon DEF HandsOver
  <2>3. tries' \in [Runs -> [Steps -> Nat]]
    BY <1>4, <2>1
  <2>4. RunsTypeOK'
    BY <1>1, <1>4, <2>1, <2>2, <2>3, StayInStepType DEF TaskState
  <2> QED BY <1>1, <2>1, <2>4 DEF EnvTypeOK, envVars
<1>7. CASE AgentReturns(r, s) \/ ApprovalReturns(r, s)
  <2>1. PICK result \in Result : Returns(r, s, result)
    BY <1>7 DEF AgentReturns, ApprovalReturns, Result
  <2>2. approval' \in [Steps -> ApprovalStatus]
    BY <1>7 DEF AgentReturns, ApprovalReturns, EnvTypeOK, ApprovalStatus
  <2>3. RunsTypeOK'
    BY <2>1 DEF Returns, RunsTypeOK, TaskState
  <2> QED BY <2>1, <2>2, <2>3 DEF Returns, EnvTypeOK
<1>8. CASE StepSucceeds(r, s)
  <2>1. db' = Completed(mem[r], s) /\ LeaveStep(r, s, Completed(mem[r], s), rollback[r])
        /\ UNCHANGED <<envVars, undone>>
    BY <1>8 DEF StepSucceeds
  <2>2. RunsTypeOK'
    BY <1>2, <1>3, <2>1, LeaveStepType
  <2> QED BY <1>2, <2>1, <2>2 DEF EnvTypeOK, envVars
<1>9. CASE StepWaits(r, s)
  <2> DEFINE c == WithStep(mem[r], s, "waiting_approval")
  <2> DEFINE d == WithStatus(c, "paused")
  <2>1. c \in Record /\ d \in Record
    BY <1>1
  <2>2. /\ (db' = d /\ LeaveStep(r, s, d, rollback[r])) \/ (db' = db /\ StepRaises(r, s, c))
        /\ UNCHANGED <<envVars, undone>>
    BY <1>9 DEF StepWaits
  <2> HIDE DEF c, d
  <2>3. RunsTypeOK'
    BY <1>3, <2>1, <2>2, LeaveStepType, StepRaisesType
  <2> QED BY <2>1, <2>2, <2>3 DEF EnvTypeOK, envVars
<1>10. CASE StepRetries(r, s)
  <2>1. db' = mem[r] /\ StayInStep(r, s, "backoff", mem[r], Nobody)
        /\ UNCHANGED <<tries, rollback, envVars, undone>>
    BY <1>10 DEF StepRetries
  <2>2. RunsTypeOK'
    BY <1>1, <1>4, <2>1, StayInStepType DEF TaskState
  <2> QED BY <1>1, <2>1, <2>2 DEF EnvTypeOK, envVars
<1>11. CASE NextAttempt(r, s)
  <2>1. StayInStep(r, s, "executing", mem[r], Nobody)
        /\ tries' = [tries EXCEPT ![r][s] = @ + 1]
        /\ UNCHANGED <<db, rollback, envVars, undone>>
    BY <1>11 DEF NextAttempt
  <2>2. tries' \in [Runs -> [Steps -> Nat]]
    BY <1>4, <2>1
  <2>3. RunsTypeOK'
    BY <1>1, <1>4, <2>1, <2>2, StayInStepType DEF TaskState
  <2> QED BY <2>1, <2>3 DEF EnvTypeOK, envVars
<1>12. CASE StepFails(r, s)
  <2> DEFINE skipped == WithStep(mem[r], s, "skipped")
  <2> DEFINE failed == WithStep(mem[r], s, "failed")
  <2>1. skipped \in Record /\ failed \in Record
    BY <1>1
  <2>2. /\ \/ db' = skipped /\ LeaveStep(r, s, skipped, rollback[r])
           \/ db' = failed /\ LeaveStep(r, s, failed, rollback[r])
           \/ db' = failed /\ StayInStep(r, s, "failing", failed, r)
                          /\ UNCHANGED <<tries, rollback>>
        /\ UNCHANGED <<envVars, undone>>
    BY <1>12 DEF StepFails
  <2> HIDE DEF skipped, failed
  <2>3. RunsTypeOK'
    BY <1>3, <1>4, <2>1, <2>2, LeaveStepType, StayInStepType DEF TaskState
  <2> QED BY <2>1, <2>2, <2>3 DEF EnvTypeOK, envVars
<1>13. CASE FailExecution(r, s)
  <2> DEFINE c == WithStatus(mem[r], "failed")
  <2>1. c \in Record /\ mem[r] \in Record /\ ToCompensate(c) \in SUBSET Steps
    BY <1>1, <1>3
  <2>2. /\ \/ db' = db /\ StepRaises(r, s, mem[r])
           \/ db' = c /\ LeaveStep(r, s, c, rollback[r])
           \/ db' = c /\ StayInStep(r, s, "compensating", c, Nobody)
                     /\ tries' = tries /\ rollback' = [rollback EXCEPT ![r] = ToCompensate(c)]
        /\ UNCHANGED <<envVars, undone>>
    BY <1>13 DEF FailExecution
  <2> HIDE DEF c
  <2>3. CASE StepRaises(r, s, mem[r])
    BY <2>1, <2>2, <2>3, StepRaisesType DEF EnvTypeOK, envVars
  <2>4. CASE LeaveStep(r, s, c, rollback[r])
    BY <1>3, <2>1, <2>2, <2>4, LeaveStepType DEF EnvTypeOK, envVars
  <2>5. CASE StayInStep(r, s, "compensating", c, Nobody) /\ tries' = tries
             /\ rollback' = [rollback EXCEPT ![r] = ToCompensate(c)]
    <3>1. RunsTypeOK'
      BY <1>4, <2>1, <2>5, StayInStepType DEF TaskState
    <3> QED BY <2>1, <2>2, <3>1 DEF EnvTypeOK, envVars
  <2> QED BY <2>2, <2>3, <2>4, <2>5
<1>14. CASE RunCompensation(r, s)
  <2>1. undone' = Append(undone, s) /\ UNCHANGED <<db, envVars>>
    BY <1>14 DEF RunCompensation
  <2>2. \/ /\ rollback' = [rollback EXCEPT ![r] = @ \ {s}]
           /\ UNCHANGED <<mem, pc, batch, task, tries, turn>>
        \/ EndRun(r)
        \/ \E q \in Steps : LeaveStep(r, q, mem[r], {})
    BY <1>14 DEF RunCompensation
  <2>3. ASSUME rollback' = [rollback EXCEPT ![r] = @ \ {s}],
               UNCHANGED <<mem, pc, batch, task, tries, turn>>
        PROVE  RunsTypeOK'
    BY <2>3 DEF RunsTypeOK
  <2>4. ASSUME NEW q \in Steps, LeaveStep(r, q, mem[r], {})
        PROVE  RunsTypeOK'
    <3>1. mem[r] \in Record /\ {} \in SUBSET Steps
      BY <1>1
    <3> QED BY <2>4, <3>1, LeaveStepType
  <2>5. RunsTypeOK'
    BY <2>2, <2>3, <2>4, EndRunType, Zenon
  <2> QED BY <2>1, <2>5 DEF EnvTypeOK, envVars
<1> QED
  BY <1>5, <1>6, <1>7, <1>8, <1>9, <1>10, <1>11, <1>12, <1>13, <1>14 DEF StepOf

LEMMA EnvironmentType ==
  ASSUME TypeOK,
         \/ CancelExecution
         \/ \E s \in Approvals : DecideOn(s)
         \/ Crash
         \/ Recover
  PROVE  TypeOK'
<1> USE DEF TypeOK
<1>1. NoRecord \in Record
  BY RecordNew DEF NoRecord
<1>2. \A es \in ExecutionStatus : WithStatus(db, es) \in Record
  BY DEF WithStatus
<1>3. ASSUME CancelExecution
      PROVE  TypeOK'
  BY <1>2, <1>3 DEF CancelExecution, runVars, envVars, RunsTypeOK, EnvTypeOK
<1>4. ASSUME NEW s \in Approvals, NEW decision \in {"approved", "rejected"}, NEW r \in Runs,
             Decide(s, decision, r)
      PROVE  TypeOK'
  <2>1. RunsTypeOK'
    BY <1>4, SpawnType DEF Decide, RunsTypeOK, RunState
  <2> QED BY <1>4, <2>1 DEF Decide, EnvTypeOK, ApprovalStatus
<1>5. ASSUME Crash
      PROVE  TypeOK'
  <2>1. RunsTypeOK'
    BY <1>1, <1>5 DEF Crash, RunsTypeOK, RunState, TaskState, NoTasks, NoTries
  <2>2. EnvTypeOK'
    <3>1. crashes' \in 0 .. MaxCrashes
      BY <1>5, CrashesBounded DEF Crash, EnvTypeOK
    <3>2. approval' \in [Steps -> ApprovalStatus]
      BY <1>5 DEF Crash, ApprovalStatus
    <3>3. up' = FALSE /\ report' = report
      BY <1>5 DEF Crash
    <3> QED BY <3>1, <3>2, <3>3 DEF EnvTypeOK
  <2> QED BY <1>5, <2>1, <2>2 DEF Crash
<1>6. ASSUME RecoverSkips \/ RecoverMarksFailed
      PROVE  TypeOK'
  BY <1>2, <1>6 DEF RecoverSkips, RecoverMarksFailed, Recovers, RunsTypeOK, EnvTypeOK
<1>7. ASSUME NEW r \in Runs, RecoverResumes(r)
      PROVE  TypeOK'
  <2>1. RunsTypeOK'
    BY <1>7, SpawnType DEF RecoverResumes, Recovers, RunsTypeOK, RunState
  <2> QED BY <1>7, <2>1 DEF RecoverResumes, Recovers, EnvTypeOK
<1>8. ASSUME NEW r \in Runs, NEW s \in Steps, RecoverRetriesStep(r, s)
      PROVE  TypeOK'
  <2>1. WithStep(db, s, "pending") \in Record
    BY RecordUpdates
  <2>2. RunsTypeOK'
    BY <1>8, <2>1, SpawnType DEF RecoverRetriesStep, Recovers, RunsTypeOK, RunState
  <2> QED BY <1>8, <2>1, <2>2 DEF RecoverRetriesStep, Recovers, EnvTypeOK
<1> QED
  BY <1>3, <1>4, <1>5, <1>6, <1>7, <1>8 DEF DecideOn, Recover

(* Every variable keeps its type, whatever the definition, the number of   *)
(* runs and the number of restarts.                                        *)
THEOREM TypeCorrect == Spec => []TypeOK
<1>1. Init => TypeOK
  BY RecordNew, CrashesBounded
  DEF Init, TypeOK, RunsTypeOK, EnvTypeOK, NoRecord, NoTasks, NoTries, RunState, TaskState, ApprovalStatus
<1>2. TypeOK /\ [Next]_vars => TypeOK'
  <2> SUFFICES ASSUME TypeOK, [Next]_vars PROVE TypeOK'
    OBVIOUS
  <2>1. CASE Start
    BY <2>1, StartType DEF Start
  <2>2. ASSUME NEW r \in Runs, RunStep(r)
        PROVE  TypeOK'
    <3>1. CASE RunExecution(r) \/ ResumeTask(r)
      <4>1. db \in Record /\ mem[r] \in Record
        BY DEF TypeOK, RunsTypeOK
      <4> QED BY <3>1, <4>1, ResumeType DEF RunExecution, ResumeTask
    <3>2. CASE \/ EnterRun(r) \/ LoopStops(r) \/ LoopFails(r) \/ LoopCompletes(r)
               \/ LoopSleeps(r) \/ Poll(r) \/ LoopDispatches(r) \/ Gathered(r)
      BY <3>2, LoopType
    <3>3. CASE \E s \in Steps : StepOf(r, s)
      BY <3>3, StepType
    <3> QED BY <2>2, <3>1, <3>2, <3>3 DEF RunStep
  <2>3. CASE CancelExecution \/ (\E s \in Approvals : DecideOn(s)) \/ Crash \/ Recover
    BY <2>3, EnvironmentType
  <2>4. CASE UNCHANGED vars
    BY <2>4 DEF vars, runVars, envVars, TypeOK, RunsTypeOK, EnvTypeOK
  <2> QED BY <2>1, <2>2, <2>3, <2>4 DEF Next
<1> QED BY <1>1, <1>2, PTL DEF Spec

-----------------------------------------------------------------------------
(* How changes of a record keep it in order.                               *)

LEMMA OrderNew ==
  ASSUME NEW st \in ExecutionStatus \ {"completed"}
  PROVE  CopyOK(NewRecord(st))
BY DepsAreSteps DEF NewRecord, CopyOK, InOrder

LEMMA OrderStatus ==
  ASSUME NEW c \in Record, CopyOK(c), NEW st \in ExecutionStatus,
         st = "completed" => IsComplete(c)
  PROVE  CopyOK(WithStatus(c, st))
BY DEF WithStatus, CopyOK, InOrder, DepsMet, IsComplete

(* The status of one step changes; it was not satisfied before.            *)
LEMMA OrderChange ==
  ASSUME NEW c \in Record, CopyOK(c), NEW d \in Record, NEW s \in Steps,
         \A q \in Steps \ {s} : d.step[q] = c.step[q],
         c.step[s] \notin Satisfied,
         d.step[s] # "pending" => DepsMet(c, s)
  PROVE  InOrder(d)
BY DepsAreSteps DEF CopyOK, InOrder, DepsMet

LEMMA OrderResumed ==
  ASSUME NEW c \in Record, CopyOK(c)
  PROVE  CopyOK(Resumed(c))
<1>1. Resumed(c).status = "running"
  BY DEF Resumed
<1>2. \A q \in Steps :
        Resumed(c).step[q] = IF c.step[q] = "waiting_approval" THEN "pending" ELSE c.step[q]
  BY DEF Resumed
<1>3. InOrder(Resumed(c))
  BY <1>2, DepsAreSteps DEF CopyOK, InOrder, DepsMet, Satisfied
<1> QED BY <1>1, <1>3 DEF CopyOK

(* The new record differs from the old one at s only.                      *)
LEMMA StepChanges ==
  ASSUME NEW c \in Record, NEW s \in Steps, NEW st \in StepStatus, NEW es \in ExecutionStatus
  PROVE  /\ WithStep(c, s, st).status = c.status /\ WithStep(c, s, st).step[s] = st
         /\ \A q \in Steps \ {s} : WithStep(c, s, st).step[q] = c.step[q]
         /\ Completed(c, s).status = c.status /\ Completed(c, s).step[s] = "completed"
         /\ \A q \in Steps \ {s} : Completed(c, s).step[q] = c.step[q]
         /\ WithStatus(c, es).status = es /\ WithStatus(c, es).step = c.step
<1>1. /\ WithStep(c, s, st).status = c.status /\ WithStep(c, s, st).step[s] = st
      /\ \A q \in Steps \ {s} : WithStep(c, s, st).step[q] = c.step[q]
  BY DEF WithStep
<1>2. /\ Completed(c, s).status = c.status /\ Completed(c, s).step[s] = "completed"
      /\ \A q \in Steps \ {s} : Completed(c, s).step[q] = c.step[q]
  <2> DEFINE n == Cardinality(StepsIn(c, {"completed"})) + 1
  <2>1. Completed(c, s) = [c EXCEPT !.step[s] = "completed", !.doneAt[s] = n]
    BY DEF Completed
  <2> HIDE DEF n
  <2> QED BY <2>1
<1>3. WithStatus(c, es).status = es /\ WithStatus(c, es).step = c.step
  BY DEF WithStatus
<1> QED BY <1>1, <1>2, <1>3

(* A run moves and the others stay where they are.                         *)
LEMMA OneRunMoves ==
  ASSUME Consistent, NEW r \in Runs, CopyOK(db'),
         RunOK(mem[r]', pc[r]', task[r]'),
         \A q \in Runs \ {r} : mem'[q] = mem[q] /\ pc'[q] = pc[q] /\ task'[q] = task[q]
  PROVE  Consistent'
<1>1. ASSUME NEW q \in Runs
      PROVE  RunOK(mem'[q], pc'[q], task'[q])
  <2>1. CASE q = r
    BY <2>1
  <2>2. CASE q # r
    BY <2>2 DEF Consistent
  <2> QED BY <2>1, <2>2
<1> QED BY <1>1 DEF Consistent

LEMMA RunOKIdle == RunOK(NoRecord, "idle", NoTasks)
<1>1. CopyOK(NoRecord)
  BY OrderNew DEF NoRecord
<1> QED BY <1>1 DEF RunOK, TaskOK, NoTasks, Result

LEMMA EndRunConsistent ==
  ASSUME TypeOK, Consistent, NEW r \in Runs, EndRun(r), CopyOK(db')
  PROVE  Consistent'
<1>1. /\ mem'[r] = NoRecord /\ pc'[r] = "idle" /\ task'[r] = NoTasks
      /\ \A q \in Runs \ {r} : mem'[q] = mem[q] /\ pc'[q] = pc[q] /\ task'[q] = task[q]
  BY DEF EndRun, TypeOK, RunsTypeOK
<1> QED BY <1>1, RunOKIdle, OneRunMoves

(* The coroutine of step s changes its own step in the copy of its run,    *)
(* and the status of the copy among those that a run acts on.              *)
Advances(r, s, c) ==
  /\ task[r][s] # "none"
  /\ mem[r].step[s] \notin Satisfied
  /\ \A q \in Steps \ {s} : c.step[q] = mem[r].step[q]
  /\ c.step[s] # "pending" => DepsMet(mem[r], s)
  /\ c.status \notin {"completed", "cancelled"}

LEMMA AdvanceConsistent ==
  ASSUME TypeOK, Consistent, NEW r \in Runs, NEW s \in Steps, NEW c \in Record,
         Advances(r, s, c), NEW ts \in TaskState, NEW where \in {pc[r], "loop"},
         mem' = [mem EXCEPT ![r] = c], task' = [task EXCEPT ![r][s] = ts],
         pc' = [pc EXCEPT ![r] = where], TaskOK(c, where, s, ts), db' \in {db, c}
  PROVE  Consistent'
<1>1. /\ mem[r] \in Record /\ task[r] \in [Steps -> TaskState]
      /\ RunOK(mem[r], pc[r], task[r]) /\ CopyOK(db)
  BY DEF TypeOK, RunsTypeOK, Consistent
<1>2. CopyOK(c)
  <2>1. InOrder(c)
    BY <1>1, OrderChange DEF Advances, RunOK
  <2> QED BY <2>1 DEF CopyOK, Advances
<1>3. ASSUME NEW q \in Steps
      PROVE  TaskOK(c, where, q, task'[r][q])
  <2>1. CASE q = s
    <3>1. task'[r][s] = ts
      BY <1>1 DEF TypeOK, RunsTypeOK
    <3> QED BY <2>1, <3>1
  <2>2. CASE q # s
    <3>1. task'[r][q] = task[r][q] /\ TaskOK(mem[r], pc[r], q, task[r][q])
      BY <1>1, <2>2 DEF TypeOK, RunsTypeOK, RunOK
    <3>2. c.step[q] = mem[r].step[q]
      BY <2>2 DEF Advances
    <3>3. IsReady(mem[r], q) => IsReady(c, q)
      BY <3>2, DepsAreSteps DEF IsReady, Advances
    <3> QED BY <3>1, <3>2, <3>3 DEF TaskOK
  <2> QED BY <2>1, <2>2
<1>4. RunOK(c, where, task'[r])
  BY <1>2, <1>3 DEF RunOK, Advances
<1>5. /\ mem'[r] = c /\ pc'[r] = where
      /\ \A q \in Runs \ {r} : mem'[q] = mem[q] /\ pc'[q] = pc[q] /\ task'[q] = task[q]
  BY DEF TypeOK, RunsTypeOK
<1> QED BY <1>1, <1>2, <1>4, <1>5, OneRunMoves

LEMMA NoTaskOK ==
  ASSUME NEW c, NEW where, NEW s
  PROVE  TaskOK(c, where, s, "none")
BY DEF TaskOK, Result

LEMMA LeaveStepConsistent ==
  ASSUME TypeOK, Consistent, NEW r \in Runs, NEW s \in Steps, NEW c \in Record, NEW left,
         Advances(r, s, c), LeaveStep(r, s, c, left), db' \in {db, c}
  PROVE  Consistent'
<1>1. CASE Alone(r) /\ c.status \in {"failed", "cancelled"}
  <2>1. CopyOK(db) /\ mem[r] \in Record /\ CopyOK(mem[r])
    BY DEF Consistent, RunOK, TypeOK, RunsTypeOK
  <2>2. InOrder(c)
    BY <2>1, OrderChange DEF Advances
  <2>3. CopyOK(c)
    BY <2>2 DEF CopyOK, Advances
  <2> QED BY <1>1, <2>1, <2>3, EndRunConsistent DEF LeaveStep
<1>2. CASE ~(Alone(r) /\ c.status \in {"failed", "cancelled"})
  <2>1. /\ mem' = [mem EXCEPT ![r] = c]
        /\ task' = [task EXCEPT ![r][s] = "none"]
        /\ pc' = [pc EXCEPT ![r] = "loop"] \/ pc' = pc
    BY <1>2, Zenon DEF LeaveStep
  <2>2. pc = [pc EXCEPT ![r] = pc[r]]
    BY DEF TypeOK, RunsTypeOK
  <2>3. PICK where \in {pc[r], "loop"} : pc' = [pc EXCEPT ![r] = where]
    BY <2>1, <2>2
  <2> QED BY <2>1, <2>3, NoTaskOK, AdvanceConsistent DEF TaskState
<1> QED BY <1>1, <1>2

LEMMA StayInStepConsistent ==
  ASSUME TypeOK, Consistent, NEW r \in Runs, NEW s \in Steps, NEW c \in Record, NEW next,
         NEW ts \in TaskState, Advances(r, s, c), StayInStep(r, s, ts, c, next),
         TaskOK(c, pc[r], s, ts), db' \in {db, c}
  PROVE  Consistent'
<1>1. pc' = [pc EXCEPT ![r] = pc[r]]
  BY DEF StayInStep, TypeOK, RunsTypeOK
<1> QED BY <1>1, AdvanceConsistent DEF StayInStep

LEMMA StepRaisesConsistent ==
  ASSUME TypeOK, Consistent, NEW r \in Runs, NEW s \in Steps, NEW c \in Record,
         Advances(r, s, c), StepRaises(r, s, c), db' = db
  PROVE  Consistent'
<1>1. CASE Alone(r)
  BY <1>1, EndRunConsistent DEF StepRaises, Consistent
<1>2. CASE ~Alone(r)
  <2>1. /\ mem' = [mem EXCEPT ![r] = c] /\ task' = [task EXCEPT ![r][s] = "none"]
        /\ pc' = [pc EXCEPT ![r] = pc[r]]
    BY <1>2 DEF StepRaises, TypeOK, RunsTypeOK
  <2> QED BY <2>1, NoTaskOK, AdvanceConsistent DEF TaskState
<1> QED BY <1>1, <1>2

(* What a run knows of a step it has begun.                                *)
LEMMA TaskFacts ==
  ASSUME TypeOK, Consistent, NEW r \in Runs, NEW s \in Steps, task[r][s] # "none"
  PROVE  /\ mem[r] \in Record /\ CopyOK(mem[r])
         /\ mem[r].status \notin {"completed", "cancelled"}
         /\ DepsMet(mem[r], s)
         /\ mem[r].step[s] \notin Satisfied
         /\ TaskOK(mem[r], pc[r], s, task[r][s])
<1>1. mem[r] \in Record /\ task[r][s] \in TaskState
  BY DEF TypeOK, RunsTypeOK
<1>2. /\ CopyOK(mem[r]) /\ TaskOK(mem[r], pc[r], s, task[r][s])
      /\ mem[r].status \notin {"completed", "cancelled"}
  BY DEF Consistent, RunOK, TaskOK
<1>3. mem[r].step[s] \in {"pending", "running", "failed"}
  BY <1>1, <1>2 DEF TaskOK, TaskState, IsReady
<1>4. DepsMet(mem[r], s)
  BY <1>1, <1>2 DEF TaskOK, TaskState, IsReady, DepsMet, CopyOK, InOrder
<1> QED BY <1>1, <1>2, <1>3, <1>4 DEF Satisfied

LEMMA StepConsistent ==
  ASSUME TypeOK, Consistent, NEW r \in Runs, NEW s \in Steps, StepOf(r, s)
  PROVE  Consistent'
<1>1. mem[r] \in Record /\ CopyOK(mem[r]) /\ CopyOK(db)
  BY DEF TypeOK, RunsTypeOK, Consistent, RunOK
<1>2. \A st \in StepStatus : WithStep(mem[r], s, st) \in Record
  BY <1>1, RecordUpdates
<1>3. ASSUME NEW st \in StepStatus, task[r][s] # "none"
      PROVE  Advances(r, s, WithStep(mem[r], s, st))
  BY <1>1, <1>3, TaskFacts, StepChanges DEF Advances
<1>4. CASE SkipStep(r, s)
  BY <1>2, <1>3, <1>4, LeaveStepConsistent DEF SkipStep, BeginStep
<1>5. CASE ExecuteStep(r, s)
  <2>1. TaskOK(WithStep(mem[r], s, "running"), pc[r], s, "executing")
    BY <1>1, <1>5, StepChanges DEF ExecuteStep, BeginStep, TaskOK
  <2> QED BY <1>2, <1>3, <1>5, <2>1, StayInStepConsistent DEF ExecuteStep, BeginStep, TaskState
<1>6. CASE AgentReturns(r, s) \/ ApprovalReturns(r, s)
  <2>1. PICK result \in Result : Returns(r, s, result)
    BY <1>6 DEF AgentReturns, ApprovalReturns, Result
  <2>2. /\ mem' = [mem EXCEPT ![r] = mem[r]] /\ task' = [task EXCEPT ![r][s] = result]
        /\ pc' = [pc EXCEPT ![r] = pc[r]] /\ db' = db /\ task[r][s] = "executing"
    BY <2>1 DEF Returns, TypeOK, RunsTypeOK
  <2>3. Advances(r, s, mem[r]) /\ TaskOK(mem[r], pc[r], s, result)
    BY <2>2, TaskFacts DEF Advances, TaskOK, Result
  <2> QED BY <1>1, <2>2, <2>3, AdvanceConsistent DEF TaskState
<1>7. CASE StepSucceeds(r, s)
  <2>1. Completed(mem[r], s) \in Record
    BY <1>1, RecordUpdates
  <2>2. Advances(r, s, Completed(mem[r], s))
    BY <1>1, <1>7, TaskFacts, StepChanges DEF StepSucceeds, Got, Advances
  <2> QED BY <1>7, <2>1, <2>2, LeaveStepConsistent DEF StepSucceeds
<1>8. CASE StepWaits(r, s)
  <2> DEFINE c == WithStep(mem[r], s, "waiting_approval")
  <2> DEFINE d == WithStatus(c, "paused")
  <2>1. task[r][s] # "none"
    BY <1>8 DEF StepWaits, Got
  <2>2. c \in Record /\ d \in Record /\ Advances(r, s, c)
    BY <1>2, <1>3, <2>1, RecordUpdates
  <2>4. (db' = d /\ LeaveStep(r, s, d, rollback[r])) \/ (db' = db /\ StepRaises(r, s, c))
    BY <1>8 DEF StepWaits
  <2> HIDE DEF c
  <2>5. d.step = c.step /\ d.status = "paused"
    BY <2>2, StepChanges
  <2> HIDE DEF d
  <2>3. Advances(r, s, d)
    BY <2>2, <2>5 DEF Advances
  <2> QED BY <2>2, <2>3, <2>4, LeaveStepConsistent, StepRaisesConsistent
<1>9. ASSUME StepRetries(r, s) \/ NextAttempt(r, s)
      PROVE  Consistent'
  <2>1. PICK ts \in {"backoff", "executing"} :
          StayInStep(r, s, ts, mem[r], Nobody) /\ db' \in {db, mem[r]}
    BY <1>9 DEF StepRetries, NextAttempt
  <2>2. task[r][s] \in {"error", "backoff"}
    BY <1>9 DEF StepRetries, NextAttempt, Got
  <2>3. Advances(r, s, mem[r]) /\ TaskOK(mem[r], pc[r], s, ts)
    BY <2>2, TaskFacts DEF Advances, TaskOK, Result
  <2> QED BY <1>1, <2>1, <2>3, StayInStepConsistent DEF TaskState
<1>10. CASE StepFails(r, s)
  <2> DEFINE skipped == WithStep(mem[r], s, "skipped")
  <2> DEFINE failed == WithStep(mem[r], s, "failed")
  <2>1. task[r][s] # "none"
    BY <1>10 DEF StepFails, GivesUp, Got
  <2>2. /\ skipped \in Record /\ Advances(r, s, skipped)
        /\ failed \in Record /\ Advances(r, s, failed)
    BY <1>2, <1>3, <2>1
  <2>3. TaskOK(failed, pc[r], s, "failing")
    BY <1>1, <2>1, StepChanges, TaskFacts DEF TaskOK, Result
  <2>4. \/ db' = skipped /\ LeaveStep(r, s, skipped, rollback[r])
        \/ db' = failed /\ LeaveStep(r, s, failed, rollback[r])
        \/ db' = failed /\ StayInStep(r, s, "failing", failed, r)
    BY <1>10 DEF StepFails
  <2> HIDE DEF skipped, failed
  <2> QED BY <2>2, <2>3, <2>4, LeaveStepConsistent, StayInStepConsistent DEF TaskState
<1>11. CASE FailExecution(r, s)
  <2> DEFINE c == WithStatus(mem[r], "failed")
  <2>1. task[r][s] = "failing"
    BY <1>11 DEF FailExecution
  <2>2. c \in Record /\ c.status = "failed" /\ c.step = mem[r].step
    BY <1>1, StepChanges DEF WithStatus
  <2>3. Advances(r, s, mem[r])
    BY <2>1, TaskFacts DEF Advances
  <2>4. Advances(r, s, c)
    BY <2>2, <2>3 DEF Advances
  <2>5. TaskOK(c, pc[r], s, "compensating")
    BY <2>1, <2>2, TaskFacts DEF TaskOK, Result
  <2>6. \/ db' = db /\ StepRaises(r, s, mem[r])
        \/ db' = c /\ LeaveStep(r, s, c, rollback[r])
        \/ db' = c /\ StayInStep(r, s, "compensating", c, Nobody)
    BY <1>11 DEF FailExecution
  <2> HIDE DEF c
  <2>7. CASE db' = db /\ StepRaises(r, s, mem[r])
    BY <1>1, <2>3, <2>7, StepRaisesConsistent
  <2>8. CASE db' = c /\ LeaveStep(r, s, c, rollback[r])
    BY <2>2, <2>4, <2>8, LeaveStepConsistent
  <2>9. CASE db' = c /\ StayInStep(r, s, "compensating", c, Nobody)
    BY <2>2, <2>4, <2>5, <2>9, StayInStepConsistent DEF TaskState
  <2> QED BY <2>6, <2>7, <2>8, <2>9
<1>12. CASE RunCompensation(r, s)
  <2>1. db' = db
    BY <1>12 DEF RunCompensation
  <2>2. CASE UNCHANGED <<mem, pc, task>>
    BY <2>1, <2>2 DEF Consistent
  <2>3. CASE EndRun(r)
    BY <1>1, <2>1, <2>3, EndRunConsistent
  <2>4. ASSUME NEW q \in Steps, task[r][q] = "compensating", LeaveStep(r, q, mem[r], {})
        PROVE  Consistent'
    <3>1. Advances(r, q, mem[r])
      BY <2>4, TaskFacts DEF Advances
    <3> QED BY <1>1, <2>1, <2>4, <3>1, LeaveStepConsistent
  <2> QED BY <1>12, <2>2, <2>3, <2>4 DEF RunCompensation
<1> QED
  BY <1>4, <1>5, <1>6, <1>7, <1>8, <1>9, <1>10, <1>11, <1>12 DEF StepOf

(* A run outside its loop has no step under way.                           *)
LEMMA NoTasksOutside ==
  ASSUME Consistent, NEW r \in Runs, pc[r] \in {"idle", "scheduled", "resuming", "entering"},
         NEW s \in Steps
  PROVE  task[r][s] = "none"
BY DEF Consistent, RunOK, TaskOK

LEMMA SpawnConsistent ==
  ASSUME TypeOK, Consistent, NEW r \in Runs, NEW c \in Record, NEW where, Spawn(r, c, where),
         CopyOK(c), CopyOK(db'),
         where \in {"scheduled", "resuming"} \/ c.status \notin {"completed", "cancelled"}
  PROVE  Consistent'
<1>1. /\ mem'[r] = c /\ pc'[r] = where /\ task' = task
      /\ \A q \in Runs \ {r} : mem'[q] = mem[q] /\ pc'[q] = pc[q] /\ task'[q] = task[q]
  BY DEF Spawn, TypeOK, RunsTypeOK
<1>2. \A s \in Steps : TaskOK(c, where, s, task[r][s])
  BY NoTaskOK, NoTasksOutside DEF Spawn
<1>3. RunOK(c, where, task[r])
  BY <1>2 DEF RunOK
<1> QED BY <1>1, <1>3, OneRunMoves

LEMMA ResumeConsistent ==
  ASSUME TypeOK, Consistent, NEW r \in Runs, NEW c \in Record, CopyOK(c), Resume(r, c),
         pc[r] \in {"scheduled", "resuming"}
  PROVE  Consistent'
<1>1. CopyOK(db)
  BY DEF Consistent
<1>2. CASE c.status \in {"completed", "cancelled"}
  BY <1>1, <1>2, EndRunConsistent DEF Resume
<1>3. CASE c.status \notin {"completed", "cancelled"}
  <2> DEFINE d == IF c.status = "paused" THEN Resumed(c) ELSE c
  <2>1. CopyOK(d) /\ d.status \notin {"completed", "cancelled"}
    BY <1>3, OrderResumed DEF Resumed
  <2>2. /\ mem' = [mem EXCEPT ![r] = d] /\ pc' = [pc EXCEPT ![r] = "entering"]
        /\ task' = task /\ db' \in {db, d}
    BY <1>3 DEF Resume
  <2> HIDE DEF d
  <2>3. \A s \in Steps : TaskOK(d, "entering", s, task[r][s])
    BY NoTaskOK, NoTasksOutside
  <2>4. RunOK(d, "entering", task[r])
    BY <2>1, <2>3 DEF RunOK
  <2>5. /\ mem'[r] = d /\ pc'[r] = "entering"
        /\ \A q \in Runs \ {r} : mem'[q] = mem[q] /\ pc'[q] = pc[q] /\ task'[q] = task[q]
    BY <2>2 DEF TypeOK, RunsTypeOK
  <2> QED BY <1>1, <2>1, <2>2, <2>4, <2>5, OneRunMoves
<1> QED BY <1>2, <1>3

(* A run moves within its loop, and at most the status of its copy changes.*)
LEMMA StatusMoves ==
  ASSUME TypeOK, Consistent, NEW r \in Runs, NEW where, NEW st \in ExecutionStatus,
         pc[r] \notin {"idle", "scheduled", "resuming"},
         st \notin {"completed", "cancelled"},
         mem' \in {mem, [mem EXCEPT ![r] = WithStatus(mem[r], st)]},
         pc' = [pc EXCEPT ![r] = where], task' = task,
         pc[r] = "entering" \/ where \in {"loop", "sleeping", "steps", "compensating"},
         db' \in {db, WithStatus(mem[r], st)}
  PROVE  Consistent'
<1>1. /\ mem[r] \in Record /\ CopyOK(mem[r]) /\ CopyOK(db)
      /\ mem[r].status \notin {"completed", "cancelled"}
      /\ \A s \in Steps : TaskOK(mem[r], pc[r], s, task[r][s])
  BY DEF TypeOK, RunsTypeOK, Consistent, RunOK
<1>2. CopyOK(WithStatus(mem[r], st))
  BY <1>1, OrderStatus
<1>3. WithStatus(mem[r], st).status = st /\ WithStatus(mem[r], st).step = mem[r].step
  BY <1>1 DEF WithStatus
<1>4. mem'[r] \in {mem[r], WithStatus(mem[r], st)}
  BY DEF TypeOK, RunsTypeOK
<1>5. ASSUME NEW s \in Steps
      PROVE  TaskOK(mem'[r], where, s, task[r][s])
  <2>1. CASE pc[r] = "entering"
    BY <2>1, NoTaskOK, NoTasksOutside
  <2>2. CASE where \in {"loop", "sleeping", "steps", "compensating"}
    BY <1>1, <1>3, <1>4, <2>2 DEF TaskOK, IsReady
  <2> QED BY <2>1, <2>2
<1>6. RunOK(mem'[r], where, task[r])
  BY <1>1, <1>2, <1>3, <1>4, <1>5 DEF RunOK
<1>7. /\ pc'[r] = where
      /\ \A q \in Runs \ {r} : mem'[q] = mem[q] /\ pc'[q] = pc[q] /\ task'[q] = task[q]
  BY DEF TypeOK, RunsTypeOK
<1> QED BY <1>1, <1>2, <1>6, <1>7, OneRunMoves

LEMMA LoopConsistent ==
  ASSUME TypeOK, Consistent, NEW r \in Runs,
         \/ EnterRun(r) \/ LoopStops(r) \/ LoopFails(r) \/ LoopCompletes(r)
         \/ LoopSleeps(r) \/ Poll(r) \/ LoopDispatches(r) \/ Gathered(r)
  PROVE  Consistent'
<1>1. mem[r] \in Record /\ CopyOK(mem[r]) /\ CopyOK(db)
  BY DEF TypeOK, RunsTypeOK, Consistent, RunOK
<1>2. CASE EnterRun(r)
  <2>1. /\ mem' \in {mem, [mem EXCEPT ![r] = WithStatus(mem[r], "running")]}
        /\ db' \in {db, WithStatus(mem[r], "running")}
        /\ pc' = [pc EXCEPT ![r] = "loop"] /\ task' = task /\ pc[r] = "entering"
    BY <1>2 DEF EnterRun, TypeOK, RunsTypeOK
  <2> QED BY <2>1, StatusMoves
<1>3. CASE LoopStops(r)
  BY <1>1, <1>3, EndRunConsistent DEF LoopStops
<1>4. CASE LoopFails(r)
  <2>1. db' \in {db, WithStatus(mem[r], "failed")} /\ pc[r] = "loop"
    BY <1>4 DEF LoopFails, InLoop
  <2>2. CASE EndRun(r)
    BY <1>1, <2>1, <2>2, OrderStatus, EndRunConsistent
  <2>3. CASE ~EndRun(r)
    <3>1. /\ mem' = [mem EXCEPT ![r] = WithStatus(mem[r], "failed")]
          /\ pc' = [pc EXCEPT ![r] = "compensating"]
          /\ task' = task
      BY <1>4, <2>3, Zenon DEF LoopFails
    <3> QED BY <2>1, <3>1, StatusMoves
  <2> QED BY <2>2, <2>3
<1>5. CASE LoopCompletes(r)
  BY <1>1, <1>5, OrderStatus, EndRunConsistent DEF LoopCompletes
<1>6. CASE LoopSleeps(r) \/ Poll(r)
  <2>1. PICK where \in {"sleeping", "loop"} :
          /\ pc[r] \in {"loop", "sleeping"} /\ pc' = [pc EXCEPT ![r] = where]
          /\ mem' = mem /\ task' = task /\ db' = db
    BY <1>6 DEF LoopSleeps, Poll, InLoop
  <2> QED BY <2>1, StatusMoves
<1>7. CASE LoopDispatches(r)
  <2>1. /\ pc'[r] = "steps" /\ mem' = mem /\ db' = db
        /\ mem[r].status \notin {"completed", "cancelled"}
        /\ \A s \in Steps : task'[r][s] = IF s \in ReadySteps(mem[r]) THEN "queued" ELSE "none"
        /\ \A q \in Runs \ {r} : pc'[q] = pc[q] /\ task'[q] = task[q]
    BY <1>7 DEF LoopDispatches, InLoop, TypeOK, RunsTypeOK, Consistent, RunOK
  <2>2. \A s \in Steps : TaskOK(mem[r], "steps", s, task'[r][s])
    BY <2>1 DEF TaskOK, ReadySteps, Result
  <2>3. RunOK(mem'[r], pc'[r], task'[r])
    BY <1>1, <2>1, <2>2 DEF RunOK
  <2> QED BY <1>1, <2>1, <2>3, OneRunMoves
<1>8. CASE Gathered(r)
  <2>1. CASE EndRun(r)
    BY <1>1, <1>8, <2>1, EndRunConsistent DEF Gathered
  <2>2. CASE ~EndRun(r)
    <3>1. /\ pc[r] = "steps" /\ pc' = [pc EXCEPT ![r] = "loop"]
          /\ mem' = mem /\ task' = task /\ db' = db
      BY <1>8, <2>2 DEF Gathered
    <3> QED BY <3>1, StatusMoves
  <2> QED BY <2>1, <2>2
<1> QED BY <1>2, <1>3, <1>4, <1>5, <1>6, <1>7, <1>8

LEMMA EnvironmentConsistent ==
  ASSUME TypeOK, Consistent,
         \/ Start
         \/ CancelExecution
         \/ \E s \in Approvals : DecideOn(s)
         \/ Crash
         \/ Recover
  PROVE  Consistent'
<1>1. db \in Record /\ CopyOK(db)
  BY DEF TypeOK, Consistent
<1>2. /\ NewRecord("pending") \in Record /\ NoRecord \in Record
      /\ CopyOK(NewRecord("pending")) /\ CopyOK(NoRecord)
      /\ NewRecord("pending").status = "pending"
  BY RecordNew, OrderNew DEF NoRecord, NewRecord
<1>3. ASSUME NEW r \in Runs, StartExecution(r) \/ StartInline(r)
      PROVE  Consistent'
  BY <1>2, <1>3, SpawnConsistent DEF StartExecution, StartInline
<1>4. ASSUME CancelExecution
      PROVE  Consistent'
  <2>1. CopyOK(db')
    BY <1>1, <1>4, OrderStatus DEF CancelExecution
  <2> QED BY <1>4, <2>1 DEF CancelExecution, runVars, Consistent
<1>5. ASSUME NEW s \in Approvals, NEW decision \in {"approved", "rejected"}, NEW r \in Runs,
             Decide(s, decision, r)
      PROVE  Consistent'
  BY <1>1, <1>5, SpawnConsistent DEF Decide
<1>6. ASSUME Crash
      PROVE  Consistent'
  <2>1. \A r \in Runs : mem'[r] = NoRecord /\ pc'[r] = "idle" /\ task'[r] = NoTasks
    BY <1>6 DEF Crash
  <2> QED BY <1>1, <1>6, <2>1, RunOKIdle DEF Crash, Consistent
<1>7. ASSUME RecoverSkips \/ RecoverMarksFailed
      PROVE  Consistent'
  <2>1. CopyOK(db')
    BY <1>1, <1>7, OrderStatus DEF RecoverSkips, RecoverMarksFailed
  <2> QED BY <1>7, <2>1 DEF RecoverSkips, RecoverMarksFailed, Consistent
<1>8. ASSUME NEW r \in Runs, RecoverResumes(r)
      PROVE  Consistent'
  BY <1>1, <1>8, SpawnConsistent DEF RecoverResumes
<1>9. ASSUME NEW r \in Runs, NEW s \in Steps, RecoverRetriesStep(r, s)
      PROVE  Consistent'
  <2> DEFINE c == WithStep(db, s, "pending")
  <2>1. c \in Record /\ c.status = db.status /\ c.step[s] = "pending"
        /\ \A q \in Steps \ {s} : c.step[q] = db.step[q]
    BY <1>1, RecordUpdates, StepChanges
  <2>2. db.step[s] = "running" /\ db.status \in {"running", "paused"}
        /\ db' = c /\ Spawn(r, c, "resuming")
    BY <1>9 DEF RecoverRetriesStep, RunningSteps, StepsIn
  <2> HIDE DEF c
  <2>3. CopyOK(c)
    BY <1>1, <2>1, <2>2, OrderChange DEF CopyOK, Satisfied
  <2> QED BY <2>1, <2>2, <2>3, SpawnConsistent
<1> QED
  BY <1>3, <1>4, <1>5, <1>6, <1>7, <1>8, <1>9 DEF Start, DecideOn, Recover

(* The repository and every copy a run works on stay consistent, however   *)
(* many runs overwrite each other and wherever the backend stops.          *)
THEOREM ConsistentAlways == Spec => []Consistent
<1>1. Init => Consistent
  BY OrderNew, RunOKIdle DEF Init, Consistent, NoRecord
<1>2. TypeOK /\ Consistent /\ [Next]_vars => Consistent'
  <2> SUFFICES ASSUME TypeOK, Consistent, [Next]_vars PROVE Consistent'
    OBVIOUS
  <2>1. ASSUME NEW r \in Runs, RunStep(r)
        PROVE  Consistent'
    <3>1. CASE RunExecution(r) \/ ResumeTask(r)
      <4>1. db \in Record /\ mem[r] \in Record /\ CopyOK(db) /\ CopyOK(mem[r])
        BY DEF TypeOK, RunsTypeOK, Consistent, RunOK
      <4> QED BY <3>1, <4>1, ResumeConsistent DEF RunExecution, ResumeTask
    <3>2. CASE \/ EnterRun(r) \/ LoopStops(r) \/ LoopFails(r) \/ LoopCompletes(r)
               \/ LoopSleeps(r) \/ Poll(r) \/ LoopDispatches(r) \/ Gathered(r)
      BY <3>2, LoopConsistent
    <3>3. CASE \E s \in Steps : StepOf(r, s)
      BY <3>3, StepConsistent
    <3> QED BY <2>1, <3>1, <3>2, <3>3 DEF RunStep
  <2>2. CASE \/ Start \/ CancelExecution \/ (\E s \in Approvals : DecideOn(s))
             \/ Crash \/ Recover
    BY <2>2, EnvironmentConsistent
  <2>3. CASE UNCHANGED vars
    BY <2>3 DEF vars, runVars, Consistent
  <2> QED BY <2>1, <2>2, <2>3 DEF Next
<1> QED BY <1>1, <1>2, TypeCorrect, PTL DEF Spec

(* No step has begun before its dependencies were completed or skipped, in *)
(* the repository or in any copy (get_ready_steps and everything that      *)
(* saves after it).                                                        *)
THEOREM DependencyOrderAlways == Spec => []DependencyOrder
<1>1. Consistent => DependencyOrder
  BY DEF Consistent, RunOK, CopyOK, DependencyOrder
<1> QED BY <1>1, ConsistentAlways, PTL

(* An execution shown as completed has every step completed or skipped.    *)
THEOREM CompletedIsTotalAlways == Spec => []CompletedIsTotal
<1>1. Consistent => CompletedIsTotal
  BY DEF Consistent, CopyOK, CompletedIsTotal
<1> QED BY <1>1, ConsistentAlways, PTL

-----------------------------------------------------------------------------
(* The approval gate.                                                      *)

(* What one step may do to the approval steps of the record.               *)
Gate == \A s \in Approvals :
          db.step[s] # "completed" /\ db'.step[s] = "completed" => Approved(s)

(* Record c knows no more of the approval steps than the repository does,  *)
(* except for those that are approved.                                     *)
Agrees(c) ==
  c.status # "absent" /\
  \A s \in Approvals : ~Approved(s) => (c.step[s] = "completed" <=> db.step[s] = "completed")

(* Run r moves, with c the record it saves or keeps.                       *)
LEMMA GateMoves ==
  ASSUME TypeOK, Gated, NEW r \in Runs, pc[r] # "idle", NEW c, Agrees(c),
         db' \in {db, c}, approval' = approval,
         pc'[r] = "idle" \/ mem'[r] = c,
         \A s \in Approvals : task'[r][s] = "ok" => task[r][s] = "ok",
         \A q \in Runs \ {r} : mem'[q] = mem[q] /\ pc'[q] = pc[q] /\ task'[q] = task[q]
  PROVE  Gated' /\ Gate
<1>1. db.status # "absent" /\ Agrees(db)
  BY DEF Gated, NothingBeforeStart, Agrees
<1>2. Gate
  BY DEF Gate, Agrees
<1>3. NothingBeforeStart'
  BY <1>1 DEF Gated, NothingBeforeStart, Agrees
<1>4. ASSUME NEW q \in Runs, NEW s \in Approvals
      PROVE  /\ task'[q][s] = "ok" => Approved(s)
             /\ pc'[q] \notin {"idle", "scheduled"} /\ ~Approved(s) =>
                  (mem'[q].step[s] = "completed" <=> db'.step[s] = "completed")
  <2>1. CASE q = r
    BY <1>1, <2>1 DEF Gated, Agrees
  <2>2. CASE q # r
    BY <1>1, <2>2 DEF Gated, Agrees
  <2> QED BY <2>1, <2>2
<1>5. Gated'
  BY <1>3, <1>4 DEF Gated, Approved
<1> QED BY <1>2, <1>5

LEMMA GateEnds ==
  ASSUME TypeOK, Gated, NEW r \in Runs, pc[r] # "idle", NEW c, Agrees(c),
         db' \in {db, c}, approval' = approval, EndRun(r)
  PROVE  Gated' /\ Gate
<1>1. /\ pc'[r] = "idle" /\ task'[r] = NoTasks
      /\ \A q \in Runs \ {r} : mem'[q] = mem[q] /\ pc'[q] = pc[q] /\ task'[q] = task[q]
  BY DEF EndRun, TypeOK, RunsTypeOK
<1>2. \A s \in Approvals : task'[r][s] # "ok"
  BY <1>1, ApprovalsAreSteps DEF NoTasks
<1> QED BY <1>1, <1>2, GateMoves

(* A run beyond its first lines agrees with the repository.                *)
LEMMA LiveAgrees ==
  ASSUME Gated, NEW r \in Runs, pc[r] \notin {"idle", "scheduled"}
  PROVE  Agrees(mem[r])
BY DEF Gated, NothingBeforeStart, Agrees

LEMMA StatusAgrees ==
  ASSUME NEW c \in Record, Agrees(c), NEW st \in ExecutionStatus \ {"absent"}
  PROVE  Agrees(WithStatus(c, st)) /\ Agrees(Resumed(c))
<1>1. Agrees(WithStatus(c, st))
  BY DEF WithStatus, Agrees
<1>2. Agrees(Resumed(c))
  <2>1. \A q \in Steps : Resumed(c).step[q] = "completed" <=> c.step[q] = "completed"
    BY DEF Resumed
  <2>2. Resumed(c).status # "absent"
    BY DEF Resumed
  <2> QED BY <2>1, <2>2, ApprovalsAreSteps DEF Agrees
<1> QED BY <1>1, <1>2

LEMMA AdvanceAgrees ==
  ASSUME TypeOK, Consistent, Gated, NEW r \in Runs, NEW s \in Steps, NEW c \in Record,
         Advances(r, s, c), c.status # "absent",
         c.step[s] = "completed" => s \notin Approvals \/ Approved(s)
  PROVE  Agrees(c) /\ pc[r] \notin {"idle", "scheduled"}
<1>1. pc[r] \notin {"idle", "scheduled"}
  BY NoTasksOutside DEF Advances
<1>2. Agrees(mem[r])
  BY <1>1, LiveAgrees
<1> QED BY <1>1, <1>2, ApprovalsAreSteps DEF Agrees, Advances, Satisfied

(* The ways in which a step hands its result on.                           *)
LEMMA StepMovesGated ==
  ASSUME TypeOK, Consistent, Gated, NEW r \in Runs, NEW s \in Steps, NEW c \in Record,
         Advances(r, s, c), c.status # "absent",
         c.step[s] = "completed" => s \notin Approvals \/ Approved(s),
         db' \in {db, c}, approval' = approval,
         \/ \E left : LeaveStep(r, s, c, left)
         \/ StepRaises(r, s, c)
         \/ \E ts \in TaskState \ {"ok"} : \E next : StayInStep(r, s, ts, c, next)
  PROVE  Gated' /\ Gate
<1>1. Agrees(c) /\ pc[r] # "idle"
  BY AdvanceAgrees
<1>2. CASE EndRun(r)
  BY <1>1, <1>2, GateEnds
<1>3. CASE ~EndRun(r)
  <2>1. PICK ts \in TaskState \ {"ok"} :
          mem' = [mem EXCEPT ![r] = c] /\ task' = [task EXCEPT ![r][s] = ts]
          /\ pc' \in {pc, [pc EXCEPT ![r] = "loop"]}
    <3>1. "none" \in TaskState \ {"ok"}
      BY DEF TaskState
    <3>2. ASSUME NEW left, LeaveStep(r, s, c, left)
          PROVE  mem' = [mem EXCEPT ![r] = c] /\ task' = [task EXCEPT ![r][s] = "none"]
                 /\ pc' \in {pc, [pc EXCEPT ![r] = "loop"]}
      BY <1>3, <3>2, Zenon DEF LeaveStep
    <3>3. ASSUME StepRaises(r, s, c)
          PROVE  mem' = [mem EXCEPT ![r] = c] /\ task' = [task EXCEPT ![r][s] = "none"]
                 /\ pc' \in {pc, [pc EXCEPT ![r] = "loop"]}
      BY <1>3, <3>3, Zenon DEF StepRaises
    <3>4. ASSUME NEW ts \in TaskState \ {"ok"}, NEW next, StayInStep(r, s, ts, c, next)
          PROVE  mem' = [mem EXCEPT ![r] = c] /\ task' = [task EXCEPT ![r][s] = ts]
                 /\ pc' \in {pc, [pc EXCEPT ![r] = "loop"]}
      BY <3>4 DEF StayInStep
    <3> QED BY <3>1, <3>2, <3>3, <3>4
  <2>2. /\ mem'[r] = c
        /\ \A q \in Runs \ {r} : mem'[q] = mem[q] /\ pc'[q] = pc[q] /\ task'[q] = task[q]
    BY <2>1 DEF TypeOK, RunsTypeOK
  <2>3. \A q \in Approvals : task'[r][q] = "ok" => task[r][q] = "ok"
    BY <2>1, ApprovalsAreSteps DEF TypeOK, RunsTypeOK
  <2> QED BY <1>1, <2>2, <2>3, GateMoves
<1> QED BY <1>2, <1>3

LEMMA StepGated ==
  ASSUME TypeOK, Consistent, Gated, NEW r \in Runs, NEW s \in Steps, StepOf(r, s)
  PROVE  Gated' /\ Gate
<1>1. ASSUME task[r][s] # "none"
      PROVE  mem[r] \in Record /\ mem[r].status # "absent" /\ Advances(r, s, mem[r])
  <2>1. pc[r] \notin {"idle", "scheduled"}
    BY <1>1, NoTasksOutside
  <2> QED BY <1>1, <2>1, TaskFacts DEF Gated, NothingBeforeStart, Advances
<1>2. ASSUME NEW st \in StepStatus, task[r][s] # "none"
      PROVE  /\ WithStep(mem[r], s, st) \in Record
             /\ Advances(r, s, WithStep(mem[r], s, st))
             /\ WithStep(mem[r], s, st).status # "absent"
             /\ WithStep(mem[r], s, st).step[s] = st
  <2> DEFINE c == WithStep(mem[r], s, st)
  <2>1. mem[r] \in Record /\ mem[r].status # "absent" /\ Advances(r, s, mem[r])
    BY <1>1, <1>2
  <2>2. /\ c \in Record /\ c.status = mem[r].status /\ c.step[s] = st
        /\ \A q \in Steps \ {s} : c.step[q] = mem[r].step[q]
    BY <2>1 DEF WithStep
  <2>3. DepsMet(mem[r], s)
    BY <1>2, TaskFacts
  <2> HIDE DEF c
  <2>4. Advances(r, s, c)
    BY <2>1, <2>2, <2>3 DEF Advances
  <2> QED BY <2>1, <2>2, <2>4 DEF c
<1>3. CASE SkipStep(r, s)
  BY <1>2, <1>3, StepMovesGated DEF SkipStep, BeginStep, envVars
<1>4. CASE ExecuteStep(r, s)
  BY <1>2, <1>4, StepMovesGated DEF ExecuteStep, BeginStep, TaskState, envVars
<1>5. CASE AgentReturns(r, s) \/ ApprovalReturns(r, s)
  <2>1. PICK result \in Result : Returns(r, s, result)
    BY <1>5 DEF AgentReturns, ApprovalReturns, Result
  <2>2. /\ db' = db /\ mem' = mem /\ pc' = pc /\ task' = [task EXCEPT ![r][s] = result]
        /\ task[r][s] = "executing"
    BY <2>1 DEF Returns
  <2>3. pc[r] # "idle"
    BY <2>2, NoTasksOutside
  <2>4. ASSUME NEW q \in Approvals
        PROVE  Approved(q) <=> approval'[q] = "approved"
    <3>1. \/ approval' = approval
          \/ /\ approval[s] \in {"none", "pending"}
             /\ \E v \in {"pending", "rejected"} : approval' = [approval EXCEPT ![s] = v]
      BY <1>5 DEF AgentReturns, ApprovalReturns
    <3> QED BY <3>1, ApprovalsAreSteps DEF Approved, TypeOK, EnvTypeOK
  <2>5. s \in Approvals /\ task'[r][s] = "ok" => Approved(s)
    BY <1>5, <2>2, ApprovalsAreSteps
    DEF AgentReturns, ApprovalReturns, Returns, Approved, TypeOK, RunsTypeOK
  <2>6. \A p \in Runs, q \in Approvals : task'[p][q] = "ok" => Approved(q)
    BY <2>2, <2>5, ApprovalsAreSteps DEF Gated, TypeOK, RunsTypeOK
  <2>7. NothingBeforeStart'
    BY <2>2, <2>3 DEF Gated, NothingBeforeStart
  <2>8. Gated'
    BY <2>2, <2>4, <2>6, <2>7 DEF Gated, Approved
  <2> QED BY <2>2, <2>8 DEF Gate
<1>6. CASE StepSucceeds(r, s)
  <2>1. task[r][s] = "ok" /\ db' = Completed(mem[r], s) /\ approval' = approval
        /\ LeaveStep(r, s, Completed(mem[r], s), rollback[r])
    BY <1>6 DEF StepSucceeds, Got, envVars
  <2>2. /\ Completed(mem[r], s) \in Record
        /\ Completed(mem[r], s).status # "absent"
        /\ Advances(r, s, Completed(mem[r], s))
    BY <1>1, <2>1, RecordUpdates, StepChanges, TaskFacts, SMTT(30) DEF Advances
  <2>3. s \notin Approvals \/ Approved(s)
    BY <2>1 DEF Gated
  <2> QED BY <2>1, <2>2, <2>3, StepMovesGated
<1>7. CASE StepWaits(r, s)
  <2> DEFINE c == WithStep(mem[r], s, "waiting_approval")
  <2> DEFINE d == WithStatus(c, "paused")
  <2>1. task[r][s] # "none" /\ approval' = approval
    BY <1>7 DEF StepWaits, Got, envVars
  <2>2. c \in Record /\ Advances(r, s, c) /\ c.status # "absent" /\ c.step[s] # "completed"
    BY <1>2, <2>1
  <2>5. (db' = d /\ LeaveStep(r, s, d, rollback[r])) \/ (db' = db /\ StepRaises(r, s, c))
    BY <1>7 DEF StepWaits
  <2> HIDE DEF c
  <2>3. d \in Record /\ d.status = "paused" /\ d.step = c.step
    <3>1. d \in Record
      BY <2>2, RecordUpdates
    <3> QED BY <2>2, <3>1, StepChanges
  <2> HIDE DEF d
  <2>4. Advances(r, s, d)
    BY <2>2, <2>3 DEF Advances
  <2>6. CASE db' = d /\ LeaveStep(r, s, d, rollback[r])
    BY <2>1, <2>2, <2>3, <2>4, <2>6, StepMovesGated
  <2>7. CASE db' = db /\ StepRaises(r, s, c)
    BY <2>1, <2>2, <2>7, StepMovesGated
  <2> QED BY <2>5, <2>6, <2>7
<1>8. CASE StepRetries(r, s) \/ NextAttempt(r, s)
  <2>1. PICK ts \in {"backoff", "executing"} :
          StayInStep(r, s, ts, mem[r], Nobody) /\ db' \in {db, mem[r]} /\ approval' = approval
    BY <1>8 DEF StepRetries, NextAttempt, envVars
  <2>2. task[r][s] \in {"error", "backoff"}
    BY <1>8 DEF StepRetries, NextAttempt, Got
  <2>3. mem[r].step[s] = "running"
    BY <2>2, TaskFacts DEF TaskOK, Result
  <2> QED BY <1>1, <2>1, <2>2, <2>3, StepMovesGated DEF TaskState
<1>9. CASE StepFails(r, s)
  <2>1. task[r][s] # "none" /\ approval' = approval
    BY <1>9 DEF StepFails, GivesUp, Got, envVars
  <2>2. PICK st \in {"skipped", "failed"} :
          /\ db' = WithStep(mem[r], s, st)
          /\ \/ LeaveStep(r, s, WithStep(mem[r], s, st), rollback[r])
             \/ StayInStep(r, s, "failing", WithStep(mem[r], s, st), r)
    BY <1>9 DEF StepFails
  <2>3. /\ WithStep(mem[r], s, st) \in Record
        /\ Advances(r, s, WithStep(mem[r], s, st))
        /\ WithStep(mem[r], s, st).status # "absent"
        /\ WithStep(mem[r], s, st).step[s] # "completed"
    BY <1>2, <2>1
  <2> QED BY <2>1, <2>2, <2>3, StepMovesGated DEF TaskState
<1>10. CASE FailExecution(r, s)
  <2> DEFINE c == WithStatus(mem[r], "failed")
  <2>1. task[r][s] = "failing" /\ approval' = approval
    BY <1>10 DEF FailExecution, envVars
  <2>2. mem[r].step[s] = "failed"
    BY <2>1, TaskFacts DEF TaskOK, Result
  <2>3. c \in Record /\ c.status = "failed" /\ c.step = mem[r].step
    BY <1>1, <2>1 DEF WithStatus
  <2>4. Advances(r, s, c)
    BY <1>1, <2>1, <2>3 DEF Advances
  <2>5. \/ db' = db /\ StepRaises(r, s, mem[r])
        \/ db' = c /\ LeaveStep(r, s, c, rollback[r])
        \/ db' = c /\ StayInStep(r, s, "compensating", c, Nobody)
    BY <1>10 DEF FailExecution
  <2> HIDE DEF c
  <2>6. CASE db' = db /\ StepRaises(r, s, mem[r])
    BY <1>1, <2>1, <2>2, <2>6, StepMovesGated
  <2>7. CASE db' = c /\ (LeaveStep(r, s, c, rollback[r])
                        \/ StayInStep(r, s, "compensating", c, Nobody))
    BY <2>1, <2>2, <2>3, <2>4, <2>7, StepMovesGated DEF TaskState
  <2> QED BY <2>5, <2>6, <2>7
<1>11. CASE RunCompensation(r, s)
  <2>1. db' = db /\ approval' = approval
    BY <1>11 DEF RunCompensation, envVars
  <2>2. CASE UNCHANGED <<mem, pc, task>>
    BY <2>1, <2>2 DEF Gated, NothingBeforeStart, Approved, Gate
  <2>3. CASE EndRun(r) /\ pc[r] = "compensating"
    BY <2>1, <2>3, LiveAgrees, GateEnds
  <2>4. ASSUME NEW q \in Steps, task[r][q] = "compensating", LeaveStep(r, q, mem[r], {})
        PROVE  Gated' /\ Gate
    <3>1. mem[r].step[q] = "failed" /\ Advances(r, q, mem[r]) /\ mem[r] \in Record
      BY <2>4, TaskFacts DEF Advances, TaskOK, Result
    <3>2. mem[r].status # "absent"
      BY <2>4, NoTasksOutside DEF Gated, NothingBeforeStart
    <3> QED BY <2>1, <2>4, <3>1, <3>2, StepMovesGated
  <2> QED BY <1>11, <2>2, <2>3, <2>4 DEF RunCompensation
<1> QED
  BY <1>3, <1>4, <1>5, <1>6, <1>7, <1>8, <1>9, <1>10, <1>11 DEF StepOf

LEMMA LoopGated ==
  ASSUME TypeOK, Consistent, Gated, NEW r \in Runs,
         \/ EnterRun(r) \/ LoopStops(r) \/ LoopFails(r) \/ LoopCompletes(r)
         \/ LoopSleeps(r) \/ Poll(r) \/ LoopDispatches(r) \/ Gathered(r)
  PROVE  Gated' /\ Gate
<1>1. pc[r] \notin {"idle", "scheduled"} /\ approval' = approval
  BY DEF EnterRun, LoopStops, LoopFails, LoopCompletes, LoopSleeps, Poll, LoopDispatches,
         Gathered, InLoop, envVars
<1>2. mem[r] \in Record /\ Agrees(mem[r])
  BY <1>1, LiveAgrees DEF TypeOK, RunsTypeOK
<1>3. \A st \in ExecutionStatus \ {"absent"} : Agrees(WithStatus(mem[r], st))
  BY <1>2, StatusAgrees
<1>4. PICK st \in {"running", "failed", "completed"} :
        \/ db' = db \/ db' = WithStatus(mem[r], st)
  BY DEF EnterRun, LoopStops, LoopFails, LoopCompletes, LoopSleeps, Poll, LoopDispatches, Gathered
<1>5. CASE EndRun(r)
  BY <1>1, <1>2, <1>3, <1>4, <1>5, GateEnds
<1>6. CASE LoopDispatches(r)
  <2>1. /\ mem'[r] = mem[r] /\ db' = db
        /\ \A s \in Steps : task'[r][s] # "ok"
        /\ \A q \in Runs \ {r} : mem'[q] = mem[q] /\ pc'[q] = pc[q] /\ task'[q] = task[q]
    BY <1>6 DEF LoopDispatches, TypeOK, RunsTypeOK
  <2> QED BY <1>1, <1>2, <2>1, ApprovalsAreSteps, GateMoves
<1>7. CASE ~EndRun(r) /\ ~LoopDispatches(r)
  <2>1. PICK where : pc' = [pc EXCEPT ![r] = where]
    BY <1>7 DEF EnterRun, LoopStops, LoopFails, LoopCompletes, LoopSleeps, Poll, Gathered
  <2>2. task' = task
    BY <1>7 DEF EnterRun, LoopStops, LoopFails, LoopCompletes, LoopSleeps, Poll, Gathered
  <2>3. PICK c : Agrees(c) /\ mem' = [mem EXCEPT ![r] = c] /\ db' \in {db, c}
    <3>1. CASE EnterRun(r)
      BY <1>2, <1>3, <3>1 DEF EnterRun
    <3>2. CASE LoopFails(r)
      BY <1>3, <1>7, <3>2 DEF LoopFails
    <3>3. CASE LoopSleeps(r) \/ Poll(r) \/ Gathered(r)
      BY <1>2, <1>7, <3>3 DEF LoopSleeps, Poll, Gathered, TypeOK, RunsTypeOK
    <3> QED BY <1>7, <3>1, <3>2, <3>3 DEF LoopStops, LoopCompletes
  <2>4. /\ mem'[r] = c
        /\ \A q \in Runs \ {r} : mem'[q] = mem[q] /\ pc'[q] = pc[q] /\ task'[q] = task[q]
    BY <2>1, <2>2, <2>3 DEF TypeOK, RunsTypeOK
  <2> QED BY <1>1, <2>2, <2>3, <2>4, GateMoves
<1> QED BY <1>5, <1>6, <1>7

LEMMA ResumeGated ==
  ASSUME TypeOK, Consistent, Gated, NEW r \in Runs, NEW c \in Record, Agrees(c), Resume(r, c),
         pc[r] \in {"scheduled", "resuming"}
  PROVE  Gated' /\ Gate
<1>1. CASE c.status \in {"completed", "cancelled"}
  <2>1. EndRun(r) /\ db' = db /\ approval' = approval
    BY <1>1 DEF Resume, envVars
  <2> QED BY <2>1, GateEnds
<1>2. CASE c.status \notin {"completed", "cancelled"}
  <2> DEFINE d == IF c.status = "paused" THEN Resumed(c) ELSE c
  <2>1. Agrees(d)
    BY StatusAgrees
  <2>2. /\ mem' = [mem EXCEPT ![r] = d] /\ pc' = [pc EXCEPT ![r] = "entering"]
        /\ task' = task /\ db' \in {db, d} /\ approval' = approval
    BY <1>2 DEF Resume, envVars
  <2> HIDE DEF d
  <2>3. /\ mem'[r] = d
        /\ \A q \in Runs \ {r} : mem'[q] = mem[q] /\ pc'[q] = pc[q] /\ task'[q] = task[q]
    BY <2>2 DEF TypeOK, RunsTypeOK
  <2> QED BY <2>1, <2>2, <2>3, GateMoves
<1> QED BY <1>1, <1>2

(* A run is created with a copy of what the repository then holds.         *)
LEMMA SpawnGated ==
  ASSUME TypeOK, Consistent, Gated, NEW r \in Runs, NEW c \in Record, NEW where,
         Spawn(r, c, where), db'.status # "absent",
         where = "scheduled" \/ c.status # "absent",
         \A s \in Approvals : db'.step[s] = "completed" <=> db.step[s] = "completed",
         \A s \in Approvals : c.step[s] = "completed" <=> db.step[s] = "completed",
         \A s \in Approvals : Approved(s) => approval'[s] = "approved"
  PROVE  Gated' /\ Gate
<1>1. /\ mem'[r] = c /\ pc'[r] = where /\ task' = task
      /\ \A q \in Runs \ {r} : mem'[q] = mem[q] /\ pc'[q] = pc[q] /\ task'[q] = task[q]
  BY DEF Spawn, TypeOK, RunsTypeOK
<1>2. NothingBeforeStart'
  BY <1>1 DEF Gated, NothingBeforeStart
<1>3. ASSUME NEW q \in Runs, NEW s \in Approvals
      PROVE  /\ task'[q][s] = "ok" => Approved(s)'
             /\ pc'[q] \notin {"idle", "scheduled"} /\ ~Approved(s)' =>
                  (mem'[q].step[s] = "completed" <=> db'.step[s] = "completed")
  <2>1. CASE q = r
    BY <1>1, <2>1, NoTasksOutside, ApprovalsAreSteps DEF Spawn
  <2>2. CASE q # r
    BY <1>1, <2>2 DEF Gated, Approved
  <2> QED BY <2>1, <2>2
<1>4. Gated'
  BY <1>2, <1>3 DEF Gated
<1> QED BY <1>4 DEF Gate

LEMMA EnvironmentGated ==
  ASSUME TypeOK, Consistent, Gated,
         \/ Start
         \/ CancelExecution
         \/ \E s \in Approvals : DecideOn(s)
         \/ Crash
         \/ Recover
  PROVE  Gated' /\ Gate
<1> USE DEF TypeOK
<1>1. ASSUME NEW c \in Record, c.status \in Active, db' = c, UNCHANGED <<runVars, approval>>,
             \A s \in Steps : c.step[s] = "completed" <=> db.step[s] = "completed"
      PROVE  Gated' /\ Gate
  BY <1>1, ApprovalsAreSteps DEF Gated, NothingBeforeStart, Approved, Gate, Active, runVars
<1>2. ASSUME NEW r \in Runs, StartExecution(r) \/ StartInline(r)
      PROVE  Gated' /\ Gate
  <2>1. db = NoRecord /\ db' = NewRecord("pending") /\ approval' = approval
    BY <1>2 DEF StartExecution, StartInline, Gated, NothingBeforeStart, envVars
  <2>2. /\ NoRecord \in Record /\ NewRecord("pending") \in Record
        /\ NewRecord("pending").status = "pending"
        /\ \A s \in Steps : NoRecord.step[s] = "pending" /\ NewRecord("pending").step[s] = "pending"
    BY RecordNew DEF NoRecord, NewRecord
  <2>3. PICK c \in {NoRecord, NewRecord("pending")}, where \in {"scheduled", "entering"} :
          Spawn(r, c, where) /\ (where = "scheduled" \/ c = NewRecord("pending"))
    BY <1>2 DEF StartExecution, StartInline
  <2>4. c \in Record /\ (where = "scheduled" \/ c.status # "absent") /\ db'.status # "absent"
    BY <2>1, <2>2, <2>3
  <2>5. \A s \in Approvals : /\ db'.step[s] = "pending" /\ db.step[s] = "pending"
                            /\ c.step[s] = "pending"
    BY <2>1, <2>2, <2>3, ApprovalsAreSteps
  <2>6. \A s \in Approvals : Approved(s) => approval'[s] = "approved"
    BY <2>1 DEF Approved
  <2> QED BY <2>3, <2>4, <2>5, <2>6, SpawnGated
<1>3. ASSUME CancelExecution
      PROVE  Gated' /\ Gate
  <2>1. db' = [db EXCEPT !.status = "cancelled"] /\ db.status # "absent"
        /\ UNCHANGED <<runVars, approval>>
    BY <1>3 DEF CancelExecution, WithStatus, Active, envVars
  <2> QED BY <2>1 DEF Gated, NothingBeforeStart, Approved, Gate, runVars
<1>4. ASSUME NEW s \in Approvals, NEW decision \in {"approved", "rejected"}, NEW r \in Runs,
             Decide(s, decision, r)
      PROVE  Gated' /\ Gate
  <2>1. db.status # "absent"
    BY <1>4, ApprovalsAreSteps DEF Decide, Gated, NothingBeforeStart
  <2>2. \A q \in Approvals : Approved(q) => approval'[q] = "approved"
    BY <1>4 DEF Decide, Approved, EnvTypeOK
  <2> QED BY <1>4, <2>1, <2>2, SpawnGated DEF Decide
<1>5. ASSUME Crash
      PROVE  Gated' /\ Gate
  BY <1>5, ApprovalsAreSteps DEF Crash, Gated, NothingBeforeStart, NoTasks, Gate
<1>6. ASSUME RecoverSkips
      PROVE  Gated' /\ Gate
  BY <1>6 DEF RecoverSkips, Recovers, Gated, NothingBeforeStart, Approved, Gate
<1>7. ASSUME RecoverMarksFailed
      PROVE  Gated' /\ Gate
  <2>1. db' \in {db, [db EXCEPT !.status = "failed"]} /\ db.status # "absent"
        /\ UNCHANGED <<runVars, approval>>
    BY <1>7 DEF RecoverMarksFailed, Recovers, WithStatus, Active, runVars
  <2> QED BY <2>1 DEF Gated, NothingBeforeStart, Approved, Gate, runVars
<1>8. ASSUME NEW r \in Runs, RecoverResumes(r)
      PROVE  Gated' /\ Gate
  <2>1. Spawn(r, db, "resuming") /\ db' = db /\ approval' = approval
        /\ db.status \in {"running", "paused"}
    BY <1>8 DEF RecoverResumes, Recovers
  <2> QED BY <2>1, SpawnGated DEF Approved
<1>9. ASSUME NEW r \in Runs, NEW s \in Steps, RecoverRetriesStep(r, s)
      PROVE  Gated' /\ Gate
  <2> DEFINE c == WithStep(db, s, "pending")
  <2>1. /\ db' = c /\ Spawn(r, c, "resuming") /\ approval' = approval
        /\ db.status \in {"running", "paused"} /\ db.step[s] = "running"
    BY <1>9 DEF RecoverRetriesStep, Recovers, RunningSteps, StepsIn
  <2>2. c \in Record /\ c.status = db.status /\ c.step[s] = "pending"
        /\ \A q \in Steps \ {s} : c.step[q] = db.step[q]
    BY DEF WithStep
  <2> HIDE DEF c
  <2>3. \A q \in Approvals : c.step[q] = "completed" <=> db.step[q] = "completed"
    BY <2>1, <2>2, ApprovalsAreSteps
  <2> QED BY <2>1, <2>2, <2>3, SpawnGated DEF Approved
<1> QED
  BY <1>2, <1>3, <1>4, <1>5, <1>6, <1>7, <1>8, <1>9 DEF Start, DecideOn, Recover

LEMMA NextGated ==
  ASSUME TypeOK, Consistent, Gated, Next
  PROVE  Gated' /\ Gate
<1>1. ASSUME NEW r \in Runs, RunStep(r)
      PROVE  Gated' /\ Gate
  <2>1. CASE RunExecution(r)
    <3>1. db \in Record /\ Agrees(db)
      BY <2>1 DEF TypeOK, RunExecution, Gated, NothingBeforeStart, Agrees
    <3> QED BY <2>1, <3>1, ResumeGated DEF RunExecution
  <2>2. CASE ResumeTask(r)
    <3>1. mem[r] \in Record /\ Agrees(mem[r])
      BY <2>2, LiveAgrees DEF TypeOK, RunsTypeOK, ResumeTask
    <3> QED BY <2>2, <3>1, ResumeGated DEF ResumeTask
  <2>3. CASE \/ EnterRun(r) \/ LoopStops(r) \/ LoopFails(r) \/ LoopCompletes(r)
             \/ LoopSleeps(r) \/ Poll(r) \/ LoopDispatches(r) \/ Gathered(r)
    BY <2>3, LoopGated
  <2>4. CASE \E s \in Steps : StepOf(r, s)
    BY <2>4, StepGated
  <2> QED BY <1>1, <2>1, <2>2, <2>3, <2>4 DEF RunStep
<1>2. CASE \/ Start \/ CancelExecution \/ (\E s \in Approvals : DecideOn(s))
           \/ Crash \/ Recover
  BY <1>2, EnvironmentGated
<1> QED BY <1>1, <1>2 DEF Next

LEMMA GatedAlways == Spec => []Gated
<1>1. Init => Gated
  BY ApprovalsAreSteps DEF Init, Gated, NothingBeforeStart, NoTasks
<1>2. TypeOK /\ Consistent /\ Gated /\ [Next]_vars => Gated'
  <2>1. CASE UNCHANGED vars
    BY <2>1 DEF vars, runVars, envVars, Gated, NothingBeforeStart, Approved
  <2> QED BY <2>1, NextGated
<1> QED BY <1>1, <1>2, TypeCorrect, ConsistentAlways, PTL DEF Spec

(* No approval step becomes completed in the repository unless its request *)
(* has been approved, however runs, users and restarts interleave.         *)
THEOREM ApprovalGateAlways == Spec => ApprovalGate
<1>1. TypeOK /\ Consistent /\ Gated /\ [Next]_vars =>
        [\A s \in Approvals :
           db.step[s] # "completed" /\ db'.step[s] = "completed" => approval[s] = "approved"]_vars
  BY NextGated DEF Gate, Approved
<1> QED BY <1>1, TypeCorrect, ConsistentAlways, GatedAlways, PTL DEF Spec, ApprovalGate

-----------------------------------------------------------------------------
(* One writer at a time.  Nothing in the engine enforces it, so it needs a *)
(* definition in which no step runs beside an approval step, and users who *)
(* do not decide on a request before the execution shows as paused.        *)

(* The steps that step t waits for, directly or not, and t itself.         *)
Upstream(t) ==
  {s \in Steps : \A S \in SUBSET Steps :
     t \in S /\ (\A u \in S : Deps[u] \subseteq S) => s \in S}

Ordered(s, t) == s \in Upstream(t) \/ t \in Upstream(s)

Undisturbed ==
  /\ \A s \in Approvals : \A t \in Steps \ {s} : Ordered(s, t)
  /\ EarlyDecision => Approvals = {}

(* What step t waits for is done by the time t may begin.                  *)
LEMMA UpstreamDone ==
  ASSUME NEW c \in Record, InOrder(c), NEW t \in Steps, DepsMet(c, t),
         NEW s \in Upstream(t), s # t
  PROVE  c.step[s] \in Satisfied
<1> DEFINE S == {t} \union {u \in Steps : c.step[u] \in Satisfied}
<1>1. S \in SUBSET Steps /\ t \in S
  OBVIOUS
<1>2. ASSUME NEW u \in S
      PROVE  Deps[u] \subseteq S
  <2>1. u \in Steps /\ DepsMet(c, u)
    BY DEF InOrder, Satisfied
  <2> QED BY <2>1, DepsAreSteps DEF DepsMet
<1>3. s \in S
  BY <1>1, <1>2 DEF Upstream
<1> QED BY <1>3

(* Of two steps that may begin one is an approval step: they are the same. *)
LEMMA NothingBeside ==
  ASSUME NEW c \in Record, InOrder(c), NEW s \in Steps, NEW t \in Steps,
         DepsMet(c, s), DepsMet(c, t), c.step[s] \notin Satisfied, c.step[t] \notin Satisfied,
         s # t => Ordered(s, t)
  PROVE  s = t
BY UpstreamDone DEF Ordered

LEMMA AloneMeans ==
  ASSUME TypeOK, NEW r \in Runs, Alone(r), NEW s \in batch[r], NEW t \in batch[r]
  PROVE  s = t
<1>1. IsFiniteSet(batch[r])
  BY StepsFinite, FS_Subset DEF TypeOK, RunsTypeOK
<1>2. PICK x : batch[r] = {x}
  BY <1>1, FS_Singleton DEF Alone
<1> QED BY <1>2

(* The inductive invariant: besides a single writer, a run has tasks only  *)
(* in its batch, an approval step is alone in its batch, and while a       *)
(* request is pending the one run there may be is about to pause and end.  *)
Idle == \A r \in Runs : pc[r] = "idle"

Awaits(r, s) ==
  \/ task[r][s] = "waiting"
  \/ turn = r /\ pc[r] = "loop" /\ mem[r].status = "paused"

TasksInBatch(r) ==
  \A s \in Steps : task[r][s] # "none" =>
    /\ pc[r] = "steps" /\ s \in batch[r]
    /\ s \in Approvals \/ task[r][s] = "waiting" => Alone(r)

Asked(s) == approval[s] = "pending"

RequestAwaited(s) ==
  /\ \A r \in Runs : pc[r] # "idle" => Awaits(r, s)
  /\ \A t \in Approvals : Asked(t) => t = s

Lone ==
  /\ SingleWriter
  /\ ~up => Idle /\ \A s \in Approvals : ~Asked(s)
  /\ \A r \in Runs : TasksInBatch(r)
  /\ \A s \in Approvals : Asked(s) => RequestAwaited(s)

(* A run that is alive moves: the backend is up and the others are idle.   *)
LEMMA LoneMoves ==
  ASSUME Lone, NEW r \in Runs, pc[r] # "idle", up' = up, approval' = approval,
         \A q \in Runs \ {r} : pc'[q] = pc[q] /\ task'[q] = task[q] /\ batch'[q] = batch[q],
         TasksInBatch(r)',
         \A s \in Approvals : Asked(s) /\ Awaits(r, s) => pc'[r] = "idle" \/ Awaits(r, s)'
  PROVE  Lone'
<1>1. \A q \in Runs \ {r} : pc[q] = "idle" /\ pc'[q] = "idle"
  BY DEF Lone, SingleWriter
<1>2. up /\ up'
  BY DEF Lone, Idle
<1>3. SingleWriter'
  BY <1>1 DEF SingleWriter
<1>4. ASSUME NEW q \in Runs
      PROVE  TasksInBatch(q)'
  <2>1. CASE q # r
    BY <1>1, <2>1 DEF Lone, TasksInBatch
  <2> QED BY <2>1
<1>5. ASSUME NEW s \in Approvals, Asked(s)'
      PROVE  RequestAwaited(s)'
  <2>1. Asked(s) /\ RequestAwaited(s)
    BY <1>5 DEF Asked, Lone
  <2>2. \A t \in Approvals : Asked(t)' => t = s
    BY <2>1 DEF RequestAwaited, Asked
  <2>3. pc'[r] = "idle" \/ Awaits(r, s)'
    BY <2>1 DEF RequestAwaited
  <2>4. \A q \in Runs : pc'[q] # "idle" => Awaits(q, s)'
    BY <1>1, <2>3
  <2> QED BY <2>2, <2>4 DEF RequestAwaited
<1> QED BY <1>2, <1>3, <1>4, <1>5 DEF Lone

LEMMA LoneEnds ==
  ASSUME TypeOK, Lone, NEW r \in Runs, pc[r] # "idle", up' = up, approval' = approval, EndRun(r)
  PROVE  Lone'
<1>1. /\ pc'[r] = "idle" /\ task'[r] = NoTasks
      /\ \A q \in Runs \ {r} : pc'[q] = pc[q] /\ task'[q] = task[q] /\ batch'[q] = batch[q]
  BY DEF EndRun, TypeOK, RunsTypeOK
<1>2. TasksInBatch(r)'
  BY <1>1 DEF TasksInBatch, NoTasks
<1> QED BY <1>1, <1>2, LoneMoves

(* A run that has a step under way whose request is not awaited awaits no  *)
(* request at all; neither does a run that has no step under way.          *)
LEMMA NotAwaiting ==
  ASSUME TypeOK, Lone, NEW r \in Runs, NEW s \in Steps, task[r][s] \notin {"none", "waiting"},
         NEW t \in Approvals
  PROVE  ~Awaits(r, t)
<1>1. pc[r] = "steps" /\ s \in batch[r] /\ t \in Steps
  BY ApprovalsAreSteps DEF Lone, TasksInBatch
<1>2. ASSUME task[r][t] = "waiting" PROVE FALSE
  <2>1. t \in batch[r] /\ Alone(r)
    BY <1>1, <1>2 DEF Lone, TasksInBatch
  <2>2. s = t
    BY <1>1, <2>1, AloneMeans
  <2> QED BY <1>2, <2>2
<1> QED BY <1>1, <1>2 DEF Awaits

LEMMA NoTaskThere ==
  ASSUME Lone, NEW r \in Runs, pc[r] # "steps", NEW s \in Steps
  PROVE  task[r][s] = "none"
BY DEF Lone, TasksInBatch

(* The coroutine of step s goes on or leaves.                              *)
LEMMA StepLone ==
  ASSUME TypeOK, Lone, NEW r \in Runs, NEW s \in Steps, task[r][s] \notin {"none", "waiting"},
         NEW c, NEW left, NEW ts, ts # "waiting", NEW next, up' = up, approval' = approval,
         LeaveStep(r, s, c, left) \/ StepRaises(r, s, c) \/ StayInStep(r, s, ts, c, next)
  PROVE  Lone'
<1>1. pc[r] = "steps" /\ s \in batch[r] /\ (s \in Approvals => Alone(r))
  BY DEF Lone, TasksInBatch
<1>2. \A t \in Approvals : ~Awaits(r, t)
  BY NotAwaiting
<1>3. CASE EndRun(r)
  BY <1>1, <1>3, LoneEnds
<1>4. CASE ~EndRun(r)
  <2>1. PICK new : /\ task' = [task EXCEPT ![r][s] = new]
                   /\ new = "none" \/ (pc' = pc /\ new # "waiting")
    BY <1>4, Zenon DEF LeaveStep, StepRaises, StayInStep
  <2>2. batch' = batch
    BY <1>4, Zenon DEF LeaveStep, StepRaises, StayInStep
  <2>3. pc' = pc \/ (Alone(r) /\ pc' = [pc EXCEPT ![r] = "loop"])
    BY <1>4, Zenon DEF LeaveStep, StepRaises, StayInStep
  <2>4. /\ \A q \in Runs \ {r} : pc'[q] = pc[q] /\ task'[q] = task[q] /\ batch'[q] = batch[q]
        /\ task'[r][s] = new /\ \A t \in Steps \ {s} : task'[r][t] = task[r][t]
    BY <2>1, <2>2, <2>3 DEF TypeOK, RunsTypeOK
  <2>5. TasksInBatch(r)'
    <3>1. CASE pc' = pc
      BY <1>1, <2>1, <2>2, <2>4, <3>1 DEF Lone, TasksInBatch, Alone
    <3>2. CASE pc' # pc
      <4>1. new = "none" /\ Alone(r)
        BY <2>1, <2>3, <3>2
      <4>2. \A t \in Steps \ {s} : task[r][t] = "none"
        BY <1>1, <4>1, AloneMeans DEF Lone, TasksInBatch
      <4> QED BY <2>4, <4>1, <4>2 DEF TasksInBatch
    <3> QED BY <3>1, <3>2
  <2> QED BY <1>1, <1>2, <2>4, <2>5, LoneMoves
<1> QED BY <1>3, <1>4

LEMMA WaitsLone ==
  ASSUME TypeOK, Lone, NEW r \in Runs, NEW s \in Steps, StepWaits(r, s)
  PROVE  Lone'
<1> DEFINE c == WithStep(mem[r], s, "waiting_approval")
<1> DEFINE d == WithStatus(c, "paused")
<1>1. /\ task[r][s] = "waiting" /\ up' = up /\ approval' = approval
      /\ LeaveStep(r, s, d, rollback[r]) \/ StepRaises(r, s, c)
  BY DEF StepWaits, Got, envVars
<1>2. pc[r] = "steps" /\ s \in batch[r]
  BY <1>1 DEF Lone, TasksInBatch
<1>3. d.status = "paused"
  BY DEF WithStatus, WithStep, TypeOK, RunsTypeOK
<1> HIDE DEF c, d
<1>4. CASE EndRun(r)
  BY <1>1, <1>2, <1>4, LoneEnds
<1>5. CASE ~EndRun(r)
  <2>1. task' = [task EXCEPT ![r][s] = "none"] /\ batch' = batch
    BY <1>1, <1>5, Zenon DEF LeaveStep, StepRaises
  <2>2. \/ ~Alone(r) /\ pc' = pc
        \/ Alone(r) /\ pc' = [pc EXCEPT ![r] = "loop"] /\ turn' = r
                    /\ mem' = [mem EXCEPT ![r] = d]
    BY <1>1, <1>5, Zenon DEF LeaveStep, StepRaises
  <2>3. /\ \A q \in Runs \ {r} : pc'[q] = pc[q] /\ task'[q] = task[q] /\ batch'[q] = batch[q]
        /\ task'[r][s] = "none" /\ \A t \in Steps \ {s} : task'[r][t] = task[r][t]
    BY <2>1, <2>2 DEF TypeOK, RunsTypeOK
  <2>4. CASE ~Alone(r)
    <3>1. TasksInBatch(r)'
      BY <1>2, <2>1, <2>2, <2>3, <2>4 DEF Lone, TasksInBatch, Alone
    <3>2. \A t \in Approvals : ~Awaits(r, t)
      BY <1>2, <2>4, ApprovalsAreSteps DEF Awaits, Lone, TasksInBatch
    <3> QED BY <1>1, <1>2, <2>3, <3>1, <3>2, LoneMoves
  <2>5. CASE Alone(r)
    <3>1. \A t \in Steps \ {s} : task[r][t] = "none"
      BY <1>2, <2>5, AloneMeans DEF Lone, TasksInBatch
    <3>2. TasksInBatch(r)'
      BY <2>3, <3>1 DEF TasksInBatch
    <3>3. pc'[r] = "loop" /\ turn' = r /\ mem'[r].status = "paused"
      BY <1>3, <2>2, <2>5 DEF TypeOK, RunsTypeOK
    <3>4. \A t \in Approvals : Awaits(r, t)'
      BY <3>3 DEF Awaits
    <3> QED BY <1>1, <1>2, <2>3, <3>2, <3>4, LoneMoves
  <2> QED BY <2>4, <2>5
<1> QED BY <1>4, <1>5

LEMMA ReturnsLone ==
  ASSUME TypeOK, Lone, NEW r \in Runs, NEW s \in Steps,
         AgentReturns(r, s) \/ ApprovalReturns(r, s)
  PROVE  Lone'
<1>1. PICK result \in Result :
        /\ Returns(r, s, result)
        /\ (approval' # approval \/ result = "waiting") => s \in Approvals
  BY DEF AgentReturns, ApprovalReturns, Result
<1>2. /\ up' = up /\ pc' = pc /\ batch' = batch /\ task[r][s] = "executing" /\ mem' = mem
      /\ up /\ turn = Nobody /\ turn' = turn
  BY <1>1 DEF Returns
<1>3. /\ \A q \in Runs \ {r} : task'[q] = task[q]
      /\ task'[r][s] = result /\ \A t \in Steps \ {s} : task'[r][t] = task[r][t]
  BY <1>1 DEF Returns, TypeOK, RunsTypeOK
<1>4. pc[r] = "steps" /\ s \in batch[r] /\ (s \in Approvals => Alone(r))
  BY <1>2 DEF Lone, TasksInBatch
<1>5. \A t \in Approvals : ~Awaits(r, t) /\ ~Asked(t)
  <2> SUFFICES ASSUME NEW t \in Approvals PROVE ~Awaits(r, t) /\ ~Asked(t)
    OBVIOUS
  <2>1. ~Awaits(r, t)
    BY <1>2, NotAwaiting
  <2> QED BY <1>4, <2>1 DEF Lone, RequestAwaited
<1>6. TasksInBatch(r)'
  BY <1>1, <1>2, <1>3, <1>4 DEF Lone, TasksInBatch, Alone
<1>7. CASE approval' = approval
  BY <1>2, <1>3, <1>4, <1>5, <1>6, <1>7, LoneMoves
<1>8. CASE approval' # approval
  <2>1. approval' = [approval EXCEPT ![s] = "pending"] /\ result = "waiting" /\ s \in Approvals
    <3>1. s \in Approvals /\ ~Asked(s)
      BY <1>1, <1>5, <1>8
    <3>2. approval' = [approval EXCEPT ![s] = "pending"] /\ Returns(r, s, "waiting")
      BY <1>8, <3>1 DEF AgentReturns, ApprovalReturns, Asked
    <3>3. task'[r][s] = "waiting"
      BY <3>2 DEF Returns, TypeOK, RunsTypeOK
    <3> QED BY <1>3, <3>1, <3>2, <3>3
  <2>2. \A q \in Runs \ {r} : pc[q] = "idle"
    BY <1>4 DEF Lone, SingleWriter
  <2>3. Awaits(r, s)'
    BY <1>3, <2>1 DEF Awaits
  <2>4. \A t \in Approvals : Asked(t)' => t = s
    BY <1>5, <2>1, ApprovalsAreSteps DEF Asked, TypeOK, EnvTypeOK
  <2>5. ASSUME NEW t \in Approvals, Asked(t)'
        PROVE  RequestAwaited(t)'
    <3>1. t = s
      BY <2>4, <2>5
    <3>2. \A q \in Runs : pc'[q] # "idle" => Awaits(q, s)'
      BY <1>2, <2>2, <2>3
    <3> QED BY <2>4, <3>1, <3>2 DEF RequestAwaited
  <2>6. ASSUME NEW q \in Runs
        PROVE  TasksInBatch(q)'
    BY <1>2, <1>3, <1>6 DEF Lone, TasksInBatch, Alone
  <2>7. SingleWriter'
    BY <1>2 DEF Lone, SingleWriter
  <2> QED BY <1>2, <2>5, <2>6, <2>7 DEF Lone
<1> QED BY <1>7, <1>8

LEMMA StepOfLone ==
  ASSUME TypeOK, Lone, NEW r \in Runs, NEW s \in Steps, StepOf(r, s)
  PROVE  Lone'
<1>1. CASE AgentReturns(r, s) \/ ApprovalReturns(r, s)
  BY <1>1, ReturnsLone
<1>2. CASE StepWaits(r, s)
  BY <1>2, WaitsLone
<1>3. CASE SkipStep(r, s) \/ ExecuteStep(r, s)
  BY <1>3, StepLone DEF SkipStep, ExecuteStep, BeginStep, envVars
<1>4. CASE StepSucceeds(r, s) \/ StepRetries(r, s) \/ NextAttempt(r, s)
  BY <1>4, StepLone DEF StepSucceeds, StepRetries, NextAttempt, Got, envVars
<1>5. CASE StepFails(r, s) \/ FailExecution(r, s)
  BY <1>5, StepLone DEF StepFails, GivesUp, FailExecution, Got, envVars
<1>6. CASE RunCompensation(r, s)
  <2>1. up' = up /\ approval' = approval
    BY <1>6 DEF RunCompensation, envVars
  <2>2. CASE UNCHANGED <<mem, pc, batch, task, tries, turn>>
    BY <2>1, <2>2 DEF Lone, SingleWriter, Idle, TasksInBatch, Alone, RequestAwaited, Awaits, Asked
  <2>3. CASE pc[r] = "compensating" /\ EndRun(r)
    BY <2>1, <2>3, LoneEnds
  <2>4. ASSUME NEW q \in Steps, task[r][q] = "compensating", LeaveStep(r, q, mem[r], {})
        PROVE  Lone'
    BY <2>1, <2>4, StepLone
  <2> QED BY <1>6, <2>2, <2>3, <2>4 DEF RunCompensation
<1> QED BY <1>1, <1>2, <1>3, <1>4, <1>5, <1>6 DEF StepOf

(* The loop of a run that does not wait for a decision.                    *)
LEMMA LoopLone ==
  ASSUME TypeOK, Consistent, Undisturbed, Lone, NEW r \in Runs,
         \/ EnterRun(r) \/ LoopStops(r) \/ LoopFails(r) \/ LoopCompletes(r)
         \/ LoopSleeps(r) \/ Poll(r) \/ LoopDispatches(r) \/ Gathered(r)
  PROVE  Lone'
<1>1. pc[r] # "idle" /\ up' = up /\ approval' = approval
  BY DEF EnterRun, LoopStops, LoopFails, LoopCompletes, LoopSleeps, Poll, LoopDispatches,
         Gathered, InLoop, envVars
<1>2. CASE EndRun(r)
  BY <1>1, <1>2, LoneEnds
<1>3. CASE ~EndRun(r) /\ LoopDispatches(r)
  <2> DEFINE ready == ReadySteps(mem[r])
  <2>1. /\ pc' = [pc EXCEPT ![r] = "steps"] /\ batch' = [batch EXCEPT ![r] = ready]
        /\ task' = [task EXCEPT ![r] = [s \in Steps |-> IF s \in ready THEN "queued" ELSE "none"]]
        /\ mem[r].status # "paused" /\ pc[r] = "loop"
    BY <1>3 DEF LoopDispatches, InLoop
  <2>2. /\ pc'[r] = "steps" /\ batch'[r] = ready
        /\ \A s \in Steps : task'[r][s] = IF s \in ready THEN "queued" ELSE "none"
        /\ \A q \in Runs \ {r} : pc'[q] = pc[q] /\ task'[q] = task[q] /\ batch'[q] = batch[q]
    BY <2>1 DEF TypeOK, RunsTypeOK
  <2>3. \A s \in Approvals : ~Awaits(r, s)
    BY <2>1, ApprovalsAreSteps, NoTaskThere DEF Awaits
  <2>4. ASSUME NEW s \in Approvals, s \in ready
        PROVE  Cardinality(ready) = 1
    <3>1. mem[r] \in Record /\ InOrder(mem[r])
      BY DEF TypeOK, RunsTypeOK, Consistent, RunOK, CopyOK
    <3>2. \A t \in ready : /\ t \in Steps /\ DepsMet(mem[r], t)
                           /\ mem[r].step[t] \notin Satisfied
      BY DEF ReadySteps, IsReady, DepsMet, Satisfied
    <3> HIDE DEF ready
    <3>3. \A t \in ready : t = s
      <4> TAKE t \in ready
      <4>1. s # t => Ordered(s, t)
        BY <3>2 DEF Undisturbed
      <4> QED BY <2>4, <3>1, <3>2, <4>1, NothingBeside
    <3>4. ready = {s}
      BY <2>4, <3>3
    <3> QED BY <3>4, FS_Singleton
  <2>5. TasksInBatch(r)'
    BY <2>2, <2>4 DEF TasksInBatch, Alone
  <2> QED BY <1>1, <2>2, <2>3, <2>5, LoneMoves
<1>4. CASE ~EndRun(r) /\ ~LoopDispatches(r)
  <2>1. /\ batch' = batch /\ task' = task
        /\ pc[r] \in {"entering", "loop", "sleeping", "steps"}
        /\ \A s \in Steps : task[r][s] = "none"
    <3>1. CASE Gathered(r)
      BY <1>4, <3>1 DEF Gathered, NoTasks
    <3>2. CASE ~Gathered(r)
      <4>1. batch' = batch /\ task' = task /\ pc[r] \in {"entering", "loop", "sleeping"}
        BY <1>4, <3>2 DEF EnterRun, LoopStops, LoopFails, LoopCompletes, LoopSleeps, Poll, InLoop
      <4> QED BY <4>1, NoTaskThere
    <3> QED BY <3>1, <3>2
  <2>2. /\ \A s \in Approvals : ~Awaits(r, s)
        /\ \E where : pc' = [pc EXCEPT ![r] = where]
    <3>1. pc[r] = "loop" /\ turn = r => mem[r].status # "paused"
      BY <1>4 DEF EnterRun, LoopStops, LoopFails, LoopCompletes, LoopSleeps, Poll, Gathered, InLoop
    <3>2. \E where : pc' = [pc EXCEPT ![r] = where]
      BY <1>4 DEF EnterRun, LoopStops, LoopFails, LoopCompletes, LoopSleeps, Poll, Gathered
    <3> QED BY <2>1, <3>1, <3>2, ApprovalsAreSteps DEF Awaits
  <2>3. \A q \in Runs \ {r} : pc'[q] = pc[q] /\ task'[q] = task[q] /\ batch'[q] = batch[q]
    BY <2>1, <2>2 DEF TypeOK, RunsTypeOK
  <2>4. TasksInBatch(r)'
    BY <2>1 DEF TasksInBatch
  <2> QED BY <1>1, <2>2, <2>3, <2>4, LoneMoves
<1> QED BY <1>2, <1>3, <1>4

LEMMA ResumeLone ==
  ASSUME TypeOK, Lone, NEW r \in Runs, NEW c, Resume(r, c), pc[r] \in {"scheduled", "resuming"}
  PROVE  Lone'
<1>1. up' = up /\ approval' = approval
  BY DEF Resume, envVars
<1>2. CASE EndRun(r)
  BY <1>1, <1>2, LoneEnds
<1>3. CASE ~EndRun(r)
  <2>1. pc' = [pc EXCEPT ![r] = "entering"] /\ batch' = batch /\ task' = task
    BY <1>3 DEF Resume
  <2>2. \A q \in Runs \ {r} : pc'[q] = pc[q] /\ task'[q] = task[q] /\ batch'[q] = batch[q]
    BY <2>1 DEF TypeOK, RunsTypeOK
  <2>3. \A s \in Steps : task[r][s] = "none"
    BY NoTaskThere
  <2>4. TasksInBatch(r)' /\ \A s \in Approvals : ~Awaits(r, s)
    BY <2>1, <2>3, ApprovalsAreSteps DEF TasksInBatch, Awaits
  <2> QED BY <1>1, <2>2, <2>4, LoneMoves
<1> QED BY <1>2, <1>3

(* A run is created when there is none, and no other request is pending.   *)
LEMMA SpawnLone ==
  ASSUME TypeOK, Lone, Idle, NEW r \in Runs, NEW c, NEW where, Spawn(r, c, where), up',
         \A s \in Approvals : ~Asked(s)'
  PROVE  Lone'
<1>1. \A q \in Runs \ {r} : pc'[q] = "idle"
  BY DEF Spawn, Idle, TypeOK, RunsTypeOK
<1>2. \A q \in Runs, s \in Steps : task'[q][s] = "none"
  BY NoTaskThere DEF Spawn, Idle
<1> QED BY <1>1, <1>2 DEF Lone, SingleWriter, TasksInBatch

LEMMA EnvironmentLone ==
  ASSUME TypeOK, Gated, Undisturbed, Lone,
         \/ Start
         \/ CancelExecution
         \/ \E s \in Approvals : DecideOn(s)
         \/ Crash
         \/ Recover
  PROVE  Lone'
<1>1. ASSUME UNCHANGED <<runVars, approval>>, up' = up \/ up'
      PROVE  Lone'
  BY <1>1 DEF runVars, Lone, SingleWriter, Idle, TasksInBatch, Alone, RequestAwaited, Awaits, Asked
<1>2. ASSUME NEW r \in Runs, StartExecution(r) \/ StartInline(r)
      PROVE  Lone'
  <2>1. Idle /\ up' /\ \A s \in Approvals : ~Asked(s)'
    BY <1>2, ApprovalsAreSteps
    DEF StartExecution, StartInline, Gated, NothingBeforeStart, Idle, Asked, envVars
  <2> QED BY <1>2, <2>1, SpawnLone DEF StartExecution, StartInline
<1>3. ASSUME CancelExecution PROVE Lone'
  BY <1>1, <1>3 DEF CancelExecution, envVars
<1>4. ASSUME NEW s \in Approvals, NEW decision \in {"approved", "rejected"}, NEW r \in Runs,
             Decide(s, decision, r)
      PROVE  Lone'
  <2>1. Asked(s) /\ turn = Nobody /\ \A q \in Runs : task[q][s] # "waiting"
    BY <1>4 DEF Decide, Asked, Undisturbed
  <2>2. RequestAwaited(s)
    BY <2>1 DEF Lone
  <2>3. Idle
    BY <2>1, <2>2, NobodyIsNoRun DEF RequestAwaited, Awaits, Idle
  <2>4. \A t \in Approvals : ~Asked(t)'
    BY <1>4, <2>2, ApprovalsAreSteps DEF Decide, RequestAwaited, Asked, TypeOK, EnvTypeOK
  <2> QED BY <1>4, <2>3, <2>4, SpawnLone DEF Decide
<1>5. ASSUME Crash PROVE Lone'
  BY <1>5, ApprovalsAreSteps DEF Crash, NoTasks, Lone, SingleWriter, Idle, TasksInBatch, Asked
<1>6. ASSUME RecoverSkips \/ RecoverMarksFailed
      PROVE  Lone'
  BY <1>1, <1>6 DEF RecoverSkips, RecoverMarksFailed, Recovers, runVars
<1>7. ASSUME NEW r \in Runs, RecoverResumes(r) \/ \E s \in Steps : RecoverRetriesStep(r, s)
      PROVE  Lone'
  <2>1. Idle /\ up' /\ (\A s \in Approvals : ~Asked(s)') /\ \E c : Spawn(r, c, "resuming")
    BY <1>7 DEF RecoverResumes, RecoverRetriesStep, Recovers, Lone, Asked
  <2> QED BY <2>1, SpawnLone
<1> QED
  BY <1>2, <1>3, <1>4, <1>5, <1>6, <1>7 DEF Start, DecideOn, Recover

LEMMA NextLone ==
  ASSUME TypeOK, Consistent, Gated, Undisturbed, Lone, [Next]_vars
  PROVE  Lone'
<1>1. ASSUME NEW r \in Runs, RunStep(r)
      PROVE  Lone'
  <2>1. CASE RunExecution(r) \/ ResumeTask(r)
    BY <2>1, ResumeLone DEF RunExecution, ResumeTask
  <2>2. CASE \/ EnterRun(r) \/ LoopStops(r) \/ LoopFails(r) \/ LoopCompletes(r)
             \/ LoopSleeps(r) \/ Poll(r) \/ LoopDispatches(r) \/ Gathered(r)
    BY <2>2, LoopLone
  <2>3. CASE \E s \in Steps : StepOf(r, s)
    BY <2>3, StepOfLone
  <2> QED BY <1>1, <2>1, <2>2, <2>3 DEF RunStep
<1>2. CASE \/ Start \/ CancelExecution \/ (\E s \in Approvals : DecideOn(s))
           \/ Crash \/ Recover
  BY <1>2, EnvironmentLone
<1>3. CASE UNCHANGED vars
  BY <1>3 DEF vars, runVars, envVars, Lone, SingleWriter, Idle, TasksInBatch, Alone,
              RequestAwaited, Awaits, Asked
<1> QED BY <1>1, <1>2, <1>3 DEF Next

LEMMA LoneAlways ==
  ASSUME Undisturbed
  PROVE  Spec => []Lone
<1>1. Init => Lone
  BY ApprovalsAreSteps DEF Init, NoTasks, Lone, SingleWriter, Idle, TasksInBatch, Asked
<1>2. TypeOK /\ Consistent /\ Gated /\ Lone /\ [Next]_vars => Lone'
  BY NextLone
<1> QED BY <1>1, <1>2, TypeCorrect, ConsistentAlways, GatedAlways, PTL DEF Spec

(* At most one run works on the execution, whatever its users, crashes and *)
(* the recovery do, when no step runs beside an approval step and nobody   *)
(* decides before the execution shows as paused.                           *)
THEOREM OneWriter ==
  ASSUME Undisturbed
  PROVE  Spec => []SingleWriter
<1>1. Lone => SingleWriter
  BY DEF Lone
<1> QED BY <1>1, LoneAlways, PTL

-----------------------------------------------------------------------------
(* With one writer, the copy a run works on is what the repository holds,  *)
(* but for a cancel, which the run has not seen.                           *)
Live(r) == pc[r] \notin {"idle", "scheduled"}

SameSteps(c, d) == c.step = d.step /\ c.doneAt = d.doneAt

Follows(c, d) ==
  /\ SameSteps(c, d)
  /\ c.status = d.status \/ (d.status = "cancelled" /\ c.status \in Active)

Synced == \A r \in Runs : Live(r) => Follows(mem[r], db)

LEMMA FollowsItself ==
  ASSUME NEW c
  PROVE  Follows(c, c)
BY DEF Follows, SameSteps

LEMMA SyncedRun ==
  ASSUME NEW r \in Runs, \A q \in Runs \ {r} : pc'[q] = "idle",
         Live(r)' => Follows(mem'[r], db')
  PROVE  Synced'
BY DEF Synced, Live

LEMMA SyncedMoves ==
  ASSUME TypeOK, Lone, NEW r \in Runs, pc[r] # "idle",
         NEW where, pc' = [pc EXCEPT ![r] = where] \/ pc' = pc,
         Follows(mem'[r], db')
  PROVE  Synced'
<1>1. \A q \in Runs \ {r} : pc'[q] = "idle"
  BY DEF Lone, SingleWriter, TypeOK, RunsTypeOK
<1> QED BY <1>1, SyncedRun

LEMMA SyncedEnds ==
  ASSUME TypeOK, Lone, NEW r \in Runs, pc[r] # "idle", EndRun(r)
  PROVE  Synced'
<1>1. \A q \in Runs : pc'[q] = "idle"
  BY DEF EndRun, Lone, SingleWriter, TypeOK, RunsTypeOK
<1> QED BY <1>1 DEF Synced, Live

LEMMA SyncedSpawn ==
  ASSUME TypeOK, Lone', NEW r \in Runs, NEW c, NEW where, Spawn(r, c, where),
         where # "idle", where = "scheduled" \/ c = db'
  PROVE  Synced'
<1>1. pc'[r] = where /\ mem'[r] = c
  BY DEF Spawn, TypeOK, RunsTypeOK
<1>2. \A q \in Runs \ {r} : pc'[q] = "idle"
  BY <1>1 DEF Lone, SingleWriter
<1> QED BY <1>1, <1>2, SyncedRun, FollowsItself DEF Live

LEMMA StepSynced ==
  ASSUME TypeOK, Consistent, Lone, Synced, NEW r \in Runs, NEW s \in Steps, StepOf(r, s)
  PROVE  Synced'
<1>1. ASSUME NEW q \in Steps, task[r][q] # "none"
      PROVE  pc[r] = "steps" /\ Follows(mem[r], db)
  BY <1>1 DEF Lone, TasksInBatch, Synced, Live
<1>2. ASSUME NEW q \in Steps, task[r][q] # "none", NEW c, NEW left, NEW ts, NEW next,
             LeaveStep(r, q, c, left) \/ StayInStep(r, q, ts, c, next) \/ StepRaises(r, q, c),
             Follows(c, db')
      PROVE  Synced'
  <2>1. pc[r] = "steps"
    BY <1>1, <1>2
  <2>2. CASE EndRun(r)
    BY <2>1, <2>2, SyncedEnds
  <2>3. CASE ~EndRun(r)
    <3>1. /\ mem' = [mem EXCEPT ![r] = c]
          /\ pc' = [pc EXCEPT ![r] = "loop"] \/ pc' = pc
      BY <1>2, <2>3, Zenon DEF LeaveStep, StepRaises, StayInStep
    <3>2. mem'[r] = c
      BY <3>1 DEF TypeOK, RunsTypeOK
    <3> QED BY <1>2, <2>1, <3>1, <3>2, SyncedMoves
  <2> QED BY <2>2, <2>3
<1>3. CASE SkipStep(r, s) \/ ExecuteStep(r, s)
  BY <1>2, <1>3, FollowsItself DEF SkipStep, ExecuteStep, BeginStep
<1>4. CASE AgentReturns(r, s) \/ ApprovalReturns(r, s)
  <2>1. UNCHANGED <<db, mem, pc>>
    BY <1>4 DEF AgentReturns, ApprovalReturns, Returns
  <2> QED BY <2>1 DEF Synced, Live, Follows, SameSteps
<1>5. CASE StepSucceeds(r, s) \/ StepRetries(r, s)
  BY <1>2, <1>5, FollowsItself DEF StepSucceeds, StepRetries, Got
<1>6. CASE StepWaits(r, s)
  <2>1. task[r][s] = "waiting" /\ pc[r] = "steps" /\ Alone(r)
    BY <1>6 DEF StepWaits, Got, Lone, TasksInBatch
  <2>2. CASE db' = db /\ StepRaises(r, s, WithStep(mem[r], s, "waiting_approval"))
    BY <2>1, <2>2, SyncedEnds DEF StepRaises
  <2>3. CASE db' # db \/ ~StepRaises(r, s, WithStep(mem[r], s, "waiting_approval"))
    BY <1>2, <1>6, <2>1, <2>3, FollowsItself DEF StepWaits
  <2> QED BY <2>2, <2>3
<1>7. CASE NextAttempt(r, s)
  BY <1>1, <1>2, <1>7 DEF NextAttempt, Got
<1>8. CASE StepFails(r, s)
  BY <1>2, <1>8, FollowsItself DEF StepFails, GivesUp, Got
<1>9. CASE FailExecution(r, s)
  BY <1>1, <1>2, <1>9, FollowsItself DEF FailExecution
<1>10. CASE RunCompensation(r, s)
  <2>1. db' = db
    BY <1>10 DEF RunCompensation
  <2>2. CASE UNCHANGED <<mem, pc>>
    BY <2>1, <2>2 DEF Synced, Live, Follows, SameSteps
  <2>3. CASE pc[r] = "compensating" /\ EndRun(r)
    BY <2>3, SyncedEnds
  <2>4. ASSUME NEW q \in Steps, task[r][q] = "compensating", LeaveStep(r, q, mem[r], {})
        PROVE  Synced'
    BY <1>1, <1>2, <2>1, <2>4
  <2> QED BY <1>10, <2>2, <2>3, <2>4 DEF RunCompensation
<1> QED
  BY <1>3, <1>4, <1>5, <1>6, <1>7, <1>8, <1>9, <1>10 DEF StepOf

LEMMA LoopSynced ==
  ASSUME TypeOK, Lone, Synced, NEW r \in Runs,
         \/ EnterRun(r) \/ LoopStops(r) \/ LoopFails(r) \/ LoopCompletes(r)
         \/ LoopSleeps(r) \/ Poll(r) \/ LoopDispatches(r) \/ Gathered(r)
  PROVE  Synced'
<1>1. pc[r] # "idle" /\ Live(r) /\ Follows(mem[r], db)
  BY DEF EnterRun, LoopStops, LoopFails, LoopCompletes, LoopSleeps, Poll, LoopDispatches,
         Gathered, InLoop, Synced, Live
<1>2. CASE EndRun(r)
  BY <1>1, <1>2, SyncedEnds
<1>3. CASE ~EndRun(r)
  <2>1. \E where : pc' = [pc EXCEPT ![r] = where]
    BY <1>3 DEF EnterRun, LoopStops, LoopFails, LoopCompletes, LoopSleeps, Poll, LoopDispatches,
                Gathered
  <2>2. Follows(mem'[r], db')
    <3>1. CASE EnterRun(r) \/ LoopFails(r)
      <4>1. CASE EnterRun(r) /\ mem[r].status = "pending"
        <5>1. mem' = [mem EXCEPT ![r] = db']
          BY <4>1 DEF EnterRun
        <5> QED BY <5>1, FollowsItself DEF TypeOK, RunsTypeOK
      <4>2. CASE EnterRun(r) /\ mem[r].status # "pending"
        <5>1. mem' = mem /\ db' = db
          BY <4>2 DEF EnterRun, TypeOK, RunsTypeOK
        <5> QED BY <1>1, <5>1
      <4>3. CASE LoopFails(r)
        <5>1. CanFail(mem[r]) /\ mem' = [mem EXCEPT ![r] = WithStatus(mem[r], "failed")]
          BY <1>3, <4>3, Zenon DEF LoopFails
        <5>2. db' = WithStatus(mem[r], "failed")
          BY <4>3, <5>1 DEF LoopFails
        <5> QED BY <5>1, <5>2, FollowsItself DEF TypeOK, RunsTypeOK
      <4> QED BY <3>1, <4>1, <4>2, <4>3
    <3>2. CASE ~(EnterRun(r) \/ LoopFails(r))
      <4>1. mem' = mem /\ db' = db
        BY <1>3, <3>2 DEF LoopStops, LoopCompletes, LoopSleeps, Poll, LoopDispatches, Gathered
      <4> QED BY <1>1, <4>1
    <3> QED BY <3>1, <3>2
  <2> QED BY <1>1, <2>1, <2>2, SyncedMoves
<1> QED BY <1>2, <1>3

LEMMA ResumeSynced ==
  ASSUME TypeOK, Lone, NEW r \in Runs, NEW c, Resume(r, c), Follows(c, db),
         pc[r] \in {"scheduled", "resuming"}
  PROVE  Synced'
<1>1. CASE EndRun(r)
  BY <1>1, SyncedEnds
<1>2. CASE ~EndRun(r)
  <2>1. CASE c.status = "paused"
    <3>1. mem' = [mem EXCEPT ![r] = db'] /\ pc' = [pc EXCEPT ![r] = "entering"]
      BY <1>2, <2>1 DEF Resume
    <3>2. mem'[r] = db'
      BY <3>1 DEF TypeOK, RunsTypeOK
    <3> QED BY <3>1, <3>2, FollowsItself, SyncedMoves
  <2>2. CASE c.status # "paused"
    <3>1. mem' = [mem EXCEPT ![r] = c] /\ db' = db /\ pc' = [pc EXCEPT ![r] = "entering"]
      BY <1>2, <2>2 DEF Resume
    <3>2. mem'[r] = c
      BY <3>1 DEF TypeOK, RunsTypeOK
    <3> QED BY <3>1, <3>2, SyncedMoves
  <2> QED BY <2>1, <2>2
<1> QED BY <1>1, <1>2

LEMMA EnvironmentSynced ==
  ASSUME TypeOK, Lone, Lone', Synced,
         \/ Start
         \/ CancelExecution
         \/ \E s \in Approvals : DecideOn(s)
         \/ Crash
         \/ Recover
  PROVE  Synced'
<1>1. ASSUME NEW r \in Runs, StartExecution(r) \/ StartInline(r)
      PROVE  Synced'
  BY <1>1, SyncedSpawn DEF StartExecution, StartInline
<1>2. ASSUME CancelExecution
      PROVE  Synced'
  <2>1. /\ mem' = mem /\ pc' = pc /\ db' = WithStatus(db, "cancelled")
        /\ db.status \in Active
    BY <1>2 DEF CancelExecution, runVars
  <2>2. db'.status = "cancelled" /\ SameSteps(db, db')
    BY <2>1 DEF WithStatus, SameSteps, TypeOK
  <2>3. ASSUME NEW r \in Runs, Live(r)' PROVE Follows(mem'[r], db')
    BY <2>1, <2>2, <2>3 DEF Synced, Live, Follows, SameSteps, Active
  <2> QED BY <2>3 DEF Synced
<1>3. ASSUME NEW s \in Approvals, DecideOn(s)
      PROVE  Synced'
  BY <1>3, SyncedSpawn DEF DecideOn, Decide
<1>4. ASSUME Crash
      PROVE  Synced'
  BY <1>4 DEF Crash, Synced, Live
<1>5. ASSUME RecoverSkips \/ RecoverMarksFailed
      PROVE  Synced'
  BY <1>5 DEF RecoverSkips, RecoverMarksFailed, Recovers, Synced, Lone, Idle, Live
<1>6. ASSUME NEW r \in Runs, RecoverResumes(r) \/ \E s \in Steps : RecoverRetriesStep(r, s)
      PROVE  Synced'
  BY <1>6, SyncedSpawn DEF RecoverResumes, RecoverRetriesStep
<1> QED
  BY <1>1, <1>2, <1>3, <1>4, <1>5, <1>6 DEF Start, Recover

LEMMA SyncedAlways ==
  ASSUME Undisturbed
  PROVE  Spec => []Synced
<1>1. Init => Synced
  BY DEF Init, Synced, Live
<1>2. TypeOK /\ Consistent /\ Lone /\ Lone' /\ Synced /\ [Next]_vars => Synced'
  <2> SUFFICES ASSUME TypeOK, Consistent, Lone, Lone', Synced, [Next]_vars PROVE Synced'
    OBVIOUS
  <2>1. ASSUME NEW r \in Runs, RunStep(r)
        PROVE  Synced'
    <3>1. CASE RunExecution(r)
      BY <3>1, FollowsItself, ResumeSynced DEF RunExecution
    <3>2. CASE ResumeTask(r)
      BY <3>2, ResumeSynced DEF ResumeTask, Synced, Live
    <3>3. CASE \/ EnterRun(r) \/ LoopStops(r) \/ LoopFails(r) \/ LoopCompletes(r)
               \/ LoopSleeps(r) \/ Poll(r) \/ LoopDispatches(r) \/ Gathered(r)
      BY <3>3, LoopSynced
    <3>4. CASE \E s \in Steps : StepOf(r, s)
      BY <3>4, StepSynced
    <3> QED BY <2>1, <3>1, <3>2, <3>3, <3>4 DEF RunStep
  <2>2. CASE \/ Start \/ CancelExecution \/ (\E s \in Approvals : DecideOn(s))
             \/ Crash \/ Recover
    BY <2>2, EnvironmentSynced
  <2>3. CASE UNCHANGED vars
    BY <2>3 DEF vars, runVars, Synced, Live, Follows, SameSteps
  <2> QED BY <2>1, <2>2, <2>3 DEF Next
<1> QED BY <1>1, <1>2, TypeCorrect, ConsistentAlways, LoneAlways, PTL DEF Spec

-----------------------------------------------------------------------------
(* The order of compensation.  The stamps of the completed steps tell them *)
(* apart and none is above the number of completed steps, so the stamp of  *)
(* the next step to complete is above them all.                            *)
Done(c) == StepsIn(c, {"completed"})

Stamped(c) ==
  /\ \A s \in Done(c) : c.doneAt[s] <= Cardinality(Done(c))
  /\ \A s, t \in Done(c) : s # t => c.doneAt[s] # c.doneAt[t]

(* What was completed in c is completed in d, with the same stamps.        *)
Prolongs(d, c) ==
  /\ Stamped(d)
  /\ \A s \in Done(c) : s \in Done(d) /\ d.doneAt[s] = c.doneAt[s]

LEMMA DoneFinite ==
  ASSUME NEW c
  PROVE  IsFiniteSet(Done(c)) /\ Cardinality(Done(c)) \in Nat
BY StepsFinite, FS_Subset, FS_CardinalityType DEF Done, StepsIn

LEMMA SameDone ==
  ASSUME NEW c \in Record, NEW d \in Record, Stamped(c), d.doneAt = c.doneAt,
         \A s \in Steps : d.step[s] = "completed" <=> c.step[s] = "completed"
  PROVE  Prolongs(d, c)
<1>1. Done(d) = Done(c)
  BY DEF Done, StepsIn
<1> QED BY <1>1 DEF Prolongs, Stamped

LEMMA MoreDone ==
  ASSUME NEW c \in Record, Stamped(c), NEW s \in Steps, c.step[s] # "completed"
  PROVE  Prolongs(Completed(c, s), c)
<1> DEFINE d == Completed(c, s)
<1> DEFINE n == Cardinality(Done(c))
<1>1. n \in Nat /\ IsFiniteSet(Done(c)) /\ s \notin Done(c)
  BY DoneFinite DEF Done, StepsIn
<1>2. /\ d.step[s] = "completed" /\ d.doneAt[s] = n + 1
      /\ \A q \in Steps \ {s} : d.step[q] = c.step[q] /\ d.doneAt[q] = c.doneAt[q]
  <2>1. d = [c EXCEPT !.step[s] = "completed", !.doneAt[s] = n + 1]
    BY DEF Completed, Done
  <2> HIDE DEF d, n
  <2> QED BY <2>1
<1> HIDE DEF d
<1>3. Done(d) = Done(c) \union {s}
  BY <1>2 DEF Done, StepsIn
<1>4. Cardinality(Done(d)) = n + 1
  BY <1>1, <1>3, FS_AddElement
<1>5. \A q \in Done(c) : /\ d.doneAt[q] = c.doneAt[q] /\ c.doneAt[q] \in Nat /\ c.doneAt[q] <= n
                         /\ q \in Steps \ {s}
  <2> TAKE q \in Done(c)
  <2>1. q \in Steps \ {s}
    BY <1>1 DEF Done, StepsIn
  <2> QED BY <1>2, <2>1 DEF Stamped
<1> HIDE DEF n
<1>6. Stamped(d)
  <2>1. \A q \in Done(d) : d.doneAt[q] <= n + 1
    BY <1>1, <1>2, <1>3, <1>5
  <2>2. \A q, t \in Done(d) : q # t => d.doneAt[q] # d.doneAt[t]
    BY <1>1, <1>2, <1>3, <1>5 DEF Stamped
  <2> QED BY <1>4, <2>1, <2>2 DEF Stamped
<1> QED BY <1>3, <1>5, <1>6 DEF Prolongs, d

(* Every change of a record that the engine makes.                         *)
LEMMA Prolonged ==
  ASSUME NEW c \in Record, Stamped(c), NEW s \in Steps, c.step[s] # "completed",
         NEW st \in StepStatus \ {"completed"}, NEW es \in ExecutionStatus
  PROVE  /\ Prolongs(WithStep(c, s, st), c)
         /\ Prolongs(WithStatus(WithStep(c, s, st), es), c)
         /\ Prolongs(Completed(c, s), c)
<1> DEFINE d == WithStep(c, s, st)
<1>1. d \in Record /\ d.doneAt = c.doneAt
  BY DEF WithStep
<1>2. \A q \in Steps : d.step[q] = "completed" <=> c.step[q] = "completed"
  BY StepChanges
<1> HIDE DEF d
<1>3. /\ WithStatus(d, es) \in Record /\ WithStatus(d, es).doneAt = d.doneAt
      /\ WithStatus(d, es).step = d.step
  BY <1>1 DEF WithStatus
<1>4. Prolongs(d, c)
  BY <1>1, <1>2, SameDone
<1>5. Prolongs(WithStatus(d, es), c)
  BY <1>1, <1>2, <1>3, SameDone
<1> QED BY <1>4, <1>5, MoreDone DEF d

LEMMA StatusProlongs ==
  ASSUME NEW c \in Record, Stamped(c), NEW es \in ExecutionStatus
  PROVE  Prolongs(WithStatus(c, es), c) /\ Prolongs(Resumed(c), c) /\ Prolongs(c, c)
<1>1. WithStatus(c, es) \in Record /\ WithStatus(c, es).doneAt = c.doneAt
      /\ WithStatus(c, es).step = c.step
  BY DEF WithStatus
<1>2. /\ Resumed(c) \in Record /\ Resumed(c).doneAt = c.doneAt
      /\ \A q \in Steps :
           Resumed(c).step[q] = IF c.step[q] = "waiting_approval" THEN "pending" ELSE c.step[q]
  BY DEF Resumed
<1>3. \A q \in Steps : Resumed(c).step[q] = "completed" <=> c.step[q] = "completed"
  BY <1>2
<1> QED BY <1>1, <1>2, <1>3, SameDone

(* A copy that follows the repository may stand for it.                    *)
LEMMA FollowsStamped ==
  ASSUME NEW c, NEW d, NEW e, Follows(c, d)
  PROVE  /\ Stamped(d) => Stamped(c)
         /\ Prolongs(e, c) => Prolongs(e, d)
BY DEF Follows, SameSteps, Stamped, Prolongs, Done, StepsIn

(* The inductive invariant: what a run has yet to compensate is completed, *)
(* and was so before all that is compensated, in a failed execution.       *)
Unwinding(r) ==
  /\ rollback[r] # {} => Live(r) /\ mem[r].status = "failed"
  /\ rollback[r] \subseteq Done(db)
  /\ \A t \in rollback[r], i \in DOMAIN undone : db.doneAt[undone[i]] > db.doneAt[t]

Unwinds ==
  /\ Stamped(db)
  /\ RollbackOrder
  /\ \A r \in Runs : Unwinding(r)

(* Nothing is compensated in this step, and no run gets more to compensate *)
(* unless nothing has been compensated yet.                                *)
LEMMA UnwindsOn ==
  ASSUME TypeOK, TypeOK', Unwinds, undone' = undone, Prolongs(db', db),
         undone # <<>> => db'.status = "failed",
         \A r \in Runs : rollback'[r] # {} =>
           /\ Live(r)' /\ mem'[r].status = "failed"
           /\ \/ rollback'[r] \subseteq rollback[r]
              \/ undone = <<>> /\ rollback'[r] \subseteq Done(db')
  PROVE  Unwinds'
<1>1. \A i \in DOMAIN undone : undone[i] \in Done(db)
  BY DEF Unwinds, RollbackOrder, Done, StepsIn, TypeOK
<1>2. \A s \in Done(db) : s \in Done(db') /\ db'.doneAt[s] = db.doneAt[s]
  BY DEF Prolongs
<1>3. RollbackOrder'
  BY <1>1, <1>2 DEF Unwinds, RollbackOrder, Done, StepsIn
<1>4. ASSUME NEW r \in Runs
      PROVE  Unwinding(r)'
  <2>1. CASE rollback'[r] = {}
    BY <2>1 DEF Unwinding
  <2>2. CASE rollback'[r] # {} /\ rollback'[r] \subseteq rollback[r]
    <3>1. rollback'[r] \subseteq Done(db')
      BY <1>2, <2>2 DEF Unwinds, Unwinding
    <3>2. \A t \in rollback'[r], i \in DOMAIN undone : db'.doneAt[undone[i]] > db'.doneAt[t]
      <4> TAKE t \in rollback'[r], i \in DOMAIN undone
      <4>1. t \in Done(db) /\ undone[i] \in Done(db) /\ db.doneAt[undone[i]] > db.doneAt[t]
        BY <1>1, <2>2 DEF Unwinds, Unwinding
      <4> QED BY <1>2, <4>1
    <3> QED BY <2>2, <3>1, <3>2 DEF Unwinding
  <2>3. CASE rollback'[r] # {} /\ undone = <<>> /\ rollback'[r] \subseteq Done(db')
    BY <2>3 DEF Unwinding
  <2> QED BY <2>1, <2>2, <2>3
<1> QED BY <1>3, <1>4 DEF Unwinds, Prolongs

(* A run that works on the failed record has its copy marked so too.       *)
LEMMA FailedIsSeen ==
  ASSUME Unwinds, Synced, NEW r \in Runs, Live(r)
  PROVE  /\ Follows(mem[r], db) /\ Stamped(mem[r])
         /\ undone # <<>> => mem[r].status = "failed"
         /\ db.status = "failed" <=> mem[r].status = "failed"
<1>1. Follows(mem[r], db)
  BY DEF Synced
<1> QED BY <1>1, FollowsStamped DEF Unwinds, RollbackOrder, Follows, Active

LEMMA EndRunUnwinds ==
  ASSUME TypeOK, TypeOK', Unwinds, NEW r \in Runs, EndRun(r), undone' = undone,
         Prolongs(db', db), undone # <<>> => db'.status = "failed"
  PROVE  Unwinds'
<1>1. /\ rollback'[r] = {}
      /\ \A q \in Runs \ {r} : pc'[q] = pc[q] /\ mem'[q] = mem[q] /\ rollback'[q] = rollback[q]
  BY DEF EndRun, TypeOK, RunsTypeOK
<1>2. \A q \in Runs : rollback'[q] # {} =>
        /\ Live(q)' /\ mem'[q].status = "failed"
        /\ rollback'[q] \subseteq rollback[q]
  BY <1>1 DEF Unwinds, Unwinding, Live
<1> QED BY <1>2, UnwindsOn

(* A live run moves on with copy c and has no more to compensate.          *)
LEMMA LiveUnwinds ==
  ASSUME TypeOK, TypeOK', Unwinds, Synced, NEW r \in Runs, Live(r), NEW c,
         mem' = [mem EXCEPT ![r] = c], Live(r)',
         \A q \in Runs \ {r} : pc'[q] = pc[q],
         undone' = undone, rollback' = rollback, db' \in {db, c},
         Prolongs(c, mem[r]), mem[r].status = "failed" => c.status = "failed"
  PROVE  Unwinds'
<1>1. Prolongs(db', db)
  <2>1. Prolongs(c, db)
    BY FailedIsSeen, FollowsStamped
  <2>2. db \in Record /\ Prolongs(db, db)
    BY StatusProlongs DEF TypeOK, Unwinds
  <2> QED BY <2>1, <2>2
<1>2. undone # <<>> => db'.status = "failed"
  BY FailedIsSeen
<1>3. mem'[r] = c /\ \A q \in Runs \ {r} : mem'[q] = mem[q]
  BY DEF TypeOK, RunsTypeOK
<1>4. \A q \in Runs : rollback'[q] # {} => Live(q)' /\ mem'[q].status = "failed"
  BY <1>3 DEF Unwinds, Unwinding, Live
<1> QED BY <1>1, <1>2, <1>4, UnwindsOn

(* A run whose copy may fail fails it and has the completed steps to undo. *)
LEMMA FailUnwinds ==
  ASSUME TypeOK, TypeOK', Unwinds, Synced, NEW r \in Runs, Live(r), Live(r)', CanFail(mem[r]),
         \A q \in Runs \ {r} : pc'[q] = pc[q], undone' = undone,
         db' = WithStatus(mem[r], "failed"), mem' = [mem EXCEPT ![r] = db'],
         rollback' = [rollback EXCEPT ![r] = ToCompensate(mem[r])]
  PROVE  Unwinds'
<1>1. mem[r] \in Record /\ Stamped(mem[r]) /\ Follows(mem[r], db) /\ undone = <<>>
  BY FailedIsSeen DEF CanFail, TypeOK, RunsTypeOK
<1>2. Prolongs(db', db)
  <2>1. Prolongs(db', mem[r])
    BY <1>1, StatusProlongs
  <2> QED BY <1>1, <2>1, FollowsStamped
<1>3. db'.status = "failed" /\ db'.step = mem[r].step
  BY <1>1 DEF WithStatus
<1>4. ToCompensate(mem[r]) \subseteq Done(db')
  BY <1>3 DEF ToCompensate, Done, StepsIn
<1>5. /\ mem'[r] = db' /\ rollback'[r] = ToCompensate(mem[r])
      /\ \A q \in Runs \ {r} : mem'[q] = mem[q] /\ rollback'[q] = rollback[q]
  BY DEF TypeOK, RunsTypeOK
<1>6. \A q \in Runs : rollback'[q] # {} =>
        /\ Live(q)' /\ mem'[q].status = "failed"
        /\ rollback'[q] \subseteq rollback[q] \/ (undone = <<>> /\ rollback'[q] \subseteq Done(db'))
  BY <1>1, <1>3, <1>4, <1>5 DEF Unwinds, Unwinding, Live
<1> QED BY <1>1, <1>2, <1>6, UnwindsOn

(* The coroutine of step s leaves or goes on with copy c.                  *)
LEMMA StepMovesUnwind ==
  ASSUME TypeOK, TypeOK', Unwinds, Synced, Lone, NEW r \in Runs, NEW s \in Steps,
         task[r][s] # "none", NEW c, NEW ts, NEW next,
         \/ LeaveStep(r, s, c, rollback[r]) /\ db' = c
         \/ StepRaises(r, s, c) /\ db' = db
         \/ StayInStep(r, s, ts, c, next) /\ rollback' = rollback /\ db' \in {db, c},
         undone' = undone, Prolongs(c, mem[r]), mem[r].status = "failed" => c.status = "failed"
  PROVE  Unwinds'
<1>1. pc[r] = "steps" /\ Live(r)
  BY DEF Lone, TasksInBatch, Live
<1>2. CASE EndRun(r)
  <2>1. db' \in {db, c}
    BY DEF StepRaises
  <2>2. Prolongs(c, db) /\ Prolongs(db, db)
    BY <1>1, FailedIsSeen, FollowsStamped, StatusProlongs DEF TypeOK, Unwinds
  <2>3. undone # <<>> => db'.status = "failed"
    BY <1>1, <2>1, FailedIsSeen
  <2> QED BY <1>2, <2>1, <2>2, <2>3, EndRunUnwinds
<1>3. CASE ~EndRun(r)
  <2>1. mem' = [mem EXCEPT ![r] = c] /\ (pc' = [pc EXCEPT ![r] = "loop"] \/ pc' = pc)
    BY <1>3, Zenon DEF LeaveStep, StepRaises, StayInStep
  <2>2. rollback' = [rollback EXCEPT ![r] = rollback[r]] \/ rollback' = rollback
    BY <1>3, Zenon DEF LeaveStep, StepRaises, StayInStep
  <2>3. rollback' = rollback
    BY <2>2 DEF TypeOK, RunsTypeOK
  <2>4. Live(r)' /\ \A q \in Runs \ {r} : pc'[q] = pc[q]
    BY <1>1, <2>1 DEF Live, TypeOK, RunsTypeOK
  <2> QED BY <1>1, <2>1, <2>3, <2>4, LiveUnwinds
<1> QED BY <1>2, <1>3

(* The compensation of the step that completed last among those left.      *)
LEMMA CompensationUnwinds ==
  ASSUME TypeOK, TypeOK', Lone, Unwinds, Synced, NEW r \in Runs, NEW t \in Steps,
         RunCompensation(r, t)
  PROVE  Unwinds'
<1>1. /\ t \in rollback[r] /\ db' = db /\ undone' = Append(undone, t)
      /\ \A u \in rollback[r] : mem[r].doneAt[u] <= mem[r].doneAt[t]
  BY DEF RunCompensation
<1>2. /\ Live(r) /\ mem[r].status = "failed" /\ rollback[r] \subseteq Done(db)
      /\ \A u \in rollback[r], i \in DOMAIN undone : db.doneAt[undone[i]] > db.doneAt[u]
  BY <1>1 DEF Unwinds, Unwinding
<1>3. Follows(mem[r], db) /\ db.status = "failed"
  BY <1>2, FailedIsSeen
<1>4. /\ \A u \in Done(db) : u \in Steps /\ db.doneAt[u] \in Nat
      /\ \A u \in rollback[r] \ {t} : db.doneAt[t] > db.doneAt[u]
  <2>1. \A u \in Done(db) : u \in Steps /\ db.doneAt[u] \in Nat
    BY DEF Done, StepsIn, TypeOK
  <2>2. \A u \in rollback[r] \ {t} : db.doneAt[u] <= db.doneAt[t] /\ db.doneAt[u] # db.doneAt[t]
    BY <1>1, <1>2, <1>3 DEF Follows, SameSteps, Unwinds, Stamped
  <2> QED BY <1>1, <1>2, <2>1, <2>2
<1>5. /\ DOMAIN undone' = 1 .. Len(undone) + 1 /\ undone'[Len(undone) + 1] = t
      /\ \A i \in 1 .. Len(undone) : undone'[i] = undone[i]
      /\ DOMAIN undone = 1 .. Len(undone) /\ Len(undone) \in Nat
  BY <1>1 DEF TypeOK
<1>6. RollbackOrder'
  <2>1. \A i \in DOMAIN undone' : db.step[undone'[i]] = "completed"
    <3> TAKE i \in DOMAIN undone'
    <3>1. CASE i = Len(undone) + 1
      BY <1>1, <1>2, <1>5, <3>1 DEF Done, StepsIn
    <3>2. CASE i # Len(undone) + 1
      BY <1>5, <3>2 DEF Unwinds, RollbackOrder
    <3> QED BY <3>1, <3>2
  <2>2. \A i, j \in DOMAIN undone' : i < j => db.doneAt[undone'[i]] > db.doneAt[undone'[j]]
    <3> SUFFICES ASSUME NEW i \in DOMAIN undone', NEW j \in DOMAIN undone', i < j
                 PROVE  db.doneAt[undone'[i]] > db.doneAt[undone'[j]]
      OBVIOUS
    <3>1. i \in 1 .. Len(undone) /\ undone'[i] = undone[i]
      BY <1>5
    <3>2. CASE j = Len(undone) + 1
      BY <1>1, <1>2, <1>5, <3>1, <3>2
    <3>3. CASE j # Len(undone) + 1
      <4>1. j \in 1 .. Len(undone) /\ undone'[j] = undone[j]
        BY <1>5, <3>3
      <4> QED BY <1>5, <3>1, <4>1 DEF Unwinds, RollbackOrder
    <3> QED BY <3>2, <3>3
  <2> QED BY <1>1, <1>3, <2>1, <2>2 DEF RollbackOrder
<1>7. \/ /\ rollback' = [rollback EXCEPT ![r] = @ \ {t}]
         /\ UNCHANGED <<mem, pc>>
      \/ EndRun(r)
      \/ \E q \in Steps : LeaveStep(r, q, mem[r], {})
  BY DEF RunCompensation
<1>8. /\ rollback'[r] = {} \/ (rollback'[r] = rollback[r] \ {t} /\ pc' = pc /\ mem' = mem)
      /\ \A q \in Runs \ {r} : pc'[q] = pc[q] /\ mem'[q] = mem[q] /\ rollback'[q] = rollback[q]
  <2>1. CASE rollback' = [rollback EXCEPT ![r] = @ \ {t}] /\ UNCHANGED <<mem, pc>>
    BY <2>1 DEF TypeOK, RunsTypeOK
  <2>2. CASE EndRun(r)
    BY <2>2 DEF EndRun, TypeOK, RunsTypeOK
  <2>3. ASSUME NEW q \in Steps, LeaveStep(r, q, mem[r], {}), ~EndRun(r)
        PROVE  /\ rollback'[r] = {}
               /\ \A p \in Runs \ {r} :
                    pc'[p] = pc[p] /\ mem'[p] = mem[p] /\ rollback'[p] = rollback[p]
    <3>1. /\ rollback' = [rollback EXCEPT ![r] = {}] /\ mem' = [mem EXCEPT ![r] = mem[r]]
          /\ pc' = [pc EXCEPT ![r] = "loop"] \/ pc' = pc
      BY <2>3, Zenon DEF LeaveStep
    <3> QED BY <3>1 DEF TypeOK, RunsTypeOK
  <2> QED BY <1>7, <2>1, <2>2, <2>3
<1>9. ASSUME NEW q \in Runs
      PROVE  Unwinding(q)'
  <2>1. CASE rollback'[q] = {}
    BY <2>1 DEF Unwinding
  <2>2. CASE q = r /\ rollback'[q] = rollback[r] \ {t}
    <3>1. ASSUME NEW u \in rollback[r] \ {t}, NEW i \in DOMAIN undone'
          PROVE  db.doneAt[undone'[i]] > db.doneAt[u]
      <4>1. CASE i = Len(undone) + 1
        BY <1>4, <1>5, <4>1
      <4>2. CASE i # Len(undone) + 1
        BY <1>2, <1>5, <4>2
      <4> QED BY <4>1, <4>2
    <3>2. CASE rollback'[r] # {}
      BY <1>1, <1>2, <1>8, <2>2, <3>1, <3>2 DEF Unwinding, Live
    <3> QED BY <2>1, <2>2, <3>2
  <2>3. CASE q # r /\ rollback'[q] # {}
    <3>1. rollback[q] # {} /\ Live(q) /\ Live(r) /\ mem[q].status = "failed"
      BY <1>2, <1>8, <2>3 DEF Unwinds, Unwinding
    <3> QED BY <2>3, <3>1 DEF Lone, SingleWriter, Live
  <2> QED BY <1>8, <2>1, <2>2, <2>3
<1> QED BY <1>1, <1>6, <1>9 DEF Unwinds

LEMMA StepUnwinds ==
  ASSUME TypeOK, TypeOK', Consistent, Lone, Synced, Unwinds, NEW r \in Runs, NEW s \in Steps,
         StepOf(r, s)
  PROVE  Unwinds'
<1>1. ASSUME task[r][s] # "none"
      PROVE  /\ mem[r] \in Record /\ Stamped(mem[r]) /\ mem[r].step[s] # "completed"
             /\ Prolongs(mem[r], mem[r]) /\ pc[r] = "steps" /\ Live(r)
             /\ \A st \in StepStatus \ {"completed"} :
                  /\ Prolongs(WithStep(mem[r], s, st), mem[r])
                  /\ WithStep(mem[r], s, st).status = mem[r].status
  <2>1. pc[r] = "steps" /\ Live(r)
    BY <1>1 DEF Lone, TasksInBatch, Live
  <2>2. mem[r] \in Record /\ mem[r].step[s] # "completed"
    BY <1>1, TaskFacts DEF Satisfied
  <2>3. Stamped(mem[r])
    BY <2>1, FailedIsSeen
  <2> QED BY <2>1, <2>2, <2>3, StatusProlongs, Prolonged, StepChanges
<1>2. CASE SkipStep(r, s) \/ ExecuteStep(r, s)
  BY <1>1, <1>2, StepMovesUnwind DEF SkipStep, ExecuteStep, BeginStep
<1>3. CASE AgentReturns(r, s) \/ ApprovalReturns(r, s)
  <2>1. UNCHANGED <<db, mem, pc, rollback, undone>>
    BY <1>3 DEF AgentReturns, ApprovalReturns, Returns
  <2> QED BY <2>1 DEF Unwinds, Unwinding, RollbackOrder, Live
<1>4. CASE StepSucceeds(r, s)
  <2>1. /\ task[r][s] = "ok" /\ LeaveStep(r, s, Completed(mem[r], s), rollback[r])
        /\ db' = Completed(mem[r], s) /\ undone' = undone
    BY <1>4 DEF StepSucceeds, Got
  <2>2. /\ Prolongs(Completed(mem[r], s), mem[r])
        /\ Completed(mem[r], s).status = mem[r].status
    BY <1>1, <2>1, MoreDone, StepChanges
  <2> QED BY <2>1, <2>2, StepMovesUnwind
<1>5. CASE StepWaits(r, s)
  <2> DEFINE c == WithStep(mem[r], s, "waiting_approval")
  <2> DEFINE d == WithStatus(c, "paused")
  <2>1. task[r][s] = "waiting" /\ undone' = undone
    BY <1>5 DEF StepWaits, Got
  <2>2. Prolongs(c, mem[r]) /\ Prolongs(d, mem[r]) /\ c.status = mem[r].status
    BY <1>1, <2>1, Prolonged
  <2>3. \/ c.status = "running" /\ db' = d /\ LeaveStep(r, s, d, rollback[r])
        \/ db' = db /\ StepRaises(r, s, c)
    BY <1>5 DEF StepWaits
  <2> HIDE DEF c, d
  <2> QED BY <2>1, <2>2, <2>3, StepMovesUnwind
<1>6. CASE StepRetries(r, s) \/ NextAttempt(r, s)
  <2>1. PICK ts \in {"backoff", "executing"} :
          /\ StayInStep(r, s, ts, mem[r], Nobody) /\ db' \in {db, mem[r]}
          /\ rollback' = rollback /\ undone' = undone /\ task[r][s] # "none"
    BY <1>6 DEF StepRetries, NextAttempt, Got
  <2> QED BY <1>1, <2>1, StepMovesUnwind
<1>7. CASE StepFails(r, s)
  <2>1. task[r][s] # "none" /\ undone' = undone
    BY <1>7 DEF StepFails, GivesUp, Got
  <2>2. PICK st \in {"skipped", "failed"} :
          LET c == WithStep(mem[r], s, st)
          IN  /\ db' = c
              /\ \/ LeaveStep(r, s, c, rollback[r])
                 \/ StayInStep(r, s, "failing", c, r) /\ rollback' = rollback
    BY <1>7 DEF StepFails
  <2> QED BY <1>1, <2>1, <2>2, StepMovesUnwind
<1>8. CASE FailExecution(r, s)
  <2> DEFINE c == WithStatus(mem[r], "failed")
  <2>1. task[r][s] = "failing" /\ undone' = undone
    BY <1>8 DEF FailExecution
  <2>2. /\ Prolongs(c, mem[r]) /\ c.status = "failed"
        /\ ToCompensate(c) = ToCompensate(mem[r])
    BY <1>1, <2>1, StatusProlongs DEF WithStatus, ToCompensate, StepsIn
  <2>3. \/ StepRaises(r, s, mem[r]) /\ db' = db
        \/ LeaveStep(r, s, c, rollback[r]) /\ db' = c
        \/ /\ CanFail(mem[r]) /\ StayInStep(r, s, "compensating", c, Nobody) /\ db' = c
           /\ rollback' = [rollback EXCEPT ![r] = ToCompensate(mem[r])]
    BY <1>8, <2>2 DEF FailExecution
  <2>4. CASE StepRaises(r, s, mem[r]) /\ db' = db
    BY <1>1, <2>1, <2>4, StepMovesUnwind
  <2>5. CASE LeaveStep(r, s, c, rollback[r]) /\ db' = c
    <3> HIDE DEF c
    <3> QED BY <2>1, <2>2, <2>5, StepMovesUnwind
  <2>6. CASE /\ CanFail(mem[r]) /\ StayInStep(r, s, "compensating", c, Nobody) /\ db' = c
             /\ rollback' = [rollback EXCEPT ![r] = ToCompensate(mem[r])]
    <3>1. mem' = [mem EXCEPT ![r] = db'] /\ pc' = pc
      BY <2>6 DEF StayInStep
    <3>2. Live(r) /\ Live(r)'
      BY <1>1, <2>1, <3>1 DEF Live
    <3> QED BY <2>1, <2>6, <3>1, <3>2, FailUnwinds
  <2> QED BY <2>3, <2>4, <2>5, <2>6
<1>9. CASE RunCompensation(r, s)
  BY <1>9, CompensationUnwinds
<1> QED
  BY <1>2, <1>3, <1>4, <1>5, <1>6, <1>7, <1>8, <1>9 DEF StepOf

LEMMA LoopUnwinds ==
  ASSUME TypeOK, TypeOK', Lone, Synced, Unwinds, NEW r \in Runs,
         \/ EnterRun(r) \/ LoopStops(r) \/ LoopFails(r) \/ LoopCompletes(r)
         \/ LoopSleeps(r) \/ Poll(r) \/ LoopDispatches(r) \/ Gathered(r)
  PROVE  Unwinds'
<1>1. Live(r) /\ undone' = undone
  BY DEF EnterRun, LoopStops, LoopFails, LoopCompletes, LoopSleeps, Poll, LoopDispatches,
         Gathered, InLoop, Live
<1>2. /\ mem[r] \in Record /\ Follows(mem[r], db) /\ Stamped(mem[r])
      /\ undone # <<>> => mem[r].status = "failed"
  BY <1>1, FailedIsSeen DEF TypeOK, RunsTypeOK
<1>3. /\ \A st \in ExecutionStatus : Prolongs(WithStatus(mem[r], st), mem[r])
      /\ Prolongs(mem[r], mem[r])
  BY <1>2, StatusProlongs
<1>4. CASE EndRun(r)
  <2>1. PICK st \in {"completed", "failed"} :
          \/ db' = db
          \/ db' = WithStatus(mem[r], st) /\ mem[r].status # "failed"
    <3>1. CASE LoopFails(r)
      <4>1. db' = db \/ (CanFail(mem[r]) /\ db' = WithStatus(mem[r], "failed"))
        BY <3>1 DEF LoopFails
      <4> QED BY <4>1 DEF CanFail
    <3>2. CASE LoopCompletes(r)
      <4>1. db' = db \/ (mem[r].status = "running" /\ db' = WithStatus(mem[r], "completed"))
        BY <3>2 DEF LoopCompletes
      <4> QED BY <4>1
    <3>3. CASE EnterRun(r)
      <4>1. pc'[r] = "loop" /\ pc'[r] = "idle"
        BY <1>4, <3>3 DEF EnterRun, EndRun, TypeOK, RunsTypeOK
      <4> QED BY <4>1
    <3>4. CASE LoopStops(r) \/ LoopSleeps(r) \/ Poll(r) \/ LoopDispatches(r) \/ Gathered(r)
      BY <3>4 DEF LoopStops, LoopSleeps, Poll, LoopDispatches, Gathered
    <3> QED BY <3>1, <3>2, <3>3, <3>4
  <2>2. Prolongs(db', db)
    BY <1>2, <1>3, <2>1, FollowsStamped, StatusProlongs DEF TypeOK, Unwinds
  <2>3. undone # <<>> => db'.status = "failed"
    BY <1>2, <2>1 DEF Unwinds, RollbackOrder
  <2> QED BY <1>1, <1>4, <2>2, <2>3, EndRunUnwinds
<1>5. CASE ~EndRun(r) /\ LoopFails(r)
  <2>1. /\ CanFail(mem[r]) /\ mem' = [mem EXCEPT ![r] = WithStatus(mem[r], "failed")]
        /\ pc' = [pc EXCEPT ![r] = "compensating"]
        /\ rollback' = [rollback EXCEPT ![r] = ToCompensate(mem[r])]
    BY <1>5, Zenon DEF LoopFails
  <2>2. db' = WithStatus(mem[r], "failed")
    BY <1>5, <2>1 DEF LoopFails
  <2>3. Live(r)' /\ \A q \in Runs \ {r} : pc'[q] = pc[q]
    BY <2>1 DEF Live, TypeOK, RunsTypeOK
  <2> QED BY <1>1, <2>1, <2>2, <2>3, FailUnwinds
<1>6. CASE ~EndRun(r) /\ ~LoopFails(r)
  <2>1. PICK where \in {"loop", "sleeping", "steps"} : pc' = [pc EXCEPT ![r] = where]
    BY <1>6 DEF EnterRun, LoopStops, LoopCompletes, LoopSleeps, Poll, LoopDispatches, Gathered
  <2>2. Live(r)' /\ \A q \in Runs \ {r} : pc'[q] = pc[q]
    BY <2>1 DEF Live, TypeOK, RunsTypeOK
  <2>3. rollback' = rollback
    BY <1>6 DEF EnterRun, LoopStops, LoopCompletes, LoopSleeps, Poll, LoopDispatches, Gathered
  <2>4. CASE EnterRun(r) /\ mem[r].status = "pending"
    <3>1. db' = WithStatus(mem[r], "running") /\ mem' = [mem EXCEPT ![r] = db']
      BY <2>4 DEF EnterRun
    <3>2. Prolongs(db', mem[r]) /\ mem[r].status # "failed"
      BY <1>3, <2>4, <3>1
    <3> QED BY <1>1, <2>2, <2>3, <3>1, <3>2, LiveUnwinds
  <2>5. CASE ~(EnterRun(r) /\ mem[r].status = "pending")
    <3>1. db' = db /\ mem' = [mem EXCEPT ![r] = mem[r]]
      BY <1>6, <2>5 DEF EnterRun, LoopStops, LoopCompletes, LoopSleeps, Poll, LoopDispatches,
                        Gathered, TypeOK, RunsTypeOK
    <3> QED BY <1>1, <1>3, <2>2, <2>3, <3>1, LiveUnwinds
  <2> QED BY <2>4, <2>5
<1> QED BY <1>4, <1>5, <1>6

LEMMA ResumeUnwinds ==
  ASSUME TypeOK, TypeOK', Lone, Unwinds, NEW r \in Runs, NEW c \in Record, Resume(r, c),
         Follows(c, db), undone # <<>> => c.status = "failed",
         Live(r) => mem[r] = c
  PROVE  Unwinds'
<1>1. undone' = undone /\ Stamped(c) /\ Prolongs(db, db)
  BY FollowsStamped, StatusProlongs DEF Resume, Unwinds, TypeOK
<1>2. CASE EndRun(r) /\ db' = db
  BY <1>1, <1>2, EndRunUnwinds DEF Unwinds, RollbackOrder
<1>3. CASE c.status \notin {"completed", "cancelled"}
  <2> DEFINE d == IF c.status = "paused" THEN Resumed(c) ELSE c
  <2>1. /\ mem' = [mem EXCEPT ![r] = d] /\ pc' = [pc EXCEPT ![r] = "entering"]
        /\ rollback' = rollback /\ db' = IF c.status = "paused" THEN d ELSE db
    BY <1>3 DEF Resume
  <2>2. Prolongs(db', db)
    BY <1>1, <2>1, StatusProlongs, FollowsStamped
  <2>3. c.status = "failed" => d.status = "failed" /\ db' = db
    BY <2>1
  <2> HIDE DEF d
  <2>4. /\ mem'[r] = d /\ pc'[r] = "entering"
        /\ \A q \in Runs \ {r} : mem'[q] = mem[q] /\ pc'[q] = pc[q]
    BY <2>1 DEF TypeOK, RunsTypeOK
  <2>5. \A q \in Runs : rollback'[q] # {} => Live(q)' /\ mem'[q].status = "failed"
    BY <2>1, <2>3, <2>4 DEF Unwinds, Unwinding, Live
  <2>6. undone # <<>> => db'.status = "failed"
    BY <2>3 DEF Unwinds, RollbackOrder
  <2> QED BY <1>1, <2>1, <2>2, <2>5, <2>6, UnwindsOn
<1> QED BY <1>2, <1>3 DEF Resume

LEMMA SpawnUnwinds ==
  ASSUME TypeOK, TypeOK', Unwinds, NEW r \in Runs, NEW c, NEW where, Spawn(r, c, where),
         undone' = undone, Prolongs(db', db), undone # <<>> => db'.status = "failed"
  PROVE  Unwinds'
<1>1. /\ rollback' = rollback /\ pc[r] = "idle"
      /\ \A q \in Runs \ {r} : mem'[q] = mem[q] /\ pc'[q] = pc[q]
  BY DEF Spawn, TypeOK, RunsTypeOK
<1>2. \A q \in Runs : rollback'[q] # {} =>
        Live(q)' /\ mem'[q].status = "failed" /\ rollback'[q] \subseteq rollback[q]
  BY <1>1 DEF Unwinds, Unwinding, Live
<1> QED BY <1>2, UnwindsOn

LEMMA EnvironmentUnwinds ==
  ASSUME TypeOK, TypeOK', Gated, Unwinds,
         \/ Start
         \/ CancelExecution
         \/ \E s \in Approvals : DecideOn(s)
         \/ Crash
         \/ Recover
  PROVE  Unwinds'
<1>1. /\ undone' = undone /\ db \in Record /\ Prolongs(db, db)
      /\ \A st \in ExecutionStatus : Prolongs(WithStatus(db, st), db)
      /\ \A s \in Steps : db.step[s] = "running" => Prolongs(WithStep(db, s, "pending"), db)
  <2>1. undone' = undone
    BY DEF Start, StartExecution, StartInline, CancelExecution, DecideOn, Decide, Crash, Recover,
           RecoverSkips, RecoverMarksFailed, RecoverResumes, RecoverRetriesStep, Recovers
  <2>2. db \in Record /\ Stamped(db)
    BY DEF TypeOK, Unwinds
  <2> QED BY <2>1, <2>2, StatusProlongs, Prolonged
<1>2. undone # <<>> => db.status = "failed"
  BY DEF Unwinds, RollbackOrder
<1>3. ASSUME UNCHANGED <<mem, pc, rollback>>, Prolongs(db', db),
             undone # <<>> => db'.status = "failed"
      PROVE  Unwinds'
  <2>1. \A q \in Runs : rollback'[q] # {} =>
          Live(q)' /\ mem'[q].status = "failed" /\ rollback'[q] \subseteq rollback[q]
    BY <1>3 DEF Unwinds, Unwinding, Live
  <2> QED BY <1>1, <1>3, <2>1, UnwindsOn
<1>4. ASSUME NEW r \in Runs, StartExecution(r) \/ StartInline(r)
      PROVE  Unwinds'
  <2>1. db = NoRecord /\ db' = NewRecord("pending") /\ db.status = "absent"
    BY <1>4 DEF StartExecution, StartInline, Gated, NothingBeforeStart
  <2>2. Prolongs(db', db)
    BY <2>1 DEF NoRecord, NewRecord, Prolongs, Stamped, Done, StepsIn
  <2> QED BY <1>1, <1>2, <1>4, <2>1, <2>2, SpawnUnwinds DEF StartExecution, StartInline
<1>5. ASSUME CancelExecution
      PROVE  Unwinds'
  BY <1>1, <1>2, <1>3, <1>5 DEF CancelExecution, runVars, Active
<1>6. ASSUME NEW s \in Approvals, DecideOn(s)
      PROVE  Unwinds'
  BY <1>1, <1>2, <1>6, SpawnUnwinds DEF DecideOn, Decide
<1>7. ASSUME Crash
      PROVE  Unwinds'
  BY <1>1, <1>2, <1>7, UnwindsOn DEF Crash
<1>8. ASSUME RecoverSkips \/ RecoverMarksFailed
      PROVE  Unwinds'
  <2>1. UNCHANGED <<mem, pc, rollback>> /\ (db' = db \/ db' = WithStatus(db, "failed"))
    BY <1>8 DEF RecoverSkips, RecoverMarksFailed, Recovers
  <2>2. WithStatus(db, "failed").status = "failed"
    BY <1>1 DEF WithStatus
  <2> QED BY <1>1, <1>2, <1>3, <2>1, <2>2
<1>9. ASSUME NEW r \in Runs, RecoverResumes(r)
      PROVE  Unwinds'
  BY <1>1, <1>2, <1>9, SpawnUnwinds DEF RecoverResumes
<1>10. ASSUME NEW r \in Runs, NEW s \in Steps, RecoverRetriesStep(r, s)
       PROVE  Unwinds'
  <2>1. db.step[s] = "running" /\ db.status # "failed" /\ db' = WithStep(db, s, "pending")
        /\ Spawn(r, db', "resuming")
    BY <1>10 DEF RecoverRetriesStep, RunningSteps, StepsIn
  <2> QED BY <1>1, <1>2, <2>1, SpawnUnwinds
<1> QED
  BY <1>4, <1>5, <1>6, <1>7, <1>8, <1>9, <1>10 DEF Start, Recover

LEMMA UnwindsAlways ==
  ASSUME Undisturbed
  PROVE  Spec => []Unwinds
<1>1. Init => Unwinds
  BY DEF Init, NoRecord, NewRecord, Unwinds, Stamped, Done, StepsIn, RollbackOrder, Unwinding
<1>2. TypeOK /\ TypeOK' /\ Consistent /\ Gated /\ Lone /\ Synced /\ Unwinds /\ [Next]_vars
        => Unwinds'
  <2> SUFFICES ASSUME TypeOK, TypeOK', Consistent, Gated, Lone, Synced, Unwinds, [Next]_vars
               PROVE  Unwinds'
    OBVIOUS
  <2>1. ASSUME NEW r \in Runs, RunStep(r)
        PROVE  Unwinds'
    <3>1. CASE RunExecution(r)
      <4>1. db \in Record /\ ~Live(r) /\ (undone # <<>> => db.status = "failed")
        BY <3>1 DEF RunExecution, Live, TypeOK, Unwinds, RollbackOrder
      <4> QED BY <3>1, <4>1, FollowsItself, ResumeUnwinds DEF RunExecution
    <3>2. CASE ResumeTask(r)
      <4>1. mem[r] \in Record /\ Live(r)
        BY <3>2 DEF ResumeTask, Live, TypeOK, RunsTypeOK
      <4> QED BY <3>2, <4>1, FailedIsSeen, ResumeUnwinds DEF ResumeTask
    <3>3. CASE \/ EnterRun(r) \/ LoopStops(r) \/ LoopFails(r) \/ LoopCompletes(r)
               \/ LoopSleeps(r) \/ Poll(r) \/ LoopDispatches(r) \/ Gathered(r)
      BY <3>3, LoopUnwinds
    <3>4. CASE \E s \in Steps : StepOf(r, s)
      BY <3>4, StepUnwinds
    <3> QED BY <2>1, <3>1, <3>2, <3>3, <3>4 DEF RunStep
  <2>2. CASE \/ Start \/ CancelExecution \/ (\E s \in Approvals : DecideOn(s))
             \/ Crash \/ Recover
    BY <2>2, EnvironmentUnwinds
  <2>3. CASE UNCHANGED vars
    BY <2>3 DEF vars, runVars, Unwinds, RollbackOrder, Unwinding, Live
  <2> QED BY <2>1, <2>2, <2>3 DEF Next
<1> QED
  BY <1>1, <1>2, TypeCorrect, ConsistentAlways, GatedAlways, LoneAlways, SyncedAlways, PTL DEF Spec

(* Compensations run only in a failed execution, once for each step, for   *)
(* completed steps, and in the reverse order of completion.                *)
THEOREM CompensatesInReverse ==
  ASSUME Undisturbed
  PROVE  Spec => []RollbackOrder
<1>1. Unwinds => RollbackOrder
  BY DEF Unwinds
<1> QED BY <1>1, UnwindsAlways, PTL

-----------------------------------------------------------------------------
(* Nothing is left out of the compensation, when the steps come one after  *)
(* the other: a step that ran beside the failing one would come in late.   *)
Sequential == \A s, t \in Steps : s # t => Ordered(s, t)

(* The inductive invariant: in a failed execution no request is pending, a *)
(* run is there only to compensate, and if there was no restart then every *)
(* step to compensate has been compensated or is still to be.              *)
Covered(s) ==
  \/ \E i \in DOMAIN undone : undone[i] = s
  \/ \E r \in Runs : s \in rollback[r]

Quiet ==
  /\ \A s \in Approvals : ~Asked(s)
  /\ \A r \in Runs : pc[r] # "idle" => rollback[r] # {}
  /\ crashes = 0 => \A s \in ToCompensate(db) : Covered(s)

Undoing(r) ==
  /\ pc[r] = "steps" => Alone(r)
  /\ rollback[r] # {} =>
       \/ pc[r] = "compensating"
       \/ pc[r] = "steps" /\ \E s \in Steps : task[r][s] = "compensating"

Settles ==
  /\ ~up => crashes # 0
  /\ \A r \in Runs : Undoing(r)
  /\ db.status = "failed" => Quiet

(* While a run does anything but compensate, the execution has not failed. *)
LEMMA NotFailedYet ==
  ASSUME Lone, Settles, NEW r \in Runs, pc[r] # "idle", rollback[r] = {}
  PROVE  /\ db.status # "failed" /\ up
         /\ \A q \in Runs : rollback[q] = {} /\ (q # r => pc[q] = "idle")
<1>1. \A q \in Runs : q # r => pc[q] = "idle"
  BY DEF Lone, SingleWriter
<1> QED BY <1>1 DEF Settles, Undoing, Quiet, Lone, Idle

LEMMA BusyRun ==
  ASSUME TypeOK, Lone, Settles, NEW r \in Runs, NEW s \in Steps,
         task[r][s] \notin {"none", "compensating"}
  PROVE  pc[r] = "steps" /\ Alone(r) /\ rollback[r] = {}
<1>1. pc[r] = "steps" /\ s \in batch[r] /\ Alone(r)
  BY DEF Lone, TasksInBatch, Settles, Undoing
<1>2. ASSUME NEW q \in Steps, task[r][q] = "compensating" PROVE FALSE
  <2>1. q \in batch[r]
    BY <1>2 DEF Lone, TasksInBatch
  <2> QED BY <1>1, <1>2, <2>1, AloneMeans
<1> QED BY <1>1, <1>2 DEF Settles, Undoing

(* The execution does not fail in this step.                               *)
LEMMA SettlesOn ==
  ASSUME db'.status # "failed", up' \/ crashes' # 0,
         \A q \in Runs : rollback'[q] = {} /\ (pc'[q] = "steps" => Alone(q)')
  PROVE  Settles'
BY DEF Settles, Undoing

LEMMA SettlesEnds ==
  ASSUME TypeOK, Lone, Settles, NEW r \in Runs, pc[r] # "idle", EndRun(r), up' = up,
         \/ db'.status # "failed"
         \/ (\A s \in Approvals : ~Asked(s)') /\ \A s \in ToCompensate(db') : Covered(s)'
  PROVE  Settles'
<1>1. \A q \in Runs : pc'[q] = "idle" /\ rollback'[q] = {}
  <2>1. pc'[r] = "idle" /\ rollback'[r] = {}
    BY DEF EndRun, TypeOK, RunsTypeOK
  <2>2. ASSUME NEW q \in Runs \ {r} PROVE pc'[q] = "idle" /\ rollback'[q] = {}
    <3>1. pc'[q] = pc[q] /\ rollback'[q] = rollback[q] /\ pc[q] = "idle"
      BY DEF EndRun, TypeOK, RunsTypeOK, Lone, SingleWriter
    <3> QED BY <3>1 DEF Settles, Undoing
  <2> QED BY <2>1, <2>2
<1>2. up'
  BY DEF Lone, Idle
<1> QED BY <1>1, <1>2 DEF Settles, Undoing, Quiet

(* The execution fails, and r has all there is to compensate.              *)
LEMMA SettlesFails ==
  ASSUME TypeOK, Lone, Settles, NEW r \in Runs, pc[r] # "idle", rollback[r] = {},
         up' = up, approval' = approval, batch' = batch,
         \A s \in Approvals : ~Awaits(r, s),
         rollback' = [rollback EXCEPT ![r] = ToCompensate(db')],
         ToCompensate(db') # {},
         \/ pc' = [pc EXCEPT ![r] = "compensating"]
         \/ pc' = pc /\ pc[r] = "steps" /\ \E s \in Steps : task'[r][s] = "compensating"
  PROVE  Settles'
<1>1. /\ up /\ \A q \in Runs : rollback[q] = {} /\ (q # r => pc[q] = "idle")
  BY NotFailedYet
<1>2. /\ rollback'[r] = ToCompensate(db')
      /\ \A q \in Runs \ {r} : pc'[q] = "idle" /\ rollback'[q] = {}
  BY <1>1 DEF TypeOK, RunsTypeOK
<1>3. pc'[r] = "compensating" \/ (pc'[r] = "steps" /\ pc[r] = "steps"
                                  /\ \E s \in Steps : task'[r][s] = "compensating")
  BY DEF TypeOK, RunsTypeOK
<1>4. \A q \in Runs : Undoing(q)'
  BY <1>2, <1>3 DEF Settles, Undoing, Alone
<1>5. \A s \in Approvals : ~Asked(s)'
  BY DEF Lone, RequestAwaited, Asked
<1>6. Quiet'
  BY <1>2, <1>5 DEF Quiet, Covered
<1> QED BY <1>1, <1>4, <1>6 DEF Settles

LEMMA StepMovesSettle ==
  ASSUME TypeOK, Lone, Settles, NEW r \in Runs, NEW s \in Steps,
         task[r][s] \notin {"none", "compensating"}, NEW c, NEW ts, NEW next,
         \/ LeaveStep(r, s, c, rollback[r])
         \/ StepRaises(r, s, c)
         \/ StayInStep(r, s, ts, c, next) /\ rollback' = rollback,
         up' = up, db'.status # "failed"
  PROVE  Settles'
<1>1. /\ pc[r] = "steps" /\ Alone(r) /\ rollback[r] = {} /\ up
      /\ \A q \in Runs : rollback[q] = {} /\ (q # r => pc[q] = "idle")
  BY BusyRun, NotFailedYet
<1>2. CASE EndRun(r)
  BY <1>1, <1>2, SettlesEnds
<1>3. CASE ~EndRun(r)
  <2>1. /\ pc' = [pc EXCEPT ![r] = "loop"] \/ pc' = pc
        /\ rollback' = [rollback EXCEPT ![r] = rollback[r]] \/ rollback' = rollback
        /\ batch' = batch
    BY <1>3, Zenon DEF LeaveStep, StepRaises, StayInStep
  <2>2. \A q \in Runs : rollback'[q] = {} /\ (pc'[q] = "steps" => q = r)
    BY <1>1, <2>1 DEF TypeOK, RunsTypeOK
  <2>3. \A q \in Runs : pc'[q] = "steps" => Alone(q)'
    BY <1>1, <2>1, <2>2 DEF Alone
  <2> QED BY <1>1, <2>2, <2>3, SettlesOn
<1> QED BY <1>2, <1>3

LEMMA CompensationSettles ==
  ASSUME TypeOK, Lone, Synced, Unwinds, Settles, NEW r \in Runs, NEW t \in Steps,
         RunCompensation(r, t)
  PROVE  Settles'
<1>1. /\ t \in rollback[r] /\ db' = db /\ undone' = Append(undone, t)
      /\ up' = up /\ crashes' = crashes /\ approval' = approval
  BY DEF RunCompensation, envVars
<1>2. Live(r) /\ mem[r].status = "failed" /\ db.status = "failed"
  BY <1>1, FailedIsSeen DEF Unwinds, Unwinding
<1>3. Quiet /\ pc[r] # "idle" /\ up
  BY <1>2 DEF Settles, Live, Lone, Idle
<1>4. \A q \in Runs \ {r} : pc[q] = "idle" /\ rollback[q] = {}
  BY <1>3 DEF Lone, SingleWriter, Settles, Undoing
<1>5. undone'[Len(undone) + 1] = t /\ Len(undone) + 1 \in DOMAIN undone'
      /\ \A i \in DOMAIN undone : i \in DOMAIN undone' /\ undone'[i] = undone[i]
  BY <1>1 DEF TypeOK
<1>6. CASE /\ rollback[r] # {t} /\ rollback' = [rollback EXCEPT ![r] = @ \ {t}]
           /\ UNCHANGED <<mem, pc, batch, task>>
  <2>1. rollback'[r] = rollback[r] \ {t} /\ \A q \in Runs \ {r} : rollback'[q] = {}
    BY <1>4, <1>6 DEF TypeOK, RunsTypeOK
  <2>2. rollback'[r] # {}
    BY <1>1, <1>6, <2>1
  <2>3. \A q \in Runs : Undoing(q)'
    BY <1>1, <1>6, <2>1 DEF Settles, Undoing, Alone
  <2>4. \A s \in ToCompensate(db) : Covered(s) => Covered(s)'
    BY <1>4, <1>5, <2>1 DEF Covered
  <2>5. Quiet'
    BY <1>1, <1>3, <1>4, <1>6, <2>2, <2>4 DEF Quiet, Asked
  <2> QED BY <1>1, <1>3, <2>3, <2>5 DEF Settles
<1>7. CASE rollback[r] = {t} /\ EndRun(r)
  <2>1. \A s \in Steps : Covered(s) => Covered(s)'
    BY <1>4, <1>5, <1>7 DEF Covered
  <2>2. \A s \in ToCompensate(db) : crashes = 0 => Covered(s)'
    BY <1>3, <2>1 DEF Quiet, ToCompensate, StepsIn
  <2>3. \A s \in Approvals : ~Asked(s)'
    BY <1>1, <1>3 DEF Quiet, Asked
  <2>4. \A q \in Runs : pc'[q] = "idle" /\ rollback'[q] = {}
    BY <1>4, <1>7 DEF EndRun, TypeOK, RunsTypeOK
  <2>5. Quiet'
    BY <1>1, <2>2, <2>3, <2>4 DEF Quiet
  <2> QED BY <1>1, <1>3, <2>4, <2>5 DEF Settles, Undoing
<1>8. ASSUME NEW q \in Steps, pc[r] = "steps", LeaveStep(r, q, mem[r], {})
      PROVE  EndRun(r)
  BY <1>2, <1>8 DEF LeaveStep, Settles, Undoing
<1> QED BY <1>6, <1>7, <1>8 DEF RunCompensation

LEMMA StepSettles ==
  ASSUME TypeOK, Consistent, Lone, Synced, Unwinds, Settles, NEW r \in Runs, NEW s \in Steps,
         StepOf(r, s)
  PROVE  Settles'
<1>1. ASSUME task[r][s] \notin {"none", "compensating"}
      PROVE  /\ pc[r] = "steps" /\ Alone(r) /\ rollback[r] = {} /\ db.status # "failed"
             /\ mem[r] \in Record /\ mem[r].status # "failed"
             /\ \A st \in StepStatus : WithStep(mem[r], s, st).status # "failed"
             /\ Completed(mem[r], s).status # "failed"
  <2>1. pc[r] = "steps" /\ Alone(r) /\ rollback[r] = {}
    BY <1>1, BusyRun
  <2>2. db.status # "failed" /\ mem[r].status # "failed" /\ mem[r] \in Record
    BY <2>1, NotFailedYet, FailedIsSeen DEF Live, TypeOK, RunsTypeOK
  <2> QED BY <2>1, <2>2, StepChanges
<1>2. CASE SkipStep(r, s) \/ ExecuteStep(r, s)
  BY <1>1, <1>2, StepMovesSettle DEF SkipStep, ExecuteStep, BeginStep, envVars
<1>3. CASE AgentReturns(r, s) \/ ApprovalReturns(r, s)
  <2>1. /\ UNCHANGED <<db, pc, batch, rollback, up, crashes>> /\ task[r][s] = "executing"
    BY <1>3 DEF AgentReturns, ApprovalReturns, Returns
  <2>2. /\ rollback[r] = {} /\ pc[r] = "steps" /\ Alone(r) /\ db.status # "failed"
    BY <1>1, <2>1
  <2>3. up /\ \A q \in Runs : rollback[q] = {} /\ (q # r => pc[q] = "idle")
    BY <2>2, NotFailedYet
  <2> QED BY <2>1, <2>2, <2>3, SettlesOn DEF Alone
<1>4. CASE StepSucceeds(r, s)
  BY <1>1, <1>4, StepMovesSettle DEF StepSucceeds, Got, envVars
<1>5. CASE StepWaits(r, s)
  <2> DEFINE c == WithStep(mem[r], s, "waiting_approval")
  <2> DEFINE d == WithStatus(c, "paused")
  <2>1. task[r][s] = "waiting" /\ up' = up
    BY <1>5 DEF StepWaits, Got, envVars
  <2>2. d.status = "paused" /\ db.status # "failed"
    BY <1>1, <2>1 DEF WithStatus, WithStep
  <2>3. \/ db' = d /\ LeaveStep(r, s, d, rollback[r])
        \/ db' = db /\ StepRaises(r, s, c)
    BY <1>5 DEF StepWaits
  <2> HIDE DEF c, d
  <2> QED BY <2>1, <2>2, <2>3, StepMovesSettle
<1>6. CASE StepRetries(r, s) \/ NextAttempt(r, s)
  <2>1. PICK ts \in {"backoff", "executing"} :
          /\ StayInStep(r, s, ts, mem[r], Nobody) /\ db' \in {db, mem[r]}
          /\ rollback' = rollback /\ up' = up /\ task[r][s] \notin {"none", "compensating"}
    BY <1>6 DEF StepRetries, NextAttempt, Got, envVars
  <2> QED BY <1>1, <2>1, StepMovesSettle
<1>7. CASE StepFails(r, s)
  <2>1. task[r][s] \notin {"none", "compensating"} /\ up' = up
    BY <1>7 DEF StepFails, GivesUp, Got, envVars
  <2>2. PICK st \in {"skipped", "failed"} :
          LET c == WithStep(mem[r], s, st)
          IN  /\ db' = c
              /\ \/ LeaveStep(r, s, c, rollback[r])
                 \/ StayInStep(r, s, "failing", c, r) /\ rollback' = rollback
    BY <1>7 DEF StepFails
  <2> QED BY <1>1, <2>1, <2>2, StepMovesSettle
<1>8. CASE FailExecution(r, s)
  <2> DEFINE c == WithStatus(mem[r], "failed")
  <2>1. task[r][s] = "failing" /\ up' = up /\ approval' = approval
    BY <1>8 DEF FailExecution, envVars
  <2>2. c.status = "failed"
    BY <1>1, <2>1 DEF WithStatus
  <2>3. CASE StepRaises(r, s, mem[r]) /\ db' = db
    BY <1>1, <2>1, <2>3, StepMovesSettle
  <2>4. CASE LeaveStep(r, s, c, rollback[r]) /\ db' = c /\ ToCompensate(c) = {}
    <3>1. EndRun(r) /\ pc[r] # "idle"
      BY <1>1, <2>1, <2>2, <2>4 DEF LeaveStep
    <3>2. \A q \in Approvals : ~Asked(q)'
      BY <2>1, <3>1, NotAwaiting DEF Lone, RequestAwaited, Asked
    <3> QED BY <2>1, <2>4, <3>1, <3>2, SettlesEnds
  <2>5. CASE /\ StayInStep(r, s, "compensating", c, Nobody) /\ db' = c /\ ToCompensate(c) # {}
             /\ rollback' = [rollback EXCEPT ![r] = ToCompensate(c)]
    <3>1. pc' = pc /\ batch' = batch /\ task'[r][s] = "compensating"
      BY <2>5 DEF StayInStep, TypeOK, RunsTypeOK
    <3>2. \A q \in Approvals : ~Awaits(r, q)
      BY <2>1, NotAwaiting
    <3> HIDE DEF c
    <3> QED BY <1>1, <2>1, <2>5, <3>1, <3>2, SettlesFails
  <2> QED BY <1>8, <2>3, <2>4, <2>5 DEF FailExecution
<1>9. CASE RunCompensation(r, s)
  BY <1>9, CompensationSettles
<1> QED
  BY <1>2, <1>3, <1>4, <1>5, <1>6, <1>7, <1>8, <1>9 DEF StepOf

LEMMA LoopSettles ==
  ASSUME TypeOK, Consistent, Sequential, Lone, Synced, Unwinds, Settles, NEW r \in Runs,
         \/ EnterRun(r) \/ LoopStops(r) \/ LoopFails(r) \/ LoopCompletes(r)
         \/ LoopSleeps(r) \/ Poll(r) \/ LoopDispatches(r) \/ Gathered(r)
  PROVE  Settles'
<1>1. /\ up' = up /\ approval' = approval /\ Live(r) /\ pc[r] # "idle" /\ rollback[r] = {}
  <2>1. /\ up' = up /\ approval' = approval
        /\ \/ pc[r] \in {"entering", "loop", "sleeping"}
           \/ pc[r] = "steps" /\ \A s \in Steps : task[r][s] = "none"
    BY DEF EnterRun, LoopStops, LoopFails, LoopCompletes, LoopSleeps, Poll, LoopDispatches,
           Gathered, InLoop, NoTasks, envVars
  <2> QED BY <2>1 DEF Live, Settles, Undoing
<1>2. /\ db.status # "failed" /\ mem[r].status # "failed" /\ mem[r] \in Record /\ up
      /\ \A q \in Runs : rollback[q] = {} /\ (q # r => pc[q] = "idle")
  BY <1>1, NotFailedYet, FailedIsSeen DEF TypeOK, RunsTypeOK
<1>3. \A st \in ExecutionStatus : WithStatus(mem[r], st).status = st
  BY <1>2 DEF WithStatus
<1>4. CASE LoopFails(r) /\ CanFail(mem[r])
  <2> DEFINE d == WithStatus(mem[r], "failed")
  <2>1. /\ db' = d /\ pc[r] = "loop" /\ mem[r].status # "paused"
        /\ ToCompensate(d) = ToCompensate(mem[r])
    <3>1. d.step = mem[r].step
      BY <1>2 DEF WithStatus
    <3>2. db' = d /\ pc[r] = "loop" /\ mem[r].status # "paused"
      BY <1>4 DEF LoopFails, InLoop
    <3> HIDE DEF d
    <3> QED BY <3>1, <3>2 DEF ToCompensate, StepsIn
  <2>2. \A s \in Approvals : ~Awaits(r, s)
    BY <2>1, NoTaskThere, ApprovalsAreSteps DEF Awaits
  <2>3. CASE ToCompensate(d) = {}
    <3>1. EndRun(r)
      BY <1>4, <2>1, <2>3 DEF LoopFails
    <3>2. \A s \in Approvals : ~Asked(s)'
      BY <1>1, <2>2 DEF Lone, RequestAwaited, Asked
    <3> HIDE DEF d
    <3> QED BY <1>1, <2>1, <2>3, <3>1, <3>2, SettlesEnds
  <2>4. CASE ToCompensate(d) # {}
    <3>1. /\ pc' = [pc EXCEPT ![r] = "compensating"] /\ batch' = batch
          /\ rollback' = [rollback EXCEPT ![r] = ToCompensate(d)]
      BY <1>4, <2>1, <2>4 DEF LoopFails
    <3> HIDE DEF d
    <3> QED BY <1>1, <2>1, <2>2, <2>4, <3>1, SettlesFails
  <2> QED BY <2>3, <2>4
<1>5. CASE ~(LoopFails(r) /\ CanFail(mem[r]))
  <2>1. db'.status # "failed"
    <3>1. PICK st \in {"running", "completed"} : db' = db \/ db' = WithStatus(mem[r], st)
      BY <1>5 DEF EnterRun, LoopStops, LoopFails, LoopCompletes, LoopSleeps, Poll,
                  LoopDispatches, Gathered
    <3> QED BY <1>2, <1>3, <3>1
  <2>2. CASE EndRun(r)
    BY <1>1, <2>1, <2>2, SettlesEnds
  <2>3. CASE ~EndRun(r)
    <3>1. rollback' = rollback
      BY <1>5, <2>3 DEF EnterRun, LoopStops, LoopFails, LoopCompletes, LoopSleeps, Poll,
                        LoopDispatches, Gathered
    <3>2. CASE LoopDispatches(r)
      <4> DEFINE ready == ReadySteps(mem[r])
      <4>1. /\ pc' = [pc EXCEPT ![r] = "steps"] /\ batch' = [batch EXCEPT ![r] = ready]
            /\ ready # {}
        BY <3>2 DEF LoopDispatches
      <4>2. \A s \in ready : s \in Steps /\ DepsMet(mem[r], s) /\ mem[r].step[s] \notin Satisfied
        BY DEF ReadySteps, IsReady, DepsMet, Satisfied
      <4>3. InOrder(mem[r])
        BY DEF Consistent, RunOK, CopyOK
      <4> HIDE DEF ready
      <4>4. \A s, t \in ready : s = t
        BY <1>2, <4>2, <4>3, NothingBeside DEF Sequential
      <4>5. Cardinality(ready) = 1
        <5>1. PICK s : ready = {s}
          BY <4>1, <4>4
        <5> QED BY <5>1, FS_Singleton
      <4>6. \A q \in Runs : pc'[q] = "steps" => Alone(q)'
        <5>1. batch'[r] = ready /\ \A q \in Runs \ {r} : pc'[q] = "idle"
          BY <1>2, <4>1 DEF TypeOK, RunsTypeOK
        <5> QED BY <4>5, <5>1 DEF Alone
      <4> QED BY <1>1, <1>2, <2>1, <3>1, <4>6, SettlesOn
    <3>3. CASE ~LoopDispatches(r)
      <4>1. PICK where \in {"loop", "sleeping"} : pc' = [pc EXCEPT ![r] = where]
        BY <1>5, <2>3, <3>3 DEF EnterRun, LoopStops, LoopFails, LoopCompletes, LoopSleeps, Poll,
                                Gathered
      <4>2. \A q \in Runs : pc'[q] # "steps"
        BY <1>2, <4>1 DEF TypeOK, RunsTypeOK
      <4> QED BY <1>1, <1>2, <2>1, <3>1, <4>2, SettlesOn
    <3> QED BY <3>2, <3>3
  <2> QED BY <2>2, <2>3
<1> QED BY <1>4, <1>5

LEMMA ResumeSettles ==
  ASSUME TypeOK, Lone, Settles, NEW r \in Runs, NEW c \in Record, Resume(r, c),
         pc[r] \in {"scheduled", "resuming"}
  PROVE  Settles'
<1>1. rollback[r] = {} /\ up' = up
  BY DEF Settles, Undoing, Resume, envVars
<1>2. /\ db.status # "failed" /\ up
      /\ \A q \in Runs : rollback[q] = {} /\ (q # r => pc[q] = "idle")
  BY <1>1, NotFailedYet
<1>3. db'.status # "failed"
  <2>1. db' = db \/ db' = Resumed(c)
    BY DEF Resume
  <2> QED BY <1>2, <2>1 DEF Resumed
<1>4. CASE EndRun(r)
  BY <1>1, <1>3, <1>4, SettlesEnds
<1>5. CASE ~EndRun(r)
  <2>1. rollback' = rollback /\ pc' = [pc EXCEPT ![r] = "entering"]
    BY <1>5 DEF Resume
  <2>2. \A q \in Runs : pc'[q] # "steps"
    BY <1>2, <2>1 DEF TypeOK, RunsTypeOK
  <2> QED BY <1>1, <1>2, <1>3, <2>1, <2>2, SettlesOn
<1> QED BY <1>4, <1>5

LEMMA EnvironmentSettles ==
  ASSUME TypeOK, Gated, Lone, Lone', Settles,
         \/ Start
         \/ CancelExecution
         \/ \E s \in Approvals : DecideOn(s)
         \/ Crash
         \/ Recover
  PROVE  Settles'
<1>1. \A q \in Runs : pc[q] = "idle" => rollback[q] = {}
  BY DEF Settles, Undoing
<1>2. ASSUME NEW r \in Runs, NEW c, NEW where \in {"scheduled", "resuming", "entering"},
             Spawn(r, c, where), db'.status # "failed", up'
      PROVE  Settles'
  <2>1. /\ pc'[r] = where /\ rollback' = rollback /\ pc[r] = "idle"
        /\ \A q \in Runs \ {r} : pc'[q] = pc[q]
    BY <1>2 DEF Spawn, TypeOK, RunsTypeOK
  <2>2. \A q \in Runs \ {r} : pc[q] = "idle"
    BY <2>1 DEF Lone, SingleWriter
  <2>3. \A q \in Runs : rollback'[q] = {} /\ pc'[q] # "steps"
    BY <1>1, <2>1, <2>2
  <2> QED BY <1>2, <2>3, SettlesOn
<1>3. ASSUME NEW r \in Runs, StartExecution(r) \/ StartInline(r)
      PROVE  Settles'
  <2>1. db'.status # "failed" /\ up'
    BY <1>3 DEF StartExecution, StartInline, NewRecord, envVars
  <2> QED BY <1>2, <1>3, <2>1 DEF StartExecution, StartInline
<1>4. ASSUME CancelExecution
      PROVE  Settles'
  <2>1. db'.status = "cancelled"
    BY <1>4 DEF CancelExecution, WithStatus, TypeOK
  <2> QED BY <1>4, <2>1 DEF CancelExecution, runVars, envVars, Settles, Undoing, Alone
<1>5. ASSUME NEW s \in Approvals, DecideOn(s)
      PROVE  Settles'
  <2>1. db.status # "failed"
    BY <1>5 DEF DecideOn, Decide, Settles, Quiet, Asked
  <2> QED BY <1>2, <1>5, <2>1 DEF DecideOn, Decide
<1>6. ASSUME Crash
      PROVE  Settles'
  <2>1. /\ crashes' # 0
        /\ \A q \in Runs : pc'[q] = "idle" /\ rollback'[q] = {}
        /\ \A s \in Approvals : ~Asked(s)'
    BY <1>6, ApprovalsAreSteps, CrashesBounded DEF Crash, TypeOK, EnvTypeOK, Asked
  <2> QED BY <2>1 DEF Settles, Undoing, Quiet
<1>7. ASSUME RecoverSkips \/ RecoverMarksFailed
      PROVE  Settles'
  <2>1. /\ UNCHANGED <<pc, batch, task, rollback, crashes, approval>> /\ up' /\ ~up
    BY <1>7 DEF RecoverSkips, RecoverMarksFailed, Recovers
  <2>2. Idle /\ crashes # 0 /\ \A s \in Approvals : ~Asked(s)
    BY <2>1 DEF Lone, Settles
  <2>3. Quiet'
    BY <2>1, <2>2 DEF Quiet, Idle, Asked
  <2> QED BY <2>1, <2>3 DEF Settles, Undoing, Alone
<1>8. ASSUME NEW r \in Runs, RecoverResumes(r)
      PROVE  Settles'
  BY <1>2, <1>8 DEF RecoverResumes, Recovers
<1>9. ASSUME NEW r \in Runs, NEW s \in Steps, RecoverRetriesStep(r, s)
      PROVE  Settles'
  <2>1. db'.status = db.status /\ db.status # "failed"
    BY <1>9, StepChanges DEF RecoverRetriesStep, TypeOK
  <2> QED BY <1>2, <1>9, <2>1 DEF RecoverRetriesStep, Recovers
<1> QED
  BY <1>3, <1>4, <1>5, <1>6, <1>7, <1>8, <1>9 DEF Start, Recover

LEMMA SettlesAlways ==
  ASSUME Undisturbed, Sequential
  PROVE  Spec => []Settles
<1>1. Init => Settles
  BY DEF Init, NoRecord, NewRecord, Settles, Undoing
<1>2. TypeOK /\ Consistent /\ Gated /\ Lone /\ Lone' /\ Synced /\ Unwinds /\ Settles
        /\ [Next]_vars => Settles'
  <2> SUFFICES ASSUME TypeOK, Consistent, Gated, Lone, Lone', Synced, Unwinds, Settles,
                      [Next]_vars
               PROVE  Settles'
    OBVIOUS
  <2>1. ASSUME NEW r \in Runs, RunStep(r)
        PROVE  Settles'
    <3>1. CASE RunExecution(r) \/ ResumeTask(r)
      <4>1. db \in Record /\ mem[r] \in Record
        BY DEF TypeOK, RunsTypeOK
      <4> QED BY <3>1, <4>1, ResumeSettles DEF RunExecution, ResumeTask
    <3>2. CASE \/ EnterRun(r) \/ LoopStops(r) \/ LoopFails(r) \/ LoopCompletes(r)
               \/ LoopSleeps(r) \/ Poll(r) \/ LoopDispatches(r) \/ Gathered(r)
      BY <3>2, LoopSettles
    <3>3. CASE \E s \in Steps : StepOf(r, s)
      BY <3>3, StepSettles
    <3> QED BY <2>1, <3>1, <3>2, <3>3 DEF RunStep
  <2>2. CASE \/ Start \/ CancelExecution \/ (\E s \in Approvals : DecideOn(s))
             \/ Crash \/ Recover
    BY <2>2, EnvironmentSettles
  <2>3. CASE UNCHANGED vars
    BY <2>3 DEF vars, runVars, envVars, Settles, Undoing, Alone, Quiet, Asked, Covered
  <2> QED BY <2>1, <2>2, <2>3 DEF Next
<1> QED
  BY <1>1, <1>2, TypeCorrect, ConsistentAlways, GatedAlways, LoneAlways, SyncedAlways,
     UnwindsAlways, PTL DEF Spec

(* An execution of a sequential definition that no restart has hit leaves  *)
(* no completed step with a compensation uncompensated when it has failed. *)
THEOREM CompensatesAll ==
  ASSUME Undisturbed, Sequential
  PROVE  Spec => []RolledBack
<1>1. Settles => RolledBack
  BY DEF Settles, Quiet, Covered, Undoing, RolledBack
<1> QED BY <1>1, SettlesAlways, PTL

-----------------------------------------------------------------------------
(* Every step of the engine is a step of the contract, or leaves it alone. *)
Outcome(c) == IF c.status \in Active THEN "active" ELSE c.status
SameSatisfied(c, d) == \A q \in Steps : c.step[q] \in Satisfied <=> d.step[q] \in Satisfied

(* What may happen to the record, seen as the contract sees it.            *)
Stays(c, d) == Outcome(d) = Outcome(c) /\ SameSatisfied(c, d)
Begins(c, d) == Outcome(c) = "absent" /\ Outcome(d) = "active" /\ SameSatisfied(c, d)
Fails(c, d) == Outcome(c) = "active" /\ Outcome(d) = "failed" /\ SameSatisfied(c, d)
Completes(c, d) ==
  Outcome(c) = "active" /\ Outcome(d) = "completed" /\ SameSatisfied(c, d) /\ IsComplete(c)
Finishes(c, d, s) ==
  /\ Outcome(c) \in {"active", "failed"} /\ Outcome(d) = Outcome(c)
  /\ c.step[s] \notin Satisfied /\ d.step[s] \in Satisfied /\ DepsMet(c, s)
  /\ \A q \in Steps \ {s} : c.step[q] \in Satisfied <=> d.step[q] \in Satisfied

Keeps(c, d) ==
  \/ Stays(c, d) \/ Begins(c, d) \/ Fails(c, d) \/ Completes(c, d)
  \/ \E s \in Steps : Finishes(c, d, s)

LEMMA KeepsTheContract ==
  ASSUME TypeOK, Keeps(db, db')
  PROVE  [Contract!Next]_(Contract!vars)
<1>1. ASSUME SameSatisfied(db, db')
      PROVE  StepsIn(db', Satisfied) = StepsIn(db, Satisfied)
  BY <1>1 DEF SameSatisfied, StepsIn
<1>2. CASE Stays(db, db')
  <2>1. UNCHANGED Contract!vars
    BY <1>1, <1>2 DEF Stays, Outcome, Contract!vars
  <2> QED BY <2>1
<1>3. CASE Begins(db, db')
  BY <1>1, <1>3 DEF Begins, Outcome, Contract!Next, Contract!Begin
<1>4. CASE Fails(db, db')
  BY <1>1, <1>4 DEF Fails, Outcome, Contract!Next, Contract!Fail
<1>5. CASE Completes(db, db')
  <2>1. StepsIn(db, Satisfied) = Steps
    BY <1>5 DEF Completes, IsComplete, StepsIn
  <2> QED BY <1>1, <1>5, <2>1 DEF Completes, Outcome, Contract!Next, Contract!Complete
<1>6. ASSUME NEW s \in Steps, Finishes(db, db', s)
      PROVE  Contract!Finish(s)
  <2>1. /\ s \notin StepsIn(db, Satisfied) /\ Deps[s] \subseteq StepsIn(db, Satisfied)
        /\ StepsIn(db', Satisfied) = StepsIn(db, Satisfied) \union {s}
    BY <1>6, DepsAreSteps DEF Finishes, DepsMet, StepsIn
  <2> QED BY <1>6, <2>1 DEF Finishes, Outcome, Contract!Finish
<1> QED BY <1>2, <1>3, <1>4, <1>5, <1>6 DEF Keeps, Contract!Next

(* The record of a run stands for the repository, as nobody cancels.       *)
LEMMA KeepsFor ==
  ASSUME NEW c, NEW d, NEW e, Follows(c, d), d.status # "cancelled", Keeps(c, e)
  PROVE  Keeps(d, e)
<1>1. c.step = d.step /\ c.status = d.status
  BY DEF Follows, SameSteps
<1>2. Outcome(c) = Outcome(d) /\ \A f : SameSatisfied(c, f) <=> SameSatisfied(d, f)
  BY <1>1 DEF Outcome, SameSatisfied
<1>3. /\ \A s : DepsMet(c, s) <=> DepsMet(d, s)
      /\ IsComplete(c) <=> IsComplete(d)
  BY <1>1 DEF DepsMet, IsComplete
<1>4. \A s \in Steps : Finishes(c, e, s) => Finishes(d, e, s)
  BY <1>1, <1>2, <1>3 DEF Finishes
<1> QED BY <1>2, <1>3, <1>4 DEF Keeps, Stays, Begins, Fails, Completes

LEMMA KeepsItself ==
  ASSUME NEW c
  PROVE  Keeps(c, c)
BY DEF Keeps, Stays, SameSatisfied

LEMMA StepKeeps ==
  ASSUME TypeOK, Consistent, Gated, Lone, Synced, db.status # "cancelled",
         NEW r \in Runs, NEW s \in Steps, StepOf(r, s)
  PROVE  Keeps(db, db') /\ db'.status # "cancelled"
<1>1. ASSUME task[r][s] # "none"
      PROVE  /\ mem[r] \in Record /\ Follows(mem[r], db) /\ mem[r].status # "cancelled"
             /\ Outcome(mem[r]) \in {"active", "failed"}
             /\ mem[r].step[s] \notin Satisfied /\ DepsMet(mem[r], s)
  <2>1. pc[r] = "steps" /\ Live(r)
    BY <1>1 DEF Lone, TasksInBatch, Live
  <2>2. Follows(mem[r], db) /\ mem[r].status # "absent"
    BY <2>1 DEF Synced, Gated, NothingBeforeStart, Live
  <2>3. /\ mem[r] \in Record /\ mem[r].status \notin {"completed", "cancelled"}
        /\ mem[r].step[s] \notin Satisfied /\ DepsMet(mem[r], s)
    BY <1>1, TaskFacts
  <2>4. Outcome(mem[r]) \in {"active", "failed"}
    BY <2>2, <2>3 DEF Outcome, Active
  <2> QED BY <2>2, <2>3, <2>4
<1>2. ASSUME task[r][s] # "none", NEW c, c.status = mem[r].status,
             \A q \in Steps \ {s} : c.step[q] = mem[r].step[q], db' = c
      PROVE  Keeps(db, db') /\ db'.status # "cancelled"
  <2>1. Outcome(c) = Outcome(mem[r])
    BY <1>2 DEF Outcome
  <2>2. CASE c.step[s] \in Satisfied
    <3>1. Finishes(mem[r], c, s)
      BY <1>1, <1>2, <2>1, <2>2 DEF Finishes
    <3> QED BY <1>1, <1>2, <3>1, KeepsFor DEF Keeps
  <2>3. CASE c.step[s] \notin Satisfied
    <3>1. Stays(mem[r], c)
      BY <1>1, <1>2, <2>1, <2>3 DEF Stays, SameSatisfied
    <3> QED BY <1>1, <1>2, <3>1, KeepsFor DEF Keeps
  <2> QED BY <2>2, <2>3
<1>3. ASSUME task[r][s] # "none", NEW st \in StepStatus, db' = WithStep(mem[r], s, st)
      PROVE  Keeps(db, db') /\ db'.status # "cancelled"
  BY <1>1, <1>2, <1>3, StepChanges
<1>4. CASE db' = db
  BY <1>4, KeepsItself
<1>5. CASE SkipStep(r, s) \/ ExecuteStep(r, s)
  BY <1>3, <1>5 DEF SkipStep, ExecuteStep, BeginStep
<1>6. CASE StepSucceeds(r, s)
  BY <1>1, <1>2, <1>6, StepChanges DEF StepSucceeds, Got
<1>7. CASE StepWaits(r, s)
  <2> DEFINE c == WithStep(mem[r], s, "waiting_approval")
  <2> DEFINE d == WithStatus(c, "paused")
  <2>0. task[r][s] = "waiting"
    BY <1>7 DEF StepWaits, Got
  <2>1. task[r][s] # "none" /\ (db' = db \/ (db' = d /\ c.status = "running"))
    <3>1. db' = db \/ (db' = d /\ c.status = "running")
      BY <1>7 DEF StepWaits
    <3> QED BY <2>0, <3>1
  <2>2. /\ c \in Record /\ d.status = "paused" /\ d.step = c.step /\ c.status = mem[r].status
        /\ c.step[s] = "waiting_approval" /\ \A q \in Steps \ {s} : c.step[q] = mem[r].step[q]
    <3>1. /\ c \in Record /\ c.status = mem[r].status /\ c.step[s] = "waiting_approval"
          /\ \A q \in Steps \ {s} : c.step[q] = mem[r].step[q]
      <4>1. mem[r] \in Record /\ c \in Record
        BY <1>1, <2>1, RecordUpdates
      <4> QED BY <4>1, StepChanges
    <3> HIDE DEF c
    <3>2. d.status = "paused" /\ d.step = c.step
      BY <3>1 DEF WithStatus
    <3> QED BY <3>1, <3>2
  <2> HIDE DEF c, d
  <2>3. CASE db' = d /\ c.status = "running"
    <3>1. Stays(mem[r], d)
      BY <1>1, <2>1, <2>2, <2>3 DEF Stays, SameSatisfied, Satisfied, Outcome, Active
    <3> QED BY <1>1, <2>1, <2>2, <2>3, <3>1, KeepsFor DEF Keeps
  <2> QED BY <1>4, <2>1, <2>3
<1>8. CASE StepRetries(r, s)
  BY <1>1, <1>2, <1>8 DEF StepRetries, Got
<1>9. CASE StepFails(r, s)
  BY <1>3, <1>9 DEF StepFails, GivesUp, Got
<1>10. CASE FailExecution(r, s)
  <2> DEFINE c == WithStatus(mem[r], "failed")
  <2>0. task[r][s] = "failing"
    BY <1>10 DEF FailExecution
  <2>1. task[r][s] # "none" /\ (db' = db \/ (db' = c /\ CanFail(mem[r])))
    <3>1. db' = db \/ (db' = c /\ CanFail(mem[r]))
      BY <1>10 DEF FailExecution
    <3> QED BY <2>0, <3>1
  <2>2. c.status = "failed" /\ c.step = mem[r].step
    BY <1>1, <2>1 DEF WithStatus
  <2> HIDE DEF c
  <2>3. CASE db' = c /\ CanFail(mem[r])
    <3>1. Fails(mem[r], c)
      BY <2>2, <2>3 DEF Fails, SameSatisfied, Outcome, Active, CanFail
    <3> QED BY <1>1, <2>1, <2>2, <2>3, <3>1, KeepsFor DEF Keeps
  <2> QED BY <1>4, <2>1, <2>3
<1>11. CASE \/ AgentReturns(r, s) \/ ApprovalReturns(r, s)
            \/ NextAttempt(r, s) \/ RunCompensation(r, s)
  BY <1>4, <1>11 DEF AgentReturns, ApprovalReturns, Returns, NextAttempt, RunCompensation
<1> QED BY <1>5, <1>6, <1>7, <1>8, <1>9, <1>10, <1>11 DEF StepOf

LEMMA RunKeeps ==
  ASSUME TypeOK, Consistent, Gated, Lone, Synced, db.status # "cancelled", NEW r \in Runs,
         RunStep(r)
  PROVE  Keeps(db, db') /\ db'.status # "cancelled"
<1>1. CASE db' = db
  BY <1>1, KeepsItself
<1>2. ASSUME Live(r), NEW st \in {"running", "failed", "completed"},
             db' = WithStatus(mem[r], st), mem[r].status \in {"pending", "running"},
             st = "completed" => IsComplete(mem[r])
      PROVE  Keeps(db, db') /\ db'.status # "cancelled"
  <2>1. Follows(mem[r], db) /\ mem[r] \in Record
    BY <1>2 DEF Synced, TypeOK, RunsTypeOK
  <2>2. db'.status = st /\ db'.step = mem[r].step
    BY <1>2, <2>1 DEF WithStatus
  <2>3. Keeps(mem[r], db')
    BY <1>2, <2>2 DEF Keeps, Stays, Fails, Completes, SameSatisfied, Outcome, Active
  <2> QED BY <2>1, <2>2, <2>3, KeepsFor
<1>3. ASSUME NEW c \in Record, Follows(c, db), Resume(r, c)
      PROVE  Keeps(db, db') /\ db'.status # "cancelled"
  <2>1. CASE db' # db
    <3>1. c.status = "paused" /\ db' = Resumed(c)
      BY <1>3, <2>1 DEF Resume
    <3>2. db'.status = "running" /\ SameSatisfied(c, db')
      BY <3>1 DEF Resumed, SameSatisfied, Satisfied
    <3>3. Keeps(c, db')
      BY <3>1, <3>2 DEF Keeps, Stays, Outcome, Active
    <3> QED BY <1>3, <3>2, <3>3, KeepsFor
  <2> QED BY <1>1, <2>1
<1>4. CASE RunExecution(r)
  BY <1>3, <1>4, FollowsItself DEF RunExecution, TypeOK
<1>5. CASE ResumeTask(r)
  BY <1>3, <1>5 DEF ResumeTask, Synced, Live, TypeOK, RunsTypeOK
<1>6. CASE EnterRun(r)
  BY <1>1, <1>2, <1>6 DEF EnterRun, Live
<1>7. CASE LoopFails(r)
  BY <1>1, <1>2, <1>7 DEF LoopFails, InLoop, CanFail, Live
<1>8. CASE LoopCompletes(r)
  BY <1>1, <1>2, <1>8 DEF LoopCompletes, InLoop, Live
<1>9. CASE LoopStops(r) \/ LoopSleeps(r) \/ Poll(r) \/ LoopDispatches(r) \/ Gathered(r)
  BY <1>1, <1>9 DEF LoopStops, LoopSleeps, Poll, LoopDispatches, Gathered
<1>10. CASE \E s \in Steps : StepOf(r, s)
  BY <1>10, StepKeeps
<1> QED BY <1>4, <1>5, <1>6, <1>7, <1>8, <1>9, <1>10 DEF RunStep

LEMMA NextKeeps ==
  ASSUME TypeOK, Consistent, Gated, Lone, Synced, db.status # "cancelled", ~UserCancels,
         [Next]_vars
  PROVE  Keeps(db, db') /\ db'.status # "cancelled"
<1>1. CASE db' = db
  BY <1>1, KeepsItself
<1>2. ASSUME NEW r \in Runs, StartExecution(r) \/ StartInline(r)
      PROVE  Keeps(db, db') /\ db'.status # "cancelled"
  <2>1. db = NoRecord /\ db' = NewRecord("pending")
    BY <1>2 DEF StartExecution, StartInline, Gated, NothingBeforeStart
  <2>2. Begins(db, db') /\ db'.status = "pending"
    BY <2>1 DEF NoRecord, NewRecord, Begins, Outcome, Active, SameSatisfied
  <2> QED BY <2>2 DEF Keeps
<1>3. CASE RecoverMarksFailed
  <2>1. CASE db' # db
    <3>1. db' = WithStatus(db, "failed") /\ CanFail(db)
      BY <1>3, <2>1 DEF RecoverMarksFailed
    <3>2. db'.status = "failed" /\ db'.step = db.step
      BY <3>1 DEF WithStatus, TypeOK
    <3>3. Fails(db, db')
      BY <3>1, <3>2 DEF Fails, SameSatisfied, Outcome, Active, CanFail
    <3> QED BY <3>2, <3>3 DEF Keeps
  <2> QED BY <1>1, <2>1
<1>4. ASSUME NEW r \in Runs, NEW s \in Steps, RecoverRetriesStep(r, s)
      PROVE  Keeps(db, db') /\ db'.status # "cancelled"
  <2>1. db.step[s] = "running" /\ db' = WithStep(db, s, "pending") /\ db \in Record
    BY <1>4 DEF RecoverRetriesStep, RunningSteps, StepsIn, TypeOK
  <2>2. /\ db'.status = db.status /\ db'.step[s] = "pending"
        /\ \A q \in Steps \ {s} : db'.step[q] = db.step[q]
    BY <2>1, StepChanges
  <2>3. Stays(db, db')
    BY <2>1, <2>2 DEF Stays, SameSatisfied, Satisfied, Outcome
  <2> QED BY <2>2, <2>3 DEF Keeps
<1>5. ASSUME NEW r \in Runs, RunStep(r)
      PROVE  Keeps(db, db') /\ db'.status # "cancelled"
  BY <1>5, RunKeeps
<1>6. CASE UNCHANGED vars
  BY <1>1, <1>6 DEF vars
<1>7. CASE (\E s \in Approvals : DecideOn(s)) \/ Crash \/ RecoverSkips
           \/ \E r \in Runs : RecoverResumes(r)
  BY <1>1, <1>7 DEF DecideOn, Decide, Crash, RecoverSkips, RecoverResumes
<1>8. ~CancelExecution
  BY DEF CancelExecution
<1> QED BY <1>2, <1>3, <1>4, <1>5, <1>6, <1>7, <1>8 DEF Next, Start, Recover

(* The engine keeps the contract: the steps get done in the order of their *)
(* dependencies and stay done, an execution ends once, and as completed    *)
(* only with every step done, through pauses, failures and restarts, when  *)
(* nobody cancels.                                                         *)
THEOREM KeepsContract ==
  ASSUME Undisturbed, ~UserCancels
  PROVE  Spec => Contract!Safety
<1>1. Init => Contract!Init /\ db.status # "cancelled"
  BY DEF Init, NoRecord, NewRecord, Contract!Init, StepsIn, Satisfied, Active
<1>2. TypeOK /\ Consistent /\ Gated /\ Lone /\ Synced /\ db.status # "cancelled" /\ [Next]_vars
        => (db.status # "cancelled")' /\ [Contract!Next]_(Contract!vars)
  BY NextKeeps, KeepsTheContract
<1> QED
  BY <1>1, <1>2, TypeCorrect, ConsistentAlways, GatedAlways, LoneAlways, SyncedAlways, PTL
  DEF Spec, Contract!Safety

=============================================================================
