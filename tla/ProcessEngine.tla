---------------------------- MODULE ProcessEngine ----------------------------
(***************************************************************************)
(* One execution of a process definition, as the process engine of the     *)
(* Trinity backend runs it: the persisted record, the engine coroutines    *)
(* ("runs") that each hold a copy of it in memory, the in-memory store of  *)
(* approval requests, the users who cancel and decide, and restarts of the *)
(* backend followed by the recovery scan.                                  *)
(*                                                                         *)
(* The backend is one asyncio process: a coroutine keeps the event loop    *)
(* until it awaits something that suspends it.  The variable turn names    *)
(* the run that has not reached such a point yet; everyone else waits      *)
(* while turn # Nobody.  A crash may come at any point, in particular      *)
(* between two saves of the same run.                                      *)
(***************************************************************************)
EXTENDS Naturals, FiniteSets, Sequences

CONSTANTS
  Steps,       (* The steps of the definition.                             *)
  Deps,        (* Deps[s] is the set of steps s depends on.                *)
  Approvals,   (* The human_approval steps; the others are agent tasks.    *)
  Deadlined,   (* The human_approval steps with a timeout.                 *)
  Conditional, (* The steps with a condition, which may turn out false.    *)
  OnError,     (* OnError[s] is the action of the error policy of s.       *)
  Compensable, (* The steps with a compensation.                           *)
  MaxAttempts, (* MaxAttempts[s] is max_attempts of the retry policy of s. *)
  Runs,        (* Engine coroutines that may be alive at a time (a bound). *)
  MaxCrashes,  (* Number of restarts of the backend (a bound).             *)
  UserCancels, (* May users cancel the execution?                          *)
  Overdue,     (* May a restart come more than max_age_hours late?         *)
  EarlyDecision, (* May a user decide on a request before the execution    *)
                 (* shows as paused?                                       *)
  Nobody       (* No run holds the event loop.                             *)

ASSUME StepsFinite == IsFiniteSet(Steps)
ASSUME DepsAreSteps == Deps \in [Steps -> SUBSET Steps]
ASSUME ApprovalsAreSteps == Approvals \subseteq Steps
ASSUME PoliciesKnown == OnError \in [Steps -> {"fail_process", "skip_step", "goto_step"}]
ASSUME AttemptsPositive == MaxAttempts \in [Steps -> Nat \ {0}]
ASSUME NobodyIsNoRun == Nobody \notin Runs
ASSUME SwitchesKnown == {UserCancels, Overdue, EarlyDecision} \subseteq BOOLEAN
ASSUME CrashesBounded == MaxCrashes \in Nat

VARIABLES
  db,       (* The record of the execution in the repository.              *)
  mem,      (* mem[r] is the copy of the record run r works on.            *)
  pc,       (* pc[r] is where run r is in the engine.                      *)
  batch,    (* batch[r] is the set of steps of the current loop iteration. *)
  task,     (* task[r][s] is the progress of step s in that iteration.     *)
  tries,    (* tries[r][s] counts the attempts of s made by run r.         *)
  rollback, (* rollback[r] is the set of steps run r has yet to compensate.*)
  turn,     (* The run that holds the event loop, or Nobody.               *)
  approval, (* approval[s] is the request of step s in the ApprovalStore.  *)
  up,       (* Is the backend up?                                          *)
  crashes,  (* Number of crashes so far.                                   *)
  report,   (* Last RecoveryAction, as the RecoveryReport counts it.       *)
  undone    (* History: the compensations run so far, in order.            *)

runVars == <<mem, pc, batch, task, tries, rollback, turn>>
envVars == <<approval, up, crashes, report>>
vars == <<db, runVars, envVars, undone>>

ExecutionStatus ==
  {"absent", "pending", "running", "paused", "completed", "failed", "cancelled"}
StepStatus ==
  {"pending", "running", "waiting_approval", "completed", "failed", "skipped"}
ApprovalStatus == {"none", "pending", "approved", "rejected"}
Result == {"ok", "waiting", "error", "fatal"}
TaskState == {"none", "queued", "executing", "backoff", "failing", "compensating"} \union Result
RunState == {"idle", "scheduled", "resuming", "entering", "loop", "sleeping", "steps", "compensating"}

Terminal == {"completed", "failed", "cancelled"}
Active == {"pending", "running", "paused"}
Satisfied == {"completed", "skipped"}

Record == [status : ExecutionStatus, step : [Steps -> StepStatus], doneAt : [Steps -> Nat]]

NewRecord(status) ==
  [status |-> status, step |-> [s \in Steps |-> "pending"], doneAt |-> [s \in Steps |-> 0]]

NoRecord == NewRecord("absent")
NoTasks == [s \in Steps |-> "none"]
NoTries == [s \in Steps |-> 0]

-----------------------------------------------------------------------------
(* Queries on a record: aggregates.py and dependency_resolver.py.          *)

StepsIn(c, S) == {s \in Steps : c.step[s] \in S}

(* Variants named ...Faulty carry a plausible mistake and are used nowhere: *)
(* they show that the properties tell it from the code.                    *)
IsReadyFaulty(c, s) == c.step[s] = "pending" /\ \A d \in Deps[s] : c.step[d] # "pending"
IsReady(c, s) == c.step[s] = "pending" /\ \A d \in Deps[s] : c.step[d] \in Satisfied
ReadySteps(c) == {s \in Steps : IsReady(c, s)}
IsComplete(c) == \A s \in Steps : c.step[s] \in Satisfied
HasFailedSteps(c) == StepsIn(c, {"failed"}) # {}
RunningSteps(c) == StepsIn(c, {"running"})

CanFail(c) == c.status \in {"running", "pending"}

WithStatus(c, status) == [c EXCEPT !.status = status]
WithStep(c, s, status) == [c EXCEPT !.step[s] = status]

(* A completed step is stamped with its place in the order of completion.  *)
Completed(c, s) ==
  [c EXCEPT !.step[s] = "completed",
            !.doneAt[s] = Cardinality(StepsIn(c, {"completed"})) + 1]

ResumedFaulty(c) ==
  [c EXCEPT !.status = "resumed",
            !.step = [s \in Steps |-> IF @[s] = "waiting_approval" THEN "pending" ELSE @[s]]]

(* What resume() does to a paused record: the steps that wait go back to   *)
(* pending, so that their handler looks at the decision.                   *)
Resumed(c) ==
  [c EXCEPT !.status = "running",
            !.step = [s \in Steps |-> IF @[s] = "waiting_approval" THEN "pending" ELSE @[s]]]

ToCompensate(c) == StepsIn(c, {"completed"}) \intersect Compensable

-----------------------------------------------------------------------------
(* Moves of a run that several actions share.                              *)

(* Run r ends and its copy of the record is garbage.                       *)
EndRun(r) ==
  /\ mem' = [mem EXCEPT ![r] = NoRecord]
  /\ pc' = [pc EXCEPT ![r] = "idle"]
  /\ batch' = [batch EXCEPT ![r] = {}]
  /\ task' = [task EXCEPT ![r] = NoTasks]
  /\ tries' = [tries EXCEPT ![r] = NoTries]
  /\ rollback' = [rollback EXCEPT ![r] = {}]
  /\ turn' = Nobody

(* Run r is created as a task of the event loop with copy c of the record. *)
Spawn(r, c, where) ==
  /\ pc[r] = "idle"
  /\ mem' = [mem EXCEPT ![r] = c]
  /\ pc' = [pc EXCEPT ![r] = where]
  /\ UNCHANGED <<batch, task, tries, rollback>>

(* One ready step is awaited in place; several are gathered.               *)
Alone(r) == Cardinality(batch[r]) = 1

(* The tasks of a gathered batch begin one after the other, with nothing   *)
(* in between: who holds the loop when the coroutine of s lets it go.      *)
HandsOver(r, s) ==
  IF \E q \in Steps \ {s} : task[r][q] = "queued" THEN r ELSE Nobody

(* The coroutine of step s ends normally, leaving record c.  A step that   *)
(* was awaited in place falls through to the check that ends the loop of a *)
(* failed execution; a gathered one ends its task.  The compensations left *)
(* to run r are those of left.                                             *)
LeaveStep(r, s, c, left) ==
  IF Alone(r) /\ c.status \in {"failed", "cancelled"}
  THEN EndRun(r)
  ELSE /\ mem' = [mem EXCEPT ![r] = c]
       /\ task' = [task EXCEPT ![r][s] = "none"]
       /\ pc' = IF Alone(r) THEN [pc EXCEPT ![r] = "loop"] ELSE pc
       /\ turn' = IF Alone(r) THEN r ELSE HandsOver(r, s)
       /\ rollback' = [rollback EXCEPT ![r] = left]
       /\ UNCHANGED <<batch, tries>>

(* The coroutine of step s raises: gather swallows the exception, a step   *)
(* awaited in place takes the run down with it.                            *)
StepRaises(r, s, c) ==
  IF Alone(r)
  THEN EndRun(r)
  ELSE /\ mem' = [mem EXCEPT ![r] = c]
       /\ task' = [task EXCEPT ![r][s] = "none"]
       /\ turn' = Nobody
       /\ UNCHANGED <<pc, batch, tries, rollback>>

(* Step s goes on, in task state ts, with record c; next holds the loop.   *)
StayInStep(r, s, ts, c, next) ==
  /\ mem' = [mem EXCEPT ![r] = c]
  /\ task' = [task EXCEPT ![r][s] = ts]
  /\ turn' = next
  /\ UNCHANGED <<pc, batch>>

-----------------------------------------------------------------------------
(* Starting and resuming.                                                  *)

(* POST /processes/{id}/execute: create, save, queue a background task.    *)
StartExecution(r) ==
  /\ up /\ turn = Nobody /\ db.status = "absent"
  /\ db' = NewRecord("pending")
  /\ Spawn(r, NoRecord, "scheduled")
  /\ UNCHANGED <<turn, envVars, undone>>

(* engine.start(), from a webhook or a sub_process step: create, save and  *)
(* run without leaving the event loop.                                     *)
StartInline(r) ==
  /\ up /\ turn = Nobody /\ db.status = "absent"
  /\ db' = NewRecord("pending")
  /\ Spawn(r, NewRecord("pending"), "entering")
  /\ turn' = r
  /\ UNCHANGED <<envVars, undone>>

ResumeFaulty(r, c) == (* takes up a cancelled record *)
  /\ turn = Nobody /\ c.status # "completed"
  /\ mem' = [mem EXCEPT ![r] = IF c.status = "paused" THEN Resumed(c) ELSE c]
  /\ db' = IF c.status = "paused" THEN Resumed(c) ELSE db
  /\ pc' = [pc EXCEPT ![r] = "entering"]
  /\ turn' = r
  /\ UNCHANGED <<batch, task, tries, rollback, envVars, undone>>

(* engine.resume() on record c.                                            *)
Resume(r, c) ==
  /\ turn = Nobody
  /\ \/ /\ c.status \in {"completed", "cancelled"}
        /\ EndRun(r)
        /\ UNCHANGED db
     \/ /\ c.status \notin {"completed", "cancelled"}
        /\ LET d == IF c.status = "paused" THEN Resumed(c) ELSE c
           IN /\ mem' = [mem EXCEPT ![r] = d]
              /\ db' = IF c.status = "paused" THEN d ELSE db
        /\ pc' = [pc EXCEPT ![r] = "entering"]
        /\ turn' = r
        /\ UNCHANGED <<batch, task, tries, rollback>>
  /\ UNCHANGED <<envVars, undone>>

(* _run_execution: the background task reads the record, then resumes it.  *)
(* Its except branch has nothing to do here: the one exception that can    *)
(* reach it is that of a cancelled record, which it leaves as it is.       *)
RunExecution(r) == pc[r] = "scheduled" /\ Resume(r, db)

(* The task created after a decision or by the recovery: it resumes the    *)
(* record that was read when the task was created.                         *)
ResumeTask(r) == pc[r] = "resuming" /\ Resume(r, mem[r])

(* The head of _run: a pending execution is started and saved.             *)
EnterRun(r) ==
  /\ pc[r] = "entering" /\ turn = r
  /\ LET c == mem[r]
         d == IF c.status = "pending" THEN WithStatus(c, "running") ELSE c
     IN /\ mem' = [mem EXCEPT ![r] = d]
        /\ db' = IF c.status = "pending" THEN d ELSE db
  /\ pc' = [pc EXCEPT ![r] = "loop"]
  /\ UNCHANGED <<batch, task, tries, rollback, turn, envVars, undone>>

-----------------------------------------------------------------------------
(* The loop of _run.  Its body up to the first step has no suspension.     *)

InLoop(r) == pc[r] = "loop" /\ turn = r /\ mem[r].status \notin {"cancelled", "paused"}

(* The execution is cancelled or paused: the loop breaks.                  *)
LoopStops(r) ==
  /\ pc[r] = "loop" /\ turn = r /\ mem[r].status \in {"cancelled", "paused"}
  /\ EndRun(r)
  /\ UNCHANGED <<db, envVars, undone>>

(* A step has failed, or nothing is ready, running or left to do: the      *)
(* execution fails and the completed steps are compensated.                *)
LoopFails(r) ==
  LET c == mem[r]
      d == WithStatus(c, "failed")
  IN
  /\ InLoop(r)
  /\ \/ HasFailedSteps(c)
     \/ ReadySteps(c) = {} /\ ~IsComplete(c) /\ RunningSteps(c) = {}
  /\ db' = IF CanFail(c) THEN d ELSE db
  /\ IF CanFail(c) /\ ToCompensate(c) # {}
     THEN /\ mem' = [mem EXCEPT ![r] = d]
          /\ pc' = [pc EXCEPT ![r] = "compensating"]
          /\ rollback' = [rollback EXCEPT ![r] = ToCompensate(c)]
          /\ turn' = Nobody
          /\ UNCHANGED <<batch, task, tries>>
     ELSE EndRun(r)
  /\ UNCHANGED <<envVars, undone>>

LoopCompletesFaulty(r) == (* overlooks the steps that run *)
  /\ InLoop(r) /\ ~HasFailedSteps(mem[r]) /\ ReadySteps(mem[r]) = {}
  /\ db' = IF mem[r].status = "running" THEN WithStatus(mem[r], "completed") ELSE db
  /\ EndRun(r)
  /\ UNCHANGED <<envVars, undone>>

(* Every step is completed or skipped: complete() and save, or an          *)
(* exception when the execution is not running.                            *)
LoopCompletes(r) ==
  LET c == mem[r]
  IN
  /\ InLoop(r) /\ ~HasFailedSteps(c)
  /\ ReadySteps(c) = {} /\ IsComplete(c)
  /\ db' = IF c.status = "running" THEN WithStatus(c, "completed") ELSE db
  /\ EndRun(r)
  /\ UNCHANGED <<envVars, undone>>

(* Some step of the record is running: sleep and look again.               *)
LoopSleeps(r) ==
  LET c == mem[r]
  IN
  /\ InLoop(r) /\ ~HasFailedSteps(c)
  /\ ReadySteps(c) = {} /\ ~IsComplete(c) /\ RunningSteps(c) # {}
  /\ pc' = [pc EXCEPT ![r] = "sleeping"]
  /\ turn' = Nobody
  /\ UNCHANGED <<db, mem, batch, task, tries, rollback, envVars, undone>>

Poll(r) ==
  /\ pc[r] = "sleeping" /\ turn = Nobody
  /\ pc' = [pc EXCEPT ![r] = "loop"]
  /\ turn' = r
  /\ UNCHANGED <<db, mem, batch, task, tries, rollback, envVars, undone>>

(* The ready steps are executed: a single one at once, several as tasks.   *)
LoopDispatches(r) ==
  LET ready == ReadySteps(mem[r])
  IN
  /\ InLoop(r) /\ ~HasFailedSteps(mem[r]) /\ ready # {}
  /\ pc' = [pc EXCEPT ![r] = "steps"]
  /\ batch' = [batch EXCEPT ![r] = ready]
  /\ task' = [task EXCEPT ![r] = [s \in Steps |-> IF s \in ready THEN "queued" ELSE "none"]]
  /\ tries' = [tries EXCEPT ![r] = NoTries]
  /\ UNCHANGED <<db, mem, rollback, turn, envVars, undone>>

(* gather returns once all its tasks have ended.                           *)
Gathered(r) ==
  /\ pc[r] = "steps" /\ turn = Nobody /\ task[r] = NoTasks
  /\ IF mem[r].status \in {"failed", "cancelled"}
     THEN EndRun(r)
     ELSE /\ pc' = [pc EXCEPT ![r] = "loop"]
          /\ turn' = r
          /\ UNCHANGED <<mem, batch, task, tries, rollback>>
  /\ UNCHANGED <<db, envVars, undone>>

-----------------------------------------------------------------------------
(* One step: _execute_step and the handlers of its result.                 *)

(* A step begins: it is skipped when its condition is false, otherwise it  *)
(* is saved as running and its handler is awaited.                         *)
BeginStep(r, s) ==
  /\ pc[r] = "steps" /\ task[r][s] = "queued" /\ turn = r

SkipStep(r, s) ==
  LET c == WithStep(mem[r], s, "skipped")
  IN
  /\ BeginStep(r, s) /\ s \in Conditional
  /\ db' = c
  /\ LeaveStep(r, s, c, rollback[r])
  /\ UNCHANGED <<envVars, undone>>

ExecuteStep(r, s) ==
  LET c == WithStep(mem[r], s, "running")
  IN
  /\ BeginStep(r, s)
  /\ db' = c
  /\ StayInStep(r, s, "executing", c, HandsOver(r, s))
  /\ tries' = [tries EXCEPT ![r][s] = 1]
  /\ UNCHANGED <<rollback, envVars, undone>>

(* The handler returns.  asyncio.wait_for runs it in a task of its own, so *)
(* the engine sees the result later.                                       *)
Returns(r, s, result) ==
  /\ up /\ turn = Nobody /\ task[r][s] = "executing"
  /\ task' = [task EXCEPT ![r][s] = result]
  /\ UNCHANGED <<db, mem, pc, batch, tries, rollback, turn, up, crashes, report, undone>>

(* An agent answers, reports an error, or runs into the step timeout.      *)
AgentReturns(r, s) ==
  /\ s \notin Approvals
  /\ \E result \in {"ok", "error", "fatal"} : Returns(r, s, result)
  /\ UNCHANGED approval

ApprovalReturnsFaulty(r, s) == (* takes an existing request for an approved one *)
  /\ s \in Approvals
  /\ \/ /\ approval[s] = "none"
        /\ Returns(r, s, "waiting")
        /\ approval' = [approval EXCEPT ![s] = "pending"]
     \/ approval[s] # "none" /\ Returns(r, s, "ok") /\ UNCHANGED approval

(* HumanApprovalHandler.execute: a request is created once; later calls    *)
(* report the decision, or reject a request whose deadline has passed.     *)
ApprovalReturns(r, s) ==
  /\ s \in Approvals
  /\ \/ /\ approval[s] = "none"
        /\ Returns(r, s, "waiting")
        /\ approval' = [approval EXCEPT ![s] = "pending"]
     \/ /\ approval[s] = "pending"
        /\ Returns(r, s, "waiting")
        /\ UNCHANGED approval
     \/ /\ approval[s] = "pending" /\ s \in Deadlined
        /\ Returns(r, s, "fatal")
        /\ approval' = [approval EXCEPT ![s] = "rejected"]
     \/ /\ approval[s] = "approved"
        /\ Returns(r, s, "ok")
        /\ UNCHANGED approval
     \/ /\ approval[s] = "rejected"
        /\ Returns(r, s, "fatal")
        /\ UNCHANGED approval

(* The engine takes up the result of step s.                               *)
Got(r, s, result) == turn = Nobody /\ task[r][s] = result

StepSucceeds(r, s) ==
  LET c == Completed(mem[r], s)
  IN
  /\ Got(r, s, "ok")
  /\ db' = c
  /\ LeaveStep(r, s, c, rollback[r])
  /\ UNCHANGED <<envVars, undone>>

(* The step waits and the execution pauses; pause() raises, before the     *)
(* save, when the execution is not running.                                *)
StepWaits(r, s) ==
  LET c == WithStep(mem[r], s, "waiting_approval")
      d == WithStatus(c, "paused")
  IN
  /\ Got(r, s, "waiting")
  /\ \/ c.status = "running" /\ db' = d /\ LeaveStep(r, s, d, rollback[r])
     \/ c.status # "running" /\ UNCHANGED db /\ StepRaises(r, s, c)
  /\ UNCHANGED <<envVars, undone>>

(* A failed attempt that will be retried is saved; then a backoff.         *)
StepRetries(r, s) ==
  /\ Got(r, s, "error") /\ tries[r][s] < MaxAttempts[s]
  /\ db' = mem[r]
  /\ StayInStep(r, s, "backoff", mem[r], Nobody)
  /\ UNCHANGED <<tries, rollback, envVars, undone>>

NextAttemptFaulty(r, s) == (* does not count the attempt *)
  /\ Got(r, s, "backoff") /\ mem[r].status # "cancelled"
  /\ StayInStep(r, s, "executing", mem[r], Nobody)
  /\ UNCHANGED <<db, tries, rollback, envVars, undone>>

NextAttempt(r, s) ==
  /\ Got(r, s, "backoff") /\ mem[r].status # "cancelled"
  /\ StayInStep(r, s, "executing", mem[r], Nobody)
  /\ tries' = [tries EXCEPT ![r][s] = @ + 1]
  /\ UNCHANGED <<db, rollback, envVars, undone>>

GivesUp(r, s) ==
  \/ Got(r, s, "fatal")
  \/ Got(r, s, "error") /\ tries[r][s] >= MaxAttempts[s]

(* The step has failed for good: skipped, or saved as failed, by policy.   *)
StepFails(r, s) ==
  LET skipped == WithStep(mem[r], s, "skipped")
      failed == WithStep(mem[r], s, "failed")
  IN
  /\ GivesUp(r, s)
  /\ \/ /\ OnError[s] = "skip_step"
        /\ db' = skipped
        /\ LeaveStep(r, s, skipped, rollback[r])
     \/ /\ OnError[s] = "goto_step"
        /\ db' = failed
        /\ LeaveStep(r, s, failed, rollback[r])
     \/ /\ OnError[s] = "fail_process"
        /\ db' = failed
        /\ StayInStep(r, s, "failing", failed, r)
        /\ UNCHANGED <<tries, rollback>>
  /\ UNCHANGED <<envVars, undone>>

(* _fail_execution called for step s: fail() raises unless the execution   *)
(* is running or pending; then the compensations, awaited one by one.      *)
FailExecution(r, s) ==
  LET c == WithStatus(mem[r], "failed")
  IN
  /\ turn = r /\ task[r][s] = "failing"
  /\ \/ /\ ~CanFail(mem[r])
        /\ StepRaises(r, s, mem[r])
        /\ UNCHANGED db
     \/ /\ CanFail(mem[r]) /\ ToCompensate(c) = {}
        /\ db' = c
        /\ LeaveStep(r, s, c, rollback[r])
     \/ /\ CanFail(mem[r]) /\ ToCompensate(c) # {}
        /\ db' = c
        /\ StayInStep(r, s, "compensating", c, Nobody)
        /\ rollback' = [rollback EXCEPT ![r] = ToCompensate(c)]
        /\ UNCHANGED tries
  /\ UNCHANGED <<envVars, undone>>

RunCompensationOldestFirst(r, t) ==
  /\ turn = Nobody /\ t \in rollback[r]
  /\ \A u \in rollback[r] : mem[r].doneAt[u] >= mem[r].doneAt[t]
  /\ undone' = Append(undone, t)
  /\ rollback' = [rollback EXCEPT ![r] = @ \ {t}]
  /\ UNCHANGED <<db, mem, pc, batch, task, tries, turn, envVars>>

RunCompensationOnlyLast(r, t) ==
  /\ turn = Nobody /\ t \in rollback[r]
  /\ \A u \in rollback[r] : mem[r].doneAt[u] <= mem[r].doneAt[t]
  /\ undone' = Append(undone, t)
  /\ EndRun(r)
  /\ UNCHANGED <<db, envVars>>

(* The compensation of t returns, whatever its outcome; t is the step that *)
(* completed last among those left.                                        *)
RunCompensation(r, t) ==
  /\ turn = Nobody /\ t \in rollback[r]
  /\ \A u \in rollback[r] : mem[r].doneAt[u] <= mem[r].doneAt[t]
  /\ undone' = Append(undone, t)
  /\ \/ /\ rollback[r] # {t}
        /\ rollback' = [rollback EXCEPT ![r] = @ \ {t}]
        /\ UNCHANGED <<mem, pc, batch, task, tries, turn>>
     \/ /\ rollback[r] = {t} /\ pc[r] = "compensating"
        /\ EndRun(r)
     \/ /\ rollback[r] = {t} /\ pc[r] = "steps"
        /\ \E s \in Steps : task[r][s] = "compensating" /\ LeaveStep(r, s, mem[r], {})
  /\ UNCHANGED <<db, envVars>>

-----------------------------------------------------------------------------
(* Users, crashes and recovery.                                            *)

(* POST /executions/{id}/cancel: the endpoint reads, cancels and saves a   *)
(* record of its own; it does not reach the runs.                          *)
CancelExecution ==
  /\ UserCancels /\ up /\ turn = Nobody /\ db.status \in Active
  /\ db' = WithStatus(db, "cancelled")
  /\ UNCHANGED <<runVars, envVars, undone>>

DecideFaulty(s, decision, r) == (* accepts a second decision *)
  /\ up /\ turn = Nobody /\ approval[s] # "none"
  /\ approval' = [approval EXCEPT ![s] = decision]
  /\ Spawn(r, db, "resuming")
  /\ UNCHANGED <<db, turn, up, crashes, report, undone>>

(* POST /approvals/{id}/approve and /reject: decide, read the record and   *)
(* create a task that resumes it.                                          *)
Decide(s, decision, r) ==
  /\ up /\ turn = Nobody /\ approval[s] = "pending"
  /\ EarlyDecision \/ \A q \in Runs : task[q][s] # "waiting"
  /\ approval' = [approval EXCEPT ![s] = decision]
  /\ Spawn(r, db, "resuming")
  /\ UNCHANGED <<db, turn, up, crashes, report, undone>>

(* The backend stops: the runs and the approval store are lost.            *)
Crash ==
  /\ up /\ crashes < MaxCrashes
  /\ up' = FALSE
  /\ crashes' = crashes + 1
  /\ mem' = [r \in Runs |-> NoRecord]
  /\ pc' = [r \in Runs |-> "idle"]
  /\ batch' = [r \in Runs |-> {}]
  /\ task' = [r \in Runs |-> NoTasks]
  /\ tries' = [r \in Runs |-> NoTries]
  /\ rollback' = [r \in Runs |-> {}]
  /\ turn' = Nobody
  /\ approval' = [s \in Steps |-> "none"]
  /\ UNCHANGED <<db, report, undone>>

(* recover_on_startup for this execution.  Its age is the time since its   *)
(* last activity: any age when Overdue for one that has started, and by    *)
(* definition too old for one that has not, which carries no timestamp.    *)
Recovers(action) ==
  /\ ~up /\ up' = TRUE
  /\ report' = action
  /\ UNCHANGED <<crashes, approval, turn, undone>>

RecoverSkips ==
  /\ Recovers("skip") /\ db.status \notin Active
  /\ UNCHANGED <<db, mem, pc, batch, task, tries, rollback>>

(* fail() raises when the execution is paused: the scan logs the error,    *)
(* counts the execution among the failed ones and goes on.                 *)
RecoverMarksFailed ==
  /\ Recovers("mark_failed") /\ db.status \in Active
  /\ Overdue \/ db.status = "pending"
  /\ db' = IF CanFail(db) THEN WithStatus(db, "failed") ELSE db
  /\ UNCHANGED <<mem, pc, batch, task, tries, rollback>>

RecoverRetriesStepFaulty(r, s) == (* forgets to reset the step *)
  /\ Recovers("retry_step") /\ db.status \in {"running", "paused"}
  /\ s \in RunningSteps(db)
  /\ Spawn(r, db, "resuming")
  /\ UNCHANGED db

(* One running step, the first the record lists, is reset; then a resume.  *)
RecoverRetriesStep(r, s) ==
  LET c == WithStep(db, s, "pending")
  IN
  /\ Recovers("retry_step") /\ db.status \in {"running", "paused"}
  /\ s \in RunningSteps(db)
  /\ db' = c
  /\ Spawn(r, c, "resuming")

RecoverResumes(r) ==
  /\ Recovers("resume") /\ db.status \in {"running", "paused"}
  /\ RunningSteps(db) = {}
  /\ Spawn(r, db, "resuming")
  /\ UNCHANGED db

-----------------------------------------------------------------------------
Init ==
  /\ db = NoRecord
  /\ mem = [r \in Runs |-> NoRecord]
  /\ pc = [r \in Runs |-> "idle"]
  /\ batch = [r \in Runs |-> {}]
  /\ task = [r \in Runs |-> NoTasks]
  /\ tries = [r \in Runs |-> NoTries]
  /\ rollback = [r \in Runs |-> {}]
  /\ turn = Nobody
  /\ approval = [s \in Steps |-> "none"]
  /\ up = TRUE
  /\ crashes = 0
  /\ report = "none"
  /\ undone = <<>>

StepOf(r, s) ==
  \/ SkipStep(r, s) \/ ExecuteStep(r, s)
  \/ AgentReturns(r, s) \/ ApprovalReturns(r, s)
  \/ StepSucceeds(r, s) \/ StepWaits(r, s)
  \/ StepRetries(r, s) \/ NextAttempt(r, s)
  \/ StepFails(r, s) \/ FailExecution(r, s)
  \/ RunCompensation(r, s)

RunStep(r) ==
  \/ RunExecution(r) \/ ResumeTask(r) \/ EnterRun(r)
  \/ LoopStops(r) \/ LoopFails(r) \/ LoopCompletes(r)
  \/ LoopSleeps(r) \/ Poll(r) \/ LoopDispatches(r) \/ Gathered(r)
  \/ \E s \in Steps : StepOf(r, s)

Start == \E r \in Runs : StartExecution(r) \/ StartInline(r)

DecideOn(s) == \E decision \in {"approved", "rejected"}, r \in Runs : Decide(s, decision, r)

Recover ==
  \/ RecoverSkips \/ RecoverMarksFailed
  \/ \E r \in Runs : RecoverResumes(r) \/ \E s \in Steps : RecoverRetriesStep(r, s)

Next ==
  \/ Start
  \/ \E r \in Runs : RunStep(r)
  \/ CancelExecution
  \/ \E s \in Approvals : DecideOn(s)
  \/ Crash
  \/ Recover

Spec == Init /\ [][Next]_vars

(* The event loop serves its ready tasks in turn, agents answer or time    *)
(* out, users decide, and the backend comes back after a crash.            *)
Fairness ==
  /\ \A r \in Runs : SF_vars(RunStep(r))
  /\ \A s \in Approvals : SF_vars(DecideOn(s))
  /\ WF_vars(Recover)

FairSpec == Spec /\ Fairness

-----------------------------------------------------------------------------
(* Properties.                                                             *)

RunsTypeOK ==
  /\ mem \in [Runs -> Record]
  /\ pc \in [Runs -> RunState]
  /\ batch \in [Runs -> SUBSET Steps]
  /\ task \in [Runs -> [Steps -> TaskState]]
  /\ tries \in [Runs -> [Steps -> Nat]]
  /\ rollback \in [Runs -> SUBSET Steps]
  /\ turn \in Runs \union {Nobody}

EnvTypeOK ==
  /\ approval \in [Steps -> ApprovalStatus]
  /\ up \in BOOLEAN
  /\ crashes \in 0 .. MaxCrashes
  /\ report \in {"none", "skip", "mark_failed", "retry_step", "resume"}

TypeOK == db \in Record /\ RunsTypeOK /\ EnvTypeOK /\ undone \in Seq(Steps)

DepsMet(c, s) == \A d \in Deps[s] : c.step[d] \in Satisfied
InOrder(c) == \A s \in Steps : c.step[s] # "pending" => DepsMet(c, s)

(* In the repository and in every copy a run works on, a step has left     *)
(* pending only if all its dependencies are completed or skipped, however  *)
(* the copies overwrite each other, and whatever a restart resets.         *)
DependencyOrder == InOrder(db) /\ \A r \in Runs : InOrder(mem[r])

(* An execution shown as completed has no step left to run, none that runs *)
(* or waits, and none that failed (get_ready_steps, is_complete).          *)
CompletedIsTotal == db.status = "completed" => IsComplete(db)

(* What keeps the two above true.  A copy is in order and complete when it *)
(* says so; a run acts on a copy that is neither completed nor cancelled,  *)
(* so a later step cannot make it wrong; and the progress of a step agrees *)
(* with the status of the step in the copy of its run.                     *)
CopyOK(c) == InOrder(c) /\ (c.status = "completed" => IsComplete(c))

TaskOK(c, where, s, ts) ==
  /\ ts # "none" => where \in {"loop", "sleeping", "steps", "compensating"}
  /\ ts = "queued" => IsReady(c, s)
  /\ ts \in Result \union {"executing", "backoff"} => c.step[s] = "running"
  /\ ts \in {"failing", "compensating"} => c.step[s] = "failed"

RunOK(c, where, tasks) ==
  /\ CopyOK(c)
  /\ where \notin {"idle", "scheduled", "resuming"} =>
       c.status \notin {"completed", "cancelled"}
  /\ \A s \in Steps : TaskOK(c, where, s, tasks[s])

Consistent == CopyOK(db) /\ \A r \in Runs : RunOK(mem[r], pc[r], task[r])

(* No human_approval step shows as completed unless a user has approved    *)
(* its request, across pauses, resumptions and restarts that lose the      *)
(* store (HumanApprovalHandler.execute, resume).                           *)
ApprovalGate ==
  [][\A s \in Approvals :
       db.step[s] # "completed" /\ db'.step[s] = "completed" => approval[s] = "approved"]_vars

(* What keeps the gate: nothing is there before the start, an approval     *)
(* step has the result ok only once approved, and until then the record    *)
(* and all copies agree on whether it was completed before a restart.      *)
NothingBeforeStart ==
  /\ db.status = "absent" =>
       db = NoRecord /\ approval = [s \in Steps |-> "none"] /\ \A r \in Runs : pc[r] = "idle"
  /\ \A r \in Runs : pc[r] \notin {"idle", "scheduled"} => mem[r].status # "absent"

Approved(s) == approval[s] = "approved"

Gated ==
  /\ NothingBeforeStart
  /\ \A r \in Runs, s \in Approvals :
       /\ task[r][s] = "ok" => Approved(s)
       /\ pc[r] \notin {"idle", "scheduled"} /\ ~Approved(s) =>
            (mem[r].step[s] = "completed" <=> db.step[s] = "completed")

(* At most one run works on the execution, so no run overwrites what       *)
(* another has saved.  Nothing in the engine enforces it: it has to follow *)
(* from when runs are created.                                             *)
SingleWriter == \A q, r \in Runs : pc[q] # "idle" /\ pc[r] # "idle" => q = r

(* An execution once cancelled stays cancelled.                            *)
CancelSticks == [][db.status = "cancelled" => db'.status = "cancelled"]_vars

(* An execution that runs comes to an end, restarts included.              *)
Terminates == db.status = "running" ~> db.status \in Terminal

(* Compensations run only for a failed execution, once per step, for       *)
(* completed steps, and in the reverse order of completion.                *)
RollbackOrder ==
  /\ undone # <<>> => db.status = "failed"
  /\ \A i \in DOMAIN undone : db.step[undone[i]] = "completed"
  /\ \A i, j \in DOMAIN undone :
       i < j => db.doneAt[undone[i]] > db.doneAt[undone[j]]

(* Once an execution that no restart has hit has failed and nothing runs   *)
(* any more, every completed step with a compensation is compensated.      *)
RolledBack ==
  crashes = 0 /\ db.status = "failed" /\ (\A r \in Runs : pc[r] = "idle") =>
    \A s \in ToCompensate(db) : \E i \in DOMAIN undone : undone[i] = s

(* The execution keeps the contract: steps in order and never undone, one  *)
(* end, complete only when all is done, and every start comes to an end.   *)
Contract ==
  INSTANCE ProcessContract WITH
    outcome <- IF db.status \in Active THEN "active" ELSE db.status,
    done <- StepsIn(db, Satisfied)

ImplementsContract == Contract!Spec

=============================================================================
