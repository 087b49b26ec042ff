------------------------------ MODULE Processes ------------------------------
(***************************************************************************)
(* Many executions of many process definitions in one backend worker: the  *)
(* life of a definition from draft to deletion with the rows it leaves for *)
(* the scheduler, the ways an execution is started and the limits on them, *)
(* sub_process steps that run another definition inside their own step,    *)
(* timeouts that cut such a child off, approvals below a parent, and       *)
(* restarts with their recovery.                                           *)
(*                                                                         *)
(* Each definition has one step here: ProcessEngine has the order of many  *)
(* steps, and the several runs that one execution can get.  The handlers   *)
(* below keep the event loop of the worker from a read to the write that   *)
(* depends on it, so each is one step.                                     *)
(***************************************************************************)
EXTENDS Integers, FiniteSets

CONSTANTS
  Defs,        (* The ids of process definitions.                           *)
  contents,    (* contents[d]: the types of step that d may be given.       *)
  name,        (* name[d] is the name of d, which its versions share.       *)
  version,     (* version[d] is its version number.                         *)
  calls,       (* calls[d] is the name that a sub_process step of d runs.   *)
  pinned,      (* pinned[d] is the version it asks for, 0 for the latest.   *)
  attempts,    (* attempts[d] is max_attempts of the step of d.             *)
  onError,     (* onError[d] is its error policy.                           *)
  scheduled,   (* Does d have an enabled schedule trigger?                  *)
  PerProcess,  (* max_instances_per_process.                                *)
  Global,      (* max_concurrent_executions.                                *)
  MaxExecs,    (* Number of executions ever created (a bound).              *)
  Budgets,     (* What may happen in one behaviour: the executions that are *)
               (* not started by a step, and the definitions retired, the   *)
               (* cancellations, the restarts, the failing writes (bounds). *)
  None         (* No definition.                                            *)

Kinds == {"agent_task", "human_approval", "sub_process"}
Execs == 1..MaxExecs

ASSUME DefsFinite == IsFiniteSet(Defs) /\ None \notin Defs
ASSUME DefsTyped ==
  /\ contents \in [Defs -> SUBSET Kinds]
  /\ version \in [Defs -> Nat \ {0}]
  /\ pinned \in [Defs -> Nat]
  /\ attempts \in [Defs -> Nat \ {0}]
  /\ onError \in [Defs -> {"fail_process", "skip_step"}]
  /\ scheduled \in [Defs -> BOOLEAN]
ASSUME BoundsKnown ==
  /\ {PerProcess, Global, MaxExecs} \subseteq Nat
  /\ Budgets \subseteq [{"starts", "retired", "cancels", "restarts", "faults"} -> Nat]

(* A called process calls no other: one level of nesting (a bound).        *)
ASSUME OneLevel ==
  \A d, x \in Defs :
    "sub_process" \in contents[d] /\ name[x] = calls[d] => "sub_process" \notin contents[x]

VARIABLES
  phase,     (* phase[d]: table process_definitions, with ids not yet used  *)
             (* and ids whose row was deleted.                              *)
  kind,      (* kind[d] is the type of the step of d.                       *)
  rows,      (* Definitions with rows in the table process_schedules.       *)
  of,        (* of[e] is the definition that execution e runs.              *)
  via,       (* via[e] says what started e, its triggered_by.               *)
  parent,    (* parent[e] is the execution whose step started e, or 0.      *)
  status,    (* status[e] as stored in table process_executions.            *)
  step,      (* step[e] is the status of its step, saved with it.           *)
  run,       (* run[e] is the coroutine that has e in memory, and how far.  *)
  awaits,    (* awaits[e] is the child that the step of e waits for, or 0.  *)
  tries,     (* tries[e] is the number of failed attempts in this run.      *)
  approval,  (* approval[e] is its request in the in-memory ApprovalStore.  *)
  cancelled, (* History: executions that a user has cancelled.              *)
  dropped,   (* History: children cut off by the timeout of their parent.   *)
  budget,    (* The bounds of this behaviour.                               *)
  restarts,  (* Number of restarts so far.                                  *)
  faults     (* Number of failed writes so far.                             *)

defVars == <<phase, kind, rows, faults>>
idVars == <<of, via, parent>>
runVars == <<run, awaits, tries, approval>>
vars == <<phase, kind, rows, of, via, parent, status, step, run, awaits, tries,
          approval, cancelled, dropped, budget, restarts, faults>>

Active == {"pending", "running", "paused"}
Returned == {"completed", "failed", "paused"}

(* queued: a task that will load its execution; fresh and found: loaded by *)
(* the recovery scan; resuming: a task with a paused or interrupted copy;  *)
(* active: in the loop of the engine; returned to a parent that waits.     *)
Runs == {"none", "queued", "fresh", "found", "resuming", "active"} \union Returned

Stored(d) == phase[d] \in {"draft", "published", "archived"}

Init ==
  /\ phase = [d \in Defs |-> "absent"] /\ kind = [d \in Defs |-> "agent_task"] /\ rows = {} /\ faults = 0
  /\ of = [e \in Execs |-> None]
  /\ via = [e \in Execs |-> "nothing"]
  /\ parent = [e \in Execs |-> 0]
  /\ status = [e \in Execs |-> "absent"]
  /\ step = [e \in Execs |-> "pending"]
  /\ run = [e \in Execs |-> "none"]
  /\ awaits = [e \in Execs |-> 0]
  /\ tries = [e \in Execs |-> 0]
  /\ approval = [e \in Execs |-> "none"]
  /\ cancelled = {} /\ dropped = {} /\ restarts = 0 /\ budget \in Budgets

-----------------------------------------------------------------------------
(* The life of a definition.                                               *)

Turns(d, from, to) ==
  /\ phase[d] \in from
  /\ phase' = [phase EXCEPT ![d] = to]
  /\ UNCHANGED <<idVars, status, step, runVars, cancelled, dropped, budget, restarts>>

(* create_process, and create_new_version of an existing definition.       *)
Draft(d, k) ==
  /\ Turns(d, {"absent"}, "draft")
  /\ kind' = [kind EXCEPT ![d] = k] /\ UNCHANGED <<rows, faults>>

(* update_process: only a draft gets another content.                      *)
Update(d, k) ==
  /\ Turns(d, {"draft"}, "draft")
  /\ kind' = [kind EXCEPT ![d] = k] /\ UNCHANGED <<rows, faults>>

(* A write to the scheduler's table, whose errors are logged only.         *)
Writes(new) ==
  \/ rows' = new /\ UNCHANGED faults
  \/ faults < budget.faults /\ faults' = faults + 1 /\ UNCHANGED rows

register_process_schedules(d) ==
  /\ IF scheduled[d] THEN Writes(rows \union {d}) ELSE UNCHANGED <<rows, faults>>
  /\ UNCHANGED kind

unregister_process_schedules(d) == Writes(rows \ {d}) /\ UNCHANGED kind

Publish(d) == Turns(d, {"draft"}, "published") /\ register_process_schedules(d)

Archive(d) ==
  /\ Cardinality({x \in Defs : phase[x] \in {"archived", "deleted"}}) < budget.retired
  /\ Turns(d, {"draft", "published"}, "archived") /\ unregister_process_schedules(d)

(* Executions of the definition are not looked at.                         *)
Delete(d) == Turns(d, {"draft", "archived"}, "deleted") /\ UNCHANGED <<kind, rows, faults>>

-----------------------------------------------------------------------------
(* Starting executions.                                                    *)

Created(e) == status[e] # "absent"

Fresh(e) == ~Created(e) /\ \A f \in Execs : f < e => Created(f)

CreatesFaulty(e, d, how, p, st) ==
  /\ Fresh(e)
  /\ p = 0 => Cardinality({f \in Execs : Created(f) /\ parent[f] = 0}) < budget.starts
  /\ of' = [of EXCEPT ![e] = d]
  /\ via' = [via EXCEPT ![e] = how]
  /\ status' = [status EXCEPT ![e] = st]
  /\ UNCHANGED <<defVars, parent, step, tries, approval, cancelled, dropped, budget, restarts>>

(* ProcessExecution.create and its first save.                             *)
Creates(e, d, how, p, st) ==
  /\ Fresh(e)
  /\ p = 0 => Cardinality({f \in Execs : Created(f) /\ parent[f] = 0}) < budget.starts
  /\ of' = [of EXCEPT ![e] = d]
  /\ via' = [via EXCEPT ![e] = how]
  /\ parent' = [parent EXCEPT ![e] = p]
  /\ status' = [status EXCEPT ![e] = st]
  /\ UNCHANGED <<defVars, step, tries, approval, cancelled, dropped, budget, restarts>>

ActiveOf(d) == {e \in Execs : status[e] \in Active /\ of[e] = d}

check_can_startFaulty(d) ==
  /\ Cardinality({e \in Execs : status[e] \in {"running", "paused"}}) < Global
  /\ Cardinality({e \in ActiveOf(d) : status[e] # "pending"}) < PerProcess

check_can_start(d) ==
  /\ Cardinality({e \in Execs : status[e] \in Active}) < Global
  /\ Cardinality(ActiveOf(d)) < PerProcess

StartExecution(e, d) ==
  /\ phase[d] = "published"
  /\ check_can_start(d)
  /\ Creates(e, d, "api", 0, "pending")
  /\ run' = [run EXCEPT ![e] = "queued"] /\ UNCHANGED awaits

(* The definition only has to exist, and no limit is asked.                *)
RetryExecution(e, f) ==
  /\ status[f] = "failed"
  /\ Stored(of[f])
  /\ Creates(e, of[f], "retry", 0, "pending")
  /\ run' = [run EXCEPT ![e] = "queued"] /\ UNCHANGED awaits

(* engine.start, inside the request.                                       *)
InvokeWebhook(e, d) ==
  /\ phase[d] = "published"
  /\ Creates(e, d, "webhook", 0, "running")
  /\ run' = [run EXCEPT ![e] = "active"] /\ UNCHANGED awaits

(* cancel_execution changes the record and no run.                         *)
CancelExecution(e) ==
  /\ status[e] \in Active
  /\ Cardinality(cancelled) < budget.cancels
  /\ status' = [status EXCEPT ![e] = "cancelled"]
  /\ cancelled' = cancelled \union {e}
  /\ UNCHANGED <<defVars, idVars, step, runVars, dropped, budget, restarts>>

-----------------------------------------------------------------------------
(* The engine running one execution.                                       *)

(* The engine returns e to the parent that awaits it, if one does.         *)
Returns(e, result) ==
  run' = [run EXCEPT ![e] = IF \E p \in Execs : awaits[p] = e THEN result ELSE "none"]

Saves(e, st, stp) ==
  /\ status' = [status EXCEPT ![e] = st]
  /\ step' = [step EXCEPT ![e] = stp]

Others == UNCHANGED <<defVars, idVars, cancelled, dropped, budget, restarts>>

(* _run_execution: nothing happens when the definition is gone, and resume *)
(* refuses a cancelled execution.                                          *)
Begin(e) ==
  /\ run[e] = "queued"
  /\ IF Stored(of[e]) /\ status[e] # "cancelled"
     THEN /\ run' = [run EXCEPT ![e] = "active"]
          /\ status' = [status EXCEPT ![e] = "running"]
     ELSE /\ run' = [run EXCEPT ![e] = "none"]
          /\ UNCHANGED status
  /\ UNCHANGED <<step, awaits, tries, approval>> /\ Others

(* resume() of a copy: a paused one is saved as running, its step pending. *)
Resume(e) ==
  /\ run[e] = "resuming"
  /\ run' = [run EXCEPT ![e] = "active"]
  /\ IF step[e] = "waiting_approval" THEN Saves(e, "running", "pending")
                                     ELSE UNCHANGED <<status, step>>
  /\ UNCHANGED <<awaits, tries, approval>> /\ Others

StartStep(e) ==
  /\ run[e] = "active" /\ step[e] = "pending"
  /\ Saves(e, "running", "running")
  /\ tries' = [tries EXCEPT ![e] = 0]
  /\ UNCHANGED <<run, awaits, approval>> /\ Others

InStep(e, k) == run[e] = "active" /\ step[e] = "running" /\ kind[of[e]] = k

Succeeds(e) == Saves(e, "running", "completed") /\ UNCHANGED tries

(* _handle_step_failure.                                                   *)
GivesUp(e) ==
  /\ Saves(e, "running", IF onError[of[e]] = "skip_step" THEN "skipped" ELSE "failed")
  /\ UNCHANGED tries

(* An attempt fails with an error that is retried while attempts are left. *)
Fails(e) ==
  IF tries[e] + 1 < attempts[of[e]]
  THEN Saves(e, "running", "running") /\ tries' = [tries EXCEPT ![e] = @ + 1]
  ELSE GivesUp(e)

AgentAnswers(e) ==
  /\ InStep(e, "agent_task")
  /\ Succeeds(e) \/ Fails(e) \/ GivesUp(e)
  /\ UNCHANGED <<run, awaits, approval>> /\ Others

(* The step waits and the execution pauses; the engine returns it.         *)
Pauses(e) == Saves(e, "paused", "waiting_approval") /\ Returns(e, "paused") /\ UNCHANGED tries

AskHuman(e) ==
  /\ InStep(e, "human_approval")
  /\ approval[e] \in {"none", "pending"}
  /\ approval' = [approval EXCEPT ![e] = "pending"]
  /\ Pauses(e)
  /\ UNCHANGED awaits /\ Others

HumanAnswered(e) ==
  /\ InStep(e, "human_approval")
  /\ \/ approval[e] = "approved" /\ Succeeds(e)
     \/ approval[e] = "rejected" /\ GivesUp(e)
  /\ UNCHANGED <<run, awaits, approval>> /\ Others

(* The end of the loop of _run: _complete_execution or _fail_execution.    *)
Ends(e) ==
  /\ run[e] = "active"
  /\ \/ step[e] \in {"completed", "skipped"} /\ Saves(e, "completed", step[e]) /\ Returns(e, "completed")
     \/ step[e] = "failed" /\ Saves(e, "failed", "failed") /\ Returns(e, "failed")
  /\ UNCHANGED <<awaits, tries, approval>> /\ Others

(* approve or reject: a new task resumes the paused execution, by itself.  *)
Decide(e, verdict) ==
  /\ approval[e] = "pending" /\ run[e] = "none"
  /\ approval' = [approval EXCEPT ![e] = verdict]
  /\ run' = IF status[e] = "paused" /\ Stored(of[e])
            THEN [run EXCEPT ![e] = "resuming"] ELSE run
  /\ UNCHANGED <<status, step, awaits, tries>> /\ Others

-----------------------------------------------------------------------------
(* SubProcessHandler.execute.                                              *)

(* What get_latest_version or get_by_name may return.                      *)
Found(d) ==
  IF pinned[d] # 0
  THEN {x \in Defs : Stored(x) /\ name[x] = calls[d] /\ version[x] = pinned[d]}
  ELSE {x \in Defs : /\ phase[x] = "published" /\ name[x] = calls[d]
                     /\ \A y \in Defs : phase[y] = "published" /\ name[y] = calls[d]
                                        => version[y] <= version[x]}

(* The child is created and runs inside the step, without a look at the    *)
(* limits.  start() also links it to the parent's record, which the copy   *)
(* that the parent's run saves next does not have.                         *)
Spawn(e, c) ==
  /\ InStep(e, "sub_process") /\ awaits[e] = 0
  /\ \E x \in Found(of[e]) :
       phase[x] = "published" /\ Creates(c, x, "sub_process", e, "running")
  /\ run' = [run EXCEPT ![c] = "active"]
  /\ awaits' = [awaits EXCEPT ![e] = c]

NotFound(e) ==
  /\ InStep(e, "sub_process") /\ awaits[e] = 0
  /\ Found(of[e]) = {} \/ \E x \in Found(of[e]) : phase[x] # "published"
  /\ Fails(e)
  /\ UNCHANGED <<run, awaits, approval>> /\ Others

CollectFaulty(e) ==
  LET c == awaits[e] IN
  /\ InStep(e, "sub_process") /\ c # 0 /\ run[c] \in Returned
  /\ awaits' = [awaits EXCEPT ![e] = 0]
  /\ \/ /\ run[c] \in {"completed", "paused"} /\ Succeeds(e)
        /\ run' = [run EXCEPT ![c] = "none"]
     \/ /\ run[c] = "failed" /\ Fails(e)
        /\ run' = [run EXCEPT ![c] = "none"]
  /\ UNCHANGED approval /\ Others

CollectWaiting(e) ==
  LET c == awaits[e] IN
  /\ InStep(e, "sub_process") /\ c # 0 /\ run[c] \in {"completed", "failed"}
  /\ awaits' = [awaits EXCEPT ![e] = 0]
  /\ run' = [run EXCEPT ![c] = "none"]
  /\ IF run[c] = "completed" THEN Succeeds(e) ELSE Fails(e)
  /\ UNCHANGED approval /\ Others

(* The child has returned: its status decides about the step.  A parent    *)
(* whose child paused is paused like one that asked a human itself.        *)
Collect(e) ==
  LET c == awaits[e] IN
  /\ InStep(e, "sub_process") /\ c # 0 /\ run[c] \in Returned
  /\ awaits' = [awaits EXCEPT ![e] = 0]
  /\ \/ /\ run[c] = "completed" /\ Succeeds(e)
        /\ run' = [run EXCEPT ![c] = "none"]
     \/ /\ run[c] = "failed" /\ Fails(e)
        /\ run' = [run EXCEPT ![c] = "none"]
     \/ /\ run[c] = "paused" /\ Saves(e, "paused", "waiting_approval")
        /\ run' = [run EXCEPT ![c] = "none", ![e] = "none"] /\ UNCHANGED tries
  /\ UNCHANGED approval /\ Others

ChildTimesOutFaulty(e) ==
  LET c == awaits[e] IN
  /\ InStep(e, "sub_process") /\ c # 0 /\ run[c] = "active"
  /\ awaits' = [awaits EXCEPT ![e] = 0]
  /\ run' = [run EXCEPT ![c] = "none"]
  /\ dropped' = dropped \union {c}
  /\ Fails(e)
  /\ UNCHANGED <<defVars, idVars, approval, cancelled, budget, restarts>>

(* wait_for cancels the coroutine of the child, whose record stays as it   *)
(* is; a timeout is not retried.                                           *)
ChildTimesOut(e) ==
  LET c == awaits[e] IN
  /\ InStep(e, "sub_process") /\ c # 0 /\ run[c] = "active"
  /\ awaits' = [awaits EXCEPT ![e] = 0]
  /\ run' = [run EXCEPT ![c] = "none"]
  /\ dropped' = dropped \union {c}
  /\ GivesUp(e)
  /\ UNCHANGED <<defVars, idVars, approval, cancelled, budget, restarts>>

-----------------------------------------------------------------------------
(* Restart and recovery.                                                   *)

RestartFaulty ==
  /\ restarts < budget.restarts
  /\ restarts' = restarts + 1
  /\ run' = [e \in Execs |-> IF status[e] \in {"running", "paused"} THEN "found" ELSE "none"]
  /\ awaits' = [e \in Execs |-> 0]
  /\ approval' = [e \in Execs |-> "none"]
  /\ UNCHANGED <<defVars, idVars, status, step, tries, cancelled, dropped, budget>>

(* All runs and the store of approvals are lost; recover_on_startup lists  *)
(* the active executions.                                                  *)
Restart ==
  /\ restarts < budget.restarts
  /\ restarts' = restarts + 1
  /\ run' = [e \in Execs |-> IF status[e] = "pending" THEN "fresh"
                             ELSE IF status[e] \in Active THEN "found" ELSE "none"]
  /\ awaits' = [e \in Execs |-> 0]
  /\ approval' = [e \in Execs |-> "none"]
  /\ UNCHANGED <<defVars, idVars, status, step, tries, cancelled, dropped, budget>>

(* _recover_execution leaves one without a definition, fails one without   *)
(* a timestamp, or too old, and resumes the others, whatever users did to  *)
(* the record since the scan.                                              *)
Recover(e) ==
  /\ run[e] \in {"fresh", "found"}
  /\ \/ /\ ~Stored(of[e])
        /\ run' = [run EXCEPT ![e] = "none"] /\ UNCHANGED <<status, step>>
     \/ /\ Stored(of[e])
        /\ run' = [run EXCEPT ![e] = "none"] /\ Saves(e, "failed", step[e])
     \/ /\ Stored(of[e]) /\ run[e] = "found"
        /\ run' = [run EXCEPT ![e] = "resuming"]
        /\ IF step[e] = "running" THEN Saves(e, "running", "pending")
                                  ELSE UNCHANGED <<status, step>>
  /\ UNCHANGED <<awaits, tries, approval>> /\ Others

-----------------------------------------------------------------------------
RunStep(e) ==
  \/ Begin(e) \/ Resume(e) \/ StartStep(e) \/ AgentAnswers(e)
  \/ AskHuman(e) \/ HumanAnswered(e) \/ Ends(e)
  \/ (\E c \in Execs : Spawn(e, c)) \/ NotFound(e) \/ Collect(e) \/ ChildTimesOut(e)
  \/ Recover(e)

Users ==
  \/ \E d \in Defs : \E k \in contents[d] : Draft(d, k) \/ Update(d, k)
  \/ \E d \in Defs : Publish(d) \/ Archive(d) \/ Delete(d)
  \/ \E e \in Execs, d \in Defs : StartExecution(e, d) \/ InvokeWebhook(e, d)
  \/ \E e, f \in Execs : RetryExecution(e, f)
  \/ \E e \in Execs : CancelExecution(e)
  \/ \E e \in Execs, verdict \in {"approved", "rejected"} : Decide(e, verdict)

Next == Users \/ Restart \/ \E e \in Execs : RunStep(e)

Spec == Init /\ [][Next]_vars

(* Every await of a run ends: of an agent by its own timeout, of a child   *)
(* by the timeout around the step, and the event loop gets to every task.  *)
Fairness == \A e \in Execs : WF_vars(RunStep(e))

FairSpec == Spec /\ Fairness

-----------------------------------------------------------------------------
DefsOK ==
  /\ phase \in [Defs -> {"absent", "draft", "published", "archived", "deleted"}]
  /\ kind \in [Defs -> Kinds]
  /\ rows \subseteq Defs

RecordsOK ==
  /\ of \in [Execs -> Defs \union {None}]
  /\ via \in [Execs -> {"nothing", "api", "retry", "webhook", "sub_process"}]
  /\ parent \in [Execs -> Execs \union {0}]
  /\ status \in [Execs -> Active \union {"absent", "completed", "failed", "cancelled"}]
  /\ step \in [Execs -> {"pending", "running", "waiting_approval", "completed", "failed", "skipped"}]

RunsOK ==
  /\ run \in [Execs -> Runs]
  /\ awaits \in [Execs -> Execs \union {0}]
  /\ tries \in [Execs -> Nat]
  /\ approval \in [Execs -> {"none", "pending", "approved", "rejected"}]

LinksOK ==
  \A e \in Execs :
    /\ of[e] \in Defs <=> Created(e)
    /\ ~Created(e) =>
         step[e] = "pending" /\ run[e] = "none" /\ awaits[e] = 0 /\ parent[e] = 0
    /\ awaits[e] # 0 => parent[awaits[e]] = e
    /\ parent[e] # 0 => Created(parent[e])

CountsOK ==
  /\ cancelled \subseteq Execs /\ dropped \subseteq Execs
  /\ budget \in Budgets
  /\ restarts \in 0..budget.restarts /\ faults \in 0..budget.faults

(* Every variable has its type; an execution that exists has a definition  *)
(* that was stored, a run only if it exists, and a step awaits only a      *)
(* child of its own execution (process_executions, the engine's runs).     *)
TypeOK == DefsOK /\ RecordsOK /\ RunsOK /\ LinksOK /\ CountsOK

(* The executions that start_execution admitted never exceed the limit of  *)
(* their process, nor together the global one: nothing that ended comes    *)
(* back to take a place again, except what a user cancelled while a run    *)
(* still had it in memory.  Webhooks, retries and children are not bounded *)
(* (limits.py, check_can_start).                                           *)
Admitted == {e \in Execs : via[e] = "api" /\ status[e] \in Active /\ e \notin cancelled}

LimitKept ==
  /\ Cardinality(Admitted) <= Global
  /\ \A d \in Defs : Cardinality({e \in Admitted : of[e] = d}) <= PerProcess

(* A sub_process step is completed only by a child of its own execution    *)
(* that has completed, of the called name and, if pinned, version, and     *)
(* whatever retries, cancellations and restarts came between               *)
(* (SubProcessHandler.execute).                                            *)
OutputOfChild ==
  \A e \in Execs :
    Created(e) /\ kind[of[e]] = "sub_process" /\ step[e] = "completed" =>
      \E c \in Execs :
        /\ parent[c] = e /\ status[c] = "completed"
        /\ name[of[c]] = calls[of[e]]
        /\ pinned[of[e]] \in {0, version[of[c]]}

(* A parent has at most one active child, and one more for each restart:   *)
(* recovery runs its step again beside the child it already had, but       *)
(* neither retries nor timeouts of the step ever do                        *)
(* (ExecutionEngine._execute_step, non_retryable_errors).                  *)
FewChildren ==
  \A e \in Execs :
    Cardinality({c \in Execs : parent[c] = e /\ status[c] \in Active}) <= 1 + restarts

(* What is pending or running without a run that works on it, and so takes *)
(* a place of the limits for ever, is a child cut off by a timeout or an   *)
(* execution whose definition was deleted under it (delete_process,        *)
(* _run_execution, wait_for).                                              *)
LeftBehind ==
  \A e \in Execs :
    status[e] \in {"pending", "running"} /\ run[e] = "none"
      => e \in dropped \/ phase[of[e]] = "deleted"

(* Only what was published is ever executed, and the scheduler's table     *)
(* holds a definition that is not published only after a failed write      *)
(* (publish_process, archive_process, delete_process, update_process).     *)
PublishedOnly == \A e \in Execs : Created(e) => phase[of[e]] \notin {"absent", "draft"}

RowsFollow == Cardinality({d \in rows : phase[d] # "published"}) <= faults

Publication == PublishedOnly /\ RowsFollow

(* Every run ends or pauses: a parent never waits for ever for its child,  *)
(* nor a child for a parent to take its result (_run, execute).  When the  *)
(* bound on executions is used up a parent can start no child.             *)
EveryRunEnds ==
  \A e \in Execs : run[e] # "none" ~> (run[e] = "none" \/ \A c \in Execs : Created(c))
=============================================================================
