------------------------------ MODULE Scheduler ------------------------------
(***************************************************************************)
(* The scheduler (src/scheduler): instances that keep an APScheduler job   *)
(* for every enabled schedule, follow the database by comparing it with a  *)
(* snapshot once a minute, and run what comes due, or what a user asks     *)
(* for, under a lock in Redis that a thread of the run renews.             *)
(*                                                                         *)
(* An instance is an event loop: a run changes hands only where it awaits. *)
(* The backend edits the schedules in the same database at any time.       *)
(***************************************************************************)
EXTENDS Naturals, FiniteSets

CONSTANTS
  Schedules, (* Ids of schedules; an id is never used again.               *)
  Instances, (* The scheduler processes.                                   *)
  Runs,      (* Numbers of the runs (a bound).                             *)
  Crons,     (* Cron expressions that the backend accepts.                 *)
  Refused,   (* Those among them that APScheduler does not.                *)
  MaxEdits,  (* How often the backend writes schedules (a bound).          *)
  MaxFaults, (* Crashes and failing calls of Redis and the database (bound).*)
  None

ASSUME RunsNumbered == Runs \subseteq Nat
ASSUME CronsKnown == Refused \subseteq Crons
ASSUME BoundsNatural == MaxEdits \in Nat /\ MaxFaults \in Nat
ASSUME NoneIsNothing == None \notin Runs \union Crons \union Schedules \union Instances

VARIABLES
  process,  (* Ids of process_schedules; the others are of agents' tasks.  *)
  fresh,    (* Ids that no row has had yet.                                *)
  live,     (* Ids with a row in agent_schedules or process_schedules.     *)
  enabled,  (* Rows with enabled = 1.                                      *)
  cron,     (* cron[s] is the cron expression of s's row.                  *)
  autonomy, (* The agent's autonomy flag.                                  *)
  up,       (* Instances that run.                                         *)
  jobs,     (* jobs[i][s] is the expression of i's job for s, or None.     *)
  seen,     (* The ids in i's snapshot.                                    *)
  seenOn,   (* Those that the snapshot has as enabled.                     *)
  touched,  (* Rows with another updated_at than in i's snapshot.          *)
  due,      (* Jobs of i that are due and not yet handed to the executor.  *)
  run,      (* The runs; of the history, whether the agent replied to one,  *)
            (* and whether a write of its outcome failed.                  *)
  lock,     (* lock[s] is the run with the lock of s, or None.             *)
  renewing, (* Runs whose renewal thread works.                            *)
  record,   (* record[r] is the status of r's execution record.            *)
  edits,    (* Writes of the backend so far.                               *)
  faults    (* Faults so far.                                              *)

rows == <<process, fresh, live, enabled, cron, autonomy>>
memory == <<up, jobs, seen, seenOn, due>>
runs == <<run, lock, renewing>>
vars == <<rows, memory, touched, runs, record, edits, faults>>

(* From the lock to its release.                                           *)
Working == {"locked", "cleared", "asked", "answered", "raised", "done"}
Pc == {"unused", "due", "ended", "dead"} \union Working
Status == {"none", "running", "success", "failed", "skipped", "cancelled", "deleted"}

New(pc, s, i, kind) == [pc |-> pc, sched |-> s, inst |-> i, kind |-> kind,
                       replied |-> FALSE, unwritten |-> FALSE]
Unused == New("unused", None, None, "cron")
At(pcs) == {r \in Runs : run[r].pc \in pcs}
Of(s) == {r \in Runs : run[r].sched = s}

(* The lowest unused number, so that runs are numbered in order.           *)
IsNext(r) == r \in At({"unused"}) /\ \A q \in At({"unused"}) : r <= q
NewRun(r, pc, s, i, kind) == run' = [run EXCEPT ![r] = New(pc, s, i, kind)]
MoveWith(r, from, to, replied, unwritten) ==
  /\ run[r].pc = from
  /\ run' = [run EXCEPT ![r] =
               [@ EXCEPT !.pc = to, !.replied = replied, !.unwritten = unwritten]]
Move(r, from, to) == MoveWith(r, from, to, run[r].replied, run[r].unwritten)

(* UPDATE of a record: it does nothing when there is none.                 *)
Write(r, status) == [record EXCEPT ![r] = IF @ \in {"none", "deleted"} THEN @ ELSE status]

(* A call of Redis or of the database raises.                              *)
Breaks == faults < MaxFaults /\ faults' = faults + 1

-----------------------------------------------------------------------------
(* The backend: users' edits, and what stops or resumes schedules.         *)

Edit == edits < MaxEdits /\ edits' = edits + 1
(* Every UPDATE sets updated_at.                                           *)
Touch(S) == touched' = [i \in Instances |-> touched[i] \union S]

CreateSchedule(s, on, c) ==
  /\ Edit
  /\ s \in fresh
  /\ fresh' = fresh \ {s}
  /\ live' = live \union {s}
  /\ enabled' = IF on THEN enabled \union {s} ELSE enabled
  /\ cron' = [cron EXCEPT ![s] = c]
  /\ UNCHANGED <<process, autonomy, memory, touched, runs, record, faults>>

UpdateScheduleFaulty(s, on, c) ==
  /\ Edit
  /\ enabled' = IF on THEN enabled \union {s} ELSE enabled \ {s}
  /\ cron' = [cron EXCEPT ![s] = c]
  /\ Touch({s})
  /\ UNCHANGED <<process, fresh, live, autonomy, memory, runs, record, faults>>

UpdateSchedule(s, on, c) ==
  /\ Edit
  /\ s \in live
  /\ enabled' = IF on THEN enabled \union {s} ELSE enabled \ {s}
  /\ cron' = [cron EXCEPT ![s] = c]
  /\ Touch({s})
  /\ UNCHANGED <<process, fresh, live, autonomy, memory, runs, record, faults>>

(* DELETE of rows, and of the execution records of agents' schedules.      *)
DeleteSchedules(S) ==
  /\ Edit
  /\ S # {} /\ S \subseteq live
  /\ live' = live \ S
  /\ enabled' = enabled \ S
  /\ record' = [r \in Runs |-> IF run[r].sched \in S \ process /\ record[r] # "none"
                               THEN "deleted" ELSE record[r]]
  /\ UNCHANGED <<process, fresh, cron, autonomy, memory, touched, runs, faults>>

(* Pausing writes the agent's rows that are on, resuming those that are    *)
(* off, and autonomy all of them, whatever the user had chosen for each.   *)
SwitchAll(S, on) ==
  /\ enabled' = IF on THEN enabled \union S ELSE enabled \ S
  /\ Touch(S)

PauseAll ==
  /\ Edit /\ SwitchAll(enabled \ process, FALSE)
  /\ UNCHANGED <<process, fresh, live, cron, autonomy, memory, runs, record, faults>>
ResumeAll ==
  /\ Edit /\ SwitchAll(live \ (enabled \union process), TRUE)
  /\ UNCHANGED <<process, fresh, live, cron, autonomy, memory, runs, record, faults>>
SetAutonomy(on) ==
  /\ Edit /\ SwitchAll(live \ process, on)
  /\ autonomy' = on
  /\ UNCHANGED <<process, fresh, live, cron, memory, runs, record, faults>>

(* The agent ends the task and the backend records it, whatever the record *)
(* says by then.                                                           *)
Terminate(r) ==
  /\ Edit
  /\ run[r].pc \in {"asked", "answered", "raised", "done"} /\ run[r].sched \notin process
  /\ record' = Write(r, "cancelled")
  /\ UNCHANGED <<rows, memory, touched, runs, faults>>

-----------------------------------------------------------------------------
(* The jobs follow the database.                                           *)

Accepted(S) == {s \in S : cron[s] \notin Refused}

(* initialize(): the snapshot holds the enabled rows as they were read;    *)
(* storing next_run_at then sets updated_at of each.                       *)
Start(i) ==
  /\ i \notin up
  /\ up' = up \union {i}
  /\ jobs' = [jobs EXCEPT ![i] =
                [s \in Schedules |-> IF s \in Accepted(enabled) THEN cron[s] ELSE None]]
  /\ seen' = [seen EXCEPT ![i] = enabled]
  /\ seenOn' = [seenOn EXCEPT ![i] = enabled]
  /\ touched' = [j \in Instances |-> (IF j = i THEN {} ELSE touched[j]) \union Accepted(enabled)]
  /\ UNCHANGED <<rows, due, runs, record, edits, faults>>

Appeared(i) == (live \ seen[i]) \intersect enabled
Vanished(i) == seen[i] \ live
SwitchedOff(i) == (live \intersect seenOn[i]) \ enabled
SwitchedOn(i) == (live \intersect seen[i] \intersect enabled) \ seenOn[i]
UpdatedFaulty(i) == {}
(* The comparison is of updated_at, which the instance's own writes change.*)
Updated(i) == seenOn[i] \intersect enabled \intersect touched[i]

ToRemove(i) == Vanished(i) \union SwitchedOff(i) \union Updated(i)
ToAdd(i) == Appeared(i) \union SwitchedOn(i) \union Updated(i)

(* _sync_schedules(): a job that is removed or added loses the due time    *)
(* that waits for the event loop.                                          *)
Sync(i) ==
  /\ i \in up
  /\ jobs' = [jobs EXCEPT ![i] =
                [s \in Schedules |-> IF s \in Accepted(ToAdd(i)) THEN cron[s]
                                     ELSE IF s \in ToRemove(i) THEN None ELSE @[s]]]
  /\ due' = [due EXCEPT ![i] = @ \ (ToRemove(i) \union ToAdd(i))]
  /\ seen' = [seen EXCEPT ![i] = live]
  /\ seenOn' = [seenOn EXCEPT ![i] = enabled]
  /\ touched' = [j \in Instances |->
                   (IF j = i THEN {} ELSE touched[j]) \union Accepted(ToAdd(i))]
  /\ UNCHANGED <<rows, up, runs, record, edits, faults>>

-----------------------------------------------------------------------------
(* APScheduler, and the manual trigger.                                    *)

(* The time of s's jobs comes, in every instance that has one.             *)
Tick(s) ==
  /\ due' = [i \in Instances |-> IF jobs[i][s] # None THEN due[i] \union {s} ELSE due[i]]
  /\ due' # due
  /\ UNCHANGED <<rows, up, jobs, seen, seenOn, touched, runs, record, edits, faults>>

(* Runs of i's job for s that the executor still counts.                   *)
Executing(i, s) ==
  {r \in Of(s) : run[r].inst = i /\ run[r].kind = "cron" /\ run[r].pc \in Working \union {"due"}}

Fire(i, s, r) ==
  /\ i \in up /\ s \in due[i] /\ IsNext(r)
  /\ Executing(i, s) = {}
  /\ NewRun(r, "due", s, i, "cron")
  /\ due' = [due EXCEPT ![i] = @ \ {s}]
  /\ UNCHANGED <<rows, up, jobs, seen, seenOn, touched, lock, renewing, record, edits, faults>>

(* EVENT_JOB_MAX_INSTANCES: a record of the skip, if s still has a row.    *)
SkipFire(i, s, r) ==
  /\ i \in up /\ s \in due[i] /\ IsNext(r)
  /\ Executing(i, s) # {}
  /\ NewRun(r, "ended", s, i, "cron")
  /\ record' = IF s \in live THEN [record EXCEPT ![r] = "skipped"] ELSE record
  /\ due' = [due EXCEPT ![i] = @ \ {s}]
  /\ UNCHANGED <<rows, up, jobs, seen, seenOn, touched, lock, renewing, edits, faults>>

(* _trigger_handler() answers "triggered" and leaves the rest to a task.   *)
Trigger(i, s, r) ==
  /\ i \in up /\ s \in live \ process /\ IsNext(r)
  /\ NewRun(r, "due", s, i, "manual")
  /\ UNCHANGED <<rows, memory, touched, lock, renewing, record, edits, faults>>

-----------------------------------------------------------------------------
(* A run.                                                                  *)

(* SET NX EX with the run's own token; nothing is recorded when the lock   *)
(* is taken.                                                               *)
TryLock(r) ==
  LET s == run[r].sched IN
  /\ run[r].pc = "due"
  /\ IF lock[s] = None
     THEN /\ Move(r, "due", "locked")
          /\ lock' = [lock EXCEPT ![s] = r]
          /\ renewing' = renewing \union {r}
     ELSE Move(r, "due", "ended") /\ UNCHANGED <<lock, renewing>>
  /\ UNCHANGED <<rows, memory, touched, record, edits, faults>>

(* The run ends with the exception; Redis may have set the key.            *)
TryLockFails(r) ==
  LET s == run[r].sched IN
  /\ Breaks
  /\ Move(r, "due", "ended")
  /\ lock' \in {lock, [lock EXCEPT ![s] = IF @ = None THEN r ELSE @]}
  /\ UNCHANGED <<rows, memory, touched, renewing, record, edits>>

(* Only a run that came due heeds the switches.                            *)
MayRun(r) ==
  LET s == run[r].sched IN
  /\ s \in live
  /\ run[r].kind = "cron" => s \in enabled /\ (autonomy \/ s \in process)

CheckFaulty(r) ==
  /\ Move(r, "locked", IF MayRun(r) THEN "cleared" ELSE "ended")
  /\ UNCHANGED <<rows, memory, touched, lock, renewing, record, edits, faults>>

Check(r) ==
  /\ Move(r, "locked", IF MayRun(r) THEN "cleared" ELSE "done")
  /\ UNCHANGED <<rows, memory, touched, lock, renewing, record, edits, faults>>

(* The record is inserted and the request sent.                            *)
Ask(r) ==
  /\ Move(r, "cleared", "asked")
  /\ record' = [record EXCEPT ![r] = "running"]
  /\ UNCHANGED <<rows, memory, touched, lock, renewing, edits, faults>>

(* A row cannot be read or the record not inserted; there is no record.    *)
PrepareFails(r) ==
  /\ Breaks
  /\ Move(r, "locked", "done") \/ Move(r, "cleared", "done")
  /\ UNCHANGED <<rows, memory, touched, lock, renewing, record, edits>>

(* An agent's answer; no route of the backend answers a process schedule's *)
(* POST /api/processes/{id}/execute.                                       *)
Succeed(r) ==
  /\ run[r].sched \notin process
  /\ MoveWith(r, "asked", "answered", TRUE, run[r].unwritten)
  /\ record' = Write(r, "success")
  /\ UNCHANGED <<rows, memory, touched, lock, renewing, edits, faults>>

(* The success cannot be written: an exception, for the handler.           *)
SucceedFails(r) ==
  /\ Breaks
  /\ run[r].sched \notin process
  /\ MoveWith(r, "asked", "raised", TRUE, TRUE)
  /\ UNCHANGED <<rows, memory, touched, lock, renewing, record, edits>>

StoreRunTimes(r) ==
  /\ Move(r, "answered", "done")
  /\ Touch({run[r].sched} \intersect live)
  /\ UNCHANGED <<rows, memory, lock, renewing, record, edits, faults>>

(* As when the success cannot be written, although it is by now.           *)
StoreFails(r) ==
  /\ Breaks
  /\ MoveWith(r, "answered", "raised", TRUE, TRUE)
  /\ UNCHANGED <<rows, memory, touched, lock, renewing, record, edits>>

FailFaulty(r) ==
  /\ Move(r, "asked", "done") \/ Move(r, "raised", "done")
  /\ UNCHANGED <<rows, memory, touched, lock, renewing, record, edits, faults>>

(* An error, an unreachable agent, a timeout, a missing route, or the      *)
(* exception of a write: the handler of exceptions records a failure.      *)
Fail(r) ==
  /\ Move(r, "asked", "done") \/ Move(r, "raised", "done")
  /\ record' = Write(r, "failed")
  /\ UNCHANGED <<rows, memory, touched, lock, renewing, edits, faults>>

(* The failure cannot be written: the exception leaves the run, which only *)
(* releases its lock.  The refusal of a process is written outside the     *)
(* handlers, so that one of them tries again.                              *)
FailFails(r) ==
  /\ Breaks
  /\ \/ MoveWith(r, "asked", "done", run[r].replied, TRUE)
     \/ MoveWith(r, "raised", "done", run[r].replied, TRUE)
     \/ run[r].sched \in process /\ MoveWith(r, "asked", "raised", run[r].replied, TRUE)
  /\ UNCHANGED <<rows, memory, touched, lock, renewing, record, edits>>

ReleaseFaulty(r) ==
  /\ Move(r, "done", "ended")
  /\ lock' = [lock EXCEPT ![run[r].sched] = None]
  /\ renewing' = renewing \ {r}
  /\ UNCHANGED <<rows, memory, touched, record, edits, faults>>

(* The script deletes the key only while it holds the run's token.         *)
Release(r) ==
  /\ Move(r, "done", "ended")
  /\ lock' = [lock EXCEPT ![run[r].sched] = IF @ = r THEN None ELSE @]
  /\ renewing' = renewing \ {r}
  /\ UNCHANGED <<rows, memory, touched, record, edits, faults>>

(* The script raises after the renewal was stopped: the key runs out.      *)
ReleaseFails(r) ==
  /\ Breaks
  /\ Move(r, "done", "ended")
  /\ renewing' = renewing \ {r}
  /\ UNCHANGED <<rows, memory, touched, lock, record, edits>>

-----------------------------------------------------------------------------
(* Failures.                                                               *)

(* One error of Redis ends the renewal thread; the run does not notice.    *)
RenewalFails(r) ==
  /\ Breaks
  /\ r \in renewing
  /\ renewing' = renewing \ {r}
  /\ UNCHANGED <<rows, memory, touched, run, lock, record, edits>>

(* The key's 600 seconds pass, which a renewal thread would not let happen.*)
Expire(s) ==
  /\ lock[s] # None /\ lock[s] \notin renewing
  /\ lock' = [lock EXCEPT ![s] = None]
  /\ UNCHANGED <<rows, memory, touched, run, renewing, record, edits, faults>>

(* An instance ends: killed, or by an error of Redis in its heartbeat.     *)
Crash(i) ==
  /\ Breaks
  /\ i \in up
  /\ up' = up \ {i}
  /\ jobs' = [jobs EXCEPT ![i] = [s \in Schedules |-> None]]
  /\ seen' = [seen EXCEPT ![i] = {}]
  /\ seenOn' = [seenOn EXCEPT ![i] = {}]
  /\ due' = [due EXCEPT ![i] = {}]
  /\ LET lost == {r \in At(Working \union {"due"}) : run[r].inst = i} IN
       /\ run' = [r \in Runs |-> IF r \in lost THEN [run[r] EXCEPT !.pc = "dead"] ELSE run[r]]
       /\ renewing' = renewing \ lost
  /\ UNCHANGED <<rows, touched, lock, record, edits>>

-----------------------------------------------------------------------------
Init ==
  /\ process \in SUBSET Schedules
  /\ fresh \in SUBSET Schedules
  /\ live = Schedules \ fresh
  /\ enabled \in SUBSET live
  /\ cron \in [Schedules -> Crons]
  /\ \A s \in fresh : cron[s] = CHOOSE c \in Crons : TRUE
  /\ autonomy \in BOOLEAN
  /\ up = {}
  /\ jobs = [i \in Instances |-> [s \in Schedules |-> None]]
  /\ seen = [i \in Instances |-> {}]
  /\ seenOn = [i \in Instances |-> {}]
  /\ touched = [i \in Instances |-> {}]
  /\ due = [i \in Instances |-> {}]
  /\ run = [r \in Runs |-> Unused]
  /\ lock = [s \in Schedules |-> None]
  /\ renewing = {}
  /\ record = [r \in Runs |-> "none"]
  /\ edits = 0
  /\ faults = 0

Backend ==
  \/ \E s \in Schedules, on \in BOOLEAN, c \in Crons :
       CreateSchedule(s, on, c) \/ UpdateSchedule(s, on, c)
  \/ \E s \in Schedules : DeleteSchedules({s})
  \/ DeleteSchedules(live \ process)
  \/ PauseAll \/ ResumeAll
  \/ \E on \in BOOLEAN : SetAutonomy(on)
  \/ \E r \in Runs : Terminate(r)

RunStep(r) ==
  \/ TryLock(r) \/ Check(r) \/ Ask(r) \/ Succeed(r) \/ Fail(r) \/ StoreRunTimes(r) \/ Release(r)

Fault ==
  \/ \E r \in Runs :
       \/ TryLockFails(r) \/ PrepareFails(r) \/ SucceedFails(r) \/ StoreFails(r)
       \/ FailFails(r) \/ ReleaseFails(r) \/ RenewalFails(r)
  \/ \E i \in Instances : Crash(i)

Next ==
  \/ Backend
  \/ \E i \in Instances : Start(i) \/ Sync(i)
  \/ \E s \in Schedules : Tick(s) \/ Expire(s)
  \/ \E i \in Instances, s \in Schedules, r \in Runs :
       Fire(i, s, r) \/ SkipFire(i, s, r) \/ Trigger(i, s, r)
  \/ \E r \in Runs : RunStep(r)
  \/ Fault

Spec == Init /\ [][Next]_vars

(* An instance is restarted (restart: unless-stopped), its loop syncs, the *)
(* loop gets round to every run, every request times out, and Redis drops  *)
(* a key whose time is over.                                               *)
FairSpec ==
  /\ Spec
  /\ \A i \in Instances : WF_vars(Start(i)) /\ WF_vars(Sync(i))
  /\ \A r \in Runs : WF_vars(RunStep(r))
  /\ \A s \in Schedules : WF_vars(Expire(s))

-----------------------------------------------------------------------------
RowsOK ==
  /\ process \subseteq Schedules /\ fresh \subseteq Schedules
  /\ live \subseteq Schedules /\ enabled \subseteq live
  /\ cron \in [Schedules -> Crons] /\ autonomy \in BOOLEAN
MemoryOK ==
  /\ up \subseteq Instances
  /\ jobs \in [Instances -> [Schedules -> Crons \union {None}]]
  /\ seen \in [Instances -> SUBSET Schedules] /\ seenOn \in [Instances -> SUBSET Schedules]
  /\ touched \in [Instances -> SUBSET Schedules] /\ due \in [Instances -> SUBSET Schedules]
RunType == [pc : Pc, sched : Schedules \union {None}, inst : Instances \union {None},
            kind : {"cron", "manual"}, replied : BOOLEAN, unwritten : BOOLEAN]
RunsOK ==
  /\ run \in [Runs -> RunType]
  /\ \A r \in Runs : run[r].pc # "unused" => run[r].sched \in Schedules
  /\ lock \in [Schedules -> Runs \union {None}] /\ renewing \subseteq Runs
  /\ record \in [Runs -> Status]
BoundsOK == edits \in 0..MaxEdits /\ faults \in 0..MaxFaults

(* Every variable keeps its type, and a run in use is of a schedule.       *)
TypeOK == RowsOK /\ MemoryOK /\ RunsOK /\ BoundsOK

(* While the renewal thread of a run works, the lock of its schedule is its *)
(* own, so no other such run of the schedule is under way; a run that lost *)
(* the lock does not release it for the one that has it now.               *)
HoldsItsLock == \A r \in At(Working) \intersect renewing : lock[run[r].sched] = r

(* A lock is free again some day, whatever became of the run that took it. *)
LocksFreed == \A s \in Schedules : [](lock[s] # None => <>(lock[s] = None))

(* The record says what became of the run: success if the agent replied,   *)
(* failure if not, or what users made of it later.                         *)
Tells(r) ==
  \/ record[r] = IF run[r].replied THEN "success" ELSE "failed"
  \/ record[r] \in {"cancelled", "deleted"}

(* A run that asked its agent ends, and its record then tells what became  *)
(* of it, unless its instance ended first or a write of its outcome failed:*)
(* one that failed may leave a record that says running, or failed for a   *)
(* run that succeeded.                                                     *)
RunsDecided ==
  \A r \in Runs :
    run[r].pc = "asked" ~>
      (run[r].pc = "dead" \/ (run[r].pc = "ended" /\ (Tells(r) \/ run[r].unwritten)))

(* The job that the row of s calls for.                                    *)
Wanted(s) == IF s \in Accepted(enabled) THEN cron[s] ELSE None

(* Once the backend writes no more, the instances' jobs come to be those   *)
(* of the database, and stay so.                                           *)
JobsFollow == <>[](\A i \in up, s \in Schedules : jobs[i][s] = Wanted(s))
=============================================================================
