# CreatorForge and Trinity: TLA+ models, checks and proofs

This directory models the parts of the repository in which something can go
wrong between two lines of code: several coroutines, workers, users, restarts
and remote answers around one piece of shared state. The repository holds two
programs:

- **Trinity** (`src/trinity-main`): a platform that runs AI agents in Docker
  containers. A FastAPI backend (SQLite, Redis), a scheduler, an agent server in
  every container, an MCP server, a web frontend. Its **process engine**
  executes YAML workflows over agents and human approvals.
- **CreatorForge** (`src/hackathons-main/agents/creatorforge-agent`): an agent
  that sells advertising assets and buys from other agents, paying with credits
  (x402), under a budget, with human approvals relayed to the external
  orchestrator Mindra.

Contents: 1 inventory, 2 modules and how they correspond to the code, 3 runs,
4 bounds and fairness, 5 theorems, 6 what the code was found to do otherwise
than documented, 7 what is not modelled, 8 the plan.

Short names: `PE/` is `src/trinity-main/src/backend/services/process_engine/`,
`BE/` is `src/trinity-main/src/backend/`, `AS/` is
`src/trinity-main/docker/base-image/agent_server/`, `CF/` is
`src/hackathons-main/agents/creatorforge-agent/src/`.

## 1. Inventory

### Process engine: execution (`PE/engine`, `PE/domain`)

- State: a row per execution (`ProcessExecution`: status, a status and a
  completion time per step); in memory, one copy of that row per engine
  coroutine, with the batch it runs, attempts and compensations in progress.
- Operations: start (endpoint with a background task, or inline from webhooks
  and sub_process steps), resume, the loop of `_run` (fail, complete, sleep,
  dispatch), one step (skip, execute, succeed, wait, retry, fail by policy), roll
  back, cancel.
- Interactions: calls step handlers, which post to agents or look at the
  `ApprovalStore`; saves to SQLite; publishes events that nobody it depends on
  reads.
- Hard: parallel steps share one copy and save all of it; the endpoints read
  and save a copy of their own; a run never reads the row again; a crash may
  come between any two saves.
- Correct when: no step starts before its dependencies; completed means
  everything is done; an execution ends, once; a failure compensates what was
  completed, last first; a cancelled execution stays cancelled.

### Process engine: approvals (`BE/routers/approvals.py`, `PE/engine/handlers/human_approval.py`)

- State: `ApprovalStore`, in memory only. Operations: create on first
  execution of the step, decide, let a deadline pass.
- Interactions: a decision reads the execution and creates a task that resumes
  it. Hard: the store is lost in a restart and the step is not; the record is
  read at one time and resumed at a later one.
- Correct when: no approval step completes without an approval.

### Process engine: recovery (`PE/services/recovery.py`)

- State: none of its own. Operation: at startup, for each active execution,
  fail it (too old), reset its running step and resume, or resume.
- Correct when: what was active ends, keeps its order, and is run by one run.

### Execution queue and chat (`BE/services/execution_queue.py`, `BE/routers/chat.py`, `AS/routers/chat.py`)

- State: in Redis, a key with the running execution (TTL) and a list of
  waiting ones (no TTL), per agent; in the container, an asyncio lock.
- Operations: submit, complete, force release, clear; post; answer.
- Hard: two workers on one Redis; SET, LLEN and LPUSH are separate commands;
  `complete` takes out the oldest entry, whoever completes; handlers die.
- Correct when: the queue keeps its maximum; nobody waits for a request that is
  gone; each call ends; the agent becomes free again.

### Parallel tasks and slots (`BE/services/slot_service.py`, `task_execution_service.py`, `BE/routers/chat.py`, `AS/services/claude_code.py`)

- State: in Redis, a sorted set of slots per agent; in SQLite, a row per task;
  in the container, a registry of processes.
- Operations: create the row, sweep, count and take a slot, post, record an
  outcome, release; terminate.
- Hard: count and add are separate commands; the handler and the termination
  endpoint write the same row; slots are swept by age; timeouts of backend and
  container race; handlers die.
- Correct when: slots bound the processes; slots are given back; a row gets an
  outcome; a cancellation is kept.

### Process engine: definitions, starts, limits, sub-processes (`BE/routers/processes.py`, `BE/routers/executions.py`, `BE/routers/triggers.py`, `PE/services/limits.py`, `PE/engine/handlers/sub_process.py`)

- State: the tables process_definitions, process_executions and
  process_schedules; in memory a coroutine per execution, which for a
  sub_process step awaits the coroutine of a child.
- Operations: draft, update, publish, archive, delete, new version; start
  (with limits), retry, webhook, cancel; run a child, collect its result, cut it
  off at a timeout.
- Hard: the record is created in one request and run by a later task, and the
  definition may go in between; rows for the scheduler are written beside the
  definition, errors logged only; a timeout cancels a coroutine and not its
  record; a parent resumes without its child.
- Correct when: limits hold for what they admit; a step is completed only by a
  child of its own; active records have a run; every run ends.

### Scheduler (`src/trinity-main/src/scheduler`, `BE/db/schedules.py`)

- State: APScheduler jobs and a snapshot of the schedules; a Redis lock per
  schedule (SET NX EX 600, renewed by a thread, released by token); a row per
  scheduled execution.
- Operations: fire, trigger by hand, skip (max_instances), compare snapshot and
  database once a minute, run the task at the agent, record the outcome; in the
  backend: create, edit, delete, pause, resume, autonomy, terminate.
- Hard: the renewal thread ends at the first error; two instances; a schedule is
  edited while it runs; the instance's own writes change updated_at, by which
  it detects others' edits.
- Correct when: one run of a schedule at a time; a lock is freed whatever fails; a
  record tells what became of its run, if it could be written; jobs come to follow
  the database.

### Agent lifecycle (`BE/routers/agents.py`, `BE/routers/ops.py`, `BE/services/agent_service`, `BE/services/system_agent_service.py`)

- State: per agent a container, a workspace volume, a row in agent_ownership and
  an MCP key.
- Operations: create, deploy the next version, start (which may replace the
  container), stop, rename, delete; stop or restart the fleet, emergency stop;
  ensure that the system agent is there.
- Hard: every call of Docker is awaited, and other requests run meanwhile; any
  of them, and any write of the database, may fail, and some failures are only
  logged; users may take a key away; nothing is a transaction.
- Correct when: container, row and key stay together; the system agent stays.

### CreatorForge: procurement and approvals (`CF/orchestration/procurement_director.py`, `CF/procurement`, `CF/api/routes_approvals.py`)

- State: the SQLite tables purchases, budget_ledger, vendor_profiles,
  approval_requests.
- Operations: choose a vendor, gate by the budget, ask a human or buy, pay,
  record purchase, ledger and profile; resolve an approval and tell Mindra.
- Hard: four steps without a transaction; a repeated trace id; reported credits
  differ from the expected ones; averages computed in two places. Correct when:
  spending is bounded, payments are booked, profiles follow purchases, Mindra
  hears the decision on record.

### CreatorForge: seller, pricing, x402 (`CF/api/routes_seller.py`, `CF/payments/http_x402.py`, `CF/pricing/policy.py`)

- State: campaigns, assets, sales, ledger. Operations: quote, produce, gate
  quality, settle, record the sale. Hard: the middleware and the handler quote
  separately; the sale is recorded after the response exists. Not modelled yet.

### Others

Listed in `PROJECT.json` with reasons: events and analytics, the agent server's
other routes, monitoring, authentication, credentials, skills and git, public
links and payments of agents, MCP server, frontend, creative agents, samples.
They are observers, I/O, requests that touch one row, or callers of what is modelled.
The routes of MCP keys make, revoke, delete and validate keys; that users take away the
key of an agent is an action of `Fleet` (`RemovesKey`).

## 2. Modules

| module | what it is |
|---|---|
| `ProcessEngine` | one execution: record, runs, approvals, users, crashes, recovery |
| `ProcessContract` | what the engine promises of an execution; abstract |
| `ChatQueue` | the chats of one agent: two Redis keys, handlers, the container's lock |
| `TaskExecution` | the parallel tasks of one agent: rows, slots, processes, termination |
| `Procurement` | CreatorForge's purchases: market, gate, payment, tables, approvals |
| `Processes` | many executions of many definitions: life of a definition, starts and limits, children, recovery |
| `Scheduler` | instances of the scheduler, rows edited by the backend, locks, runs and their records |
| `Fleet` | containers, volumes, rows and keys of agents under concurrent requests |
| `MC...` | small instances of each for TLC |
| `...Proofs` | theorems of each, with their lemmas |
| `Induction` | induction over the naturals, stated of sets, and what it gives for sums |

Atomicity comes from the runtime. asyncio changes coroutines only where one
suspends, and the Redis and SQLite clients are synchronous. So an action ends
where the code awaits something that suspends, or, where two worker processes
share Redis, at each command. Each module's header says which applies.

Definitions ending in `Faulty`, and in `ProcessEngine` also
`RunCompensationOldestFirst` and `RunCompensationOnlyLast`, are variants with a
plausible mistake. Nothing uses them; put in place of the definition they are
named after, each breaks the property that `PROJECT.json` lists it for.

### ProcessEngine

| TLA+ | code |
|---|---|
| `db` | the row; `doneAt` stands for completed_at |
| `mem`, `pc`, `batch`, `task`, `tries` | the locals of `_run` and of its step coroutines |
| `rollback`, `undone` | the list of compensations left, and (history) those run |
| `turn` | the run that has not suspended yet |
| `approval` | the `ApprovalStore` |
| `StartExecution`, `StartInline` | POST .../execute (and retry, which creates a new execution); `engine.start` |
| `RunExecution`, `ResumeTask`, `Resume` | `_run_execution`, the task a decision or the recovery creates, `resume` |
| `EnterRun`, `Loop...`, `Poll`, `Gathered` | `_run` |
| `SkipStep` ... `StepFails`, `FailExecution` | `_execute_step`, `_handle_step_*`, `_fail_execution` |
| `AgentReturns`, `ApprovalReturns` | the handlers, under `asyncio.wait_for` |
| `RunCompensation` | `_run_compensations` |
| `CancelExecution`, `Decide` | the endpoints |
| `Crash`, `Recover...` | the process dies; the scan at startup |

A step awaited alone and a gathered one end differently when they raise or the
execution has failed; `LeaveStep` and `StepRaises` keep the difference. Handlers
of gateway, timer and notification steps are agent tasks that happen to answer.

### ProcessContract

Two variables: how the execution stands, and which steps are done. Steps become
done in dependency order and stay so, completed needs all of them, an end is
final, an active execution ends. `ProcessEngine!ImplementsContract` is the
contract (`Spec`, whose safety half is `Safety`) under a refinement mapping: the three active statuses are one, and
completed and skipped steps are the done ones.

### ChatQueue

`running` and `queue` are the Redis keys; `workerOf[r]` is the worker whose socket
gets request `r`, any at all and for good; `stage[r]` is the position of the
handler of `r`; `lock` is the holder of the container's lock followed by
those who wait. `Acquire`, `Refuse`, `Reject`, `Count`, `Enqueue` are the
commands of `submit()`. `Post` does not look at the place in the queue, because the
handler does not. Terminating an execution is the container's answer
(`AgentAnswers`) and `ForceRelease`, in any order. `Expire` and `ForceRelease` may
come at any time, which is more than the clock allows.

### TaskExecution

`record[t]` is the row, `slots` the sorted set, `process[t]` the entry of the
container's registry, `stage[t]` the handler. `Count`, `Refuse` and `Add` are the
commands of `acquire_slot` (the sweep and ZCARD are one step); `Check` and
`WriteFailed` are the read and the write around "Don't overwrite cancelled
executions"; `Terminate` and `WriteCancelled` are the two halves of the
termination endpoint. `Aged` says which slots may be older than the 30 minutes
after which they are swept: those of tasks with a longer timeout, and those of
dead handlers whose process is gone. The async mode differs in three places: a
null timeout (`Hasty`), an activity recorded outside the try
(`PreparationFails`), and a second write of "running", which precedes the post and
changes nothing.

### Procurement

`run` is the run in progress, as the record of the locals that are still used;
the routes never await, so there is one. `Chosen` is the vendor selection:
ROI forecast, repeat at 7.0, switch below 4.0 with three samples and an
alternative at 5.5. `Allowed` is the budget gate. `Charge` and `Answer` are the
vendor's (external). `RecordPurchase`, `RecordBudget` and `UpdateProfile` are the
writes; `NoAnswer` and `BreakOff` end a run between them. Scores are kept in sixths,
so that averages of up to three are whole and the thresholds exact. `unbooked`
and `strayed` are history. `ScoresOf` picks a vendor's scores out of the purchases by
a recursive function.

### Processes

| TLA+ | code |
|---|---|
| `phase`, `kind`, `rows` | process_definitions (status, type of its step), process_schedules |
| `of`, `via`, `parent`, `status`, `step` | process_executions: definition, triggered_by, parent, status, step status |
| `run` | the coroutine with the execution in memory: a task to come, found by the recovery scan, about to resume, in the loop, or returned to its parent |
| `awaits`, `tries`, `approval` | the child awaited in `SubProcessHandler.execute`, attempts made, the request in the store |
| `Draft`, `Update`, `Publish`, `Archive`, `Delete` | `routers/processes.py` with (un)registering of schedules |
| `StartExecution`, `RetryExecution`, `InvokeWebhook`, `CancelExecution`, `Decide` | the endpoints |
| `Begin`, `Resume`, `StartStep`, `AgentAnswers`, `AskHuman`, `HumanAnswered`, `Ends` | the engine on one step |
| `Spawn`, `NotFound`, `Collect`, `ChildTimesOut` | `SubProcessHandler.execute` under `asyncio.wait_for` |
| `Restart`, `Recover` | `recover_on_startup` |

`ProcessEngine` has one execution with many steps and many runs; `Processes` has many
executions with one step each, because what is at stake here, limits and
families, depends on the status of executions and not on the order of their steps. A
called process calls no other (`OneLevel`). The start of an execution reads the
counts and writes the record without an await, so it is one action; this is
true of one worker.

### Scheduler

| TLA+ | code |
|---|---|
| `live`, `enabled`, `cron`, `process`, `autonomy` | rows of agent_schedules and process_schedules, the agent's flag |
| `jobs`, `seen`, `seenOn`, `touched` | an instance's jobs, its snapshot, and the rows whose updated_at differs from the snapshot's |
| `due`, `Tick`, `Fire`, `SkipFire` | a time has come; the executor takes it, or max_instances refuses it |
| `Trigger` | the instance's POST .../trigger |
| `TryLock`, `Check`, `Ask`, `Succeed`, `StoreRunTimes`, `Fail`, `Release` | `_execute_schedule_with_lock` and what it calls, for agents' tasks and for processes |
| `TryLockFails`, `PrepareFails`, `SucceedFails`, `StoreFails`, `FailFails`, `ReleaseFails` | the same when Redis or SQLite raises there |
| `renewing`, `RenewalFails`, `Expire` | the renewal thread, the key's 600 seconds |
| `Start`, `Sync`, `Crash` | `initialize`, `_sync_schedules`, the end of the process |
| `CreateSchedule` ... `SetAutonomy`, `Terminate` | the backend's writes |

Every UPDATE sets updated_at, the instance's own included (`touched`): after each
run the next comparison takes the schedule for edited and puts its job anew. `Check`
lets a run of a deleted or disabled schedule, or of an agent without autonomy,
go straight to its release. A run of a process schedule can only fail, because no route
of the backend has the path it posts to (section 6).

A write that raises in the `try` goes to the handler of exceptions (stage "raised"), which
writes a failure. That write may raise as well: then the exception leaves the run, the
`finally` releases the lock, and the record stays as it is, "running" or even "success".
A process schedule's refusal is written inside the `try`, so it has two attempts. Of the
history, `run[r].replied` says that the agent replied, and `run[r].unwritten` that a
write after the request failed.

### Fleet

`box` is what Docker has (`state`, `name`, `home` for the volume it mounts, `by` for
who made it), `volumes`, `owner`, `flagged` (is_system), `keys` the rest. `req[h]` is a
request: `pc` says which of the handler's calls of Docker comes next, and an action is
what happens from one await to the following one, with the two outcomes `Works`
and `Fails`, of Docker's calls and of the database's writes. `MakesKey` may fail and the
creation goes on without a key; `RemovesKey` is a user who revokes or deletes one;
`DeleteKeys` may fail, and the deletion goes on or ends; `DeleteOwner` and `RenameRows`
may fail and leave the row. `lost` is history: the names that are without a key for one of
these reasons; `Keyed` are those with a key or such a reason. The backend's check for the
system agent reloads its container (`EnsureReloads`) before it writes the row. `create`, `deploy` and `ensure` share the creation; `renew` is a start that
replaces the container (`recreate_container_with_updated_config`).
`Listed` is the name by which a listing shows an agent: every "agent-" is cut out of the
container's name. `clash` is history: it says that a request overlapped another for the
same name which it disturbs (`Disturbs`): a deletion or renaming beside anything but a
stop, a replacement beside a creation. `Init` contains agents that an earlier,
undisturbed past leaves, renamed ones included.

## 3. Runs

| run | instance | shows |
|---|---|---|
| `engine_join` | s1 and s2 in parallel, both approvals, then s3; every error policy; condition, retry, cancel, early decisions, late restarts, 2 crashes, 3 runs | 298,567 states. `DependencyOrder`, `CompletedIsTotal`, `ApprovalGate` and the inductive `Consistent` hold although copies overwrite each other |
| `engine_chain` | chain of three, approval with deadline, retries, 2 crashes in time | 1,109 states. `ImplementsContract`: safety and the promise to end |
| `engine_writers` | chain, two approvals, cancels, 2 crashes | 2,562 states. `SingleWriter`: nothing enforces it, it follows from when runs are created. `RollbackOrder`, `RolledBack` |
| `chat` | 3 requests, each at any of two workers, queue of 1, release, clear, expiry, a loss | 162,012 states. `QueueBound`: one more than the maximum is reached, two are not. `NoGhost`, `EveryCallEnds`, `AgentFreed` |
| `tasks_two` | two workers, 3 tasks, one slot, one null and long timeout, a loss | 1,691,514 states. `SlotBound`, `ProcessHasSlot`, `NoSlotLeft`, `Decided`, `CancelledNotFailed` |
| `procurement` | two vendors, 4 runs with up to 4 trace ids (symmetric), a failure, a midnight | 1,799,678 states. `SpendBound`, `EveryPaymentBooked`, `ProfileFollows`, `MindraAgrees` |
| `processes` | a process that calls another; 3 executions; a start with a retirement, a restart and a failing write, or with a cancel and a restart, or two starts with a cancel | 170,212 states. `LimitKept`, `OutputOfChild`, `FewChildren`, `LeftBehind`, `EveryRunEnds` |
| `scheduler` | one schedule, of an agent or a process, in any state of its row; one instance; two runs; an edit; a crash, or a failing call of Redis or the database | 119,850 states. `HoldsItsLock`, `LocksFreed`, `RunsDecided`, `JobsFollow` |
| `fleet` | the system agent and two others, two requests of any kind, users' removals of keys among them, a failing call of Docker or the database | 283,988 states. `Agreement`, `RowsHaveKeys`, `SystemStays` |
| `v_cancel`, `v_zombie`, `v_workspace` | the smallest instance that shows it | one finding each: section 6 |

`TypeOK` is checked in one run of each module. `CHECK_DEADLOCK FALSE` stands in
every cfg: an execution that has ended, or a set of requests that have all been
answered, really stops.

Properties worth a word:

- `ApprovalGate` is about a step that changes to completed while its request is
  approved. The store is lost in restarts and several runs may be alive, so it
  is not a matter of one guard; the proof needs `Gated` (section 5).
- `QueueBound` counts the workers that have served the agent: each but one can add
  an entry beyond the maximum, and none adds two. `NoGhost` says that, as long as one
  worker has served it, the two keys hold fewer entries than there are handlers
  that still owe a `complete()` or died owing it. (With two, a request can be queued
  behind an execution that has just ended.) `complete()` takes out whatever is
  oldest, and users and the clock take out entries too; the property is that
  the counts never drift towards an entry that no one will take out.
- `EveryCallEnds` holds because the handler never waits for its turn, which is also why
  a queued chat reaches the agent beside the running one (section 6).
- `LimitKept` is about everything after the admission: a paused execution that
  resumes, one that recovery finds, one that fails and is resumed. What a user
  cancelled while a run had it in memory is excepted by name: it comes back
  (`v_cancel`), and then takes a place that somebody else may have been given.
- `FewChildren`: recovery does run the step of a parent again beside the child it has, once a
  restart; retries and timeouts never do. `OutputOfChild`: what a parent takes for a
  result was, all the same, made by a completed child of its own.
- `LeftBehind` names the two ways by which a record stays active for ever without a
  run; there is no third.
- `HoldsItsLock` is the exclusion the scheduler is for: a run whose renewal works has
  the lock. It fails as soon as a release or an expiry takes a lock from a run that
  still renews it. `LocksFreed` must hold for every early return and exception.
- `RunsDecided`: each way in which a request can end has a write of its own, some in
  handlers of others, and users terminate runs and delete records meanwhile. Once the run has
  released its lock the record agrees with what the agent did, or says what users did. Two
  cases are excepted by name, an instance that ended and a write that failed, because the code
  keeps nothing better for them (section 6).
- `JobsFollow` is convergence, by an instance that sees the rows once a minute and
  recognises edits by a column that it writes itself.
- `Agreement` is what the four parts of an agent owe each other when requests that
  do not disturb one another have all ended. `RowsHaveKeys` and `SystemStays` also hold under
  failing calls: `RowsHaveKeys` is a list of all ways to an agent without a key
  (none could be made, a user took it away, a deletion is between its key and its row or
  could not remove the row), and renames, repeated creations, replacements and the
  other failures must not add one. Requests that do disturb each other are excepted: what they
  may leave is told in section 6.
- `ProcessHasSlot` is what the slots are for: a running Claude process occupies
  one, also when its handler died. Null and long timeouts are excepted by name,
  because the code does not keep it for them.
- `SpendBound` is what the caps come to when a vendor reports up to `Excess`
  more than expected: one excess, not one per run.
- `ProfileFollows` compares two computations of the rolling average, one made
  before the purchase is recorded and one from the table.

## 4. Bounds and fairness

Bounds, all in CONSTANTS: `Runs` (coroutines alive at once; when all are in use no
further one is created), `MaxCrashes`, `MaxLosses`, `MaxFailures`, `MaxRuns`, `MaxDays`, and the
sets of steps, requests, workers, tasks and vendors. Three steps are the
smallest definition with a wave, a join and something after it; two crashes allow one
during recovery's own run; three runs allow a decision on each of two parallel
approvals beside the first run. Two workers are what the production compose file
starts. Queue and slot limits are 1 or 2 so that the limit is met. Four
procurement runs with four trace ids fill the window of three and slide it (a
repeated trace id adds no purchase); the midnight makes room under the vendor's cap
for the fourth. Three chats, split over two workers in every way, are the fewest with
which two workers meet at the limit of a queue of 1. In `Processes` the limits are 1 per process and 2 in
all; three executions allow a parent with its child and a second start, or a parent
with a second child after a restart or a retry; the mixes in `MCProcesses` keep apart
what would only multiply states. One schedule suffices because schedules share
nothing but the autonomy flag; two runs are the fewest that meet at a lock; one fault is
enough to leave a record undecided (a process schedule needs two, and the same run with
`MaxFaults = 2` passes as well, 395,165 states); the theorems are
for any number of both and of instances. Fleet: two requests overlap in every way two can, and five containers are
as many as two requests and three agents can have made; its handlers are
symmetric, which no property distinguishes. The counters are bounds
of the runs, not of the theorems, which hold for any value.

Fairness:

- Engine: strong fairness of each run's next step, because others hold the event
  loop time and again in between and asyncio serves ready tasks in turn; agents answer or
  `wait_for` times out. Strong fairness of deciding each request: users decide.
  Weak fairness of recovery: the container restarts.
- Chat: weak fairness of the handler's own steps, of the POST's timeout and of
  the TTL. None of submitting, of the container answering, or of users.
- Processes: weak fairness of every run's next step: agents answer or time out, a child's
  result is collected, the event loop gets to every task. None of users.
- Scheduler: an instance that ended is started again (`restart: unless-stopped` in
  the compose file), syncs and gets round to each run; requests time out; Redis drops a key whose
  time is over. None of ticks, users or faults.
- Tasks, procurement and fleet claim no liveness.

## 5. Theorems

All are for arbitrary sets of steps, requests, tasks, vendors, definitions,
schedules and agents, and any number of runs, workers, instances, crashes and losses. The assumptions are the ASSUMEs of each
module, for instance that steps are finite, policies are among the three, limits
are positive, and Docker has a container for every name (`BoxForEach`). A theorem that needs
more names it in its own ASSUME. Every invariant and every action property of the
passing runs is stated by a theorem.

**ProcessEngineProofs.** `TypeCorrect`. `ConsistentAlways`: the invariant on which the
rest stands. `DependencyOrder` alone is not inductive: a run acts on its copy, so
every copy must be in order (`CopyOK`), a step that is queued must be ready
in the copy of its run, one that executes must be running there (`TaskOK`), and a
run that is past its entry must not hold a completed or cancelled copy, or else
the dependent step of a completed record could begin again. The lemmas
`LeaveStepConsistent`, `StayInStepConsistent`, `StepRaisesConsistent` and
`SpawnConsistent` treat the moves that actions share. `DependencyOrderAlways` and
`CompletedIsTotalAlways` follow. `ApprovalGateAlways` needs a second invariant,
`Gated`: the result "ok" of an approval step is only there once approved, and until
then the record and all live copies agree on whether the step was completed
(it may have been, before a restart lost the store), so that no run's save can
complete it behind the gate.

What follows is about one run at a time, and nothing in the code enforces that. It is
proved for the definitions for which it is true, `Undisturbed`: every approval step comes
before or after each other step, and no request is decided before its execution has
paused. Beside a step that still runs, a decision would resume the execution and so create a
second run, as in `engine_join`. The instances of `engine_chain` and `engine_writers`
are undisturbed.

- `OneWriter` (`SingleWriter`), by `Lone`: an undecided request belongs to a run that
  waits at that very step or to an execution that no run works on, so that a decision, the one
  thing beside starts and recovery that creates runs, finds none. `UpstreamDone` is the
  lemma about the dependency graph: what a step waits for is done before it begins.
- `CompensatesInReverse` (`RollbackOrder`), by `Synced` and `Unwinds`. `Synced`: the copy of
  the run is the repository's, but for a cancel it has not seen. `Unwinds`: completion
  times differ, what a run has still to compensate was completed before all that it has
  compensated, and its execution has failed.
- `CompensatesAll` (`RolledBack`), by `Settles`: in a failed execution no request is open,
  a run that is alive has compensations left, and each completed step that has a
  compensation is among these or among those done. It assumes `Sequential` (any two steps
  are ordered): a step beside the failing one comes in after the list has been drawn up
  (section 6).
- `KeepsContract`: the safety half of `ImplementsContract`. Each step of the engine
  is a step of `ProcessContract` or leaves both its variables alone. It assumes that users
  do not cancel, because a cancelled execution may come back (`v_cancel`).

**ChatQueueProofs.** `QueueBoundAlways` by `Promised`: entries and requests between
LLEN and LPUSH together stay below the bound, and each worker has at most one
between. `NoGhostAlways` by `Backed`: as long as one worker has served the agent and anything
is in Redis or in submission, the queue is shorter than the number of handlers
that owe.

**TaskExecutionProofs.** `SlotBoundAlways` (the same argument with sets),
`SlotsAccounted` (`ProcessHasSlot` and `NoSlotLeft`, by `Slotted`), `DecidedAlways` (by
`OutcomeKnown`), `CancelledKept` (by `Terminated`: a handler between its check and its write has
its worker to itself, so that a record cancelled by then was cancelled by another
worker).

**ProcurementProofs.** `SpendBoundAlways` by `Reserved`: what the gate let through still
fits until it is booked, because no other run comes between and midnight only
lowers the sums. `PaymentsBooked`. `CapsHold`: with `Excess = 0` the documented
caps do hold. Scores and averages are left out of the invariant `Books`: the ledger does not
depend on them. `TypeCorrect` and `ProfileFollowsAlways` are about them. A vendor's scores
are picked out of any number of purchases, and their average is a sum: that `ScoresOf` is
a sequence of numbers, that it grows by the score of the purchase just recorded and by
no other, and that the sum is a number are proved by induction over the length
(`NatSetInduction` and `SumIsTyped` of `Induction`). `MindraAgreesAlways`: what Mindra
was told is the decision on record.

**ProcessesProofs.** `TypeCorrect` and `PublicationAlways` (nothing but what was published
is ever executed; the scheduler's rows stray only by failed writes), which later
proofs use to know that an execution's definition no longer changes. `LeftBehindAlways`
by `RunsFit`: how the status on record fits the run in memory. `OutputOfChildAlways` by
`Family` (children are of the name and version called) and `Asked` (only approval steps
have requests). `LimitKeptAlways`: no step but `StartExecution` makes an execution one of the
`Admitted`, and it looks at the counts itself. `FewChildrenAlways` by `Room`: a parent whose step
may still start a child has, beside the child it awaits, no more
active children than there were restarts.

**SchedulerProofs.** `LockHeldAlways` and its corollary `OneRunAtATime`: two runs of a
schedule, in any instances, overlap only when one of them has lost its renewal. The
property is inductive with the types: a run is in `renewing` from its
SET NX to its release, and `Expire` and the release script leave the locks of others alone.
The lemma `FailMoves` gathers the steps that a failing call makes a run take.

**FleetProofs.** `RowsHaveKeysAlways`, `SystemStaysAlways` from one invariant `IInv`: besides types,
`Stages` ties each request to where its handler stands, and `Kept` says that, as long as nothing has clashed, those that
make an agent have made its key or could not (`MakersHaveKeys`, stated of `Keyed`), no two active requests
overlap (`NoOverlap`), and no request renames a marked agent or deletes the system agent.

`AgreementAlways` takes a second invariant, `Ordered`: while nothing has clashed and no call has
failed, every name that no deletion or renaming holds has a container, a row and a
key, or none of them, up to the parts that those who are making the agent still owe
(`Agrees`, `About`, `Placed`), and each request has left behind what its stage says (`Registering`,
`Rerunning`, `Deletes`, `Renames`). Deletions and renamings are alone at their names, so a step
of theirs concerns one name and one request (`OwnStep`); several may make the same agent, and
of these one gets the name from Docker (`MakeStep`). The Frame lemmas say that a step
leaves all other names and requests as they were.

**Induction.** The library's induction theorems take an operator, which the provers used here
cannot instantiate. Stated of a set of numbers, induction follows from the
well-foundedness of < on the naturals (`Least`, `NatSetInduction`); `MaxIsLargest` and `SumIsTyped`
apply it to the maximum and to the sum.

Only model-checked: liveness, which needs fairness and ENABLED, beyond the provers used here. It is
`EveryCallEnds`, `AgentFreed`, `EveryRunEnds`, `LocksFreed`, `RunsDecided`, `JobsFollow`,
and of `ImplementsContract` the half that says that an active execution ends. The
three runs of section 6 show counterexamples, and have nothing to prove.

## 6. Where code and documents disagree

Shown by a run:

- `v_cancel`: a cancelled execution comes back. The endpoint saves a record of its
  own, the run saves its copy over it (`BE/routers/executions.py:541`).
- `v_zombie`: after a crash with two running steps, recovery resets one; the
  other is polled for ever (`PE/services/recovery.py:331`).
- `v_workspace`: an agent is renamed and another is created with the old name: both mount
  the same volume (`BE/routers/agents.py:1478`).

Met while modelling. Where a model contains the code concerned, it contains the
behaviour; no run repeats it.

Engine:

- An approval decided while a parallel step runs resumes a copy in which that
  step never ends, and the first run pauses the row again: the execution stays
  paused (`BE/routers/approvals.py:155`, against the docstring at :121).
- An overdue paused execution is counted as failed and stays paused: `fail()`
  raises (`PE/services/recovery.py:304`, `PE/domain/aggregates.py:469`).
- A pending execution is failed at a restart, for want of a timestamp
  (`PE/services/recovery.py:439`);
  `src/trinity-main/tests/process_engine/integration/test_execution_recovery.py:443`
  expects it resumed.
- A parallel step that completes after the failure is not compensated
  (`PE/engine/execution_engine.py:840`, against
  `src/trinity-main/docs/PROCESS_DRIVEN_PLATFORM/BACKLOG_CORE.md:472`); therefore `RolledBack` is checked on a chain.
- A child is linked to the parent's record by `start()`, and the next save of the
  parent's own copy removes the link (`PE/engine/execution_engine.py`, against
  `src/trinity-main/docs/memory/feature-flows/sub-processes.md:15`).
- A parent whose child paused is itself paused, and nothing resumes it when the child has
  ended; recovery resumes it and starts a second child
  (`PE/engine/handlers/sub_process.py:146`). A failed child that is retried gets no parent.
- Only direct self-recursion of sub-processes is refused by the validator.
- Webhooks, retries and children do not look at the limits. A record whose definition
  is deleted before its task runs stays pending; a child cut off by a timeout stays
  running. Both count for the limits (`LeftBehind`).
- Failed writes to process_schedules are only logged: an archived process may keep its
  schedule.

Queue and tasks:

- Queued chats are posted at once (`BE/routers/chat.py:104`), although
  `BE/services/execution_queue.py:5` says the queue serialises them; what does is the
  container's lock (`AS/routers/chat.py:34`). A POST that times out frees the agent in
  Redis while the container goes on (`BE/routers/chat.py:228`).
- Terminating a parallel task releases the running key of a chat (`BE/routers/chat.py:1305`).
- Success is written over cancelled, or cancelled over success
  (`BE/services/task_execution_service.py:252`, against the comment at :291;
  `BE/routers/chat.py:430`, :1310). `CancelledNotFailed` states what holds.
- With two workers the queue exceeds its maximum by one
  (`BE/services/execution_queue.py:187` against :14), and slots exceed
  max_parallel_tasks by one (`BE/services/slot_service.py:103`, :112, against
  `src/trinity-main/docs/memory/feature-flows/parallel-capacity.md:213`, :588). `QueueBound` and `SlotBound` state what holds.
- With two workers a request can be queued after the execution that refused it
  has completed (`BE/services/execution_queue.py:193`): the list holds a request
  while `is_busy` (:264) says that the agent is idle, until some later `complete()`.
  `QUEUE_WAIT_TIMEOUT` (:35) is
  used nowhere, and :16 describes it.
- Slots of live tasks with a timeout beyond 30 minutes are swept
  (`BE/services/slot_service.py:226`, "safety net for orphaned slots"); a null timeout
  in async mode waits 610 s where the container allows 900 s
  (`BE/routers/chat.py:410`, `AS/routers/chat.py:126`). `ProcessHasSlot` excepts both.
- An activity that cannot be completed turns a success into a failure
  (`BE/services/task_execution_service.py:266`, `ActivityFails`). `Decided` holds all the same.
- A task whose handler died stays "running" (`BE/services/task_execution_service.py:148`);
  `cleanup_stale_slots` is called nowhere.

Scheduler:

- A process schedule posts to /api/processes/{id}/execute without credentials; the
  route is /api/executions/processes/{id}/execute and asks for a user
  (`src/trinity-main/src/scheduler/service.py:955`, `BE/routers/executions.py:320`): every such run fails.
- The backend computes a numeric day of week with croniter (0 is Sunday), APScheduler counts from
  Monday and refuses 7 (`src/trinity-main/src/scheduler/service.py:190`): `Refused`.
- A time that comes due while its job is put anew is lost; putting it anew needs no
  edit, as the instance's own writes look like one (:336, against
  `src/trinity-main/docs/memory/feature-flows/scheduler-service.md:1035`).
- A manual trigger is answered "triggered" and dropped if the lock is taken; so is a cron
  time, without a record.
- Resuming all schedules, or switching autonomy on, also enables those a user had
  disabled on purpose. Success is written over cancelled (:602). A crash leaves
  its records running.
- A failure that cannot be written leaves the record running for good while the lock is released
  (:650, :693, :1022, :1042); nothing looks for such records. If the run times of a
  successful task cannot be stored (:617), the record is turned into a failure.

Fleet:

- Listings cut every "agent-" out of a container's name, so that stopping or restarting the fleet,
  the emergency stop and the numbering of versions miss an agent called, say, "my-agent-2".
- While a start replaces a container, its name is free for another's creation
  (`BE/services/agent_service/lifecycle.py:341`): the row then names another user's
  container. `Agreement` excepts such requests (`clash`).
- An agent whose key cannot be made is created without one
  (`BE/services/agent_service/crud.py:277`, `BE/services/system_agent_service.py:173`), and
  users may revoke or delete an agent's key (`BE/routers/mcp_keys.py:114`, :129); nothing makes
  another one.
- A user may create an agent with the system agent's name while there is none; the next
  start of the backend registers it as the system agent.

CreatorForge:

- The ledger is charged with reported credits, the gate looks at expected ones
  (`CF/agents/market_scout.py:37`, `CF/procurement/budget_engine.py:16`): the caps can be
  exceeded by one excess (`SpendBound`), and hold without one (`CapsHold`).
- Nothing buys what was approved, and the approval threshold looks at expected
  credits, not at reported ones ("High-value procurement actions above 10 credits require
  approval.", CreatorForge's README).

## 7. What is not modelled

- In the engine: failures of SQLite, output mapping and templates, costs,
  events, a missing handler, a `max_concurrent` limit of 0, and the except branch of
  `_run_execution`, which has nothing to do. "The first running step" that recovery
  resets is any of them. Sub-processes are in `Processes`: one level, one step per
  definition.
- The engine is modelled in one worker, as `docker-compose.yml` runs it. In
  `docker-compose.prod.yml` two workers share the row, each with its own approval
  store, its own recovery and its own look at the limits (`PE/services/limits.py:112`).
- In the queue: the content of chats and sessions; time, except as
  "may expire".
- In the tasks: log streaming, activities except where they raise; failures of SQLite and
  Redis, which would leave a record running or a slot taken, as they do in the scheduler;
  a second termination of a process while it is still registered
  (`AS/services/process_registry.py:102`), which signals the same process once more.
- In `Processes`: a webhook waits for the body of its request between looking the definition up
  and starting it (`BE/routers/triggers.py:153`, :176); the model does both at once, so a definition that is
  archived in between is executed only in the code. `PublicationAlways` means executions of what
  has been published once, which is true of these too.
- In the scheduler: what is told to an agent and what it answers, retries of the HTTP
  call, next_run_at, misfires beyond their grace time. In the fleet: ports, files,
  permissions, resource limits, shared folders, and failing stops within the emergency stop.
- Validation of YAML definitions: the models assume what it guarantees.
- In procurement: failures of Mindra before a run, which change nothing; the
  decision and audit rows, which no code reads back into a run; rounding of ROI
  values beyond a sixth.
- Seller and pricing, where the middleware and the handler quote separately
  (`CF/payments/http_x402.py:58`): see the plan.
- Deliberate over-approximations: a lock, key or slot with a TTL may expire at
  any time after it is set (slots: see `Aged`); a SIGINT may leave a process that ended well.
- In the scheduler: a comparison that fails is logged and comes again a minute later
  (`src/trinity-main/src/scheduler/service.py:279`), which is a later `Sync`; records of skipped
  times that cannot be written are only logged. In the fleet: reads of the database that fail end a
  request before it has changed anything.

## 8. Plan

Done: the modules above, in the order engine, contract, queue, tasks, procurement,
scheduler, fleet, processes.

Next, in this order:

1. **ProcessEngine with two workers**: a store and a recovery per worker; which of
   `SingleWriter`, `ApprovalGate` and `DependencyOrder` survive. `Consistent` was written
   so that it does not depend on the number of runs.
2. **Seller**: quote, settlement, sale and ledger, concurrent buyers; abstract
   specification: every delivered asset is sold once, at a quoted price.
3. Larger instances: two scheduler instances and two schedules; sub-processes of
   sub-processes.
4. **MindraClient**: repeated POSTs and the stream.
5. **Definitions**: the validator's acyclicity check against a reference
   definition over all small graphs.
6. Proofs: `RollbackOrder` for definitions with approvals beside other steps, where only
   runs that share nothing may compensate; `OneWriter` for each worker of the engine, once
   it has two; what the seller promises.
