--------------------------- MODULE TaskExecution ---------------------------
(***************************************************************************)
(* The parallel tasks of one agent: the slots in Redis that limit them,    *)
(* the backend's task handler in its two modes (the caller waits, or polls *)
(* while a background task works), the termination endpoint, and the       *)
(* Claude processes in the agent's container.                              *)
(*                                                                         *)
(* A worker of the backend is an event loop: it changes handlers only      *)
(* where one awaits.  The Redis client and the database are synchronous,   *)
(* so what a handler does between two awaits is interrupted by the other   *)
(* workers alone.  That a call of the database or of Redis fails is left   *)
(* out.                                                                    *)
(***************************************************************************)
EXTENDS Integers, FiniteSets

CONSTANTS
  Tasks,       (* The calls of POST /api/agents/{name}/task.               *)
  Async,       (* The tasks with async_mode.                               *)
  Hasty,       (* Tasks with a null timeout in async_mode: the backend     *)
               (* waits for 610 seconds, the container for 900.            *)
  Long,        (* Tasks with a timeout beyond SLOT_TTL_SECONDS.            *)
  Workers,     (* The backend worker processes.                            *)
  workerOf,    (* workerOf[t] is the worker that serves task t.            *)
  MaxParallel, (* The agent's max_parallel_tasks.                          *)
  MaxLosses,   (* How often a handler dies (a bound).                      *)
  Nobody       (* No worker has terminated the task.                       *)

ASSUME TasksFinite == IsFiniteSet(Tasks)
ASSUME KindsKnown == Hasty \subseteq Async /\ Async \subseteq Tasks /\ Long \subseteq Tasks
ASSUME WorkersFinite == IsFiniteSet(Workers)
ASSUME WorkersServe == workerOf \in [Tasks -> Workers]
ASSUME MaxParallelPositive == MaxParallel \in Nat \ {0}
ASSUME LossesBounded == MaxLosses \in Nat
ASSUME NobodyIsNoWorker == Nobody \notin Workers

VARIABLES
  record,     (* record[t] is the status in schedule_executions.           *)
  stage,      (* stage[t] is how far the handler of t has come.            *)
  slots,      (* Redis sorted set agent:slots:{name}.                      *)
  process,    (* process[t] is the Claude process of t in the container.   *)
  terminator, (* terminator[t] is the worker that had t terminated.        *)
  cancelling, (* Tasks terminated in the container, record not yet written.*)
  losses      (* Number of handlers' deaths so far.                        *)

vars == <<record, stage, slots, process, terminator, cancelling, losses>>

Record == {"none", "running", "success", "failed", "cancelled"}
Outcome == {"success", "failed", "cancelled"}
Stage == {"new", "created", "counted", "held", "posted", "answered", "failed",
          "checked", "recorded", "closing", "done", "rejected", "lost"}
Process == {"none", "running", "exited", "killed", "gone"}

(* From the ZADD of the slot to its ZREM.                                  *)
Holding == {"held", "posted", "answered", "failed", "checked", "recorded", "closing"}
(* Between two commands that no await separates.                           *)
Busy == {"counted", "checked"}
InFlight == {"created", "counted"} \union Holding

In(S) == {t \in Tasks : stage[t] \in S}

(* The event loop of worker w is at an await.                              *)
Idle(w) == \A q \in In(Busy) : workerOf[q] # w
Free(t) == Idle(workerOf[t])

Move(t, from, to) ==
  /\ stage[t] = from
  /\ stage' = [stage EXCEPT ![t] = to]

-----------------------------------------------------------------------------
(* The record and the slot.                                                *)

Create(t) ==
  /\ Free(t)
  /\ Move(t, "new", "created")
  /\ record' = [record EXCEPT ![t] = "running"]
  /\ UNCHANGED <<slots, process, terminator, cancelling, losses>>

AgedFaulty == slots

(* Slots that may be older than SLOT_TTL_SECONDS: only a task with such a  *)
(* timeout holds one that long, or a handler that died.                    *)
Aged == {t \in slots : t \in Long \/ (stage[t] = "lost" /\ process[t] # "running")}

CountFaulty(t) ==
  /\ Free(t)
  /\ Move(t, "created", "counted")
  /\ \E old \in SUBSET Aged :
       /\ slots' = slots \ old
       /\ Cardinality(slots') <= MaxParallel
  /\ UNCHANGED <<record, process, terminator, cancelling, losses>>

(* acquire_slot() drops the aged slots, then counts.                       *)
Count(t) ==
  /\ Free(t)
  /\ Move(t, "created", "counted")
  /\ \E old \in SUBSET Aged :
       /\ slots' = slots \ old
       /\ Cardinality(slots') < MaxParallel
  /\ UNCHANGED <<record, process, terminator, cancelling, losses>>

Refuse(t) ==
  /\ Free(t)
  /\ Move(t, "created", "rejected")
  /\ \E old \in SUBSET Aged :
       /\ slots' = slots \ old
       /\ Cardinality(slots') >= MaxParallel
  /\ record' = [record EXCEPT ![t] = "failed"]
  /\ UNCHANGED <<process, terminator, cancelling, losses>>

AddFaulty(t) ==
  /\ Move(t, "counted", "running")
  /\ slots' = slots \union {t}
  /\ UNCHANGED <<record, process, terminator, cancelling, losses>>

Add(t) ==
  /\ Move(t, "counted", "held")
  /\ slots' = slots \union {t}
  /\ UNCHANGED <<record, process, terminator, cancelling, losses>>

-----------------------------------------------------------------------------
(* The call to the agent.                                                  *)

Post(t) ==
  /\ Free(t)
  /\ Move(t, "held", "posted")
  /\ process' = [process EXCEPT ![t] = "running"]
  /\ UNCHANGED <<record, slots, terminator, cancelling, losses>>

(* No attempt of agent_post_with_retry reaches the container.              *)
Unreachable(t) ==
  /\ Free(t)
  /\ Move(t, "held", "failed")
  /\ UNCHANGED <<record, slots, process, terminator, cancelling, losses>>

(* The backend waits ten seconds longer than the container, which kills    *)
(* the process at the timeout; not so for a null timeout.                  *)
TimesOut(t) ==
  /\ Free(t)
  /\ process[t] = "running" => t \in Hasty
  /\ Move(t, "posted", "failed")
  /\ UNCHANGED <<record, slots, process, terminator, cancelling, losses>>

(* The process ends, or is killed at its timeout; it stays registered      *)
(* until the container's handler continues.                                *)
Exits(t) ==
  /\ process[t] = "running"
  /\ process' = [process EXCEPT ![t] = "exited"]
  /\ UNCHANGED <<record, stage, slots, terminator, cancelling, losses>>

(* The container's handler unregisters and replies, to whom still waits.   *)
(* A process that SIGINT stopped may have ended well.                      *)
Reply(t) ==
  /\ process[t] \in {"exited", "killed"}
  /\ process' = [process EXCEPT ![t] = "gone"]
  /\ \E result \in {"answered", "failed"} :
       stage' = [stage EXCEPT ![t] = IF @ = "posted" THEN result ELSE @]
  /\ UNCHANGED <<record, slots, terminator, cancelling, losses>>

AgentStops ==
  /\ \E t \in Tasks : process[t] \in {"running", "exited", "killed"}
  /\ process' = [t \in Tasks |-> IF process[t] = "none" THEN "none" ELSE "gone"]
  /\ stage' = [t \in Tasks |-> IF stage[t] = "posted" THEN "failed" ELSE stage[t]]
  /\ UNCHANGED <<record, slots, terminator, cancelling, losses>>

-----------------------------------------------------------------------------
(* The outcome.                                                            *)

(* Success is written whatever the record says.                            *)
Succeed(t) ==
  /\ Free(t)
  /\ Move(t, "answered", "recorded")
  /\ record' = [record EXCEPT ![t] = "success"]
  /\ UNCHANGED <<slots, process, terminator, cancelling, losses>>

(* complete_activity raises, inside the try.                               *)
ActivityFails(t) ==
  /\ Free(t)
  /\ Move(t, "recorded", "failed")
  /\ UNCHANGED <<record, slots, process, terminator, cancelling, losses>>

CheckFaulty(t) ==
  /\ Free(t)
  /\ Move(t, "failed", "checked")
  /\ UNCHANGED <<record, slots, process, terminator, cancelling, losses>>

Check(t) ==
  /\ Free(t)
  /\ Move(t, "failed", IF record[t] = "cancelled" THEN "closing" ELSE "checked")
  /\ UNCHANGED <<record, slots, process, terminator, cancelling, losses>>

WriteFailedFaulty(t) ==
  /\ Move(t, "checked", "closing")
  /\ UNCHANGED <<record, slots, process, terminator, cancelling, losses>>

WriteFailed(t) ==
  /\ Move(t, "checked", "closing")
  /\ record' = [record EXCEPT ![t] = "failed"]
  /\ UNCHANGED <<slots, process, terminator, cancelling, losses>>

ReleaseFaulty(t) ==
  /\ Free(t)
  /\ stage[t] \in {"recorded", "closing"}
  /\ stage' = [stage EXCEPT ![t] = "done"]
  /\ slots' = IF stage[t] = "recorded" THEN slots \ {t} ELSE slots
  /\ UNCHANGED <<record, process, terminator, cancelling, losses>>

(* The finally of both modes.                                              *)
Release(t) ==
  /\ Free(t)
  /\ stage[t] \in {"recorded", "closing"}
  /\ stage' = [stage EXCEPT ![t] = "done"]
  /\ slots' = slots \ {t}
  /\ UNCHANGED <<record, process, terminator, cancelling, losses>>

-----------------------------------------------------------------------------
(* Termination.                                                            *)

(* The container stops the process, or finds that it has ended but is      *)
(* still registered; a second call finds no process.                       *)
Terminate(t, w) ==
  /\ Idle(w)
  /\ process[t] \in {"running", "exited"}
  /\ terminator[t] = Nobody
  /\ process' = [process EXCEPT ![t] = IF @ = "running" THEN "killed" ELSE @]
  /\ terminator' = [terminator EXCEPT ![t] = w]
  /\ cancelling' = cancelling \union {t}
  /\ UNCHANGED <<record, stage, slots, losses>>

WriteCancelled(t) ==
  /\ t \in cancelling
  /\ Idle(terminator[t])
  /\ record' = [record EXCEPT ![t] = "cancelled"]
  /\ cancelling' = cancelling \ {t}
  /\ UNCHANGED <<stage, slots, process, terminator, losses>>

-----------------------------------------------------------------------------
(* What ends a handler early.                                              *)

(* An activity cannot be recorded outside the try: before the slot is      *)
(* taken in both modes, and after it with async_mode.                      *)
PreparationFails(t) ==
  /\ losses < MaxLosses
  /\ Free(t)
  /\ stage[t] = "created" \/ (stage[t] = "held" /\ t \in Async)
  /\ stage' = [stage EXCEPT ![t] = "lost"]
  /\ losses' = losses + 1
  /\ UNCHANGED <<record, slots, process, terminator, cancelling>>

WorkerCrashes(w) ==
  /\ losses < MaxLosses
  /\ \E t \in In(InFlight) : workerOf[t] = w
  /\ stage' = [t \in Tasks |->
                 IF workerOf[t] = w /\ stage[t] \in InFlight THEN "lost" ELSE stage[t]]
  /\ cancelling' = {t \in cancelling : terminator[t] # w}
  /\ losses' = losses + 1
  /\ UNCHANGED <<record, slots, process, terminator>>

-----------------------------------------------------------------------------
Init ==
  /\ record = [t \in Tasks |-> "none"]
  /\ stage = [t \in Tasks |-> "new"]
  /\ slots = {}
  /\ process = [t \in Tasks |-> "none"]
  /\ terminator = [t \in Tasks |-> Nobody]
  /\ cancelling = {}
  /\ losses = 0

Acquire(t) == Count(t) \/ Refuse(t) \/ Add(t)
Call(t) == Post(t) \/ Unreachable(t) \/ TimesOut(t)
Container(t) == Exits(t) \/ Reply(t)
Conclude(t) == Succeed(t) \/ ActivityFails(t) \/ Check(t) \/ WriteFailed(t) \/ Release(t)

Next ==
  \/ \E t \in Tasks :
       \/ Create(t) \/ Acquire(t) \/ Call(t) \/ Container(t) \/ Conclude(t)
       \/ WriteCancelled(t) \/ PreparationFails(t)
  \/ \E t \in Tasks, w \in Workers : Terminate(t, w)
  \/ \E w \in Workers : WorkerCrashes(w)
  \/ AgentStops

Spec == Init /\ [][Next]_vars

-----------------------------------------------------------------------------
(* Every variable keeps its type.                                          *)
TypeOK ==
  /\ record \in [Tasks -> Record]
  /\ stage \in [Tasks -> Stage]
  /\ slots \subseteq Tasks
  /\ process \in [Tasks -> Process]
  /\ terminator \in [Tasks -> Workers \union {Nobody}]
  /\ cancelling \subseteq Tasks
  /\ losses \in Nat

(* ZCARD and ZADD are two commands: each worker but one can take a slot    *)
(* beyond max_parallel_tasks, and no more than one each, however many      *)
(* handlers die and whatever acquire_slot() sweeps.                        *)
SlotBound == Cardinality(slots) <= MaxParallel + Cardinality(Workers) - 1

(* Inductive for SlotBound.                                                *)
Counted == In({"counted"})
OneCommand == \A q, t \in In(Busy) : workerOf[q] = workerOf[t] => q = t
Promised ==
  /\ OneCommand
  /\ Cardinality(slots \union Counted) <= MaxParallel + Cardinality(Workers) - 1

(* A process runs in the container only with a slot, also after its        *)
(* handler died, unless its timeout is null (the backend gives up first)   *)
(* or longer than a slot lives.                                            *)
ProcessHasSlot ==
  \A t \in Tasks \ (Hasty \union Long) : process[t] = "running" => t \in slots

(* A slot belongs to a handler that will release it, or that died: neither *)
(* a refused nor a finished task keeps one.                                *)
NoSlotLeft == \A t \in slots : stage[t] \in Holding \union {"lost"}

(* A worker that has cancelled one of its own tasks does not turn it into  *)
(* a failure: the check and the write of the failure are not separated by  *)
(* an await.                                                               *)
CancelledNotFailed ==
  [][\A t \in Tasks :
       record[t] = "cancelled" /\ record'[t] = "failed" => terminator[t] # workerOf[t]]_vars

(* A handler that ends has given its task an outcome, which no later write *)
(* takes back: nobody polls a task that is over in vain.                   *)
Decided ==
  \A t \in Tasks : stage[t] \in {"done", "rejected"} => record[t] \in Outcome

(* Inductive for the properties above: where a handler is tells whether    *)
(* its task has a slot, a process, an outcome, and who terminated it.      *)
Slotted ==
  /\ \A t \in Tasks \ Long : stage[t] \in Holding => t \in slots
  /\ \A t \in Tasks \ (Hasty \union Long) :
       process[t] = "running" => t \in slots /\ stage[t] \in {"posted", "lost"}
OutcomeKnown ==
  \A t \in Tasks :
    stage[t] \in {"recorded", "closing", "done", "rejected"} => record[t] \in Outcome
Terminated ==
  \A t \in Tasks :
    /\ stage[t] \in {"new", "created", "counted", "held"} =>
         process[t] = "none" /\ terminator[t] = Nobody
    /\ t \in cancelling \/ record[t] = "cancelled" => terminator[t] # Nobody
    /\ stage[t] = "checked" /\ record[t] = "cancelled" => terminator[t] # workerOf[t]

=============================================================================
