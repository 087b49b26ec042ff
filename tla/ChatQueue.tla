------------------------------ MODULE ChatQueue ------------------------------
(***************************************************************************)
(* The chat requests of one agent: the platform's execution queue (two     *)
(* Redis keys), the chat handler of the backend that submits to it, posts  *)
(* to the agent's container and completes, and the lock that the container *)
(* itself takes around each chat.                                          *)
(*                                                                         *)
(* The production deployment runs two backend workers on one Redis.  The   *)
(* Redis client is synchronous, so submit() keeps the event loop of its    *)
(* worker from the first command to the last; the commands of two workers  *)
(* interleave.                                                             *)
(***************************************************************************)
EXTENDS Integers, Sequences, FiniteSets

CONSTANTS
  Requests,  (* The calls of POST /api/agents/{name}/chat for one agent.    *)
  Workers,   (* The backend worker processes.                               *)
  MaxQueue,  (* MAX_QUEUE_SIZE.                                             *)
  Operators, (* May users clear the queue, or release the agent?            *)
  Expiry,    (* May the running key reach its TTL?                          *)
  MaxLosses, (* How often a handler dies before completing (a bound).       *)
  None       (* No execution in the running key.                            *)

ASSUME RequestsFinite == IsFiniteSet(Requests)
ASSUME WorkersFinite == IsFiniteSet(Workers)
ASSUME MaxQueuePositive == MaxQueue \in Nat \ {0}
ASSUME LossesBounded == MaxLosses \in Nat
ASSUME NoneIsNoRequest == None \notin Requests
ASSUME SwitchesKnown == {Operators, Expiry} \subseteq BOOLEAN

VARIABLES
  running, (* Redis key agent:running:{name}.                               *)
  queue,   (* Redis list agent:queue:{name}, oldest request first.          *)
  workerOf, (* workerOf[r] is the worker whose socket gets request r.       *)
  stage,   (* stage[r] is how far the handler of r has come.                *)
  lock,    (* The container's execution lock: its holder, then who waits.   *)
  losses   (* Number of handlers' deaths so far.                            *)

vars == <<running, queue, workerOf, stage, lock, losses>>

Stage == {"new", "refused", "counted", "accepted", "posted", "answered",
          "failed", "done", "rejected", "lost"}

(* Between the refusal of the running key and the end of submit().         *)
Submitting == {"refused", "counted"}
(* Accepted by submit() and not yet through complete().                    *)
InFlight == {"accepted", "posted", "answered", "failed"}
Ended == {"done", "rejected", "lost"}

In(S) == {r \in Requests : stage[r] \in S}

FreeFaulty(r) == TRUE

(* The event loop of the worker of r is not inside submit().               *)
Free(r) == \A q \in In(Submitting) : workerOf[q] # workerOf[r]

Move(r, from, to) ==
  /\ stage[r] = from
  /\ stage' = [stage EXCEPT ![r] = to]

-----------------------------------------------------------------------------
(* submit(): SET NX EX, and when the key is taken LLEN and LPUSH.          *)

AcquireFaulty(r) ==
  /\ Free(r)
  /\ running = None
  /\ Move(r, "new", "running")
  /\ running' = r
  /\ UNCHANGED <<workerOf, queue, lock, losses>>

Acquire(r) ==
  /\ Free(r)
  /\ running = None
  /\ Move(r, "new", "accepted")
  /\ running' = r
  /\ UNCHANGED <<workerOf, queue, lock, losses>>

Refuse(r) ==
  /\ Free(r)
  /\ running # None
  /\ Move(r, "new", "refused")
  /\ UNCHANGED <<workerOf, running, queue, lock, losses>>

RejectFaulty(r) == FALSE /\ UNCHANGED vars (* waits for room *)

Reject(r) ==
  /\ Len(queue) >= MaxQueue
  /\ Move(r, "refused", "rejected")
  /\ UNCHANGED <<workerOf, running, queue, lock, losses>>

Count(r) ==
  /\ Len(queue) < MaxQueue
  /\ Move(r, "refused", "counted")
  /\ UNCHANGED <<workerOf, running, queue, lock, losses>>

Enqueue(r) ==
  /\ Move(r, "counted", "accepted")
  /\ queue' = Append(queue, r)
  /\ UNCHANGED <<workerOf, running, lock, losses>>

-----------------------------------------------------------------------------
(* The rest of the handler.  It never looks at its place in the queue: an  *)
(* accepted request is posted at once, queued or not.                      *)

Post(r) ==
  /\ Free(r)
  /\ Move(r, "accepted", "posted")
  /\ lock' = Append(lock, r)
  /\ UNCHANGED <<workerOf, running, queue, losses>>

(* No attempt of agent_post_with_retry reaches the container.              *)
Unreachable(r) ==
  /\ Free(r)
  /\ Move(r, "accepted", "failed")
  /\ UNCHANGED <<workerOf, running, queue, lock, losses>>

(* The POST times out; the container goes on with the request.             *)
TimesOut(r) ==
  /\ Free(r)
  /\ Move(r, "posted", "failed")
  /\ UNCHANGED <<workerOf, running, queue, lock, losses>>

CompleteFaulty(r) ==
  /\ Free(r)
  /\ stage[r] \in {"answered", "failed"}
  /\ stage' = [stage EXCEPT ![r] = "done"]
  /\ running' = IF queue # <<>> THEN Head(queue) ELSE running
  /\ queue' = IF queue # <<>> THEN Tail(queue) ELSE queue
  /\ UNCHANGED <<workerOf, lock, losses>>

(* complete(), in the handler's finally: the Lua script makes the oldest   *)
(* queued execution the running one, or deletes the running key, whoever   *)
(* the running execution is.                                               *)
Complete(r) ==
  /\ Free(r)
  /\ stage[r] \in {"answered", "failed"}
  /\ stage' = [stage EXCEPT ![r] = "done"]
  /\ running' = IF queue # <<>> THEN Head(queue) ELSE None
  /\ queue' = IF queue # <<>> THEN Tail(queue) ELSE queue
  /\ UNCHANGED <<workerOf, lock, losses>>

-----------------------------------------------------------------------------
(* The container: an asyncio lock, granted first come first served.        *)

AgentAnswers ==
  /\ lock # <<>>
  /\ lock' = Tail(lock)
  /\ \E result \in {"answered", "failed"} :
       stage' = [stage EXCEPT ![Head(lock)] = IF @ = "posted" THEN result ELSE @]
  /\ UNCHANGED <<workerOf, running, queue, losses>>

(* The container stops: every request it holds gets a connection error.    *)
AgentStops ==
  /\ lock # <<>>
  /\ lock' = <<>>
  /\ stage' = [r \in Requests |-> IF stage[r] = "posted" THEN "failed" ELSE stage[r]]
  /\ UNCHANGED <<workerOf, running, queue, losses>>

-----------------------------------------------------------------------------
(* What else touches the two keys, and what ends a handler early.          *)

(* force_release(): the endpoint of that name, and the termination of any  *)
(* execution of the agent, chats and parallel tasks alike.                 *)
ForceRelease ==
  /\ Operators
  /\ running # None
  /\ running' = None
  /\ UNCHANGED <<workerOf, queue, stage, lock, losses>>

ClearQueue ==
  /\ Operators
  /\ queue # <<>>
  /\ queue' = <<>>
  /\ UNCHANGED <<workerOf, running, stage, lock, losses>>

ExpireFaulty == FALSE /\ UNCHANGED vars

(* EXECUTION_TTL passes; the list has no TTL.                              *)
Expire ==
  /\ Expiry
  /\ running # None
  /\ running' = None
  /\ UNCHANGED <<workerOf, queue, stage, lock, losses>>

(* A statement between submit() and the try block raises: the finally that *)
(* completes is not reached.                                               *)
PreparationFails(r) ==
  /\ losses < MaxLosses
  /\ Free(r)
  /\ Move(r, "accepted", "lost")
  /\ losses' = losses + 1
  /\ UNCHANGED <<workerOf, running, queue, lock>>

(* Worker w dies with its handlers.  Redis keeps what they put there.      *)
WorkerCrashes(w) ==
  /\ losses < MaxLosses
  /\ \E r \in In(Submitting \union InFlight) : workerOf[r] = w
  /\ stage' = [r \in Requests |->
                 IF workerOf[r] # w THEN stage[r]
                 ELSE IF stage[r] \in Submitting THEN "rejected"
                 ELSE IF stage[r] \in InFlight THEN "lost"
                 ELSE stage[r]]
  /\ losses' = losses + 1
  /\ UNCHANGED <<workerOf, running, queue, lock>>

-----------------------------------------------------------------------------
Init ==
  /\ running = None
  /\ queue = <<>>
  /\ workerOf \in [Requests -> Workers]
  /\ stage = [r \in Requests |-> "new"]
  /\ lock = <<>>
  /\ losses = 0

Submit(r) == Acquire(r) \/ Refuse(r) \/ Reject(r) \/ Count(r) \/ Enqueue(r)
Handle(r) == Post(r) \/ Unreachable(r) \/ TimesOut(r) \/ Complete(r) \/ PreparationFails(r)
Environment ==
  \/ AgentAnswers \/ AgentStops \/ ForceRelease \/ ClearQueue \/ Expire
  \/ \E w \in Workers : WorkerCrashes(w)

Next == (\E r \in Requests : Submit(r) \/ Handle(r)) \/ Environment

Spec == Init /\ [][Next]_vars

(* A worker that is up runs its handlers, a POST is answered or times out, *)
(* and Redis expires a key with a TTL.                                     *)
Fairness ==
  /\ \A r \in Requests :
       /\ WF_vars(Reject(r) \/ Count(r) \/ Enqueue(r))
       /\ WF_vars(Post(r) \/ Unreachable(r))
       /\ WF_vars(TimesOut(r))
       /\ WF_vars(Complete(r))
  /\ WF_vars(Expire)

FairSpec == Spec /\ Fairness

-----------------------------------------------------------------------------
(* Every variable keeps its type.                                          *)
TypeOK ==
  /\ running \in Requests \union {None}
  /\ queue \in Seq(Requests)
  /\ workerOf \in [Requests -> Workers]
  /\ stage \in [Requests -> Stage]
  /\ lock \in Seq(Requests)
  /\ losses \in Nat

(* The workers that have got a request.                                    *)
Asked == {workerOf[r] : r \in {q \in Requests : stage[q] # "new"}}

(* LLEN and LPUSH are two commands: each worker that serves the agent, but *)
(* one, can add a request beyond MAX_QUEUE_SIZE, and no more than one each.*)
QueueBound == Len(queue) <= MaxQueue \/ Len(queue) < MaxQueue + Cardinality(Asked)

(* Inductive for QueueBound: submit() keeps the event loop, so that at most *)
(* one request of a worker is between its two commands.                    *)
Counted == In({"counted"})
OneSubmission ==
  \A q, r \in In(Submitting) : workerOf[q] = workerOf[r] => q = r
Promised ==
  /\ OneSubmission
  /\ \/ Len(queue) + Cardinality(Counted) <= MaxQueue
     \/ Len(queue) + Cardinality(Counted) < MaxQueue + Cardinality(Asked)

(* Requests whose handler has put an entry in Redis that it has not taken  *)
(* out: the accepted ones, and those whose handler died.                   *)
Owed == In(InFlight \union {"lost"})

OneServed == \A v, w \in Asked : v = w

(* As long as one worker serves all requests, the agent is shown as busy,  *)
(* or with requests waiting, only on account of handlers that still owe a  *)
(* complete(), or died owing it: complete() leaves no entry behind when it *)
(* takes one out, although it does not look whose entry that is, and       *)
(* whatever users release or clear and whatever expires.                   *)
NoGhost ==
  OneServed /\ (running # None \/ queue # <<>>) => Len(queue) < Cardinality(Owed)

(* Inductive for NoGhost: a request that was refused the running key is    *)
(* refused by an entry that is owed, until its submit() returns.           *)
Occupied == running # None \/ queue # <<>> \/ In(Submitting) # {}
Backed == OneServed /\ Occupied => Len(queue) < Cardinality(Owed)

(* Every call of the chat endpoint is answered, refused, or dies with its  *)
(* worker: no request waits for its turn in a queue that lost it.          *)
EveryCallEnds == \A r \in Requests : stage[r] # "new" ~> stage[r] \in Ended

(* When no handler is left the agent becomes free again, even if handlers  *)
(* died without releasing it: the TTL of the running key.                  *)
AgentFreed == In(Submitting \union InFlight) = {} ~> running = None

=============================================================================
