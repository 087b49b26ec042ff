--------------------------- MODULE ChatQueueProofs ---------------------------
(***************************************************************************)
(* Theorems about ChatQueue, for any number of requests and workers.       *)
(***************************************************************************)
EXTENDS ChatQueue, FiniteSetTheorems, TLAPS

(* The sets of requests by stage are finite.                               *)
LEMMA InFinite ==
  ASSUME NEW S
  PROVE  /\ In(S) \subseteq Requests
         /\ IsFiniteSet(In(S))
         /\ Cardinality(In(S)) \in Nat
<1>1. In(S) \subseteq Requests
  BY DEF In
<1>2. IsFiniteSet(In(S))
  BY <1>1, RequestsFinite, FS_Subset
<1> QED BY <1>1, <1>2, FS_CardinalityType

(* What a change of one request's stage does to these sets.                *)
LEMMA MoveIn ==
  ASSUME NEW S, NEW r \in Requests, NEW to,
         stage \in [Requests -> Stage],
         stage' = [stage EXCEPT ![r] = to]
  PROVE  In(S)' = IF to \in S THEN In(S) \union {r} ELSE In(S) \ {r}
  BY DEF In

(* Appending and removing change the length of the queue by one.           *)
LEMMA QueueLength ==
  ASSUME NEW q \in Seq(Requests), NEW r \in Requests
  PROVE  /\ Append(q, r) \in Seq(Requests)
         /\ Len(q) \in Nat
         /\ Len(Append(q, r)) = Len(q) + 1
         /\ q # <<>> => /\ Head(q) \in Requests
                        /\ Tail(q) \in Seq(Requests)
                        /\ Len(Tail(q)) = Len(q) - 1
                        /\ Len(q) > 0
         /\ q = <<>> => Len(q) = 0
  OBVIOUS

LEMMA EmptyQueue == <<>> \in Seq(Requests) /\ Len(<<>>) = 0
  OBVIOUS

-----------------------------------------------------------------------------
USE RequestsFinite, NoneIsNoRequest

LEMMA TypeInit == Init => TypeOK
  BY DEF Init, TypeOK, Stage

LEMMA TypeStep == TypeOK /\ [Next]_vars => TypeOK'
<1> SUFFICES ASSUME TypeOK, [Next]_vars PROVE TypeOK'
  OBVIOUS
<1> USE DEF TypeOK, Stage
<1>1. ASSUME NEW r \in Requests, Submit(r) PROVE TypeOK'
  <2>1. CASE Acquire(r)
    BY <2>1 DEF Acquire, Move
  <2>2. CASE Refuse(r) \/ Reject(r)
    BY <2>2 DEF Refuse, Reject, Move
  <2>3. CASE Count(r)
    BY <2>3 DEF Count, Move
  <2>4. CASE Enqueue(r)
    BY <2>4, QueueLength DEF Enqueue, Move
  <2> QED BY <1>1, <2>1, <2>2, <2>3, <2>4 DEF Submit
<1>2. ASSUME NEW r \in Requests, Handle(r) PROVE TypeOK'
  <2>1. CASE Post(r)
    BY <2>1 DEF Post, Move
  <2>2. CASE Unreachable(r) \/ TimesOut(r)
    BY <2>2 DEF Unreachable, TimesOut, Move
  <2>3. CASE Complete(r)
    BY <2>3, QueueLength DEF Complete
  <2>4. CASE PreparationFails(r)
    BY <2>4 DEF PreparationFails, Move
  <2> QED BY <1>2, <2>1, <2>2, <2>3, <2>4 DEF Handle
<1>3. ASSUME AgentAnswers PROVE TypeOK'
  <2>1. Head(lock) \in Requests /\ Tail(lock) \in Seq(Requests)
    BY <1>3 DEF AgentAnswers
  <2> QED BY <1>3, <2>1 DEF AgentAnswers
<1>4. ASSUME AgentStops PROVE TypeOK'
  BY <1>4 DEF AgentStops
<1>5. ASSUME ForceRelease \/ ClearQueue \/ Expire PROVE TypeOK'
  BY <1>5, EmptyQueue DEF ForceRelease, ClearQueue, Expire
<1>6. ASSUME NEW w \in Workers, WorkerCrashes(w) PROVE TypeOK'
  BY <1>6 DEF WorkerCrashes
<1>7. ASSUME UNCHANGED vars PROVE TypeOK'
  BY <1>7 DEF vars
<1> QED BY <1>1, <1>2, <1>3, <1>4, <1>5, <1>6, <1>7 DEF Next, Environment

(* Every variable of the queue, the handlers and the container keeps its   *)
(* type.                                                                   *)
THEOREM TypeCorrect == Spec => []TypeOK
  BY TypeInit, TypeStep, PTL DEF Spec

-----------------------------------------------------------------------------
(* A request keeps its worker, and a worker that was asked stays so.       *)
LEMMA AskedStep ==
  ASSUME TypeOK, TypeOK', [Next]_vars
  PROVE  /\ workerOf' = workerOf /\ workerOf \in [Requests -> Workers]
         /\ Asked \subseteq Asked' /\ IsFiniteSet(Asked')
         /\ Cardinality(Asked) \in Nat /\ Cardinality(Asked') \in Nat /\ Cardinality(Asked) <= Cardinality(Asked')
<1>1. workerOf' = workerOf
  BY DEF Next, Submit, Handle, Environment, Acquire, Refuse, Reject, Count, Enqueue, Post, Unreachable, TimesOut,
    Complete, PreparationFails, AgentAnswers, AgentStops, ForceRelease, ClearQueue, Expire, WorkerCrashes, vars
<1>2. ASSUME NEW r \in Requests, stage[r] # "new" PROVE stage'[r] # "new"
  <2>1. ASSUME NEW q \in Requests, Submit(q) \/ Handle(q) PROVE stage'[r] # "new"
    BY <1>2, <2>1 DEF Submit, Handle, Acquire, Refuse, Reject, Count, Enqueue, Post, Unreachable, TimesOut,
      Complete, PreparationFails, Move, TypeOK
  <2>2. CASE Environment \/ UNCHANGED vars
    BY <1>2, <2>2 DEF Environment, AgentAnswers, AgentStops, ForceRelease, ClearQueue, Expire, WorkerCrashes, vars,
      Submitting, InFlight, TypeOK
  <2> QED BY <2>1, <2>2 DEF Next
<1>3. Asked \subseteq Asked'
  BY <1>1, <1>2 DEF Asked
<1>4. Asked' \subseteq Workers
  BY DEF Asked, TypeOK
<1>5. IsFiniteSet(Asked) /\ IsFiniteSet(Asked') /\ Cardinality(Asked) <= Cardinality(Asked')
  BY <1>3, <1>4, WorkersFinite, FS_Subset
<1> QED BY <1>1, <1>3, <1>5, FS_CardinalityType DEF TypeOK

(* A step that keeps or frees places keeps the promise.                    *)
LEMMA PromisedFewer ==
  ASSUME TypeOK, TypeOK', Promised, [Next]_vars,
         In(Submitting)' \subseteq In(Submitting),
         Counted' \subseteq Counted,
         Len(queue') <= Len(queue)
  PROVE  Promised'
<1>1. /\ IsFiniteSet(Counted)
      /\ Cardinality(Counted) \in Nat
      /\ Cardinality(Counted') \in Nat
      /\ Cardinality(Counted') <= Cardinality(Counted)
  <2>1. IsFiniteSet(Counted) /\ Cardinality(Counted) \in Nat
    BY InFinite DEF Counted
  <2> QED BY <2>1, FS_Subset, FS_CardinalityType
<1>2. OneSubmission'
  BY AskedStep DEF Promised, OneSubmission
<1>3. Len(queue) \in Nat /\ Len(queue') \in Nat
  BY DEF TypeOK
<1>4. /\ Cardinality(Asked) \in Nat /\ Cardinality(Asked') \in Nat
      /\ Cardinality(Asked) <= Cardinality(Asked') /\ MaxQueue \in Nat
  BY AskedStep, MaxQueuePositive
<1> QED BY <1>1, <1>2, <1>3, <1>4 DEF Promised

(* Requests of different workers are no more than the workers.             *)
LEMMA OnePerWorker ==
  ASSUME NEW C, NEW W, IsFiniteSet(W), NEW f \in [C -> W],
         \A q, r \in C : f[q] = f[r] => q = r
  PROVE  Cardinality(C) <= Cardinality(W)
<1>1. f \in Injection(C, W)
  BY DEF Injection, IsInjective
<1> QED BY <1>1, FS_Injection

LEMMA PromisedInit == Init => Promised
<1> SUFFICES ASSUME Init PROVE Promised
  OBVIOUS
<1>1. In(Submitting) = {} /\ Counted = {}
  BY DEF Init, In, Submitting, Counted
<1>2. Len(queue) = 0 /\ Cardinality(Counted) = 0
  BY <1>1, FS_EmptySet, EmptyQueue DEF Init
<1>3. MaxQueue \in Nat
  BY MaxQueuePositive
<1> QED BY <1>1, <1>2, <1>3 DEF Promised, OneSubmission

LEMMA PromisedStep == TypeOK /\ TypeOK' /\ Promised /\ [Next]_vars => Promised'
<1> SUFFICES ASSUME TypeOK, TypeOK', Promised, [Next]_vars PROVE Promised'
  OBVIOUS
<1>0. /\ stage \in [Requests -> Stage]
      /\ queue \in Seq(Requests)
      /\ Len(queue) \in Nat
      /\ workerOf' = workerOf
      /\ Cardinality(Asked) \in Nat /\ Cardinality(Asked') \in Nat /\ Cardinality(Asked) <= Cardinality(Asked')
      /\ MaxQueue \in Nat
  BY AskedStep, MaxQueuePositive DEF TypeOK
<1>1. ASSUME NEW r \in Requests, NEW to \in Stage \ Submitting,
             stage' = [stage EXCEPT ![r] = to], Len(queue') <= Len(queue)
      PROVE  Promised'
  <2>1. In(Submitting)' \subseteq In(Submitting) /\ Counted' \subseteq Counted
    <3>1. In(Submitting)' = In(Submitting) \ {r}
      BY <1>0, <1>1, MoveIn
    <3>2. Counted' = Counted \ {r}
      <4>1. to \notin {"counted"}
        BY <1>1 DEF Submitting
      <4> QED BY <1>0, <1>1, <4>1, MoveIn DEF Counted
    <3> QED BY <3>1, <3>2
  <2> QED BY <1>1, <2>1, PromisedFewer
<1>2. ASSUME NEW r \in Requests, Acquire(r) \/ Reject(r) PROVE Promised'
  BY <1>0, <1>1, <1>2 DEF Acquire, Reject, Move, Stage, Submitting
<1>3. ASSUME NEW r \in Requests, Refuse(r) PROVE Promised'
  <2>1. /\ In(Submitting)' = In(Submitting) \union {r}
        /\ Counted' = Counted \ {r}
        /\ queue' = queue
    BY <1>0, <1>3, MoveIn, ZenonT(60) DEF Refuse, Move, Counted, Submitting
  <2>2. OneSubmission'
    BY <1>0, <1>3, <2>1 DEF Refuse, Free, Promised, OneSubmission
  <2>3. Counted' = Counted
    BY <1>3, <2>1 DEF Refuse, Move, Counted, In
  <2>4. Cardinality(Counted) \in Nat
    BY InFinite DEF Counted
  <2>5. Len(queue') = Len(queue) /\ Cardinality(Counted') = Cardinality(Counted)
    BY <2>1, <2>3
  <2>6. \/ Len(queue') + Cardinality(Counted') <= MaxQueue
        \/ Len(queue') + Cardinality(Counted') < MaxQueue + Cardinality(Asked')
    BY <1>0, <2>4, <2>5 DEF Promised
  <2> QED BY <2>2, <2>6 DEF Promised
<1>4. ASSUME NEW r \in Requests, Count(r) PROVE Promised'
  <2>1. In(Submitting)' = In(Submitting) /\ queue' = queue
    <3>1. In(Submitting)' = In(Submitting) \union {r}
      BY <1>0, <1>4, MoveIn DEF Count, Move, Submitting
    <3>2. r \in In(Submitting)
      BY <1>4 DEF Count, Move, Submitting, In
    <3> QED BY <1>4, <3>1, <3>2 DEF Count
  <2>2. OneSubmission'
    BY <1>0, <2>1 DEF Promised, OneSubmission
  <2>3. Counted' \in SUBSET Requests /\ Counted' \subseteq In(Submitting)'
    BY DEF Counted, In, Submitting
  <2>4. Cardinality(Counted') <= Cardinality(Asked')
    <3> DEFINE f == [q \in Counted' |-> workerOf'[q]]
    <3>1. f \in [Counted' -> Asked']
      BY DEF Counted, Asked, In
    <3>2. \A q, p \in Counted' : f[q] = f[p] => q = p
      BY <2>2, <2>3 DEF OneSubmission
    <3> QED BY <3>1, <3>2, AskedStep, OnePerWorker
  <2>5. Cardinality(Counted') \in Nat
    BY <2>3, FS_Subset, FS_CardinalityType
  <2>6. Len(queue') <= MaxQueue - 1
    BY <1>0, <1>4, <2>1 DEF Count
  <2>7. Len(queue') \in Nat
    BY <1>0, <2>1
  <2> QED BY <1>0, <2>2, <2>4, <2>5, <2>6, <2>7 DEF Promised
<1>5. ASSUME NEW r \in Requests, Enqueue(r) PROVE Promised'
  <2>1. /\ In(Submitting)' = In(Submitting) \ {r}
        /\ Counted' = Counted \ {r}
    BY <1>0, <1>5, MoveIn, ZenonT(60) DEF Enqueue, Move, Counted, Submitting
  <2>2. r \in Counted
    BY <1>5 DEF Enqueue, Move, Counted, In
  <2>3. /\ Cardinality(Counted) \in Nat
        /\ Cardinality(Counted') = Cardinality(Counted) - 1
    BY <2>1, <2>2, InFinite, FS_RemoveElement DEF Counted
  <2>4. Len(queue') = Len(queue) + 1
    BY <1>0, <1>5, QueueLength DEF Enqueue
  <2>5. OneSubmission'
    BY <1>0, <2>1 DEF Promised, OneSubmission
  <2> QED BY <1>0, <2>3, <2>4, <2>5 DEF Promised
<1>6. ASSUME NEW r \in Requests, Handle(r) PROVE Promised'
  <2>1. CASE Post(r) \/ Unreachable(r) \/ TimesOut(r) \/ PreparationFails(r)
    BY <1>0, <1>1, <2>1 DEF Post, Unreachable, TimesOut, PreparationFails, Move, Stage, Submitting
  <2>2. CASE Complete(r)
    <3>1. Len(queue') <= Len(queue)
      BY <1>0, <2>2, QueueLength DEF Complete
    <3> QED BY <1>1, <2>2, <3>1 DEF Complete, Stage, Submitting
  <2> QED BY <1>6, <2>1, <2>2 DEF Handle
<1>7. ASSUME AgentAnswers PROVE Promised'
  <2>1. Head(lock) \in Requests
    BY <1>7 DEF AgentAnswers, TypeOK
  <2>2. /\ In(Submitting)' \subseteq In(Submitting)
        /\ Counted' \subseteq Counted
    BY <1>0, <1>7, <2>1 DEF AgentAnswers, In, Counted, Submitting
  <2>3. Len(queue') <= Len(queue)
    BY <1>0, <1>7 DEF AgentAnswers
  <2> QED BY <2>2, <2>3, PromisedFewer
<1>8. ASSUME AgentStops \/ \E w \in Workers : WorkerCrashes(w) PROVE Promised'
  <2>1. /\ In(Submitting)' \subseteq In(Submitting)
        /\ Counted' \subseteq Counted
    BY <1>0, <1>8 DEF AgentStops, WorkerCrashes, In, Counted, Submitting, InFlight
  <2>2. Len(queue') <= Len(queue)
    BY <1>0, <1>8 DEF AgentStops, WorkerCrashes
  <2> QED BY <2>1, <2>2, PromisedFewer
<1>9. ASSUME ForceRelease \/ ClearQueue \/ Expire \/ UNCHANGED vars PROVE Promised'
  <2>1. stage' = stage /\ Len(queue') <= Len(queue)
    BY <1>0, <1>9, EmptyQueue DEF ForceRelease, ClearQueue, Expire, vars
  <2>2. In(Submitting)' = In(Submitting) /\ Counted' = Counted
    BY <2>1 DEF In, Counted
  <2> QED BY <2>1, <2>2, PromisedFewer
<1> QED BY <1>2, <1>3, <1>4, <1>5, <1>6, <1>7, <1>8, <1>9 DEF Next, Submit, Environment

(* Workers that interleave their LLEN and LPUSH exceed MAX_QUEUE_SIZE by   *)
(* less than their number: it is never exceeded by one that serves alone.  *)
THEOREM QueueBoundAlways == Spec => []QueueBound
<1>1. TypeOK /\ Promised => QueueBound
  <2> SUFFICES ASSUME TypeOK, Promised PROVE QueueBound
    OBVIOUS
  <2>1. Cardinality(Counted) \in Nat /\ Len(queue) \in Nat
    BY InFinite DEF Counted, TypeOK
  <2>2. IsFiniteSet(Asked) /\ Cardinality(Asked) \in Nat /\ MaxQueue \in Nat
    <3>1. Asked \subseteq Workers
      BY DEF Asked, TypeOK
    <3> QED BY <3>1, WorkersFinite, FS_Subset, FS_CardinalityType, MaxQueuePositive
  <2> QED BY <2>1, <2>2 DEF Promised, QueueBound
<1> QED BY <1>1, TypeInit, TypeStep, PromisedInit, PromisedStep, PTL DEF Spec

-----------------------------------------------------------------------------
(* A step that keeps the owed entries, and occupies nothing new, keeps them *)
(* backed.                                                                 *)
LEMMA BackedSame ==
  ASSUME TypeOK, TypeOK', Backed, OneServed,
         Owed' = Owed,
         Occupied' => Occupied,
         Len(queue') <= Len(queue)
  PROVE  Backed'
<1>1. Cardinality(Owed) \in Nat /\ Len(queue) \in Nat /\ Len(queue') \in Nat
  BY InFinite DEF Owed, TypeOK
<1> QED BY <1>1 DEF Backed

LEMMA BackedInit == Init => Backed
  BY DEF Init, Backed, Occupied, In, Submitting

LEMMA BackedStep == TypeOK /\ TypeOK' /\ Backed /\ [Next]_vars => Backed'
<1> SUFFICES ASSUME TypeOK, TypeOK', Backed, [Next]_vars, OneServed' PROVE Backed'
  BY DEF Backed
<1>0. /\ stage \in [Requests -> Stage]
      /\ queue \in Seq(Requests)
      /\ Len(queue) \in Nat
      /\ Cardinality(Owed) \in Nat
      /\ IsFiniteSet(Owed)
  BY InFinite DEF TypeOK, Owed
<1>s. OneServed
  BY AskedStep DEF OneServed
<1>1. ASSUME NEW r \in Requests, Free(r), stage'[r] # "new" PROVE In(Submitting) = {}
  <2>1. ASSUME NEW q \in In(Submitting) PROVE workerOf[q] = workerOf[r]
    <3>1. workerOf'[q] \in Asked' /\ workerOf'[r] \in Asked' /\ workerOf' = workerOf
      BY <1>1, <2>1, AskedStep DEF Asked, In, Submitting
    <3> QED BY <3>1 DEF OneServed
  <2> QED BY <1>1, <2>1 DEF Free
<1>2. ASSUME NEW r \in Requests, Acquire(r) PROVE Backed'
  <2>0. stage' = [stage EXCEPT ![r] = "accepted"] /\ queue' = queue
    BY <1>2 DEF Acquire, Move
  <2>1. Owed' = Owed \union {r}
    <3>1. PICK to \in InFlight \union {"lost"} : stage' = [stage EXCEPT ![r] = to]
      BY <2>0 DEF InFlight
    <3> QED BY <1>0, <3>1, MoveIn DEF Owed
  <2>2. r \notin Owed
    BY <1>2 DEF Acquire, Move, Owed, InFlight, In
  <2>3. Cardinality(Owed') = Cardinality(Owed) + 1
    BY <1>0, <2>1, <2>2, FS_AddElement
  <2>4. Len(queue) < Cardinality(Owed) \/ Len(queue) = 0
    BY <1>s, EmptyQueue DEF Backed, Occupied
  <2> QED BY <1>0, <2>0, <2>3, <2>4 DEF Backed
<1>3. ASSUME NEW r \in Requests, Refuse(r) \/ Reject(r) \/ Count(r) PROVE Backed'
  <2>1. PICK to \in {"refused", "rejected", "counted"} : stage' = [stage EXCEPT ![r] = to]
    BY <1>3 DEF Refuse, Reject, Count, Move
  <2>2. stage[r] \in {"new", "refused"}
    BY <1>3 DEF Refuse, Reject, Count, Move
  <2>3. Owed' = Owed
    <3>1. Owed' = Owed \ {r}
      BY <1>0, <2>1, MoveIn DEF Owed, InFlight
    <3>2. r \notin Owed
      BY <2>2 DEF Owed, In, InFlight
    <3> QED BY <3>1, <3>2
  <2>4. running' = running /\ queue' = queue
    BY <1>3 DEF Refuse, Reject, Count
  <2>5. Occupied
    BY <1>3 DEF Refuse, Reject, Count, Move, Occupied, In, Submitting
  <2> QED BY <1>0, <1>s, <2>3, <2>4, <2>5, BackedSame
<1>4. ASSUME NEW r \in Requests, Enqueue(r) PROVE Backed'
  <2>1. Owed' = Owed \union {r}
    <3>1. PICK to \in InFlight \union {"lost"} : stage' = [stage EXCEPT ![r] = to]
      BY <1>4 DEF Enqueue, Move, InFlight
    <3> QED BY <1>0, <3>1, MoveIn DEF Owed
  <2>2. r \notin Owed /\ Occupied
    BY <1>4 DEF Enqueue, Move, Owed, InFlight, In, Occupied, Submitting
  <2>3. Cardinality(Owed') = Cardinality(Owed) + 1
    BY <1>0, <2>1, <2>2, FS_AddElement
  <2>4. Len(queue') = Len(queue) + 1
    BY <1>0, <1>4, QueueLength DEF Enqueue
  <2> QED BY <1>0, <1>s, <2>2, <2>3, <2>4 DEF Backed
<1>5. ASSUME NEW r \in Requests,
             Post(r) \/ Unreachable(r) \/ TimesOut(r) \/ PreparationFails(r)
      PROVE  Backed'
  <2>1. PICK to \in InFlight \union {"lost"} : stage' = [stage EXCEPT ![r] = to]
    BY <1>5 DEF Post, Unreachable, TimesOut, PreparationFails, Move, InFlight
  <2>2. r \in Owed
    BY <1>5 DEF Post, Unreachable, TimesOut, PreparationFails, Move, InFlight, Owed, In
  <2>3. Owed' = Owed
    <3>1. Owed' = Owed \union {r}
      BY <1>0, <2>1, MoveIn DEF Owed
    <3> QED BY <2>2, <3>1
  <2>4. running' = running /\ queue' = queue
    BY <1>5 DEF Post, Unreachable, TimesOut, PreparationFails
  <2>5. In(Submitting)' = In(Submitting) \ {r}
    BY <1>0, <2>1, MoveIn DEF Submitting, InFlight
  <2> QED BY <1>0, <1>s, <2>3, <2>4, <2>5, BackedSame DEF Occupied
<1>6. ASSUME NEW r \in Requests, Complete(r) PROVE Backed'
  <2>1. Owed' = Owed \ {r}
    BY <1>0, <1>6, MoveIn DEF Complete, Owed, InFlight
  <2>2. r \in Owed
    BY <1>6 DEF Complete, Owed, InFlight, In
  <2>3. Cardinality(Owed') = Cardinality(Owed) - 1
    BY <1>0, <2>1, <2>2, FS_RemoveElement
  <2>4. In(Submitting)' = {}
    <3>1. In(Submitting) = {}
      BY <1>1, <1>6 DEF Complete
    <3>2. In(Submitting)' = In(Submitting) \ {r}
      BY <1>0, <1>6, MoveIn, ZenonT(60) DEF Complete, Submitting
    <3> QED BY <3>1, <3>2
  <2>5. CASE queue = <<>>
    BY <1>6, <2>4, <2>5 DEF Complete, Backed, Occupied
  <2>6. CASE queue # <<>>
    <3>1. Len(queue') = Len(queue) - 1
      BY <1>0, <1>6, <2>6, QueueLength DEF Complete
    <3>2. Len(queue) < Cardinality(Owed)
      BY <1>s, <2>6 DEF Backed, Occupied
    <3> QED BY <1>0, <2>3, <3>1, <3>2 DEF Backed
  <2> QED BY <2>5, <2>6
<1>7. ASSUME AgentAnswers \/ AgentStops \/ \E w \in Workers : WorkerCrashes(w)
      PROVE  Backed'
  <2>1. running' = running /\ queue' = queue
    BY <1>7 DEF AgentAnswers, AgentStops, WorkerCrashes
  <2>2. Owed' = Owed /\ In(Submitting)' \subseteq In(Submitting)
    <3>1. CASE AgentAnswers
      <4>1. Head(lock) \in Requests
        BY <3>1 DEF AgentAnswers, TypeOK
      <4>2. PICK result \in {"answered", "failed"} :
              stage' = [stage EXCEPT ![Head(lock)] = IF @ = "posted" THEN result ELSE @]
        BY <3>1 DEF AgentAnswers
      <4>3. ASSUME NEW r \in Requests
            PROVE  stage'[r] = stage[r] \/ (stage[r] = "posted" /\ stage'[r] = result)
        BY <1>0, <4>1, <4>2
      <4> QED BY <4>2, <4>3 DEF Owed, In, InFlight, Submitting
    <3>2. CASE AgentStops
      BY <3>2 DEF AgentStops, Owed, In, InFlight, Submitting
    <3>3. CASE \E w \in Workers : WorkerCrashes(w)
      BY <3>3 DEF WorkerCrashes, Owed, In, InFlight, Submitting
    <3> QED BY <1>7, <3>1, <3>2, <3>3
  <2> QED BY <1>0, <1>s, <2>1, <2>2, BackedSame DEF Occupied
<1>8. ASSUME ForceRelease \/ ClearQueue \/ Expire \/ UNCHANGED vars PROVE Backed'
  <2>1. stage' = stage /\ Len(queue') <= Len(queue)
    BY <1>0, <1>8, EmptyQueue DEF ForceRelease, ClearQueue, Expire, vars
  <2>2. Owed' = Owed /\ In(Submitting)' = In(Submitting)
    BY <2>1 DEF In, Owed
  <2>3. Occupied' => Occupied
    BY <1>8, <2>2 DEF ForceRelease, ClearQueue, Expire, vars, Occupied
  <2> QED BY <1>s, <2>1, <2>2, <2>3, BackedSame
<1> QED BY <1>2, <1>3, <1>4, <1>5, <1>6, <1>7, <1>8
       DEF Next, Submit, Handle, Environment

(* While one worker serves, what is shown as running or waiting is owed by *)
(* a handler that has not completed, or that died: no completion leaves an *)
(* entry behind, whatever is released, cleared or expires.                 *)
THEOREM NoGhostAlways == Spec => []NoGhost
<1>1. Backed => NoGhost
  BY DEF Backed, Occupied, NoGhost
<1> QED BY <1>1, TypeInit, TypeStep, BackedStep, BackedInit, PTL DEF Spec
=============================================================================
