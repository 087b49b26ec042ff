------------------------- MODULE TaskExecutionProofs -------------------------
(***************************************************************************)
(* Theorems about TaskExecution, for any number of tasks and workers.      *)
(***************************************************************************)
EXTENDS TaskExecution, FiniteSetTheorems, TLAPS

USE KindsKnown, WorkersServe, NobodyIsNoWorker

LEMMA TypeInit == Init => TypeOK
  BY DEF Init, TypeOK, Record, Stage, Process

LEMMA TypeStep == TypeOK /\ [Next]_vars => TypeOK'
<1> SUFFICES ASSUME TypeOK, [Next]_vars PROVE TypeOK'
  OBVIOUS
<1> USE DEF TypeOK, Record, Stage, Process
<1>1. ASSUME NEW t \in Tasks, Create(t) PROVE TypeOK'
  BY <1>1 DEF Create, Move
<1>2. ASSUME NEW t \in Tasks, Acquire(t) PROVE TypeOK'
  <2>1. CASE Count(t)
    BY <2>1 DEF Count, Move
  <2>2. CASE Refuse(t)
    BY <2>2 DEF Refuse, Move
  <2>3. CASE Add(t)
    BY <2>3 DEF Add, Move
  <2> QED BY <1>2, <2>1, <2>2, <2>3 DEF Acquire
<1>3. ASSUME NEW t \in Tasks, Call(t) PROVE TypeOK'
  BY <1>3 DEF Call, Post, Unreachable, TimesOut, Move
<1>4. ASSUME NEW t \in Tasks, Container(t) PROVE TypeOK'
  <2>1. CASE Exits(t)
    BY <2>1 DEF Exits
  <2>2. CASE Reply(t)
    BY <2>2 DEF Reply
  <2> QED BY <1>4, <2>1, <2>2 DEF Container
<1>5. ASSUME NEW t \in Tasks, Conclude(t) PROVE TypeOK'
  <2>1. CASE Succeed(t) \/ WriteFailed(t)
    BY <2>1 DEF Succeed, WriteFailed, Move
  <2>2. CASE ActivityFails(t) \/ Check(t)
    BY <2>2 DEF ActivityFails, Check, Move
  <2>3. CASE Release(t)
    BY <2>3 DEF Release
  <2> QED BY <1>5, <2>1, <2>2, <2>3 DEF Conclude
<1>6. ASSUME NEW t \in Tasks, WriteCancelled(t) \/ PreparationFails(t) PROVE TypeOK'
  BY <1>6, LossesBounded DEF WriteCancelled, PreparationFails
<1>7. ASSUME NEW t \in Tasks, NEW w \in Workers, Terminate(t, w) PROVE TypeOK'
  BY <1>7 DEF Terminate
<1>8. ASSUME NEW w \in Workers, WorkerCrashes(w) PROVE TypeOK'
  BY <1>8 DEF WorkerCrashes
<1>9. ASSUME AgentStops PROVE TypeOK'
  BY <1>9 DEF AgentStops
<1>10. ASSUME UNCHANGED vars PROVE TypeOK'
  BY <1>10 DEF vars
<1> QED BY <1>1, <1>2, <1>3, <1>4, <1>5, <1>6, <1>7, <1>8, <1>9, <1>10 DEF Next

(* Every variable of the backend, Redis and the container keeps its type.  *)
THEOREM TypeCorrect == Spec => []TypeOK
  BY TypeInit, TypeStep, PTL DEF Spec

-----------------------------------------------------------------------------
(* The handlers that may take a slot, and those that hold one, are finite. *)
LEMMA SetsFinite ==
  ASSUME TypeOK
  PROVE  /\ IsFiniteSet(Counted) /\ Cardinality(Counted) \in Nat
         /\ IsFiniteSet(slots) /\ Cardinality(slots) \in Nat
         /\ IsFiniteSet(slots \union Counted)
         /\ Cardinality(slots \union Counted) \in Nat
<1>1. Counted \subseteq Tasks /\ slots \subseteq Tasks
  BY DEF TypeOK, Counted, In
<1>2. IsFiniteSet(Counted) /\ IsFiniteSet(slots) /\ IsFiniteSet(slots \union Counted)
  BY <1>1, TasksFinite, FS_Subset, FS_Union
<1> QED BY <1>2, FS_CardinalityType

LEMMA BoundIsNat == Cardinality(Workers) \in Nat /\ MaxParallel \in Nat
  BY WorkersFinite, FS_CardinalityType, MaxParallelPositive

(* A step that brings no handler between two commands, and no slot that    *)
(* was not promised, keeps the promise.                                    *)
LEMMA PromisedFewer ==
  ASSUME TypeOK, TypeOK', Promised,
         In(Busy)' \subseteq In(Busy),
         slots' \union Counted' \subseteq slots \union Counted
  PROVE  Promised'
<1>1. OneCommand'
  BY DEF Promised, OneCommand
<1>2. /\ Cardinality(slots' \union Counted') \in Nat
      /\ Cardinality(slots \union Counted) \in Nat
      /\ Cardinality(slots' \union Counted') <= Cardinality(slots \union Counted)
  <2>1. IsFiniteSet(slots \union Counted) /\ Cardinality(slots \union Counted) \in Nat
    BY SetsFinite
  <2> QED BY <2>1, FS_Subset, FS_CardinalityType
<1> QED BY <1>1, <1>2, BoundIsNat DEF Promised

(* Handlers of different workers are no more than the workers.             *)
LEMMA OnePerWorker ==
  ASSUME NEW C \in SUBSET Tasks,
         \A q, t \in C : workerOf[q] = workerOf[t] => q = t
  PROVE  Cardinality(C) <= Cardinality(Workers)
<1> DEFINE f == [t \in C |-> workerOf[t]]
<1>1. f \in Injection(C, Workers)
  BY DEF Injection, IsInjective
<1> QED BY <1>1, WorkersFinite, FS_Injection

LEMMA PromisedInit == Init => Promised
<1> SUFFICES ASSUME Init PROVE Promised
  OBVIOUS
<1>1. In(Busy) = {} /\ slots \union Counted = {}
  BY DEF Init, In, Busy, Counted
<1>2. Cardinality(slots \union Counted) = 0
  BY <1>1, FS_EmptySet
<1>4. Cardinality(Workers) \in Nat /\ MaxParallel \in Nat \ {0}
  BY WorkersFinite, FS_CardinalityType, MaxParallelPositive
<1> QED BY <1>1, <1>2, <1>4 DEF Promised, OneCommand

LEMMA PromisedStep == TypeOK /\ TypeOK' /\ Promised /\ [Next]_vars => Promised'
<1> SUFFICES ASSUME TypeOK, TypeOK', Promised, [Next]_vars PROVE Promised'
  OBVIOUS
<1>0. stage \in [Tasks -> Stage] /\ slots \subseteq Tasks
  BY DEF TypeOK
(* Most steps move one handler to an await and take no slot.               *)
<1>1. ASSUME NEW t \in Tasks, NEW to \in Stage \ Busy,
             stage' = [stage EXCEPT ![t] = to], slots' \subseteq slots
      PROVE  Promised'
  BY <1>0, <1>1, PromisedFewer DEF In, Busy, Counted
<1>2. ASSUME NEW t \in Tasks, Create(t) PROVE Promised'
  BY <1>2, <1>1 DEF Create, Move, Stage, Busy
<1>3. ASSUME NEW t \in Tasks, Count(t) PROVE Promised'
  <2>1. stage' = [stage EXCEPT ![t] = "counted"] /\ Free(t) /\ slots' \subseteq slots
    BY <1>3 DEF Count, Move
  <2>2. OneCommand'
    BY <2>1, <1>0 DEF Promised, OneCommand, Free, Idle, In, Busy
  <2>3. Cardinality(Counted') <= Cardinality(Workers)
    <3>1. Counted' \subseteq Tasks /\ Counted' \subseteq In(Busy)'
      BY DEF Counted, In, Busy
    <3> QED BY <3>1, <2>2, OnePerWorker DEF OneCommand
  <2>4. Cardinality(slots') <= MaxParallel - 1
    <3>1. Cardinality(slots') < MaxParallel
      BY <1>3 DEF Count
    <3>2. Cardinality(slots') \in Nat
      BY <1>0, <2>1, TasksFinite, FS_Subset, FS_CardinalityType
    <3> QED BY <3>1, <3>2, BoundIsNat
  <2>5. Cardinality(slots' \union Counted') <= Cardinality(slots') + Cardinality(Counted')
    <3>1. IsFiniteSet(slots') /\ IsFiniteSet(Counted')
      <4>1. slots' \subseteq Tasks /\ Counted' \subseteq Tasks
        BY <1>0, <2>1 DEF Counted, In
      <4> QED BY <4>1, TasksFinite, FS_Subset
    <3>2. Cardinality(slots' \intersect Counted') \in Nat
      BY <3>1, FS_Intersection, FS_CardinalityType
    <3>3. /\ Cardinality(slots') \in Nat
          /\ Cardinality(Counted') \in Nat
          /\ Cardinality(slots' \union Counted') =
               Cardinality(slots') + Cardinality(Counted')
               - Cardinality(slots' \intersect Counted')
      BY <3>1, FS_Union, FS_CardinalityType
    <3> QED BY <3>2, <3>3
  <2>6. /\ Cardinality(slots') \in Nat
        /\ Cardinality(Counted') \in Nat
        /\ Cardinality(slots' \union Counted') \in Nat
    <3>1. /\ IsFiniteSet(slots') /\ IsFiniteSet(Counted')
          /\ IsFiniteSet(slots' \union Counted')
      <4>1. slots' \subseteq Tasks /\ Counted' \subseteq Tasks
        BY <1>0, <2>1 DEF Counted, In
      <4> QED BY <4>1, TasksFinite, FS_Subset
    <3> QED BY <3>1, FS_CardinalityType
  <2> QED BY <2>2, <2>3, <2>4, <2>5, <2>6, BoundIsNat DEF Promised
<1>4. ASSUME NEW t \in Tasks, Refuse(t) PROVE Promised'
  BY <1>4, <1>1 DEF Refuse, Move, Stage, Busy
<1>5. ASSUME NEW t \in Tasks, Add(t) PROVE Promised'
  <2>1. stage[t] = "counted" /\ stage' = [stage EXCEPT ![t] = "held"]
    BY <1>5 DEF Add, Move
  <2>2. slots' = slots \union {t}
    BY <1>5 DEF Add
  <2>3. In(Busy)' \subseteq In(Busy) /\ slots' \union Counted' \subseteq slots \union Counted
    BY <2>1, <2>2, <1>0 DEF In, Busy, Counted
  <2> QED BY <2>3, PromisedFewer
<1>6. ASSUME NEW t \in Tasks, Call(t) PROVE Promised'
  BY <1>6, <1>1 DEF Call, Post, Unreachable, TimesOut, Move, Stage, Busy
<1>7. ASSUME NEW t \in Tasks, Container(t) PROVE Promised'
  <2>1. CASE Exits(t)
    <3>1. stage' = stage /\ slots' = slots
      BY <2>1 DEF Exits
    <3> QED BY <3>1, PromisedFewer DEF In, Counted
  <2>2. CASE Reply(t)
    <3>1. PICK result \in {"answered", "failed"} :
            stage' = [stage EXCEPT ![t] = IF @ = "posted" THEN result ELSE @]
      BY <2>2 DEF Reply
    <3>2. slots' = slots
      BY <2>2 DEF Reply
    <3>3. In(Busy)' \subseteq In(Busy) /\ Counted' \subseteq Counted
      BY <3>1, <1>0 DEF In, Busy, Counted
    <3> QED BY <3>2, <3>3, PromisedFewer
  <2> QED BY <1>7, <2>1, <2>2 DEF Container
<1>8. ASSUME NEW t \in Tasks, Conclude(t) PROVE Promised'
  <2>1. CASE Succeed(t) \/ ActivityFails(t) \/ WriteFailed(t) \/ Release(t)
    BY <2>1, <1>1 DEF Succeed, ActivityFails, WriteFailed, Release, Move, Stage, Busy
  <2>2. CASE Check(t)
    <3>1. /\ Free(t) /\ stage[t] = "failed" /\ slots' = slots
          /\ stage' = [stage EXCEPT ![t] = IF record[t] = "cancelled" THEN "closing" ELSE "checked"]
      BY <2>2 DEF Check, Move
    <3>2. OneCommand'
      BY <3>1, <1>0 DEF Promised, OneCommand, Free, Idle, In, Busy
    <3>3. Counted' = Counted
      BY <3>1, <1>0 DEF Counted, In
    <3> QED BY <3>1, <3>2, <3>3 DEF Promised
  <2> QED BY <1>8, <2>1, <2>2 DEF Conclude
<1>9. ASSUME NEW t \in Tasks, WriteCancelled(t) PROVE Promised'
  <2>1. stage' = stage /\ slots' = slots
    BY <1>9 DEF WriteCancelled
  <2> QED BY <2>1, PromisedFewer DEF In, Counted
<1>10. ASSUME NEW t \in Tasks, PreparationFails(t) PROVE Promised'
  BY <1>10, <1>1 DEF PreparationFails, Stage, Busy
<1>11. ASSUME NEW t \in Tasks, NEW w \in Workers, Terminate(t, w) PROVE Promised'
  <2>1. stage' = stage /\ slots' = slots
    BY <1>11 DEF Terminate
  <2> QED BY <2>1, PromisedFewer DEF In, Counted
<1>12. ASSUME NEW w \in Workers, WorkerCrashes(w) PROVE Promised'
  <2>1. /\ slots' = slots
        /\ stage' = [t \in Tasks |->
             IF workerOf[t] = w /\ stage[t] \in InFlight THEN "lost" ELSE stage[t]]
    BY <1>12 DEF WorkerCrashes
  <2>2. In(Busy)' \subseteq In(Busy) /\ Counted' \subseteq Counted
    BY <2>1 DEF In, Busy, Counted
  <2> QED BY <2>1, <2>2, PromisedFewer
<1>13. ASSUME AgentStops PROVE Promised'
  <2>1. /\ slots' = slots
        /\ stage' = [t \in Tasks |-> IF stage[t] = "posted" THEN "failed" ELSE stage[t]]
    BY <1>13 DEF AgentStops
  <2>2. In(Busy)' \subseteq In(Busy) /\ Counted' \subseteq Counted
    BY <2>1 DEF In, Busy, Counted
  <2> QED BY <2>1, <2>2, PromisedFewer
<1>14. ASSUME UNCHANGED vars PROVE Promised'
  <2>1. stage' = stage /\ slots' = slots
    BY <1>14 DEF vars
  <2> QED BY <2>1, PromisedFewer DEF In, Counted
<1> QED BY <1>2, <1>3, <1>4, <1>5, <1>6, <1>7, <1>8, <1>9, <1>10, <1>11,
           <1>12, <1>13, <1>14 DEF Next, Acquire

LEMMA PromisedBounds == TypeOK /\ Promised => SlotBound
<1> SUFFICES ASSUME TypeOK, Promised PROVE SlotBound
  OBVIOUS
<1>1. Cardinality(slots) <= Cardinality(slots \union Counted)
  BY SetsFinite, FS_Subset
<1> QED BY <1>1, SetsFinite, BoundIsNat DEF Promised, SlotBound

(* For every number of workers the slots exceed max_parallel_tasks by less *)
(* than that number; with one worker they do not exceed it.                *)
THEOREM SlotBoundAlways == Spec => []SlotBound
<1>1. Init => TypeOK /\ Promised
  BY TypeInit, PromisedInit
<1>2. TypeOK /\ Promised /\ [Next]_vars => (TypeOK /\ Promised)'
  BY TypeStep, PromisedStep
<1>3. TypeOK /\ Promised => SlotBound
  BY PromisedBounds
<1> QED BY <1>1, <1>2, <1>3, PTL DEF Spec

-----------------------------------------------------------------------------
(* Slots: where they are, and that no process is without.                  *)
Placed == TypeOK /\ NoSlotLeft /\ Slotted

LEMMA PlacedInit == Init => NoSlotLeft /\ Slotted
  BY DEF Init, NoSlotLeft, Slotted, Holding

LEMMA PlacedStep == TypeOK /\ NoSlotLeft /\ Slotted /\ [Next]_vars => (NoSlotLeft /\ Slotted)'
<1> SUFFICES ASSUME TypeOK, NoSlotLeft, Slotted, [Next]_vars
             PROVE  NoSlotLeft' /\ Slotted'
  OBVIOUS
<1> USE DEF TypeOK, NoSlotLeft, Slotted, Holding
<1>1. ASSUME NEW t \in Tasks, Create(t) PROVE NoSlotLeft' /\ Slotted'
  BY <1>1 DEF Create, Move
<1>2. ASSUME NEW t \in Tasks, Count(t) PROVE NoSlotLeft' /\ Slotted'
  BY <1>2 DEF Count, Aged, Move
<1>3. ASSUME NEW t \in Tasks, Refuse(t) PROVE NoSlotLeft' /\ Slotted'
  BY <1>3 DEF Refuse, Aged, Move
<1>4. ASSUME NEW t \in Tasks, Add(t) PROVE NoSlotLeft' /\ Slotted'
  BY <1>4 DEF Add, Move
<1>5. ASSUME NEW t \in Tasks, Post(t) PROVE NoSlotLeft' /\ Slotted'
  BY <1>5 DEF Post, Move, Process
<1>6. ASSUME NEW t \in Tasks, Unreachable(t) PROVE NoSlotLeft' /\ Slotted'
  BY <1>6 DEF Unreachable, Move
<1>7. ASSUME NEW t \in Tasks, TimesOut(t) PROVE NoSlotLeft' /\ Slotted'
  BY <1>7 DEF TimesOut, Move
<1>8. ASSUME NEW t \in Tasks, Exits(t) PROVE NoSlotLeft' /\ Slotted'
  BY <1>8 DEF Exits
<1>9. ASSUME NEW t \in Tasks, Reply(t) PROVE NoSlotLeft' /\ Slotted'
  BY <1>9 DEF Reply
<1>10. ASSUME NEW t \in Tasks, Succeed(t) PROVE NoSlotLeft' /\ Slotted'
  BY <1>10 DEF Succeed, Move
<1>11. ASSUME NEW t \in Tasks, ActivityFails(t) PROVE NoSlotLeft' /\ Slotted'
  BY <1>11 DEF ActivityFails, Move
<1>12. ASSUME NEW t \in Tasks, Check(t) PROVE NoSlotLeft' /\ Slotted'
  BY <1>12 DEF Check, Move
<1>13. ASSUME NEW t \in Tasks, WriteFailed(t) PROVE NoSlotLeft' /\ Slotted'
  BY <1>13 DEF WriteFailed, Move
<1>14. ASSUME NEW t \in Tasks, Release(t) PROVE NoSlotLeft' /\ Slotted'
  BY <1>14 DEF Release
<1>15. ASSUME NEW t \in Tasks, WriteCancelled(t) PROVE NoSlotLeft' /\ Slotted'
  BY <1>15 DEF WriteCancelled
<1>16. ASSUME NEW t \in Tasks, PreparationFails(t) PROVE NoSlotLeft' /\ Slotted'
  BY <1>16 DEF PreparationFails
<1>17. ASSUME NEW t \in Tasks, NEW w \in Workers, Terminate(t, w)
       PROVE  NoSlotLeft' /\ Slotted'
  BY <1>17 DEF Terminate
<1>18. ASSUME NEW w \in Workers, WorkerCrashes(w) PROVE NoSlotLeft' /\ Slotted'
  BY <1>18 DEF WorkerCrashes, InFlight
<1>19. ASSUME AgentStops PROVE NoSlotLeft' /\ Slotted'
  BY <1>19 DEF AgentStops
<1>20. ASSUME UNCHANGED vars PROVE NoSlotLeft' /\ Slotted'
  BY <1>20 DEF vars
<1> QED BY <1>1, <1>2, <1>3, <1>4, <1>5, <1>6, <1>7, <1>8, <1>9, <1>10, <1>11,
           <1>12, <1>13, <1>14, <1>15, <1>16, <1>17, <1>18, <1>19, <1>20
        DEF Next, Acquire, Call, Container, Conclude

LEMMA PlacedAlways == Spec => []Placed
<1>1. Init => Placed
  BY TypeInit, PlacedInit DEF Placed
<1>2. Placed /\ [Next]_vars => Placed'
  BY TypeStep, PlacedStep DEF Placed
<1> QED BY <1>1, <1>2, PTL DEF Spec

(* No process runs without a slot but those of null and of long timeouts,  *)
(* whatever the interleaving of handlers, processes and expiring slots.    *)
THEOREM SlotsAccounted == Spec => []ProcessHasSlot
<1>1. Placed => ProcessHasSlot
  BY DEF Placed, Slotted, ProcessHasSlot
<1> QED BY <1>1, PlacedAlways, PTL

(* No refused or finished task keeps a slot: every way out of the handler  *)
(* passes the release.                                                     *)
THEOREM NoSlotIsLeft == Spec => []NoSlotLeft
<1>1. Placed => NoSlotLeft
  BY DEF Placed
<1> QED BY <1>1, PlacedAlways, PTL

-----------------------------------------------------------------------------
(* Records: outcomes and cancellations.                                    *)
Judged == TypeOK /\ OutcomeKnown /\ Terminated

LEMMA JudgedInit == Init => OutcomeKnown /\ Terminated
  BY DEF Init, OutcomeKnown, Terminated

LEMMA JudgedStep == TypeOK /\ OutcomeKnown /\ Terminated /\ [Next]_vars
                    => (OutcomeKnown /\ Terminated)'
<1> SUFFICES ASSUME TypeOK, OutcomeKnown, Terminated, [Next]_vars
             PROVE  OutcomeKnown' /\ Terminated'
  OBVIOUS
<1> USE DEF TypeOK, OutcomeKnown, Terminated, Outcome
<1>1. ASSUME NEW t \in Tasks, Create(t) PROVE OutcomeKnown' /\ Terminated'
  BY <1>1 DEF Create, Move
<1>2. ASSUME NEW t \in Tasks, Count(t) \/ Add(t) PROVE OutcomeKnown' /\ Terminated'
  BY <1>2 DEF Count, Add, Move
<1>3. ASSUME NEW t \in Tasks, Refuse(t) PROVE OutcomeKnown' /\ Terminated'
  BY <1>3 DEF Refuse, Move
<1>4. ASSUME NEW t \in Tasks, Post(t) PROVE OutcomeKnown' /\ Terminated'
  BY <1>4 DEF Post, Move
<1>5. ASSUME NEW t \in Tasks, Unreachable(t) \/ TimesOut(t)
      PROVE  OutcomeKnown' /\ Terminated'
  BY <1>5 DEF Unreachable, TimesOut, Move
<1>6. ASSUME NEW t \in Tasks, Exits(t) PROVE OutcomeKnown' /\ Terminated'
  BY <1>6 DEF Exits
<1>7. ASSUME NEW t \in Tasks, Reply(t) PROVE OutcomeKnown' /\ Terminated'
  BY <1>7 DEF Reply
<1>8. ASSUME NEW t \in Tasks, Succeed(t) PROVE OutcomeKnown' /\ Terminated'
  BY <1>8 DEF Succeed, Move
<1>9. ASSUME NEW t \in Tasks, ActivityFails(t) PROVE OutcomeKnown' /\ Terminated'
  BY <1>9 DEF ActivityFails, Move
<1>10. ASSUME NEW t \in Tasks, Check(t) PROVE OutcomeKnown' /\ Terminated'
  BY <1>10 DEF Check, Move
<1>11. ASSUME NEW t \in Tasks, WriteFailed(t) PROVE OutcomeKnown' /\ Terminated'
  BY <1>11 DEF WriteFailed, Move
<1>12. ASSUME NEW t \in Tasks, Release(t) PROVE OutcomeKnown' /\ Terminated'
  BY <1>12 DEF Release
<1>13. ASSUME NEW t \in Tasks, WriteCancelled(t) PROVE OutcomeKnown' /\ Terminated'
  (* A failure that is about to be written keeps its worker busy.          *)
  <2>1. stage[t] = "checked" => terminator[t] # workerOf[t]
    BY <1>13 DEF WriteCancelled, Idle, In, Busy
  <2> QED BY <1>13, <2>1 DEF WriteCancelled
<1>14. ASSUME NEW t \in Tasks, PreparationFails(t) PROVE OutcomeKnown' /\ Terminated'
  BY <1>14 DEF PreparationFails
<1>15. ASSUME NEW t \in Tasks, NEW w \in Workers, Terminate(t, w)
       PROVE  OutcomeKnown' /\ Terminated'
  BY <1>15 DEF Terminate
<1>16. ASSUME NEW w \in Workers, WorkerCrashes(w) PROVE OutcomeKnown' /\ Terminated'
  BY <1>16 DEF WorkerCrashes, InFlight, Holding
<1>17. ASSUME AgentStops PROVE OutcomeKnown' /\ Terminated'
  BY <1>17 DEF AgentStops
<1>18. ASSUME UNCHANGED vars PROVE OutcomeKnown' /\ Terminated'
  BY <1>18 DEF vars
<1> QED BY <1>1, <1>2, <1>3, <1>4, <1>5, <1>6, <1>7, <1>8, <1>9, <1>10, <1>11,
           <1>12, <1>13, <1>14, <1>15, <1>16, <1>17, <1>18
        DEF Next, Acquire, Call, Container, Conclude

LEMMA JudgedAlways == Spec => []Judged
<1>1. Init => Judged
  BY TypeInit, JudgedInit DEF Judged
<1>2. Judged /\ [Next]_vars => Judged'
  BY TypeStep, JudgedStep DEF Judged
<1> QED BY <1>1, <1>2, PTL DEF Spec

(* A task whose handler has ended has an outcome.                          *)
THEOREM DecidedAlways == Spec => []Decided
<1>1. Judged => Decided
  BY DEF Judged, OutcomeKnown, Decided
<1> QED BY <1>1, JudgedAlways, PTL

(* Only a failure found before another worker's cancellation replaces it.  *)
THEOREM CancelledKept == Spec => CancelledNotFailed
<1>1. ASSUME Judged, [Next]_vars, NEW t \in Tasks,
             record[t] = "cancelled", record'[t] = "failed"
      PROVE  terminator[t] # workerOf[t]
  <2> USE DEF Judged, TypeOK, Terminated
  <2>1. record' # record
    BY <1>1
  <2>2. CASE \E q \in Tasks : Refuse(q)
    BY <1>1, <2>2 DEF Refuse, Move
  <2>3. CASE \E q \in Tasks : WriteFailed(q)
    BY <1>1, <2>3 DEF WriteFailed, Move
  <2>4. CASE \E q \in Tasks : Create(q) \/ Succeed(q) \/ WriteCancelled(q)
    BY <1>1, <2>4 DEF Create, Succeed, WriteCancelled
  <2>5. CASE \E q \in Tasks : \/ Count(q) \/ Add(q) \/ Call(q) \/ Container(q)
                              \/ ActivityFails(q) \/ Check(q) \/ Release(q)
                              \/ PreparationFails(q)
    BY <2>1, <2>5 DEF Count, Add, Call, Post, Unreachable, TimesOut, Container, Exits,
         Reply, ActivityFails, Check, Release, PreparationFails
  <2>6. CASE \/ \E q \in Tasks, w \in Workers : Terminate(q, w)
             \/ \E w \in Workers : WorkerCrashes(w)
             \/ AgentStops \/ UNCHANGED vars
    BY <2>1, <2>6 DEF Terminate, WorkerCrashes, AgentStops, vars
  <2> QED BY <1>1, <2>2, <2>3, <2>4, <2>5, <2>6 DEF Next, Acquire, Conclude
<1>2. Judged /\ [Next]_vars =>
        [\A t \in Tasks : record[t] = "cancelled" /\ record'[t] = "failed"
                            => terminator[t] # workerOf[t]]_vars
  BY <1>1
<1> QED BY <1>2, JudgedAlways, PTL DEF Spec, CancelledNotFailed
=============================================================================
