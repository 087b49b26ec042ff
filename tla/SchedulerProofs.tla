--------------------------- MODULE SchedulerProofs ---------------------------
(***************************************************************************)
(* Theorems about Scheduler, for any number of instances, schedules, runs  *)
(* and faults.                                                             *)
(***************************************************************************)
EXTENDS Scheduler, TLAPS

USE RunsNumbered, CronsKnown, BoundsNatural, NoneIsNothing

(* What the helpers do to the runs and records.                            *)
LEMMA MoveWithOK ==
  ASSUME RunsOK, NEW r \in Runs, NEW from, from # "unused", NEW to \in Pc,
         NEW replied \in BOOLEAN, NEW unwritten \in BOOLEAN,
         MoveWith(r, from, to, replied, unwritten)
  PROVE  /\ run' \in [Runs -> RunType]
         /\ \A q \in Runs : run'[q].pc # "unused" => run'[q].sched \in Schedules
         /\ run[r].sched \in Schedules
         /\ run[r].pc = from
         /\ \A q \in Runs : q # r => run'[q] = run[q]
         /\ run'[r].pc = to /\ run'[r].sched = run[r].sched
<1> DEFINE next == [run[r] EXCEPT !.pc = to, !.replied = replied, !.unwritten = unwritten]
<1>1. run \in [Runs -> RunType] /\ run[r] \in RunType
  BY DEF RunsOK
<1>2. next \in RunType /\ next.pc = to /\ next.sched = run[r].sched
  BY <1>1 DEF RunType
<1>3. run' = [run EXCEPT ![r] = next] /\ run[r].pc = from
  BY <1>1 DEF MoveWith
<1>4. run[r].sched \in Schedules
  BY <1>3 DEF RunsOK
<1> HIDE DEF next
<1> QED BY <1>1, <1>2, <1>3, <1>4 DEF RunsOK

LEMMA UnwrittenOK ==
  ASSUME RunsOK, NEW r \in Runs
  PROVE  run[r].replied \in BOOLEAN /\ run[r].unwritten \in BOOLEAN
  BY DEF RunsOK, RunType

LEMMA MoveOK ==
  ASSUME RunsOK, NEW r \in Runs, NEW from, from # "unused", NEW to \in Pc, Move(r, from, to)
  PROVE  /\ run' \in [Runs -> RunType]
         /\ \A q \in Runs : run'[q].pc # "unused" => run'[q].sched \in Schedules
         /\ run[r].sched \in Schedules
         /\ run[r].pc = from
         /\ \A q \in Runs : q # r => run'[q] = run[q]
         /\ run'[r].pc = to /\ run'[r].sched = run[r].sched
  BY UnwrittenOK, MoveWithOK DEF Move

LEMMA NewRunOK ==
  ASSUME RunsOK, NEW r \in Runs, NEW to \in Pc, NEW s \in Schedules, NEW i \in Instances,
         NEW kind \in {"cron", "manual"}, NewRun(r, to, s, i, kind)
  PROVE  /\ run' \in [Runs -> RunType]
         /\ \A q \in Runs : run'[q].pc # "unused" => run'[q].sched \in Schedules
  BY DEF RunsOK, NewRun, New, RunType

LEMMA WriteOK ==
  ASSUME record \in [Runs -> Status], NEW r \in Runs, NEW status \in Status
  PROVE  Write(r, status) \in [Runs -> Status]
  BY DEF Write, Status

LEMMA TouchOK ==
  ASSUME MemoryOK, NEW S, S \subseteq Schedules, Touch(S)
  PROVE  touched' \in [Instances -> SUBSET Schedules]
  BY DEF MemoryOK, Touch

LEMMA AcceptedIn == ASSUME NEW S PROVE Accepted(S) \subseteq S
  BY DEF Accepted

(* The steps that a failing call of Redis or the database gives a run.     *)
StepFails(r) ==
  \/ TryLockFails(r) \/ PrepareFails(r) \/ SucceedFails(r) \/ StoreFails(r)
  \/ FailFails(r) \/ ReleaseFails(r)

Moving == {"due", "locked", "cleared", "asked", "answered", "raised", "done"}

LEMMA FailMoves ==
  ASSUME RunsOK, NEW r \in Runs, StepFails(r)
  PROVE  \E from \in Moving, to \in {"raised", "done", "ended"},
            replied \in BOOLEAN, unwritten \in BOOLEAN :
           MoveWith(r, from, to, replied, unwritten)
<1> USE DEF Moving
<1>1. run[r].replied \in BOOLEAN /\ run[r].unwritten \in BOOLEAN
  BY UnwrittenOK
<1>2. CASE TryLockFails(r) \/ PrepareFails(r) \/ ReleaseFails(r)
  BY <1>1, <1>2 DEF TryLockFails, PrepareFails, ReleaseFails, Move
<1>3. CASE SucceedFails(r) \/ StoreFails(r)
  BY <1>3 DEF SucceedFails, StoreFails
<1>4. CASE FailFails(r)
  BY <1>1, <1>4 DEF FailFails
<1> QED BY <1>2, <1>3, <1>4 DEF StepFails

LEMMA TypeInit == Init => TypeOK
  BY DEF Init, TypeOK, RowsOK, MemoryOK, RunsOK, BoundsOK, RunType, Unused, New, Pc, Working, Status

LEMMA TypeStep == TypeOK /\ [Next]_vars => TypeOK'
<1> SUFFICES ASSUME TypeOK, [Next]_vars PROVE TypeOK'
  OBVIOUS
<1> USE DEF TypeOK
<1> HIDE DEF Pc, Status
<1>0. /\ {"unused", "due", "ended", "dead", "locked", "cleared", "asked", "answered",
         "raised", "done"} \subseteq Pc
      /\ {"none", "running", "success", "failed", "skipped", "cancelled", "deleted"} \subseteq Status
  BY DEF Pc, Working, Status
<1>1. ASSUME Backend PROVE TypeOK'
  <2>1. ASSUME NEW s \in Schedules, NEW on \in BOOLEAN, NEW c \in Crons, CreateSchedule(s, on, c)
        PROVE TypeOK'
    BY <2>1 DEF CreateSchedule, Edit, RowsOK, MemoryOK, RunsOK, BoundsOK, memory, runs
  <2>2. ASSUME NEW s \in Schedules, NEW on \in BOOLEAN, NEW c \in Crons, UpdateSchedule(s, on, c)
        PROVE TypeOK'
    <3>1. touched' \in [Instances -> SUBSET Schedules]
      BY <2>2, TouchOK DEF UpdateSchedule
    <3> QED BY <2>2, <3>1 DEF UpdateSchedule, Edit, RowsOK, MemoryOK, RunsOK, BoundsOK, memory, runs
  <2>3. ASSUME NEW S, DeleteSchedules(S) PROVE TypeOK'
    <3>1. record' \in [Runs -> Status]
      BY <2>3, <1>0 DEF DeleteSchedules, RunsOK
    <3> QED BY <2>3, <3>1 DEF DeleteSchedules, Edit, RowsOK, MemoryOK, RunsOK, BoundsOK, memory, runs
  <2>4. ASSUME NEW S, S \subseteq live, NEW on, SwitchAll(S, on), Edit, autonomy' \in BOOLEAN,
               UNCHANGED <<process, fresh, live, cron, memory, runs, record, faults>>
        PROVE TypeOK'
    <3>1. touched' \in [Instances -> SUBSET Schedules]
      BY <2>4, TouchOK DEF SwitchAll, RowsOK
    <3>2. enabled' \subseteq live
      BY <2>4 DEF SwitchAll, RowsOK
    <3> QED BY <2>4, <3>1, <3>2 DEF Edit, RowsOK, MemoryOK, RunsOK, BoundsOK, memory, runs
  <2>5. CASE PauseAll
    BY <2>5, <2>4 DEF PauseAll, RowsOK
  <2>6. CASE ResumeAll
    BY <2>6, <2>4 DEF ResumeAll, RowsOK
  <2>7. ASSUME NEW on \in BOOLEAN, SetAutonomy(on) PROVE TypeOK'
    BY <2>7, <2>4 DEF SetAutonomy
  <2>8. ASSUME NEW r \in Runs, Terminate(r) PROVE TypeOK'
    BY <2>8, <1>0, WriteOK
       DEF Terminate, Edit, RowsOK, MemoryOK, RunsOK, BoundsOK, rows, memory, runs
  <2> QED BY <1>1, <2>1, <2>2, <2>3, <2>5, <2>6, <2>7, <2>8 DEF Backend
<1>2. ASSUME NEW i \in Instances, Start(i) PROVE TypeOK'
  <2>1. Accepted(enabled) \subseteq Schedules
    BY AcceptedIn DEF RowsOK
  <2>2. MemoryOK'
    BY <1>2, <2>1 DEF Start, RowsOK, MemoryOK
  <2> QED BY <1>2, <2>2 DEF Start, RowsOK, RunsOK, BoundsOK, rows, runs
<1>3. ASSUME NEW i \in Instances, Sync(i) PROVE TypeOK'
  <2>1. Accepted(ToAdd(i)) \subseteq Schedules
    BY AcceptedIn DEF ToAdd, Appeared, SwitchedOn, Updated, RowsOK
  <2>2. MemoryOK'
    BY <1>3, <2>1 DEF Sync, RowsOK, MemoryOK
  <2> QED BY <1>3, <2>2 DEF Sync, RowsOK, RunsOK, BoundsOK, rows, runs
<1>4. ASSUME NEW s \in Schedules, Tick(s) PROVE TypeOK'
  BY <1>4 DEF Tick, RowsOK, MemoryOK, RunsOK, BoundsOK, rows, runs
<1>5. ASSUME NEW s \in Schedules, Expire(s) PROVE TypeOK'
  BY <1>5 DEF Expire, RowsOK, MemoryOK, RunsOK, BoundsOK, rows, memory
<1>6. ASSUME NEW i \in Instances, NEW s \in Schedules, NEW r \in Runs,
             Fire(i, s, r) \/ SkipFire(i, s, r) \/ Trigger(i, s, r)
      PROVE TypeOK'
  <2>1. \E pc \in {"due", "ended"}, kind \in {"cron", "manual"} : NewRun(r, pc, s, i, kind)
    BY <1>6 DEF Fire, SkipFire, Trigger
  <2>4. record' \in [Runs -> Status] /\ lock' = lock /\ renewing' = renewing
    BY <1>6, <1>0 DEF Fire, SkipFire, Trigger, RunsOK
  <2>2. RunsOK'
    <3>1. PICK pc \in {"due", "ended"}, kind \in {"cron", "manual"} : NewRun(r, pc, s, i, kind)
      BY <2>1
    <3>2. pc \in Pc
      BY <1>0
    <3> QED BY <2>4, <3>1, <3>2, NewRunOK DEF RunsOK
  <2>3. MemoryOK'
    BY <1>6 DEF Fire, SkipFire, Trigger, MemoryOK, memory
  <2> QED BY <1>6, <2>2, <2>3 DEF Fire, SkipFire, Trigger, RowsOK, BoundsOK, rows
<1>7. ASSUME NEW r \in Runs, RunStep(r) PROVE TypeOK'
  <2>1. CASE TryLock(r)
    <3>1. RunsOK
      OBVIOUS
    <3>2. run[r].sched \in Schedules
      BY <2>1, <3>1 DEF TryLock, RunsOK
    <3>3. Move(r, "due", "locked") \/ Move(r, "due", "ended")
      BY <2>1 DEF TryLock
    <3>4. lock' \in [Schedules -> Runs \union {None}] /\ renewing' \subseteq Runs
      BY <2>1, <3>1, <3>2 DEF TryLock, RunsOK
    <3>5. RunsOK'
      BY <2>1, <3>1, <3>3, <3>4, <1>0, MoveOK DEF TryLock, RunsOK
    <3> QED BY <2>1, <3>5 DEF TryLock, RowsOK, MemoryOK, BoundsOK, rows, memory
  <2>2. CASE Check(r)
    BY <2>2, <1>0, MoveOK DEF Check, RowsOK, MemoryOK, RunsOK, BoundsOK, rows, memory
  <2>3. CASE Ask(r)
    BY <2>3, <1>0, MoveOK DEF Ask, RowsOK, MemoryOK, RunsOK, BoundsOK, rows, memory
  <2>4. CASE Succeed(r)
    <3>1. RunsOK'
      <4>1. /\ run[r].unwritten \in BOOLEAN /\ MoveWith(r, "asked", "answered", TRUE, run[r].unwritten)
            /\ record' = Write(r, "success") /\ UNCHANGED <<lock, renewing>>
        BY <2>4, UnwrittenOK DEF Succeed
      <4>2. record' \in [Runs -> Status]
        BY <1>0, <4>1, WriteOK DEF RunsOK
      <4>3. /\ run' \in [Runs -> RunType]
            /\ \A q \in Runs : run'[q].pc # "unused" => run'[q].sched \in Schedules
        BY <1>0, <4>1, MoveWithOK
      <4>4. lock' \in [Schedules -> Runs \union {None}] /\ renewing' \subseteq Runs
        BY <4>1 DEF RunsOK
      <4> HIDE DEF TypeOK
      <4> QED BY <4>2, <4>3, <4>4 DEF RunsOK
    <3> QED BY <2>4, <3>1 DEF Succeed, RowsOK, MemoryOK, BoundsOK, rows, memory
  <2>5. CASE Fail(r)
    BY <2>5, <1>0, MoveOK, WriteOK DEF Fail, RowsOK, MemoryOK, RunsOK, BoundsOK, rows, memory
  <2>6. CASE StoreRunTimes(r)
    <3>1. touched' \in [Instances -> SUBSET Schedules]
      BY <2>6, TouchOK DEF StoreRunTimes, RowsOK
    <3> QED BY <2>6, <3>1, <1>0, MoveOK
               DEF StoreRunTimes, RowsOK, MemoryOK, RunsOK, BoundsOK, rows, memory
  <2>7. CASE Release(r)
    BY <2>7, <1>0, MoveOK DEF Release, RowsOK, MemoryOK, RunsOK, BoundsOK, rows, memory
  <2> QED BY <1>7, <2>1, <2>2, <2>3, <2>4, <2>5, <2>6, <2>7 DEF RunStep
<1>8. ASSUME Fault PROVE TypeOK'
  <2>1. ASSUME NEW r \in Runs, StepFails(r) PROVE TypeOK'
    <3>1. PICK from \in Moving, to \in {"raised", "done", "ended"},
               replied \in BOOLEAN, unwritten \in BOOLEAN :
            MoveWith(r, from, to, replied, unwritten)
      BY <2>1, FailMoves
    <3>2. /\ lock' \in [Schedules -> Runs \union {None}]
          /\ renewing' \subseteq Runs /\ record' = record
      BY <2>1 DEF StepFails, TryLockFails, PrepareFails, SucceedFails, StoreFails, FailFails,
                  ReleaseFails, RunsOK
    <3>3. from # "unused" /\ to \in Pc
      BY <1>0 DEF Moving
    <3>4. RunsOK'
      BY <3>1, <3>2, <3>3, MoveWithOK DEF RunsOK
    <3>5. Breaks /\ UNCHANGED <<rows, memory, touched, edits>>
      BY <2>1 DEF StepFails, TryLockFails, PrepareFails, SucceedFails, StoreFails, FailFails,
                  ReleaseFails
    <3> QED BY <3>4, <3>5 DEF Breaks, RowsOK, MemoryOK, BoundsOK, rows, memory
  <2>2. ASSUME NEW r \in Runs, RenewalFails(r) PROVE TypeOK'
    BY <2>2 DEF RenewalFails, Breaks, RowsOK, MemoryOK, RunsOK, BoundsOK, rows, memory
  <2>3. ASSUME NEW i \in Instances, Crash(i) PROVE TypeOK'
    <3>1. \A r \in Runs : run'[r] = run[r] \/ run'[r] = [run[r] EXCEPT !.pc = "dead"]
      BY <2>3 DEF Crash
    <3>2. \A r \in Runs : run[r].sched \in Schedules \/ run'[r] = run[r]
      BY <2>3 DEF Crash, RunsOK, At, Working
    <3>3. DOMAIN run' = Runs /\ run' = [r \in Runs |-> run'[r]]
      BY <2>3 DEF Crash
    <3>4. run' \in [Runs -> RunType]
      <4>1. \A r \in Runs : run[r] \in RunType
        BY DEF RunsOK
      <4>2. \A r \in Runs : [run[r] EXCEPT !.pc = "dead"] \in RunType
        BY <1>0, <4>1 DEF RunType
      <4> HIDE DEF TypeOK
      <4> QED BY <3>1, <3>3, <4>1, <4>2
    <3>5. \A r \in Runs : run'[r].pc # "unused" => run'[r].sched \in Schedules
      <4> SUFFICES ASSUME NEW r \in Runs, run'[r].pc # "unused" PROVE run'[r].sched \in Schedules
        OBVIOUS
      <4>1. CASE run'[r] = run[r]
        BY <4>1 DEF RunsOK
      <4>2. CASE run'[r] # run[r]
        <5>1. run'[r] = [run[r] EXCEPT !.pc = "dead"] /\ run[r].sched \in Schedules
          BY <4>2, <3>1, <3>2
        <5>2. run[r] \in RunType
          BY DEF RunsOK
        <5> HIDE DEF TypeOK
        <5> QED BY <5>1, <5>2 DEF RunType
      <4> QED BY <4>1, <4>2
    <3>6. renewing' \subseteq Runs /\ lock' = lock /\ record' = record
      BY <2>3 DEF Crash, RunsOK
    <3>7. RunsOK'
      <4>1. lock' \in [Schedules -> Runs \union {None}] /\ record' \in [Runs -> Status]
        BY <3>6 DEF RunsOK
      <4> HIDE DEF TypeOK
      <4> QED BY <3>4, <3>5, <3>6, <4>1 DEF RunsOK
    <3>8. MemoryOK'
      BY <2>3 DEF Crash, MemoryOK
    <3> QED BY <2>3, <3>7, <3>8 DEF Crash, Breaks, RowsOK, BoundsOK, rows
  <2> QED BY <1>8, <2>1, <2>2, <2>3 DEF Fault, StepFails
<1>9. ASSUME UNCHANGED vars PROVE TypeOK'
  BY <1>9 DEF vars, rows, memory, runs, RowsOK, MemoryOK, RunsOK, BoundsOK
<1> QED BY <1>1, <1>2, <1>3, <1>4, <1>5, <1>6, <1>7, <1>8, <1>9 DEF Next

(* Every variable of the scheduler, the rows and the lock keeps its type.  *)
THEOREM TypeCorrect == Spec => []TypeOK
  BY TypeInit, TypeStep, PTL DEF Spec

-----------------------------------------------------------------------------
(* A step that starts no run's work and takes no lock from a renewed run   *)
(* keeps the locks.                                                        *)
LEMMA LocksKept ==
  ASSUME TypeOK, HoldsItsLock,
         \A q \in At(Working)' \intersect renewing' :
           /\ q \in At(Working) \intersect renewing
           /\ run'[q].sched = run[q].sched
           /\ lock'[run[q].sched] = lock[run[q].sched]
  PROVE  HoldsItsLock'
  BY DEF HoldsItsLock

LEMMA LockInit == Init => HoldsItsLock
  BY DEF Init, HoldsItsLock

LEMMA LockStep == TypeOK /\ HoldsItsLock /\ [Next]_vars => HoldsItsLock'
<1> SUFFICES ASSUME TypeOK, HoldsItsLock, [Next]_vars PROVE HoldsItsLock'
  OBVIOUS
<1>0. RunsOK /\ Working \subseteq Pc
  BY DEF TypeOK, Pc
<1> USE DEF At, Working
<1>1. ASSUME runs' = runs PROVE HoldsItsLock'
  BY <1>1, LocksKept DEF runs
<1>2. CASE Backend
  BY <1>1, <1>2 DEF Backend, CreateSchedule, UpdateSchedule, DeleteSchedules, PauseAll,
                    ResumeAll, SetAutonomy, Terminate
<1>3. ASSUME NEW i \in Instances, Start(i) \/ Sync(i) PROVE HoldsItsLock'
  BY <1>1, <1>3 DEF Start, Sync
<1>4. ASSUME NEW s \in Schedules, Tick(s) PROVE HoldsItsLock'
  BY <1>1, <1>4 DEF Tick
<1>5. ASSUME NEW s \in Schedules, Expire(s) PROVE HoldsItsLock'
  <2>1. \A q \in At(Working) \intersect renewing : run[q].sched # s
    BY <1>5 DEF Expire, HoldsItsLock
  <2> QED BY <1>0, <1>5, <2>1, LocksKept DEF Expire, RunsOK
<1>6. ASSUME NEW i \in Instances, NEW s \in Schedules, NEW r \in Runs,
             Fire(i, s, r) \/ SkipFire(i, s, r) \/ Trigger(i, s, r)
      PROVE HoldsItsLock'
  BY <1>0, <1>6, LocksKept DEF Fire, SkipFire, Trigger, NewRun, New, RunsOK
<1>7. ASSUME NEW r \in Runs, TryLock(r) PROVE HoldsItsLock'
  <2>1. CASE lock[run[r].sched] = None
    <3>1. run[r].sched \in Schedules
      BY <1>0, <1>7 DEF TryLock, RunsOK
    <3>2. \A q \in At(Working) \intersect renewing : run[q].sched # run[r].sched
      BY <1>0, <2>1 DEF HoldsItsLock, RunsOK
    <3>3. \A q \in Runs : q # r => run'[q] = run[q]
      BY <1>0, <1>7, <2>1, MoveOK DEF TryLock, Pc
    <3>4. run'[r].sched = run[r].sched
      BY <1>0, <1>7, <2>1, MoveOK DEF TryLock, Pc
    <3>5. /\ renewing' = renewing \union {r} /\ lock'[run[r].sched] = r
          /\ \A s \in Schedules : s # run[r].sched => lock'[s] = lock[s]
      BY <1>0, <1>7, <2>1, <3>1 DEF TryLock, RunsOK
    <3> SUFFICES ASSUME NEW q \in At(Working)' \intersect renewing'
                 PROVE lock'[run'[q].sched] = q
      BY DEF HoldsItsLock
    <3>6. CASE q = r
      BY <3>4, <3>5, <3>6
    <3>7. CASE q # r
      <4>1. q \in At(Working) \intersect renewing /\ run'[q].sched = run[q].sched
        BY <3>3, <3>5, <3>7
      <4>2. run[q].sched # run[r].sched /\ run[q].sched \in Schedules
        BY <1>0, <3>2, <4>1 DEF RunsOK
      <4> QED BY <3>5, <4>1, <4>2 DEF HoldsItsLock
    <3> QED BY <3>6, <3>7
  <2>2. CASE lock[run[r].sched] # None
    <3>1. run'[r].pc = "ended" /\ \A q \in Runs : q # r => run'[q] = run[q]
      BY <1>0, <1>7, <2>2, MoveOK DEF TryLock, Pc
    <3> QED BY <1>7, <2>2, <3>1, LocksKept DEF TryLock
  <2> QED BY <2>1, <2>2
<1>8. ASSUME NEW r \in Runs, NEW from \in {"locked", "cleared", "asked", "answered", "raised"},
             NEW to \in Working, NEW replied \in BOOLEAN, NEW unwritten \in BOOLEAN,
             MoveWith(r, from, to, replied, unwritten), UNCHANGED <<lock, renewing>>
      PROVE HoldsItsLock'
  <2>0. from # "unused" /\ to \in Pc
    BY <1>0, <1>8
  <2>3. /\ run[r].pc = from /\ run'[r].pc = to /\ run'[r].sched = run[r].sched
        /\ \A q \in Runs : q # r => run'[q] = run[q]
    BY <1>0, <1>8, <2>0, MoveWithOK
  <2>1. \A q \in Runs : q \in At(Working)' <=> q \in At(Working)
    BY <1>8, <2>3
  <2>2. \A q \in Runs : run'[q].sched = run[q].sched
    BY <2>3
  <2> QED BY <1>8, <2>1, <2>2, LocksKept
<1>13. ASSUME NEW r \in Runs,
             Check(r) \/ Ask(r) \/ Succeed(r) \/ Fail(r) \/ StoreRunTimes(r)
               \/ PrepareFails(r) \/ SucceedFails(r) \/ StoreFails(r) \/ FailFails(r)
      PROVE HoldsItsLock'
  <2>1. run[r].replied \in BOOLEAN /\ run[r].unwritten \in BOOLEAN
    BY <1>0, UnwrittenOK
  <2>2. UNCHANGED <<lock, renewing>>
    BY <1>13 DEF Check, Ask, Succeed, Fail, StoreRunTimes, PrepareFails, SucceedFails,
                 StoreFails, FailFails
  <2>3. \E from \in {"locked", "cleared", "asked", "answered", "raised"}, to \in Working,
          replied \in BOOLEAN, unwritten \in BOOLEAN :
            MoveWith(r, from, to, replied, unwritten)
    BY <1>13, <2>1 DEF Check, Ask, Succeed, Fail, StoreRunTimes, PrepareFails, SucceedFails,
                       StoreFails, FailFails, Move
  <2> QED BY <1>8, <2>2, <2>3
<1>14. ASSUME NEW r \in Runs, TryLockFails(r) PROVE HoldsItsLock'
  <2>1. /\ r \notin At(Working)' /\ renewing' = renewing
        /\ \A q \in Runs : q # r => run'[q] = run[q]
    BY <1>0, <1>14 DEF TryLockFails, Move, MoveWith, RunsOK
  <2>2. \A s \in Schedules : lock[s] # None => lock'[s] = lock[s]
    BY <1>0, <1>14 DEF TryLockFails, RunsOK
  <2> SUFFICES ASSUME NEW q \in At(Working)' \intersect renewing'
               PROVE lock'[run'[q].sched] = q
    BY DEF HoldsItsLock
  <2>3. q \in Runs /\ q \in renewing /\ run'[q] = run[q]
    BY <2>1
  <2>4. q \in At(Working)
    BY <2>3
  <2>5. run[q].sched \in Schedules /\ lock[run[q].sched] = q
    BY <1>0, <2>3, <2>4 DEF RunsOK, HoldsItsLock
  <2>6. lock[run[q].sched] # None
    BY <2>3, <2>5
  <2> QED BY <2>2, <2>3, <2>5, <2>6
<1>9. ASSUME NEW r \in Runs, Release(r) PROVE HoldsItsLock'
  BY <1>0, <1>9, LocksKept DEF Release, Move, MoveWith, RunsOK, HoldsItsLock
<1>15. ASSUME NEW r \in Runs, ReleaseFails(r) PROVE HoldsItsLock'
  BY <1>0, <1>15, LocksKept DEF ReleaseFails, Move, MoveWith, RunsOK
<1>10. ASSUME NEW r \in Runs, RenewalFails(r) PROVE HoldsItsLock'
  BY <1>0, <1>10, LocksKept DEF RenewalFails, RunsOK
<1>11. ASSUME NEW i \in Instances, Crash(i) PROVE HoldsItsLock'
  BY <1>0, <1>11, LocksKept DEF Crash, RunsOK
<1>12. CASE UNCHANGED vars
  BY <1>1, <1>12 DEF vars, runs
<1> QED BY <1>2, <1>3, <1>4, <1>5, <1>6, <1>7, <1>9, <1>10, <1>11, <1>12,
           <1>13, <1>14, <1>15 DEF Next, RunStep, Fault

(* A run whose renewal works has the lock of its schedule from the check   *)
(* to the release, whatever expires, crashes or is released by others.     *)
THEOREM LockHeldAlways == Spec => []HoldsItsLock
<1> USE DEF Spec
<1> QED BY LockInit, LockStep, TypeCorrect, PTL

(* Two runs of one schedule work at the same time only if one of them has  *)
(* lost its renewal.                                                       *)
OneRunPerSchedule ==
  \A q, r \in At(Working) \intersect renewing : run[q].sched = run[r].sched => q = r

(* Mutual exclusion of the runs of a schedule, over all instances.         *)
THEOREM OneRunAtATime == Spec => []OneRunPerSchedule
<1>1. HoldsItsLock => OneRunPerSchedule
  BY DEF HoldsItsLock, OneRunPerSchedule
<1> QED BY <1>1, LockHeldAlways, PTL
=============================================================================
