--------------------------- MODULE ProcessesProofs ---------------------------
(***************************************************************************)
(* Theorems about Processes, for any definitions, limits and bounds.       *)
(***************************************************************************)
EXTENDS Processes, FiniteSetTheorems, TLAPS

USE DefsTyped, BoundsKnown

LEMMA BudgetNat ==
  ASSUME CountsOK
  PROVE  /\ budget.restarts \in Nat /\ budget.faults \in Nat
         /\ restarts \in Nat /\ faults \in Nat
  BY DEF CountsOK

LEMMA NoDef == None \notin Defs
  BY DefsFinite

LEMMA NoExec == 0 \notin Execs
  BY DEF Execs

(* What happens to a record that is saved.                                 *)
LEMMA SavesOK ==
  ASSUME RecordsOK, LinksOK, NEW e \in Execs, Created(e),
         NEW st \in Active \union {"completed", "failed"},
         NEW stp \in {"pending", "running", "waiting_approval", "completed", "failed", "skipped"},
         Saves(e, st, stp), UNCHANGED idVars
  PROVE  RecordsOK' /\ \A f \in Execs : Created(f)' <=> Created(f)
  BY DEF RecordsOK, LinksOK, Saves, Created, Active, idVars

LEMMA TypeInit == Init => TypeOK
  BY NoDef DEF Init, TypeOK, DefsOK, RecordsOK, RunsOK, LinksOK, CountsOK, Created, Kinds, Runs

LEMMA TypeUsers == TypeOK /\ Users => TypeOK'
<1> SUFFICES ASSUME TypeOK, Users PROVE TypeOK'
  OBVIOUS
<1> USE DEF TypeOK
<1>1. ASSUME NEW d \in Defs, NEW k \in Kinds, Draft(d, k) \/ Update(d, k) PROVE TypeOK'
  BY <1>1, SMTT(30) DEF Draft, Update, Turns, idVars, runVars, DefsOK, RecordsOK, RunsOK, LinksOK, CountsOK, Created
<1>2. ASSUME NEW d \in Defs, Publish(d) \/ Archive(d) \/ Delete(d) PROVE TypeOK'
  BY <1>2, BudgetNat DEF Publish, Archive, Delete, register_process_schedules, unregister_process_schedules,
    Writes, Turns, idVars, runVars, DefsOK, RecordsOK, RunsOK, LinksOK, CountsOK, Created
<1>3. ASSUME NEW e \in Execs, NEW d \in Defs, StartExecution(e, d) PROVE TypeOK'
  BY <1>3, NoDef DEF StartExecution, Creates, Fresh, defVars, DefsOK, RecordsOK, RunsOK,
    LinksOK, CountsOK, Created, Runs, Active
<1>7. ASSUME NEW e \in Execs, NEW d \in Defs, InvokeWebhook(e, d) PROVE TypeOK'
  BY <1>7, NoDef DEF InvokeWebhook, Creates, Fresh, defVars, DefsOK, RecordsOK, RunsOK,
    LinksOK, CountsOK, Created, Runs, Active
<1>4. ASSUME NEW e \in Execs, NEW f \in Execs, RetryExecution(e, f) PROVE TypeOK'
  BY <1>4, NoDef DEF RetryExecution, Creates, Fresh, defVars, DefsOK, RecordsOK, RunsOK,
    LinksOK, CountsOK, Created, Runs, Active
<1>5. ASSUME NEW e \in Execs, CancelExecution(e) PROVE TypeOK'
  BY <1>5 DEF CancelExecution, defVars, idVars, runVars, DefsOK, RecordsOK, RunsOK,
    LinksOK, CountsOK, Created, Active
<1>6. ASSUME NEW e \in Execs, NEW v \in {"approved", "rejected"}, Decide(e, v) PROVE TypeOK'
  BY <1>6 DEF Decide, Others, defVars, idVars, DefsOK, RecordsOK, RunsOK,
    LinksOK, CountsOK, Created, Runs
<1> QED BY <1>1, <1>2, <1>3, <1>4, <1>5, <1>6, <1>7 DEF Users

LEMMA SucceedsOK ==
  ASSUME TypeOK, NEW e \in Execs, Created(e), UNCHANGED idVars, Succeeds(e) \/ GivesUp(e) \/ Fails(e)
  PROVE  /\ RecordsOK' /\ tries' \in [Execs -> Nat]
         /\ \A f \in Execs : Created(f)' <=> Created(f)
         /\ \A f \in Execs : f # e => status'[f] = status[f] /\ step'[f] = step[f]
         /\ status'[e] = "running"
  BY DEF TypeOK, RunsOK, RecordsOK, LinksOK, Succeeds, GivesUp, Fails, Saves, Created, Active, idVars

LEMMA TypeRunStep ==
  ASSUME TypeOK, NEW e \in Execs, RunStep(e)
  PROVE  TypeOK'
<1> USE DEF TypeOK
<1>0. run[e] # "none" => Created(e)
  BY DEF LinksOK
<1>1. CASE Begin(e)
  BY <1>1, <1>0, SMTT(30) DEF Begin, Others, defVars, idVars, DefsOK, RecordsOK, RunsOK, LinksOK, CountsOK, Created, Runs, Active
<1>2. CASE Resume(e)
  BY <1>2, <1>0 DEF Resume, Saves, Others, defVars, idVars, DefsOK, RecordsOK, RunsOK, LinksOK, CountsOK, Created, Runs, Active
<1>3. CASE StartStep(e)
  BY <1>3, <1>0 DEF StartStep, Saves, Others, defVars, idVars, DefsOK, RecordsOK, RunsOK, LinksOK, CountsOK, Created, Active
<1>4. CASE AgentAnswers(e)
  BY <1>4, <1>0, SucceedsOK DEF AgentAnswers, InStep, Others, defVars, idVars, DefsOK, RecordsOK, RunsOK, LinksOK, CountsOK, Created
<1>5. CASE AskHuman(e)
  BY <1>5, <1>0 DEF AskHuman, InStep, Pauses, Returns, Saves, Others, defVars, idVars, DefsOK, RecordsOK, RunsOK, LinksOK, CountsOK,
    Created, Runs, Returned, Active
<1>6. CASE HumanAnswered(e)
  BY <1>6, <1>0, SucceedsOK DEF HumanAnswered, InStep, Others, defVars, idVars, DefsOK, RecordsOK, RunsOK, LinksOK, CountsOK, Created
<1>7. CASE Ends(e)
  BY <1>7, <1>0, SMTT(30) DEF Ends, Returns, Saves, Others, defVars, idVars, DefsOK, RecordsOK, RunsOK, LinksOK, CountsOK,
    Created, Runs, Returned, Active
<1>8. ASSUME NEW c \in Execs, Spawn(e, c) PROVE TypeOK'
  <2>1. PICK x \in Defs : Creates(c, x, "sub_process", e, "running")
    BY <1>8 DEF Spawn, Found
  <2>2. Created(e) /\ ~Created(c)
    BY <1>8, <1>0, <2>1 DEF Spawn, InStep, Creates, Fresh
  <2>3. RecordsOK'
    BY <2>1, <2>2 DEF Creates, RecordsOK, Active
  <2>4. RunsOK'
    BY <1>8, <2>1 DEF Spawn, Creates, RunsOK, Runs
  <2>5. LinksOK'
    <3>1. awaits' = [awaits EXCEPT ![e] = c] /\ run' = [run EXCEPT ![c] = "active"]
      BY <1>8 DEF Spawn
    <3>2. \A f \in Execs : awaits'[f] # 0 => parent'[awaits'[f]] = f
      BY <2>1, <2>2, <3>1, NoExec DEF Creates, RecordsOK, RunsOK, LinksOK
    <3>3. \A f \in Execs : parent'[f] # 0 => status'[parent'[f]] # "absent"
      BY <2>1, <2>2 DEF Creates, RecordsOK, LinksOK, Created
    <3> QED BY <2>1, <2>2, <3>1, <3>2, <3>3, NoDef DEF Creates, RecordsOK, RunsOK, LinksOK, Created
  <2> QED BY <2>1, <2>3, <2>4, <2>5 DEF Creates, defVars, DefsOK, CountsOK
<1>9. CASE NotFound(e)
  BY <1>9, <1>0, SucceedsOK DEF NotFound, InStep, Others, defVars, idVars, DefsOK, RecordsOK, RunsOK, LinksOK, CountsOK, Created
<1>10. CASE Collect(e)
  <2>1. Created(e) /\ awaits[e] \in Execs
    BY <1>10, <1>0 DEF Collect, InStep, RunsOK
  <2>2. RecordsOK' /\ tries' \in [Execs -> Nat] /\ \A f \in Execs : Created(f)' <=> Created(f)
    BY <1>10, <2>1, SucceedsOK DEF Collect, Saves, Others, idVars, RecordsOK, RunsOK, LinksOK, Created, Active
  <2>3. UNCHANGED <<defVars, idVars, cancelled, dropped, budget, restarts, approval>>
    BY <1>10 DEF Collect, Others
  <2>4. run' \in [Execs -> Runs] /\ awaits' = [awaits EXCEPT ![e] = 0]
    BY <1>10, <2>1 DEF Collect, RunsOK, Runs
  <2>5. \A f \in Execs : ~Created(f) => run'[f] = "none"
    BY <1>10, <2>1 DEF Collect, RunsOK, LinksOK
  <2>6. RunsOK'
    BY <2>1, <2>2, <2>3, <2>4 DEF RunsOK
  <2>7. \A f \in Execs : ~Created(f) => step'[f] = "pending"
    BY <1>10, <2>1 DEF Collect, Saves, Succeeds, Fails, GivesUp, RecordsOK, LinksOK
  <2>8. LinksOK'
    <3>1. \A f \in Execs : awaits'[f] = IF f = e THEN 0 ELSE awaits[f]
      BY <2>4 DEF RunsOK
    <3>2. parent' = parent /\ of' = of
      BY <2>3 DEF idVars
    <3>3. \A f \in Execs : awaits'[f] # 0 => parent'[awaits'[f]] = f
      BY <3>1, <3>2 DEF LinksOK
    <3>4. \A f \in Execs : parent'[f] # 0 => Created(parent[f])'
      BY <2>2, <3>2 DEF LinksOK, RecordsOK
    <3>5. \A f \in Execs : ~Created(f) => awaits'[f] = 0 /\ parent'[f] = 0
      BY <3>1, <3>2 DEF LinksOK
    <3>6. \A f \in Execs : of'[f] \in Defs <=> Created(f)'
      BY <2>2, <3>2 DEF LinksOK
    <3>7. \A f \in Execs : ~Created(f)' => step'[f] = "pending" /\ run'[f] = "none" /\ awaits'[f] = 0 /\ parent'[f] = 0
      BY <2>2, <2>5, <2>7, <3>5
    <3> HIDE DEF Created, TypeOK
    <3> QED BY <3>3, <3>4, <3>6, <3>7, <3>2 DEF LinksOK
  <2> QED BY <2>2, <2>3, <2>6, <2>8 DEF defVars, DefsOK, CountsOK
<1>11. CASE ChildTimesOut(e)
  <2>1. Created(e) /\ awaits[e] \in Execs
    BY <1>11, <1>0 DEF ChildTimesOut, InStep, RunsOK
  <2> QED BY <1>11, <2>1, SucceedsOK DEF ChildTimesOut, InStep, defVars, idVars, DefsOK, RecordsOK, RunsOK, LinksOK, CountsOK, Runs, Created
<1>12. CASE Recover(e)
  <2>1. Created(e)
    BY <1>12, <1>0 DEF Recover
  <2>2. RecordsOK' /\ \A f \in Execs : Created(f)' <=> Created(f)
    <3>1. UNCHANGED <<status, step>> \/ \E st \in {"failed", "running"}, stp \in {"pending", step[e]} : Saves(e, st, stp)
      BY <1>12 DEF Recover
    <3> QED BY <1>12, <2>1, <3>1 DEF Recover, Saves, Others, idVars, RecordsOK, LinksOK, Created, Active
  <2>3. RunsOK' /\ run' \in [Execs -> Runs]
    BY <1>12 DEF Recover, RunsOK, Runs, Others, idVars
  <2> QED BY <1>12, <2>1, <2>2, <2>3 DEF Recover, Saves, Others, defVars, idVars, DefsOK, RunsOK, LinksOK, CountsOK, RecordsOK
<1> QED BY <1>1, <1>2, <1>3, <1>4, <1>5, <1>6, <1>7, <1>8, <1>9, <1>10, <1>11, <1>12 DEF RunStep

LEMMA TypeStep == TypeOK /\ [Next]_vars => TypeOK'
<1> SUFFICES ASSUME TypeOK, [Next]_vars PROVE TypeOK'
  OBVIOUS
<1>1. CASE Restart
  BY <1>1, BudgetNat DEF Restart, TypeOK, defVars, idVars, DefsOK, RecordsOK, RunsOK, LinksOK, CountsOK, Created, Runs, Active
<1>2. CASE UNCHANGED vars
  BY <1>2 DEF vars, TypeOK, DefsOK, RecordsOK, RunsOK, LinksOK, CountsOK, Created
<1> QED BY <1>1, <1>2, TypeUsers, TypeRunStep DEF Next

(* Every variable keeps its type, and the links between records hold.      *)
THEOREM TypeCorrect == Spec => []TypeOK
BY TypeInit, TypeStep, PTL DEF Spec

-----------------------------------------------------------------------------
(* Most steps of a run leave the definitions and the identity of the       *)
(* executions alone.                                                       *)
LEMMA RunStepKinds ==
  ASSUME NEW e \in Execs, RunStep(e)
  PROVE  UNCHANGED <<defVars, idVars, cancelled, budget, restarts>> \/ \E c \in Execs : Spawn(e, c)
BY DEF RunStep, Begin, Resume, StartStep, AgentAnswers, AskHuman, HumanAnswered, Ends, NotFound,
  Collect, ChildTimesOut, Recover, Others

(* Execution e begins to exist, of definition d, as a child of p or of 0.  *)
Starts(e, d, p) ==
  /\ \E how \in {"api", "retry", "webhook", "sub_process"}, st \in {"pending", "running"} :
       Creates(e, d, how, p, st)
  /\ UNCHANGED defVars
  /\ \/ phase[d] = "published"
     \/ p = 0 /\ \E f \in Execs : Created(f) /\ of[f] = d
  /\ p # 0 => Spawn(p, e)

LEMMA StepKinds ==
  ASSUME TypeOK, [Next]_vars
  PROVE  \/ UNCHANGED <<defVars, idVars>>
         \/ UNCHANGED idVars /\ UNCHANGED status /\ \E d \in Defs :
              (\E k \in Kinds : Draft(d, k) \/ Update(d, k)) \/ Publish(d) \/ Archive(d) \/ Delete(d)
         \/ \E e \in Execs, d \in Defs, p \in Execs \union {0} : Starts(e, d, p)
<1>1. CASE \E e \in Execs : RunStep(e)
  <2>1. PICK e \in Execs : RunStep(e)
    BY <1>1
  <2>2. CASE UNCHANGED <<defVars, idVars, cancelled, budget, restarts>>
    BY <2>2
  <2>4. CASE \E c \in Execs : Spawn(e, c)
    <3>1. PICK c \in Execs : Spawn(e, c)
      BY <2>4
    <3>2. PICK x \in Defs : phase[x] = "published" /\ Creates(c, x, "sub_process", e, "running")
      BY <3>1 DEF Spawn, Found
    <3>3. Starts(c, x, e)
      BY <3>1, <3>2 DEF Creates, Starts
    <3> QED BY <3>3
  <2> QED BY <2>1, <2>2, <2>4, RunStepKinds
<1>2. CASE Restart
  BY <1>2 DEF Restart
<1>3. CASE UNCHANGED vars
  BY <1>3 DEF vars, defVars, idVars
<1>4. CASE Users
  <2>1. ASSUME NEW d \in Defs, NEW k \in contents[d], Draft(d, k) \/ Update(d, k)
        PROVE  k \in Kinds /\ UNCHANGED idVars /\ UNCHANGED status
    BY <2>1 DEF Draft, Update, Turns
  <2>2. ASSUME NEW d \in Defs, Publish(d) \/ Archive(d) \/ Delete(d)
        PROVE  UNCHANGED idVars /\ UNCHANGED status
    BY <2>2 DEF Publish, Archive, Delete, Turns
  <2>3. ASSUME NEW e \in Execs, NEW d \in Defs, StartExecution(e, d)
        PROVE  Starts(e, d, 0)
    BY <2>3 DEF StartExecution, Creates, Starts
  <2>4. ASSUME NEW e \in Execs, NEW d \in Defs, InvokeWebhook(e, d)
        PROVE  Starts(e, d, 0)
    BY <2>4 DEF InvokeWebhook, Creates, Starts
  <2>5. ASSUME NEW e \in Execs, NEW f \in Execs, RetryExecution(e, f)
        PROVE  of[f] \in Defs /\ Starts(e, of[f], 0)
    BY <2>5 DEF RetryExecution, Creates, TypeOK, LinksOK, Created, Starts
  <2>6. ASSUME NEW e \in Execs, CancelExecution(e) \/ \E v \in {"approved", "rejected"} : Decide(e, v)
        PROVE  UNCHANGED <<defVars, idVars>>
    BY <2>6 DEF CancelExecution, Decide, Others
  <2> QED BY <1>4, <2>1, <2>2, <2>3, <2>4, <2>5, <2>6 DEF Users
<1> QED BY <1>1, <1>2, <1>3, <1>4 DEF Next

(* What an execution is never changes, nor the content that it executes.   *)
LEMMA Frame ==
  ASSUME TypeOK, PublishedOnly, [Next]_vars, NEW e \in Execs, Created(e)
  PROVE  /\ of'[e] = of[e] /\ parent'[e] = parent[e] /\ via'[e] = via[e]
         /\ kind'[of[e]] = kind[of[e]]
         /\ phase'[of[e]] \notin {"absent", "draft"}
         /\ phase[of[e]] = "deleted" => phase'[of[e]] = "deleted"
<1>0. of[e] \in Defs
  BY DEF TypeOK, LinksOK
<1>1. CASE UNCHANGED <<defVars, idVars>>
  BY <1>1 DEF defVars, idVars, PublishedOnly
<1>2. ASSUME UNCHANGED idVars, NEW d \in Defs,
             (\E k \in Kinds : Draft(d, k) \/ Update(d, k)) \/ Publish(d) \/ Archive(d) \/ Delete(d)
      PROVE  of'[e] = of[e] /\ parent'[e] = parent[e] /\ via'[e] = via[e]
             /\ kind'[of[e]] = kind[of[e]] /\ phase'[of[e]] \notin {"absent", "draft"}
             /\ (phase[of[e]] = "deleted" => phase'[of[e]] = "deleted")
  BY <1>0, <1>2 DEF idVars, PublishedOnly, Draft, Update, Publish, Archive, Delete, Turns,
    register_process_schedules, unregister_process_schedules, TypeOK, DefsOK
<1>3. ASSUME NEW f \in Execs, NEW d \in Defs, NEW p, Starts(f, d, p)
      PROVE  of'[e] = of[e] /\ parent'[e] = parent[e] /\ via'[e] = via[e]
             /\ kind'[of[e]] = kind[of[e]] /\ phase'[of[e]] \notin {"absent", "draft"}
             /\ (phase[of[e]] = "deleted" => phase'[of[e]] = "deleted")
  BY <1>3 DEF Starts, defVars, Creates, Fresh, PublishedOnly, TypeOK, RecordsOK
<1> QED BY <1>1, <1>2, <1>3, StepKinds DEF idVars

LEMMA CreatedStays ==
  ASSUME TypeOK, [Next]_vars, NEW e \in Execs
  PROVE  Created(e)' => \/ Created(e)
                        \/ \E d \in Defs, p \in Execs \union {0} : Starts(e, d, p)
<1> SUFFICES ASSUME Created(e)', ~Created(e)
             PROVE  \E d \in Defs, p \in Execs \union {0} : Starts(e, d, p)
  OBVIOUS
<1>0. TypeOK'
  BY TypeStep
<1>1. of[e] \notin Defs /\ of'[e] \in Defs
  BY <1>0 DEF TypeOK, LinksOK
<1>2. ~ UNCHANGED idVars
  BY <1>1 DEF idVars
<1>3. PICK f \in Execs, d \in Defs, p \in Execs \union {0} : Starts(f, d, p)
  BY <1>2, StepKinds
<1>4. f = e
  BY <1>1, <1>3 DEF Starts, Creates, TypeOK, RecordsOK
<1> QED BY <1>3, <1>4

-----------------------------------------------------------------------------
(* Definitions and the scheduler's table.                                  *)
LEMMA PublishedStep == TypeOK /\ PublishedOnly /\ [Next]_vars => PublishedOnly'
<1> SUFFICES ASSUME TypeOK, PublishedOnly, [Next]_vars, NEW e \in Execs, Created(e)'
             PROVE  phase'[of'[e]] \notin {"absent", "draft"}
  BY DEF PublishedOnly
<1>1. CASE Created(e)
  BY <1>1, Frame
<1>2. ASSUME NEW d \in Defs, NEW p, Starts(e, d, p) PROVE phase'[of'[e]] \notin {"absent", "draft"}
  BY <1>2 DEF Starts, Creates, defVars, PublishedOnly, TypeOK, RecordsOK
<1> QED BY <1>1, <1>2, CreatedStays

LEMMA AddOne ==
  ASSUME NEW S, IsFiniteSet(S), NEW x
  PROVE  /\ IsFiniteSet(S \union {x})
         /\ Cardinality(S) \in Nat /\ Cardinality(S \union {x}) \in Nat
         /\ Cardinality(S \union {x}) <= Cardinality(S) + 1
<1>1. IsFiniteSet(S \union {x}) /\ Cardinality(S \union {x}) \in {Cardinality(S), Cardinality(S) + 1}
  BY FS_AddElement
<1> QED BY <1>1, FS_CardinalityType

LEMMA RowsStep == TypeOK /\ RowsFollow /\ [Next]_vars => RowsFollow'
<1> SUFFICES ASSUME TypeOK, RowsFollow, [Next]_vars PROVE RowsFollow'
  OBVIOUS
<1> DEFINE Stray == {d \in rows : phase[d] # "published"}
<1>0. IsFiniteSet(Stray) /\ Cardinality(Stray) \in Nat /\ faults \in Nat
  BY DefsFinite, FS_Subset, FS_CardinalityType, BudgetNat DEF TypeOK, DefsOK
<1>1. ASSUME Stray' \subseteq Stray, faults' = faults PROVE RowsFollow'
  BY <1>0, <1>1, FS_Subset, FS_CardinalityType DEF RowsFollow
<1>2. ASSUME NEW d \in Defs, Stray' \subseteq Stray \union {d}, faults' = faults + 1 PROVE RowsFollow'
  <2>1. /\ IsFiniteSet(Stray \union {d})
        /\ Cardinality(Stray \union {d}) \in Nat /\ Cardinality(Stray \union {d}) <= Cardinality(Stray) + 1
    BY <1>0, AddOne
  <2>2. Cardinality(Stray') \in Nat /\ Cardinality(Stray') <= Cardinality(Stray \union {d})
    BY <1>2, <2>1, FS_Subset, FS_CardinalityType
  <2> QED BY <1>0, <1>2, <2>1, <2>2 DEF RowsFollow
<1>3. CASE UNCHANGED defVars
  BY <1>1, <1>3 DEF defVars
<1>4. ASSUME NEW d \in Defs, NEW k, Draft(d, k) \/ Update(d, k) PROVE RowsFollow'
  BY <1>1, <1>4 DEF Draft, Update, Turns, TypeOK, DefsOK
<1>5. ASSUME NEW d \in Defs, Publish(d) PROVE RowsFollow'
  <2>1. Stray' \subseteq Stray
    BY <1>5 DEF Publish, Turns, register_process_schedules, Writes, TypeOK, DefsOK
  <2> QED BY <1>1, <1>2, <1>5, <2>1 DEF Publish, register_process_schedules, Writes
<1>6. ASSUME NEW d \in Defs, Archive(d) PROVE RowsFollow'
  BY <1>1, <1>2, <1>6 DEF Archive, Turns, unregister_process_schedules, Writes, TypeOK, DefsOK
<1>7. ASSUME NEW d \in Defs, Delete(d) PROVE RowsFollow'
  BY <1>1, <1>7 DEF Delete, Turns, TypeOK, DefsOK
<1> QED BY <1>3, <1>4, <1>5, <1>6, <1>7, StepKinds DEF Starts, defVars

(* No draft is ever executed, and rows stray only after failed writes.     *)
THEOREM PublicationAlways == Spec => []Publication
<1>1. Init => Publication
  BY FS_EmptySet DEF Init, Publication, PublishedOnly, RowsFollow, Created
<1>2. TypeOK /\ Publication /\ [Next]_vars => Publication'
  BY PublishedStep, RowsStep DEF Publication
<1> QED BY <1>1, <1>2, TypeCorrect, PTL DEF Spec

-----------------------------------------------------------------------------
(* Records and the runs that have them in memory.                          *)
Alive == {"queued", "fresh", "found", "resuming", "active"}

(* How the stored status of an execution fits the run that it has.         *)
RunFit(e) ==
  /\ status[e] = "completed" => run[e] \in {"none", "completed"}
  /\ run[e] = "completed" => status[e] = "completed"
  /\ run[e] = "failed" => status[e] = "failed"
  /\ run[e] = "paused" => status[e] \in {"paused", "cancelled"}
  /\ run[e] \in Alive => status[e] \in Active \/ e \in cancelled
  /\ status[e] \in {"pending", "running"} /\ run[e] = "none"
       => e \in dropped \/ phase[of[e]] = "deleted"

RunsFit == \A e \in Execs : RunFit(e)

LEMMA DeletedStays ==
  ASSUME TypeOK, PublishedOnly, NEW e \in Execs, Created(e), ~Stored(of[e])
  PROVE  phase[of[e]] = "deleted"
BY DEF TypeOK, DefsOK, LinksOK, PublishedOnly, Stored

(* A step of a run leaves the records of the other executions alone, and   *)
(* ends no run but its own and that of the child it awaits.                *)
LEMMA RunFitStep ==
  ASSUME TypeOK, PublishedOnly, RunsFit, NEW e \in Execs, RunStep(e), NEW g \in Execs
  PROVE  RunFit(g)'
<1> USE DEF RunsFit, RunFit, Alive, Active
<1>0. run[e] # "none" => Created(e)
  BY DEF TypeOK, LinksOK
<1>1. CASE Begin(e)
  BY <1>0, <1>1, DeletedStays DEF Begin, Others, defVars, idVars, TypeOK, RecordsOK, RunsOK
<1>2. CASE Resume(e)
  BY <1>2 DEF Resume, Saves, Others, defVars, idVars, TypeOK, RecordsOK, RunsOK
<1>3. CASE StartStep(e)
  BY <1>3 DEF StartStep, Saves, Others, defVars, idVars, TypeOK, RecordsOK, RunsOK
<1>4. CASE AgentAnswers(e)
  BY <1>4, <1>0, SucceedsOK DEF AgentAnswers, InStep, Others, defVars, idVars, TypeOK, RecordsOK, RunsOK
<1>5. CASE AskHuman(e)
  BY <1>5 DEF AskHuman, InStep, Pauses, Returns, Saves, Others, defVars, idVars, TypeOK, RecordsOK, RunsOK
<1>6. CASE HumanAnswered(e)
  BY <1>6, <1>0, SucceedsOK DEF HumanAnswered, InStep, Others, defVars, idVars, TypeOK, RecordsOK, RunsOK
<1>7. CASE Ends(e)
  BY <1>7 DEF Ends, Returns, Saves, Others, defVars, idVars, TypeOK, RecordsOK, RunsOK
<1>8. ASSUME NEW c \in Execs, Spawn(e, c) PROVE RunFit(g)'
  <2>1. PICK x \in Defs : Creates(c, x, "sub_process", e, "running")
    BY <1>8 DEF Spawn, Found
  <2> QED BY <1>8, <2>1 DEF Spawn, Creates, Fresh, Created, defVars, TypeOK, RecordsOK, RunsOK
<1>9. CASE NotFound(e)
  BY <1>9, <1>0, SucceedsOK DEF NotFound, InStep, Others, defVars, idVars, TypeOK, RecordsOK, RunsOK
<1>10. CASE Collect(e)
  <2>1. Created(e) /\ awaits[e] \in Execs /\ run[e] = "active" /\ awaits[e] # e
    BY <1>10, <1>0 DEF Collect, InStep, TypeOK, RunsOK, Returned
  <2>2. CASE run[awaits[e]] = "paused"
    BY <1>10, <2>1, <2>2 DEF Collect, Saves, Others, defVars, idVars, TypeOK, RecordsOK, RunsOK
  <2>3. CASE run[awaits[e]] # "paused"
    <3>1. (Succeeds(e) \/ Fails(e)) /\ run' = [run EXCEPT ![awaits[e]] = "none"] /\ Others
      BY <1>10, <2>3 DEF Collect
    <3> QED BY <1>10, <2>1, <2>3, <3>1, SucceedsOK DEF Collect, Returned, Others, defVars, idVars, TypeOK, RecordsOK, RunsOK
  <2> QED BY <2>2, <2>3
<1>11. CASE ChildTimesOut(e)
  <2>1. Created(e) /\ awaits[e] \in Execs
    BY <1>11, <1>0 DEF ChildTimesOut, InStep, TypeOK, RunsOK
  <2> QED BY <1>11, <2>1, SucceedsOK DEF ChildTimesOut, InStep, defVars, idVars, TypeOK, RecordsOK, RunsOK
<1>12. CASE Recover(e)
  BY <1>0, <1>12, DeletedStays DEF Recover, Saves, Others, defVars, idVars, TypeOK, RecordsOK, RunsOK
<1> QED BY <1>1, <1>2, <1>3, <1>4, <1>5, <1>6, <1>7, <1>8, <1>9, <1>10, <1>11, <1>12 DEF RunStep

LEMMA RunsFitStep == TypeOK /\ PublishedOnly /\ RunsFit /\ [Next]_vars => RunsFit'
<1> SUFFICES ASSUME TypeOK, PublishedOnly, RunsFit, [Next]_vars, NEW g \in Execs PROVE RunFit(g)'
  BY DEF RunsFit
<1> USE DEF RunsFit, RunFit, Alive, Active
<1>1. CASE \E e \in Execs : RunStep(e)
  BY <1>1, RunFitStep
<1>2. CASE Restart
  BY <1>2 DEF Restart, defVars, idVars, TypeOK, RecordsOK, RunsOK
<1>3. CASE UNCHANGED vars
  BY <1>3 DEF vars
<1>4. ASSUME NEW d \in Defs, NEW k, Draft(d, k) \/ Update(d, k) \/ Publish(d) \/ Archive(d) \/ Delete(d)
      PROVE  RunFit(g)'
  <2>1. UNCHANGED <<idVars, status, step, runVars, cancelled, dropped>>
    BY <1>4 DEF Draft, Update, Publish, Archive, Delete, Turns
  <2>3. Created(g) /\ phase[of[g]] = "deleted" => phase'[of[g]] = "deleted"
    BY Frame
  <2> QED BY <2>1, <2>3 DEF idVars, runVars, Created
<1>5. ASSUME NEW e \in Execs, NEW d \in Defs, StartExecution(e, d) \/ InvokeWebhook(e, d) PROVE RunFit(g)'
  BY <1>5 DEF StartExecution, InvokeWebhook, Creates, Fresh, Created, defVars, TypeOK, RecordsOK, RunsOK
<1>6. ASSUME NEW e \in Execs, NEW f \in Execs, RetryExecution(e, f) PROVE RunFit(g)'
  BY <1>6 DEF RetryExecution, Creates, Fresh, Created, defVars, TypeOK, RecordsOK, RunsOK
<1>7. ASSUME NEW e \in Execs, CancelExecution(e) PROVE RunFit(g)'
  BY <1>7 DEF CancelExecution, defVars, idVars, runVars, TypeOK, RecordsOK, RunsOK
<1>8. ASSUME NEW e \in Execs, NEW v, Decide(e, v) PROVE RunFit(g)'
  BY <1>8 DEF Decide, Others, defVars, idVars, TypeOK, RecordsOK, RunsOK
<1> QED BY <1>1, <1>2, <1>3, <1>4, <1>5, <1>6, <1>7, <1>8 DEF Next, Users

THEOREM RunsFitAlways == Spec => []RunsFit
<1>1. Init => RunsFit
  BY DEF Init, RunsFit, RunFit, Alive
<1>2. TypeOK /\ Publication /\ RunsFit /\ [Next]_vars => RunsFit'
  BY RunsFitStep DEF Publication
<1> QED BY <1>1, <1>2, TypeCorrect, PublicationAlways, PTL DEF Spec

(* Executions left behind were cut off by a parent's timeout, or lost      *)
(* their definition.                                                       *)
THEOREM LeftBehindAlways == Spec => []LeftBehind
<1>1. RunsFit => LeftBehind
  BY DEF RunsFit, RunFit, LeftBehind
<1> QED BY <1>1, RunsFitAlways, PTL

-----------------------------------------------------------------------------
(* Parents and children.                                                   *)

(* A child runs a version that its parent's step asks for.                 *)
Family ==
  \A c \in Execs : parent[c] # 0 =>
    /\ kind[of[parent[c]]] = "sub_process"
    /\ name[of[c]] = calls[of[parent[c]]]
    /\ pinned[of[parent[c]]] \in {0, version[of[c]]}

LEMMA FamilyStep == TypeOK /\ PublishedOnly /\ Family /\ [Next]_vars => Family'
<1> SUFFICES ASSUME TypeOK, PublishedOnly, Family, [Next]_vars, NEW c \in Execs, parent'[c] # 0
             PROVE  /\ kind'[of'[parent'[c]]] = "sub_process"
                    /\ name[of'[c]] = calls[of'[parent'[c]]]
                    /\ pinned[of'[parent'[c]]] \in {0, version[of'[c]]}
  BY DEF Family
<1>0. TypeOK'
  BY TypeStep
<1>1. CASE Created(c)
  <2>1. parent'[c] = parent[c] /\ parent[c] \in Execs /\ Created(parent[c])
    BY <1>1, Frame DEF TypeOK, RecordsOK, LinksOK
  <2> QED BY <1>1, <2>1, Frame DEF Family
<1>2. CASE ~Created(c)
  <2>1. Created(c)'
    BY <1>0 DEF TypeOK, LinksOK
  <2>2. PICK d \in Defs, p \in Execs \union {0} : Starts(c, d, p)
    BY <1>2, <2>1, CreatedStays
  <2>3. parent'[c] = p /\ of'[c] = d
    BY <2>2 DEF Starts, Creates, TypeOK, RecordsOK
  <2>4. Spawn(p, c) /\ p \in Execs /\ Created(p)
    BY <2>2, <2>3 DEF Starts, Spawn, InStep, TypeOK, LinksOK
  <2>5. PICK x \in Found(of[p]) : Creates(c, x, "sub_process", p, "running")
    BY <2>4 DEF Spawn
  <2>6. x = d
    BY <2>3, <2>5 DEF Creates, TypeOK, RecordsOK
  <2>7. kind[of[p]] = "sub_process"
    BY <2>4 DEF Spawn, InStep
  <2>8. name[d] = calls[of[p]] /\ pinned[of[p]] \in {0, version[d]}
    BY <2>5, <2>6 DEF Found
  <2>9. of'[p] = of[p] /\ kind'[of[p]] = kind[of[p]]
    BY <2>4, Frame
  <2> QED BY <2>3, <2>7, <2>8, <2>9
<1> QED BY <1>1, <1>2

(* Requests for approval belong to executions of approval steps.           *)
Asked == \A e \in Execs : approval[e] # "none" => Created(e) /\ kind[of[e]] = "human_approval"

LEMMA ApprovalStep ==
  ASSUME TypeOK, [Next]_vars, NEW e \in Execs, approval'[e] # "none"
  PROVE  approval[e] # "none" \/ AskHuman(e)
<1>1. ASSUME NEW f \in Execs, RunStep(f) PROVE approval[e] # "none" \/ AskHuman(e)
  BY <1>1 DEF RunStep, Begin, Resume, StartStep, AgentAnswers, AskHuman, HumanAnswered, Ends, Spawn, Creates,
    NotFound, Collect, ChildTimesOut, Recover, TypeOK, RunsOK
<1>2. ASSUME NEW d \in Defs, NEW k, Draft(d, k) \/ Update(d, k) \/ Publish(d) \/ Archive(d) \/ Delete(d)
      PROVE  approval[e] # "none"
  BY <1>2 DEF Draft, Update, Publish, Archive, Delete, Turns, runVars
<1>3. ASSUME NEW f \in Execs, NEW d \in Defs, StartExecution(f, d) \/ InvokeWebhook(f, d)
      PROVE  approval[e] # "none"
  BY <1>3 DEF StartExecution, InvokeWebhook, Creates
<1>4. ASSUME NEW f \in Execs, NEW g \in Execs, RetryExecution(f, g) PROVE approval[e] # "none"
  BY <1>4 DEF RetryExecution, Creates
<1>5. ASSUME NEW f \in Execs, CancelExecution(f) PROVE approval[e] # "none"
  BY <1>5 DEF CancelExecution, runVars
<1>6. ASSUME NEW f \in Execs, NEW v, Decide(f, v) PROVE approval[e] # "none"
  BY <1>6 DEF Decide, TypeOK, RunsOK
<1>7. CASE Restart
  BY <1>7 DEF Restart
<1>8. CASE UNCHANGED vars
  BY <1>8 DEF vars
<1> QED BY <1>1, <1>2, <1>3, <1>4, <1>5, <1>6, <1>7, <1>8 DEF Next, Users

LEMMA AskedStep == TypeOK /\ PublishedOnly /\ Asked /\ [Next]_vars => Asked'
<1> SUFFICES ASSUME TypeOK, PublishedOnly, Asked, [Next]_vars, NEW e \in Execs, approval'[e] # "none"
             PROVE  Created(e)' /\ kind'[of'[e]] = "human_approval"
  BY DEF Asked
<1>1. Created(e) /\ kind[of[e]] = "human_approval"
  BY ApprovalStep DEF Asked, AskHuman, InStep, TypeOK, LinksOK
<1>2. of'[e] = of[e] /\ kind'[of[e]] = kind[of[e]] /\ of[e] \in Defs
  BY <1>1, Frame DEF TypeOK, LinksOK
<1>3. TypeOK'
  BY TypeStep
<1> QED BY <1>1, <1>2, <1>3 DEF TypeOK, LinksOK

(* A step becomes completed by its agent, its human or its child.          *)
LEMMA StepDone ==
  ASSUME TypeOK, [Next]_vars, NEW e \in Execs, step'[e] = "completed", step[e] # "completed"
  PROVE  AgentAnswers(e) \/ HumanAnswered(e) \/ Collect(e)
<1>1. ASSUME NEW f \in Execs, RunStep(f) PROVE AgentAnswers(e) \/ HumanAnswered(e) \/ Collect(e)
  <2>1. CASE Begin(f) \/ Resume(f) \/ StartStep(f) \/ AskHuman(f)
    BY <2>1 DEF Begin, Resume, StartStep, AskHuman, Pauses, Saves, TypeOK, RecordsOK
  <2>2. CASE Ends(f)
    BY <2>2 DEF Ends, Saves, TypeOK, RecordsOK
  <2>3. CASE Recover(f)
    BY <2>3 DEF Recover, Saves, TypeOK, RecordsOK
  <2>4. CASE AgentAnswers(f) \/ HumanAnswered(f)
    BY <2>4 DEF AgentAnswers, HumanAnswered, Succeeds, Fails, GivesUp, Saves, TypeOK, RecordsOK
  <2>5. CASE \E c \in Execs : Spawn(f, c)
    BY <2>5 DEF Spawn, Creates
  <2>6. CASE NotFound(f) \/ ChildTimesOut(f)
    BY <2>6 DEF NotFound, ChildTimesOut, Fails, GivesUp, Saves, TypeOK, RecordsOK
  <2>7. CASE Collect(f)
    <3>1. (\E st, stp : Saves(f, st, stp))
      BY <2>7 DEF Collect, Succeeds, Fails, GivesUp
    <3>2. f # e => step'[e] = step[e]
      BY <3>1 DEF Saves, TypeOK, RecordsOK
    <3> QED BY <2>7, <3>2
  <2> QED BY <1>1, <2>1, <2>2, <2>3, <2>4, <2>5, <2>6, <2>7 DEF RunStep
<1>2. CASE Users
  BY <1>2 DEF Users, Draft, Update, Publish, Archive, Delete, Turns, StartExecution, InvokeWebhook, RetryExecution,
    Creates, CancelExecution, Decide
<1>3. CASE Restart \/ UNCHANGED vars
  BY <1>3 DEF Restart, vars
<1> QED BY <1>1, <1>2, <1>3 DEF Next

(* Only a run that is alive changes the record of its execution, users     *)
(* cancel it, and new ones are created.                                    *)
LEMMA StatusStep ==
  ASSUME TypeOK, [Next]_vars, NEW c \in Execs, Created(c), status'[c] # status[c]
  PROVE  run[c] \in Alive \/ (status'[c] = "cancelled" /\ status[c] \in Active)
<1> USE DEF Alive
<1>1. ASSUME NEW f \in Execs, RunStep(f) PROVE run[c] \in Alive
  <2>1. CASE Begin(f) \/ Resume(f) \/ StartStep(f) \/ AskHuman(f)
    BY <2>1 DEF Begin, Resume, StartStep, AskHuman, InStep, Pauses, Saves, TypeOK, RecordsOK
  <2>2. CASE Ends(f) \/ Recover(f)
    BY <2>2 DEF Ends, Recover, Saves, TypeOK, RecordsOK
  <2>3. CASE AgentAnswers(f) \/ HumanAnswered(f) \/ NotFound(f)
    BY <2>3 DEF AgentAnswers, HumanAnswered, NotFound, InStep, Succeeds, Fails, GivesUp, Saves, TypeOK, RecordsOK
  <2>4. CASE \E g \in Execs : Spawn(f, g)
    BY <2>4 DEF Spawn, Creates, Fresh, TypeOK, RecordsOK
  <2>5. CASE Collect(f) \/ ChildTimesOut(f)
    BY <2>5 DEF Collect, ChildTimesOut, InStep, Succeeds, Fails, GivesUp, Saves, TypeOK, RecordsOK
  <2> QED BY <1>1, <2>1, <2>2, <2>3, <2>4, <2>5 DEF RunStep
<1>2. CASE Users
  <2>1. ASSUME NEW f \in Execs, NEW d, NEW how, NEW p, NEW st, Creates(f, d, how, p, st) PROVE status'[c] = status[c]
    BY <2>1 DEF Creates, Fresh, TypeOK, RecordsOK
  <2>2. ASSUME NEW f \in Execs, CancelExecution(f) PROVE status'[c] = "cancelled" /\ status[c] \in Active
    BY <2>2 DEF CancelExecution, TypeOK, RecordsOK
  <2>3. ASSUME NEW d, Turns(d, {"absent"}, "draft") \/ Turns(d, {"draft"}, "draft") \/ Publish(d) \/ Archive(d) \/ Delete(d)
        PROVE  status' = status
    BY <2>3 DEF Publish, Archive, Delete, Turns
  <2>4. ASSUME NEW f, NEW v, Decide(f, v) PROVE status' = status
    BY <2>4 DEF Decide
  <2>5. ASSUME NEW d \in Defs, NEW k, Draft(d, k) \/ Update(d, k) PROVE status' = status
    BY <2>3, <2>5 DEF Draft, Update
  <2>6. ASSUME NEW f \in Execs, NEW d, StartExecution(f, d) \/ InvokeWebhook(f, d) PROVE status'[c] = status[c]
    BY <2>1, <2>6 DEF StartExecution, InvokeWebhook
  <2>7. ASSUME NEW f \in Execs, NEW g, RetryExecution(f, g) PROVE status'[c] = status[c]
    BY <2>1, <2>7 DEF RetryExecution
  <2> QED BY <1>2, <2>2, <2>3, <2>4, <2>5, <2>6, <2>7 DEF Users
<1>3. CASE Restart \/ UNCHANGED vars
  BY <1>3 DEF Restart, vars
<1> QED BY <1>1, <1>2, <1>3 DEF Next

LEMMA DoneStays ==
  ASSUME TypeOK, RunsFit, [Next]_vars, NEW c \in Execs, status[c] = "completed"
  PROVE  status'[c] = "completed"
BY StatusStep DEF RunsFit, RunFit, Created, Alive, Active

LEMMA OutputStep ==
  TypeOK /\ PublishedOnly /\ RunsFit /\ Family /\ OutputOfChild /\ [Next]_vars => OutputOfChild'
<1> SUFFICES ASSUME TypeOK, PublishedOnly, RunsFit, Family, OutputOfChild, [Next]_vars, NEW e \in Execs,
                    Created(e)', kind'[of'[e]] = "sub_process", step'[e] = "completed"
             PROVE  \E c \in Execs :
                      /\ parent'[c] = e /\ status'[c] = "completed"
                      /\ name[of'[c]] = calls[of'[e]]
                      /\ pinned[of'[e]] \in {0, version[of'[c]]}
  BY DEF OutputOfChild
<1>1. Created(e)
  <2>1. run[e] # "none" \/ step[e] = "completed"
    BY StepDone DEF AgentAnswers, HumanAnswered, Collect, InStep
  <2> QED BY <2>1 DEF TypeOK, LinksOK
<1>2. of'[e] = of[e] /\ kind[of[e]] = "sub_process"
  BY <1>1, Frame
<1>3. \E c \in Execs : /\ parent[c] = e /\ status[c] = "completed"
                       /\ name[of[c]] = calls[of[e]]
                       /\ pinned[of[e]] \in {0, version[of[c]]}
  <2>1. CASE step[e] = "completed"
    BY <1>1, <1>2, <2>1 DEF OutputOfChild
  <2>2. CASE step[e] # "completed"
    <3>1. Collect(e)
      BY <1>2, <2>2, StepDone DEF AgentAnswers, HumanAnswered, InStep
    <3>2. awaits[e] \in Execs /\ run[awaits[e]] = "completed"
      BY <3>1 DEF Collect, Fails, GivesUp, Saves, InStep, TypeOK, RecordsOK, RunsOK
    <3>3. parent[awaits[e]] = e /\ e # 0
      BY <3>2, NoExec DEF TypeOK, LinksOK
    <3> QED BY <3>2, <3>3 DEF RunsFit, RunFit, Family
  <2> QED BY <2>1, <2>2
<1>4. PICK c \in Execs : /\ parent[c] = e /\ status[c] = "completed"
                        /\ name[of[c]] = calls[of[e]]
                        /\ pinned[of[e]] \in {0, version[of[c]]}
  BY <1>3
<1>5. status'[c] = "completed" /\ parent'[c] = e /\ of'[c] = of[c]
  BY <1>4, DoneStays, Frame DEF Created
<1> QED BY <1>2, <1>4, <1>5

Inv == TypeOK /\ Publication /\ RunsFit /\ Family /\ Asked /\ OutputOfChild

LEMMA InvInit == Init => Inv
BY TypeInit, FS_EmptySet DEF Init, Inv, Publication, PublishedOnly, RowsFollow, RunsFit, RunFit, Alive,
  Family, Asked, OutputOfChild, Created

LEMMA InvStep == Inv /\ [Next]_vars => Inv'
BY TypeStep, PublishedStep, RowsStep, RunsFitStep, FamilyStep, AskedStep, OutputStep DEF Inv, Publication

LEMMA InvAlways == Spec => []Inv
BY InvInit, InvStep, PTL DEF Spec

(* A completed sub_process step has a completed child of the right name.   *)
THEOREM OutputOfChildAlways == Spec => []OutputOfChild
<1>1. Inv => OutputOfChild
  BY DEF Inv
<1> QED BY <1>1, InvAlways, PTL

-----------------------------------------------------------------------------
(* The limits.                                                             *)
LEMMA Finite == ASSUME NEW S, S \subseteq Execs PROVE IsFiniteSet(S) /\ Cardinality(S) \in Nat
<1>1. IsFiniteSet(Execs)
  BY FS_Interval DEF Execs
<1> QED BY <1>1, FS_Subset, FS_CardinalityType

LEMMA Fewer == ASSUME NEW S, S \subseteq Execs, NEW T, T \subseteq S PROVE Cardinality(T) <= Cardinality(S)
BY Finite, FS_Subset

(* Nothing that ended is admitted again.                                   *)
LEMMA AdmittedStep ==
  ASSUME Inv, [Next]_vars, NEW g \in Admitted', g \notin Admitted
  PROVE  \E d \in Defs : StartExecution(g, d)
<1> USE DEF Inv
<1>1. g \in Execs /\ via'[g] = "api" /\ status'[g] \in Active /\ g \notin cancelled'
  BY DEF Admitted
<1>2. cancelled \subseteq cancelled'
  <2>1. ASSUME NEW e \in Execs, RunStep(e) PROVE cancelled' = cancelled
    BY <2>1 DEF RunStep, Begin, Resume, StartStep, AgentAnswers, AskHuman, HumanAnswered, Ends, Spawn, Creates, NotFound,
      Collect, ChildTimesOut, Recover, Others
  <2>2. Users => cancelled \subseteq cancelled'
    BY DEF Users, Draft, Update, Publish, Archive, Delete, Turns, StartExecution, InvokeWebhook, RetryExecution,
      Creates, CancelExecution, Decide, Others
  <2> QED BY <2>1, <2>2 DEF Next, Restart, vars
<1>3. CASE Created(g)
  <2>1. status[g] \notin Active /\ g \notin cancelled
    BY <1>1, <1>2, <1>3, Frame DEF Admitted, Publication
  <2>2. run[g] \in Alive
    BY <1>1, <1>3, <2>1, StatusStep
  <2> QED BY <1>1, <2>1, <2>2 DEF RunsFit, RunFit
<1>4. CASE ~Created(g)
  <2>1. of'[g] # of[g] /\ via'[g] = "api"
    BY <1>1, <1>4, TypeStep DEF Created, Active, TypeOK, LinksOK
  <2>2. ASSUME NEW f \in Execs, NEW d, NEW how, NEW p, NEW st, Creates(f, d, how, p, st) PROVE f = g /\ how = "api"
    BY <1>1, <2>1, <2>2 DEF Creates, TypeOK, RecordsOK
  <2>3. ASSUME NEW e \in Execs, RunStep(e) PROVE FALSE
    <3>1. PICK c \in Execs : Spawn(e, c)
      BY <2>1, <2>3, RunStepKinds DEF idVars
    <3>2. PICK x \in Defs : Creates(c, x, "sub_process", e, "running")
      BY <3>1 DEF Spawn, Found
    <3> QED BY <2>2, <3>2
  <2>4. ~Restart /\ ~(UNCHANGED vars)
    BY <2>1 DEF Restart, vars, idVars
  <2>5. ASSUME NEW f \in Execs, NEW d \in Defs, InvokeWebhook(f, d) PROVE FALSE
    <3>1. Creates(f, d, "webhook", 0, "running")
      BY <2>5 DEF InvokeWebhook
    <3> QED BY <2>2, <3>1
  <2>6. ASSUME NEW f \in Execs, NEW h \in Execs, RetryExecution(f, h) PROVE FALSE
    <3>1. Creates(f, of[h], "retry", 0, "pending")
      BY <2>6 DEF RetryExecution
    <3> QED BY <2>2, <3>1
  <2>7. ASSUME NEW f \in Execs, NEW d \in Defs, StartExecution(f, d) PROVE StartExecution(g, d)
    <3>1. Creates(f, d, "api", 0, "pending")
      BY <2>7 DEF StartExecution
    <3> QED BY <2>2, <2>7, <3>1
  <2>8. ASSUME NEW d \in Defs, NEW k, Draft(d, k) \/ Update(d, k) \/ Publish(d) \/ Archive(d) \/ Delete(d) PROVE FALSE
    BY <2>1, <2>8 DEF Draft, Update, Publish, Archive, Delete, Turns, idVars
  <2>9. ASSUME NEW f \in Execs, NEW v, CancelExecution(f) \/ Decide(f, v) PROVE FALSE
    BY <2>1, <2>9 DEF CancelExecution, Decide, Others, idVars
  <2> QED BY <2>3, <2>4, <2>5, <2>6, <2>7, <2>8, <2>9 DEF Next, Users
<1> QED BY <1>3, <1>4

(* Removing one execution and adding it back adds at most one.             *)
LEMMA OneMore ==
  ASSUME NEW S, S \subseteq Execs, NEW T, T \subseteq Execs, NEW x, T \subseteq S \union {x},
         NEW n \in Nat, Cardinality(S) <= n
  PROVE  Cardinality(T) <= n + 1
<1>1. IsFiniteSet(S) /\ IsFiniteSet(T) /\ Cardinality(T) \in Nat
  BY Finite
<1>2. IsFiniteSet(S \union {x}) /\ Cardinality(S \union {x}) <= Cardinality(S) + 1
      /\ Cardinality(S) \in Nat /\ Cardinality(S \union {x}) \in Nat
  BY <1>1, AddOne
<1>3. Cardinality(T) <= Cardinality(S \union {x})
  BY <1>2, FS_Subset
<1> QED BY <1>1, <1>2, <1>3

LEMMA LimitStep == Inv /\ LimitKept /\ [Next]_vars => LimitKept'
<1> SUFFICES ASSUME Inv, LimitKept, [Next]_vars PROVE LimitKept'
  OBVIOUS
<1> DEFINE Of(d) == {e \in Admitted : of[e] = d}
<1>0. Admitted \subseteq Execs /\ Admitted' \subseteq Execs
  BY DEF Admitted
<1>1. ASSUME NEW e \in Execs, NEW d \in Defs, StartExecution(e, d) PROVE LimitKept'
  <2>0. /\ Admitted' \subseteq Admitted \union {e}
        /\ \A x \in Defs : Of(x)' \subseteq Of(x) \union (IF x = d THEN {e} ELSE {})
    BY <1>1 DEF StartExecution, Creates, Admitted, Inv, TypeOK, RecordsOK
  <2>1. Cardinality(Admitted) + 1 <= Global
    <3>1. Admitted \subseteq {x \in Execs : status[x] \in Active}
      BY DEF Admitted
    <3>2. Cardinality(Admitted) <= Cardinality({x \in Execs : status[x] \in Active})
      BY <3>1, Fewer
    <3> QED BY <1>0, <1>1, <3>2, Finite DEF StartExecution, check_can_start
  <2>2. Cardinality(Of(d)) + 1 <= PerProcess
    <3>1. Of(d) \subseteq ActiveOf(d)
      BY DEF Admitted, ActiveOf
    <3>2. Cardinality(Of(d)) <= Cardinality(ActiveOf(d))
      BY <3>1, Fewer DEF ActiveOf
    <3>3. Cardinality(Of(d)) \in Nat /\ Cardinality(ActiveOf(d)) \in Nat
      BY <1>0, Finite DEF ActiveOf
    <3> QED BY <1>1, <3>2, <3>3 DEF StartExecution, check_can_start
  <2>3. Cardinality(Admitted') <= Global
    BY <1>0, <2>0, <2>1, OneMore, Finite, SMTT(30)
  <2>4. ASSUME NEW x \in Defs PROVE Cardinality(Of(x)') <= PerProcess
    <3>1. Of(x) \subseteq Execs /\ Of(x)' \subseteq Execs /\ Cardinality(Of(x)) \in Nat /\ Cardinality(Of(x)') \in Nat
      BY <1>0, Finite
    <3>2. CASE x = d
      BY <2>0, <2>2, <3>1, <3>2, OneMore
    <3>3. CASE x # d
      <4>1. Of(x)' \subseteq Of(x)
        BY <2>0, <3>3
      <4>2. Cardinality(Of(x)') <= Cardinality(Of(x)) /\ Cardinality(Of(x)) <= PerProcess
        BY <3>1, <4>1, Fewer DEF LimitKept
      <4> QED BY <3>1, <4>2
    <3> QED BY <3>2, <3>3
  <2> QED BY <2>3, <2>4 DEF LimitKept
<1>2. ASSUME \A e \in Execs, d \in Defs : ~StartExecution(e, d) PROVE LimitKept'
  <2>1. Admitted' \subseteq Admitted
    BY <1>0, <1>2, AdmittedStep
  <2>2. ASSUME NEW x \in Defs PROVE Of(x)' \subseteq Of(x)
    <3>1. \A e \in Admitted : of'[e] = of[e]
      BY Frame DEF Admitted, Inv, Publication, Created, Active
    <3> QED BY <2>1, <3>1
  <2>3. Cardinality(Admitted') <= Cardinality(Admitted)
    BY <1>0, <2>1, Fewer
  <2>4. ASSUME NEW x \in Defs PROVE Cardinality(Of(x)') <= Cardinality(Of(x))
    BY <1>0, <2>2, Fewer
  <2>5. /\ Cardinality(Admitted) \in Nat /\ Cardinality(Admitted') \in Nat
        /\ \A x \in Defs : Cardinality(Of(x)) \in Nat /\ Cardinality(Of(x)') \in Nat
    BY <1>0, Finite
  <2>6. Cardinality(Admitted') <= Global
    BY <2>3, <2>5, BoundsKnown DEF LimitKept
  <2>7. ASSUME NEW x \in Defs PROVE Cardinality(Of(x)') <= PerProcess
    <3>1. Cardinality(Of(x)) <= PerProcess
      BY DEF LimitKept
    <3> HIDE DEF Of
    <3> QED BY <2>4, <2>5, <3>1
  <2> QED BY <2>6, <2>7 DEF LimitKept
<1> QED BY <1>1, <1>2

(* What start_execution admits stays within both limits.                   *)
THEOREM LimitKeptAlways == Spec => []LimitKept
<1>1. Init => LimitKept
  <2> SUFFICES ASSUME Init PROVE LimitKept
    OBVIOUS
  <2>1. Admitted = {}
    BY DEF Init, Admitted, Active
  <2>2. \A d \in Defs : {e \in Admitted : of[e] = d} = {}
    BY <2>1
  <2> QED BY <2>1, <2>2, FS_EmptySet DEF LimitKept
<1>2. Inv /\ LimitKept /\ [Next]_vars => LimitKept'
  BY LimitStep
<1> QED BY <1>1, <1>2, InvAlways, PTL DEF Spec

-----------------------------------------------------------------------------
(* The children of one parent.                                             *)

(* The children that are active, or that a run may make active again.      *)
Kin(e) == {c \in Execs : parent[c] = e /\ (status[c] \in Active \/ run[c] \in Alive)}

(* A run whose step may still start a child leaves room for it.            *)
Room ==
  \A e \in Execs :
    /\ Cardinality(Kin(e)) <= 1 + restarts
    /\ run[e] \in Alive /\ step[e] \in {"pending", "running", "waiting_approval"}
         => Cardinality(Kin(e) \ {awaits[e]}) <= restarts

(* No step but its creation makes an execution one to be counted.          *)
LEMMA KinStays ==
  ASSUME TypeOK, [Next]_vars, NEW c \in Execs, Created(c), status'[c] \in Active \/ run'[c] \in Alive
  PROVE  status[c] \in Active \/ run[c] \in Alive
<1>1. CASE run[c] \in Alive
  BY <1>1
<1>2. CASE run[c] \notin Alive /\ status[c] \notin Active
  <2> USE DEF Alive, Active
  <2>1. status'[c] = status[c]
    BY <1>2, StatusStep
  <2>2. ASSUME NEW f \in Execs, RunStep(f) PROVE run'[c] \notin Alive
    <3>1. CASE Begin(f) \/ Resume(f) \/ StartStep(f) \/ AskHuman(f)
      BY <1>2, <3>1 DEF Begin, Resume, StartStep, AskHuman, InStep, Pauses, Returns, TypeOK, RunsOK
    <3>2. CASE Ends(f) \/ Recover(f)
      BY <1>2, <3>2 DEF Ends, Returns, Recover, TypeOK, RunsOK
    <3>3. CASE AgentAnswers(f) \/ HumanAnswered(f) \/ NotFound(f)
      BY <1>2, <3>3 DEF AgentAnswers, HumanAnswered, NotFound
    <3>4. CASE \E g \in Execs : Spawn(f, g)
      BY <1>2, <3>4 DEF Spawn, Creates, Fresh, TypeOK, RunsOK
    <3>5. CASE Collect(f) \/ ChildTimesOut(f)
      BY <1>2, <3>5 DEF Collect, ChildTimesOut, TypeOK, RunsOK
    <3> QED BY <2>2, <3>1, <3>2, <3>3, <3>4, <3>5 DEF RunStep
  <2>3. CASE Restart
    BY <1>2, <2>3 DEF Restart
  <2>4. ASSUME NEW d \in Defs, NEW k, Draft(d, k) \/ Update(d, k) \/ Publish(d) \/ Archive(d) \/ Delete(d)
        PROVE  run'[c] \notin Alive
    BY <1>2, <2>4 DEF Draft, Update, Publish, Archive, Delete, Turns, runVars
  <2>5. ASSUME NEW f \in Execs, NEW d \in Defs, StartExecution(f, d) \/ InvokeWebhook(f, d)
        PROVE  run'[c] \notin Alive
    BY <1>2, <2>5 DEF StartExecution, InvokeWebhook, Creates, Fresh, TypeOK, RunsOK
  <2>6. ASSUME NEW f \in Execs, NEW g \in Execs, RetryExecution(f, g) PROVE run'[c] \notin Alive
    BY <1>2, <2>6 DEF RetryExecution, Creates, Fresh, TypeOK, RunsOK
  <2>7. ASSUME NEW f \in Execs, NEW v, CancelExecution(f) \/ Decide(f, v) PROVE run'[c] \notin Alive
    BY <1>2, <2>7 DEF CancelExecution, Decide, runVars, TypeOK, RunsOK
  <2>8. CASE UNCHANGED vars
    BY <1>2, <2>8 DEF vars
  <2> QED BY <1>2, <2>1, <2>2, <2>3, <2>4, <2>5, <2>6, <2>7, <2>8 DEF Next, Users
<1> QED BY <1>1, <1>2

(* Open steps may still start a child.                                     *)
Open == {"pending", "running", "waiting_approval"}

(* A parent gets children only by its own step.                            *)
LEMMA KinStep ==
  ASSUME TypeOK, PublishedOnly, [Next]_vars, NEW g \in Execs, NEW c \in Kin(g)', c \notin Kin(g)
  PROVE  Spawn(g, c)
<1>1. c \in Execs /\ parent'[c] = g /\ (status'[c] \in Active \/ run'[c] \in Alive)
  BY DEF Kin
<1>2. CASE Created(c)
  BY <1>1, <1>2, Frame, KinStays DEF Kin
<1>3. CASE ~Created(c)
  <2>1. Created(c)'
    BY <1>1, TypeStep, NoExec DEF TypeOK, LinksOK
  <2>2. PICK d \in Defs, p \in Execs \union {0} : Starts(c, d, p)
    BY <1>1, <1>3, <2>1, CreatedStays
  <2>3. parent'[c] = p
    BY <1>1, <2>2 DEF Starts, Creates, TypeOK, RecordsOK
  <2> QED BY <1>1, <2>2, <2>3, NoExec DEF Starts
<1> QED BY <1>2, <1>3

(* A step that is done is not opened again.                                *)
LEMMA OpenStays ==
  ASSUME TypeOK, [Next]_vars, NEW g \in Execs, step'[g] \in Open
  PROVE  step[g] \in Open
<1> USE DEF Open
<1>1. ASSUME NEW f \in Execs, RunStep(f) PROVE step[g] \in Open
  <2>1. CASE Begin(f) \/ Resume(f) \/ StartStep(f) \/ AskHuman(f)
    BY <2>1 DEF Begin, Resume, StartStep, AskHuman, InStep, Pauses, Saves, TypeOK, RecordsOK
  <2>2. CASE Ends(f) \/ Recover(f)
    BY <2>2 DEF Ends, Recover, Saves, TypeOK, RecordsOK
  <2>3. CASE AgentAnswers(f) \/ HumanAnswered(f) \/ NotFound(f)
    BY <2>3 DEF AgentAnswers, HumanAnswered, NotFound, InStep, Succeeds, Fails, GivesUp, Saves, TypeOK, RecordsOK
  <2>4. CASE \E c \in Execs : Spawn(f, c)
    BY <2>4 DEF Spawn, Creates
  <2>5. CASE Collect(f) \/ ChildTimesOut(f)
    BY <2>5 DEF Collect, ChildTimesOut, InStep, Succeeds, Fails, GivesUp, Saves, TypeOK, RecordsOK
  <2> QED BY <1>1, <2>1, <2>2, <2>3, <2>4, <2>5 DEF RunStep
<1>2. CASE Users
  BY <1>2 DEF Users, Draft, Update, Publish, Archive, Delete, Turns, StartExecution, InvokeWebhook, RetryExecution,
    Creates, CancelExecution, Decide
<1>3. CASE Restart \/ UNCHANGED vars
  BY <1>3 DEF Restart, vars
<1> QED BY <1>1, <1>2, <1>3 DEF Next

(* A run comes to life by a decision, a restart or its creation.           *)
LEMMA AliveStep ==
  ASSUME TypeOK, [Next]_vars, NEW g \in Execs, Created(g), run[g] \notin Alive, run'[g] \in Alive
  PROVE  Restart \/ approval[g] = "pending"
<1> USE DEF Alive
<1>1. ASSUME NEW f \in Execs, RunStep(f) PROVE FALSE
  <2>1. CASE Begin(f) \/ Resume(f) \/ StartStep(f) \/ AskHuman(f)
    BY <2>1 DEF Begin, Resume, StartStep, AskHuman, InStep, Pauses, Returns, TypeOK, RunsOK
  <2>2. CASE Ends(f) \/ Recover(f)
    BY <2>2 DEF Ends, Returns, Recover, TypeOK, RunsOK
  <2>3. CASE AgentAnswers(f) \/ HumanAnswered(f) \/ NotFound(f)
    BY <2>3 DEF AgentAnswers, HumanAnswered, NotFound
  <2>4. CASE \E c \in Execs : Spawn(f, c)
    BY <2>4 DEF Spawn, Creates, Fresh, TypeOK, RunsOK
  <2>5. CASE Collect(f) \/ ChildTimesOut(f)
    BY <2>5 DEF Collect, ChildTimesOut, TypeOK, RunsOK
  <2> QED BY <1>1, <2>1, <2>2, <2>3, <2>4, <2>5 DEF RunStep
<1>2. ASSUME NEW d \in Defs, NEW k, Draft(d, k) \/ Update(d, k) \/ Publish(d) \/ Archive(d) \/ Delete(d)
      PROVE  FALSE
  BY <1>2 DEF Draft, Update, Publish, Archive, Delete, Turns, runVars
<1>3. ASSUME NEW f \in Execs, NEW d \in Defs, StartExecution(f, d) \/ InvokeWebhook(f, d) PROVE FALSE
  BY <1>3 DEF StartExecution, InvokeWebhook, Creates, Fresh, TypeOK, RunsOK
<1>4. ASSUME NEW f \in Execs, NEW h \in Execs, RetryExecution(f, h) PROVE FALSE
  BY <1>4 DEF RetryExecution, Creates, Fresh, TypeOK, RunsOK
<1>5. ASSUME NEW f \in Execs, CancelExecution(f) PROVE FALSE
  BY <1>5 DEF CancelExecution, runVars
<1>6. ASSUME NEW f \in Execs, NEW v, Decide(f, v) PROVE approval[g] = "pending"
  BY <1>6 DEF Decide, TypeOK, RunsOK
<1>7. CASE UNCHANGED vars
  BY <1>7 DEF vars
<1> QED BY <1>1, <1>2, <1>3, <1>4, <1>5, <1>6, <1>7 DEF Next, Users

(* A parent stops waiting when it collects its child or times out.         *)
LEMMA AwaitsStep ==
  ASSUME TypeOK, [Next]_vars, NEW g \in Execs, awaits'[g] # awaits[g]
  PROVE  Restart \/ (\E c \in Execs : Spawn(g, c)) \/ Collect(g) \/ ChildTimesOut(g)
<1>1. ASSUME NEW f \in Execs, RunStep(f)
      PROVE  (\E c \in Execs : Spawn(g, c)) \/ Collect(g) \/ ChildTimesOut(g)
  <2>1. CASE Begin(f) \/ Resume(f) \/ StartStep(f) \/ AskHuman(f) \/ Ends(f) \/ Recover(f)
             \/ AgentAnswers(f) \/ HumanAnswered(f) \/ NotFound(f)
    BY <2>1 DEF Begin, Resume, StartStep, AskHuman, Ends, Recover, AgentAnswers, HumanAnswered, NotFound
  <2>2. ASSUME NEW c \in Execs, Spawn(f, c) PROVE f = g
    BY <2>2 DEF Spawn, TypeOK, RunsOK
  <2>3. ASSUME Collect(f) \/ ChildTimesOut(f) PROVE f = g
    BY <2>3 DEF Collect, ChildTimesOut, TypeOK, RunsOK
  <2> QED BY <1>1, <2>1, <2>2, <2>3 DEF RunStep
<1>2. CASE Users
  BY <1>2 DEF Users, Draft, Update, Publish, Archive, Delete, Turns, StartExecution, InvokeWebhook, RetryExecution,
    CancelExecution, Decide, runVars
<1>3. CASE UNCHANGED vars
  BY <1>3 DEF vars
<1> QED BY <1>1, <1>2, <1>3 DEF Next

LEMMA RestartsStep == ASSUME TypeOK, [Next]_vars PROVE restarts \in Nat /\ restarts' \in Nat /\ restarts <= restarts'
<1>1. restarts \in Nat
  BY BudgetNat DEF TypeOK
<1>2. restarts' \in {restarts, restarts + 1}
  <2>1. ASSUME NEW e \in Execs, RunStep(e) PROVE restarts' = restarts
    BY <2>1 DEF RunStep, Begin, Resume, StartStep, AgentAnswers, AskHuman, HumanAnswered, Ends, Spawn, Creates,
      NotFound, Collect, ChildTimesOut, Recover, Others
  <2>2. CASE Users
    BY <2>2 DEF Users, Draft, Update, Publish, Archive, Delete, Turns, StartExecution, InvokeWebhook, RetryExecution,
      Creates, CancelExecution, Decide, Others
  <2> QED BY <2>1, <2>2 DEF Next, Restart, vars
<1> QED BY <1>1, <1>2

(* While its run may start a child, the children that it does not await    *)
(* are the same as before.                                                 *)
LEMMA IdleKin ==
  ASSUME Inv, [Next]_vars, ~Restart, NEW g \in Execs, \A c \in Execs : ~Spawn(g, c),
         run'[g] \in Alive, step'[g] \in Open
  PROVE  \/ Kin(g)' = {}
         \/ /\ run[g] \in Alive /\ step[g] \in Open
            /\ Kin(g)' \ {awaits'[g]} \subseteq Kin(g) \ {awaits[g]}
<1> USE DEF Inv, Publication
<1>1. Kin(g)' \subseteq Kin(g)
  BY KinStep DEF Kin
<1>2. step[g] \in Open
  BY OpenStays
<1>3. CASE ~Created(g)
  <2>1. Kin(g) = {}
    BY <1>3, NoExec DEF Kin, TypeOK, LinksOK
  <2> QED BY <1>1, <2>1
<1>4. CASE Created(g) /\ run[g] \notin Alive
  <2>1. kind[of[g]] = "human_approval"
    BY <1>4, AliveStep DEF Asked
  <2>2. Kin(g) = {}
    BY <2>1, NoExec DEF Family, Kin
  <2> QED BY <1>1, <2>2
<1>5. CASE run[g] \in Alive /\ awaits'[g] # awaits[g]
  <2>1. Collect(g) \/ ChildTimesOut(g)
    BY <1>5, AwaitsStep
  <2>2. /\ Collect(g) /\ run[awaits[g]] = "failed" /\ awaits[g] \in Execs
        /\ run' = [run EXCEPT ![awaits[g]] = "none"]
    BY <2>1 DEF Collect, ChildTimesOut, Succeeds, GivesUp, Fails, Saves, InStep, Alive, Open, TypeOK, RecordsOK, RunsOK
  <2>3. status[awaits[g]] = "failed" /\ awaits[g] # g
    BY <2>2 DEF RunsFit, RunFit, Collect, InStep
  <2>4. status'[awaits[g]] = "failed" /\ run'[awaits[g]] = "none"
    BY <2>2, <2>3 DEF Collect, Succeeds, GivesUp, Fails, Saves, TypeOK, RecordsOK, RunsOK
  <2>5. awaits[g] \notin Kin(g)'
    BY <2>4 DEF Kin, Active, Alive
  <2> QED BY <1>1, <1>2, <1>5, <2>5
<1>6. CASE run[g] \in Alive /\ awaits'[g] = awaits[g]
  BY <1>1, <1>2, <1>6
<1> QED BY <1>3, <1>4, <1>5, <1>6

LEMMA RoomStep == Inv /\ Room /\ [Next]_vars => Room'
<1> SUFFICES ASSUME Inv, Room, [Next]_vars, NEW g \in Execs
             PROVE  /\ Cardinality(Kin(g)') <= 1 + restarts'
                    /\ run'[g] \in Alive /\ step'[g] \in Open => Cardinality(Kin(g)' \ {awaits'[g]}) <= restarts'
  BY DEF Room, Open
<1> DEFINE K == Kin(g)
           L == Kin(g) \ {awaits[g]}
<1>0. /\ K \subseteq Execs /\ L \subseteq K /\ K' \subseteq Execs /\ L' \subseteq K'
      /\ Cardinality(K) <= 1 + restarts
      /\ run[g] \in Alive /\ step[g] \in Open => Cardinality(L) <= restarts
  BY DEF Room, Open, Kin
<1>1. /\ Cardinality(K) \in Nat /\ Cardinality(K') \in Nat
      /\ Cardinality(L) \in Nat /\ Cardinality(L') \in Nat
  BY <1>0, Finite
<1>2. restarts \in Nat /\ restarts' \in Nat /\ restarts <= restarts'
  BY RestartsStep DEF Inv
<1>3. CASE Restart
  <2>1. K' \subseteq K /\ restarts' = restarts + 1
    <3>1. restarts' = restarts + 1
      BY <1>3 DEF Restart
    <3>2. ASSUME NEW c \in Execs, Spawn(g, c) PROVE FALSE
      <4>1. restarts' = restarts
        BY <3>2 DEF Spawn, Creates
      <4> QED BY <1>2, <3>1, <4>1
    <3>3. \A c \in K' : c \in K
      BY <1>0, <3>2, KinStep DEF Inv, Publication
    <3> QED BY <3>1, <3>3
  <2>2. Cardinality(K') <= Cardinality(K) /\ Cardinality(L') <= Cardinality(K)
    BY <1>0, <2>1, Fewer
  <2> HIDE DEF K, L
  <2>3. Cardinality(K') <= 1 + restarts' /\ Cardinality(L') <= restarts'
    BY <1>0, <1>1, <1>2, <2>1, <2>2
  <2> QED BY <2>3 DEF K, L
<1>4. CASE \E c \in Execs : Spawn(g, c)
  <2>1. PICK c \in Execs : Spawn(g, c)
    BY <1>4
  <2>2. run[g] \in Alive /\ step[g] \in Open /\ awaits[g] = 0 /\ awaits'[g] = c
    BY <2>1 DEF Spawn, InStep, Alive, Open, Inv, TypeOK, RunsOK
  <2>3. K' \subseteq K \union {c}
    <3>1. ASSUME NEW b \in Execs, Spawn(g, b) PROVE b = c
      BY <2>2, <3>1 DEF Spawn, Inv, TypeOK, RunsOK
    <3> QED BY <1>0, <3>1, KinStep DEF Inv, Publication
  <2>4. L = K
    BY <1>0, <2>2, NoExec
  <2>5. Cardinality(K') <= restarts + 1
    BY <1>0, <1>2, <2>2, <2>3, <2>4, OneMore
  <2>6. Cardinality(L') <= Cardinality(K)
    <3>1. L' \subseteq K
      BY <2>2, <2>3
    <3> QED BY <1>0, <3>1, Fewer
  <2> HIDE DEF K, L
  <2>7. Cardinality(K') <= 1 + restarts' /\ Cardinality(L') <= restarts'
    BY <1>0, <1>1, <1>2, <2>2, <2>4, <2>5, <2>6
  <2> QED BY <2>7 DEF K, L
<1>5. CASE ~Restart /\ \A c \in Execs : ~Spawn(g, c)
  <2>1. K' \subseteq K
    BY <1>0, <1>5, KinStep DEF Inv, Publication
  <2>2. Cardinality(K') <= Cardinality(K)
    BY <1>0, <2>1, Fewer
  <2>3. ASSUME run'[g] \in Alive, step'[g] \in Open PROVE Cardinality(L') <= restarts'
    <3>1. CASE K' = {}
      <4>1. Cardinality(L') = 0
        BY <1>0, <3>1, FS_EmptySet
      <4> QED BY <1>2, <4>1
    <3>2. CASE run[g] \in Alive /\ step[g] \in Open /\ L' \subseteq L
      <4>1. Cardinality(L') <= Cardinality(L)
        BY <1>0, <3>2, Fewer
      <4> HIDE DEF K, L
      <4> QED BY <1>0, <1>1, <1>2, <3>2, <4>1
    <3> QED BY <1>5, <2>3, <3>1, <3>2, IdleKin
  <2> HIDE DEF K, L
  <2>4. Cardinality(K') <= 1 + restarts'
    BY <1>0, <1>1, <1>2, <2>2
  <2> QED BY <2>3, <2>4 DEF K, L
<1> QED BY <1>3, <1>4, <1>5

(* A parent has one active child, and one more for each restart.           *)
THEOREM FewChildrenAlways == Spec => []FewChildren
<1>1. Init => Room
  <2> SUFFICES ASSUME Init, NEW e \in Execs PROVE Cardinality(Kin(e)) = 0 /\ Cardinality(Kin(e) \ {awaits[e]}) = 0
    BY DEF Init, Room
  <2>1. Kin(e) = {}
    BY NoExec DEF Init, Kin
  <2> QED BY <2>1, FS_EmptySet
<1>2. Inv /\ Room /\ [Next]_vars => Room'
  BY RoomStep
<1>3. Inv /\ Room => FewChildren
  <2> SUFFICES ASSUME Inv, Room, NEW e \in Execs
               PROVE  Cardinality({c \in Execs : parent[c] = e /\ status[c] \in Active}) <= 1 + restarts
    BY DEF FewChildren
  <2> DEFINE A == {c \in Execs : parent[c] = e /\ status[c] \in Active}
  <2>1. A \subseteq Kin(e) /\ Kin(e) \subseteq Execs
    BY DEF Kin
  <2>2. Cardinality(A) <= Cardinality(Kin(e)) /\ Cardinality(A) \in Nat /\ Cardinality(Kin(e)) \in Nat
    BY <2>1, Fewer, Finite
  <2>3. restarts \in Nat /\ Cardinality(Kin(e)) <= 1 + restarts
    BY BudgetNat DEF Room, Inv, TypeOK
  <2> QED BY <2>2, <2>3
<1> QED BY <1>1, <1>2, <1>3, InvAlways, PTL DEF Spec
=============================================================================
