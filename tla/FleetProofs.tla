----------------------------- MODULE FleetProofs -----------------------------
(***************************************************************************)
(* Proofs about Fleet: its types, and that, while no request overlaps one  *)
(* that it disturbs, a row has its key or a reason not to, the system      *)
(* agent its row, and Docker and the database agree.                       *)
(***************************************************************************)
EXTENDS Fleet, TLAPS

(* Which operation a request is at which step of.                          *)
Stage(r) ==
  /\ r.pc = "volume" => r.op \in {"create", "deploy"}
  /\ r.pc \in {"run", "register"} => r.op \in Making
  /\ r.pc \in {"previous", "create"} => r.op = "deploy"
  /\ r.pc = "start" => r.op \in {"start", "ensure"}
  /\ r.pc = "reload" => r.op = "ensure" /\ r.name = System
  /\ r.pc \in {"renew", "discard", "rerun", "restart"} => r.op = "renew"
  /\ r.pc = "halt" => r.op = "stop"
  /\ r.pc \in {"stop", "remove", "unmount", "keys", "owner"} => r.op = "delete"
  /\ r.pc \in {"pause", "rename", "rows", "back"} => r.op = "rename"
  /\ r.pc \in {"each", "resume"} => r.op = "fleet"
Stages == \A h \in Handlers : Stage(req[h])

(* A request that makes an agent has made its key.                         *)
MakersHaveKeys ==
  ~clash => \A h \in Handlers : req[h].pc \in {"volume", "run", "register"} => req[h].name \in Keyed
NoOverlap ==
  ~clash => \A g, h \in Active : g # h => ~Overlaps(req[g], req[h])
RenamedUnmarked ==
  ~clash => \A h \in Active : req[h].op = "rename" => req[h].name \notin flagged
MarkedHaveRows == \A n \in flagged : owner[n] # None
SystemNotDeleted == \A h \in Active : req[h].op = "delete" => req[h].name # System

Kept == /\ RowsHaveKeys /\ MakersHaveKeys /\ NoOverlap
        /\ RenamedUnmarked /\ MarkedHaveRows /\ SystemNotDeleted
IInv == TypeOK /\ Stages /\ Kept

-----------------------------------------------------------------------------
(* What the steps do to the names that have a key or are known to be       *)
(* without.                                                                *)
LEMMA KeyMade ==
  ASSUME NEW n, MakesKey(n)
  PROVE  Keyed' = Keyed \union {n}
BY DEF MakesKey, Keyed

LEMMA KeyRemoved ==
  ASSUME NEW h \in Handlers, NEW n \in Names, RemovesKey(h, n)
  PROVE  Keyed' = Keyed
BY DEF RemovesKey, Keyed

LEMMA KeyDeleted ==
  ASSUME NEW h \in Handlers, DeleteKeys(h)
  PROVE  \/ Move(h, "keys", "owner") /\ Keyed' = Keyed \ {req[h].name}
         \/ /\ Move(h, "keys", "owner") \/ Move(h, "keys", "done")
            /\ Keyed' = Keyed /\ Fails(TRUE)
BY DEF DeleteKeys, Keyed

LEMMA OwnerDeleted ==
  ASSUME NEW h \in Handlers, DeleteOwner(h)
  PROVE  \/ /\ Keyed' = Keyed /\ flagged' = flagged \ {req[h].name}
            /\ owner' = [owner EXCEPT ![req[h].name] = None]
         \/ Keyed' = Keyed \union {req[h].name} /\ UNCHANGED <<owner, flagged>> /\ Fails(TRUE)
BY DEF DeleteOwner, Keyed

LEMMA KeyMoved ==
  ASSUME NEW n, NEW m, keys' = Moved(keys, n, m), lost' = Moved(lost, n, m)
  PROVE  Keyed' = Moved(Keyed, n, m)
BY DEF Moved, Keyed

-----------------------------------------------------------------------------
(* What a step does to Docker.                                             *)
DockerStep ==
  \/ UNCHANGED box /\ volumes \subseteq volumes' /\ volumes' \subseteq Names
  \/ UNCHANGED docker
  \/ /\ UNCHANGED volumes
     /\ \E b \in Present, s \in {"running", "stopped", "removed"} : SetState(b, s)
  \/ \E b \in Boxes, s \in {"running", "stopped"}, n, home \in Names,
        by \in Handlers \union {Admin, None} : ~Taken(n) /\ PutBox(b, s, n, home, by)
  \/ /\ UNCHANGED volumes
     /\ \E b \in Present, n \in Names : ~Taken(n) /\ box' = [box EXCEPT ![b].name = n]
  \/ /\ UNCHANGED box
     /\ \E n \in Names : volumes' = volumes \ {n} /\ \A b \in Present : box[b].home # n
  \/ /\ UNCHANGED volumes
     /\ \E S \in SUBSET Running :
          box' = [b \in Boxes |-> IF b \in S THEN [box[b] EXCEPT !.state = "stopped"] ELSE box[b]]

(* Any such step keeps containers and volumes in order, and no container   *)
(* that was made comes to be unused.                                       *)
LEMMA DockerKept ==
  ASSUME DockerOK, DockerStep
  PROVE  DockerOK' /\ \A b \in Boxes : box[b].state # "unused" => box'[b].state # "unused"
<1> USE DEF DockerOK, Present, Box
<1>1. CASE UNCHANGED box /\ volumes \subseteq volumes' /\ volumes' \subseteq Names
  BY <1>1
<1>2. CASE UNCHANGED docker
  BY <1>2 DEF docker
<1>3. CASE /\ UNCHANGED volumes
           /\ \E b \in Present, s \in {"running", "stopped", "removed"} : SetState(b, s)
  BY <1>3 DEF SetState
<1>4. CASE \E b \in Boxes, s \in {"running", "stopped"}, n, home \in Names,
             by \in Handlers \union {Admin, None} : ~Taken(n) /\ PutBox(b, s, n, home, by)
  BY <1>4 DEF Taken, Called, PutBox, Fresh
<1>5. CASE /\ UNCHANGED volumes
           /\ \E b \in Present, n \in Names : ~Taken(n) /\ box' = [box EXCEPT ![b].name = n]
  BY <1>5 DEF Taken, Called
<1>6. CASE /\ UNCHANGED box
           /\ \E n \in Names : volumes' = volumes \ {n} /\ \A b \in Present : box[b].home # n
  BY <1>6
<1>7. CASE /\ UNCHANGED volumes
           /\ \E S \in SUBSET Running :
                box' = [b \in Boxes |-> IF b \in S THEN [box[b] EXCEPT !.state = "stopped"] ELSE box[b]]
  BY <1>7 DEF Running
<1> QED
  BY <1>1, <1>2, <1>3, <1>4, <1>5, <1>6, <1>7 DEF DockerStep

-----------------------------------------------------------------------------
LEMMA OnDocker ==
  ASSUME TypeOK, Stages, Next
  PROVE  DockerStep
<1> PICK h \in Handlers : Creating(h) \/ Switching(h) \/ Deleting(h) \/ Renaming(h) \/ OnFleet(h)
  BY DEF Next
<1> USE SystemNamed, NoneIsNothing
        DEF TypeOK, DockerOK, RequestsOK, Request, Meant, Stages, Stage, Active, Making, WithBox
<1>1. CASE Creating(h)
  <2>1. CASE \E n \in Names : CreateBegins(h, n)
    BY <2>1 DEF CreateBegins, DockerStep
  <2>2. CASE CreateVolume(h)
    <3>1. req[h].pc = "volume" /\ req[h].name \in Names
      BY <2>2 DEF CreateVolume, Move
    <3>2. UNCHANGED box /\ volumes \subseteq volumes' /\ volumes' \subseteq Names
      BY <2>2, <3>1 DEF CreateVolume, docker
    <3> QED
      BY <3>2 DEF DockerStep
  <2>3. CASE CreateRuns(h)
    <3>1. req[h].pc = "run" /\ req[h].name \in Names /\ Maker(h) \in Handlers \union {Admin, None}
      BY <2>3 DEF CreateRuns, RunBox, Move, Maker
    <3>2. \/ UNCHANGED docker
          \/ \E b \in Boxes, s \in {"running", "stopped"} :
               ~Taken(req[h].name) /\ PutBox(b, s, req[h].name, req[h].name, Maker(h))
      BY <2>3 DEF CreateRuns, RunBox, Works
    <3> QED
      BY <3>1, <3>2 DEF DockerStep
  <2>4. CASE \/ CreateRegisters(h) \/ DeployBegins(h) \/ DeployCreates(h) \/ EnsureBegins(h)
             \/ EnsureReloads(h) \/ \E n \in Names : RemovesKey(h, n)
    BY <2>4 DEF CreateRegisters, DeployBegins, DeployCreates, EnsureBegins, EnsureReloads,
                RemovesKey, DockerStep
  <2>5. CASE DeployStops(h)
    BY <2>5 DEF DeployStops, Works, DockerStep, docker
  <2> QED
    BY <1>1, <2>1, <2>2, <2>3, <2>4, <2>5 DEF Creating
<1>2. CASE Switching(h)
  <2>1. CASE \E n \in Names : StartBegins(h, n) \/ StopBegins(h, n)
    BY <2>1 DEF StartBegins, StopBegins, DockerStep
  <2>2. CASE RenewStops(h) \/ Stops(h)
    BY <2>2 DEF RenewStops, Stops, Works, DockerStep, docker
  <2>3. CASE RenewRemoves(h)
    BY <2>3 DEF RenewRemoves, Works, Removable, Move, Present, DockerStep, docker
  <2>4. CASE RenewRuns(h)
    BY <2>4, SMTT(30) DEF RenewRuns, RunBox, Move, Works, Fails, Box, DockerStep
  <2>5. CASE Starts(h)
    BY <2>5 DEF Starts, Works, Called, DockerStep, docker
  <2> QED
    BY <1>2, <2>1, <2>2, <2>3, <2>4, <2>5 DEF Switching
<1>3. CASE Deleting(h)
  <2>1. CASE \E n \in Names : DeleteBegins(h, n)
    BY <2>1 DEF DeleteBegins, DockerStep
  <2>2. CASE DeleteStops(h)
    BY <2>2 DEF DeleteStops, Works, DockerStep, docker
  <2>3. CASE DeleteRemoves(h)
    BY <2>3 DEF DeleteRemoves, Works, Removable, Move, Present, DockerStep, docker
  <2>4. CASE DeleteVolume(h)
    BY <2>4 DEF DeleteVolume, Works, Move, DockerStep, docker
  <2>5. CASE DeleteKeys(h) \/ DeleteOwner(h)
    BY <2>5 DEF DeleteKeys, DeleteOwner, DockerStep
  <2> QED
    BY <1>3, <2>1, <2>2, <2>3, <2>4, <2>5 DEF Deleting
<1>4. CASE Renaming(h)
  <2>1. CASE \E n, m \in Names : RenameBegins(h, n, m)
    BY <2>1 DEF RenameBegins, DockerStep
  <2>2. CASE RenameStops(h)
    BY <2>2 DEF RenameStops, Works, DockerStep, docker
  <2>3. CASE RenameBox(h) \/ RenameBack(h)
    BY <2>3 DEF RenameBox, RenameBack, SetName, Works, Move, DockerStep, docker
  <2>4. CASE RenameRows(h)
    BY <2>4 DEF RenameRows, DockerStep
  <2> QED
    BY <1>4, <2>1, <2>2, <2>3, <2>4 DEF Renaming
<1>5. CASE OnFleet(h)
  <2>1. CASE \E again \in BOOLEAN : FleetBegins(h, again)
    BY <2>1 DEF FleetBegins, DockerStep
  <2>2. CASE \E n \in Names \union {None} : FleetStops(h, n)
    BY <2>2 DEF FleetStops, Works, Called, DockerStep, docker
  <2>3. CASE FleetResumes(h)
    BY <2>3 DEF FleetResumes, Works, DockerStep, docker
  <2>4. CASE EmergencyStop(h)
    <3> DEFINE S == {b \in Running : box[b].name \in {Listed[box[c].name] : c \in Running} \ flagged}
    <3>1. S \in SUBSET Running
      OBVIOUS
    <3>2. box' = [b \in Boxes |-> IF b \in S THEN [box[b] EXCEPT !.state = "stopped"] ELSE box[b]]
      BY <2>4 DEF EmergencyStop
    <3> QED
      BY <2>4, <3>1, <3>2 DEF EmergencyStop, DockerStep
  <2> QED
    BY <1>5, <2>1, <2>2, <2>3, <2>4 DEF OnFleet
<1> QED
  BY <1>1, <1>2, <1>3, <1>4, <1>5

-----------------------------------------------------------------------------
(* A step gives one request another record, as sound as the last one.      *)
Sound(r) == r \in Request /\ Stage(r) /\ (r.pc \notin {"idle", "done"} => Meant(r))
Becomes(h, r) == Sound(r) /\ req' = [req EXCEPT ![h] = r]

LEMMA BoxesNamed ==
  ASSUME DockerOK, NEW b \in Present
  PROVE  b \in Boxes /\ box[b].state # "unused" /\ box[b].name \in Names
BY DEF DockerOK, Present

LEMMA SoundNow ==
  ASSUME RequestsOK, Stages, NEW h \in Handlers
  PROVE  Sound(req[h])
BY DEF RequestsOK, Stages, Sound, Active

LEMMA Moves ==
  ASSUME RequestsOK, Stages, NEW h \in Handlers, NEW from, NEW to \in Pc, Move(h, from, to),
         Stage([req[h] EXCEPT !.pc = to]),
         to \in WithBox => from \in WithBox,
         from \notin {"idle", "done"}
  PROVE  \E r \in Request : Becomes(h, r)
<1> DEFINE r == [req[h] EXCEPT !.pc = to]
<1>1. Sound(req[h]) /\ req[h].pc = from
  BY SoundNow DEF Move
<1>2. r \in Request /\ r.pc = to
  BY <1>1 DEF Sound, Request
<1>3. Meant(r)
  BY <1>1 DEF Sound, Meant, Request
<1>4. req' = [req EXCEPT ![h] = r]
  BY <1>1, <1>2 DEF Move, RequestsOK, Request
<1> QED
  BY <1>2, <1>3, <1>4 DEF Becomes, Sound

LEMMA Arrives ==
  ASSUME TypeOK, Stages, NEW h \in Handlers, NEW from, NEW to \in Pc, Move(h, from, to),
         \/ from = "volume" /\ to \in {"run", "done"}
         \/ from = "run" /\ to \in {"register", "done"}
         \/ from \in {"register", "start", "restart", "halt", "owner", "back"} /\ to = "done"
         \/ from = "previous" /\ to = "create"
         \/ from = "create" /\ to \in {"volume", "done"}
         \/ from = "renew" /\ to = "discard"
         \/ from = "discard" /\ to \in {"rerun", "done"}
         \/ from = "rerun" /\ to \in {"restart", "done"}
         \/ from = "stop" /\ to \in {"remove", "unmount"}
         \/ from = "remove" /\ to = "unmount"
         \/ from = "unmount" /\ to = "keys"
         \/ from = "keys" /\ to \in {"owner", "done"}
         \/ from = "reload" /\ to \in {"start", "done"}
         \/ from = "pause" /\ to \in {"rename", "done"}
         \/ from = "rename" /\ to \in {"rows", "done"}
         \/ from = "rows" /\ to \in {"back", "done"}
         \/ from = "resume" /\ to \in {"each", "done"}
  PROVE  \E r \in Request : Becomes(h, r)
<1>1. req[h].pc = from /\ Stage(req[h]) /\ req[h] \in Request
  BY DEF Move, TypeOK, RequestsOK, Stages
<1>2. Stage([req[h] EXCEPT !.pc = to])
  BY <1>1 DEF Stage, Request, Making
<1>3. (to \in WithBox => from \in WithBox) /\ from \notin {"idle", "done"}
  BY DEF WithBox
<1> QED
  BY <1>2, <1>3, Moves DEF TypeOK

LEMMA OnRequests ==
  ASSUME TypeOK, Stages, Next
  PROVE  \E h \in Handlers : \E r \in Request : Becomes(h, r)
<1> PICK h \in Handlers : Creating(h) \/ Switching(h) \/ Deleting(h) \/ Renaming(h) \/ OnFleet(h)
  BY DEF Next
<1> SUFFICES \E r \in Request : Becomes(h, r)
  OBVIOUS
<1>b. ASSUME NEW r \in Request, Stage(r), r.pc \notin {"idle", "done"} => Meant(r), Begin(h, r)
      PROVE  \E q \in Request : Becomes(h, q)
  BY <1>b DEF Begin, Becomes, Sound
<1>1. CASE Creating(h)
  <2>1. CASE \E n \in Names : CreateBegins(h, n)
    BY <2>1, <1>b DEF CreateBegins, Idle, Request, Pc, Ops, Stage, Meant, WithBox
  <2>2. CASE CreateVolume(h)
    BY <2>2, Arrives DEF CreateVolume, Pc
  <2>3. CASE CreateRuns(h)
    BY <2>3, Arrives DEF CreateRuns, RunBox, Pc
  <2>4. CASE CreateRegisters(h)
    BY <2>4, Arrives DEF CreateRegisters, Pc
  <2>5. CASE DeployBegins(h)
    <3> PICK i \in 0 .. Len(Family) - 1 : DeployBegins(h)!1!(i)
      BY <2>5 DEF DeployBegins
    <3> DEFINE previous == IF i > 0 /\ ListedAs(Family[i]) \intersect Running # {}
                           THEN Called(Family[i]) ELSE {}
    <3>1. PICK b \in IF previous = {} THEN {None} ELSE previous :
            Begin(h, [Idle EXCEPT !.pc = IF previous = {} THEN "create" ELSE "previous",
                                  !.op = "deploy", !.name = Family[i + 1], !.box = b])
      OBVIOUS
    <3>2. Family[i + 1] \in Names
      BY FamilyNames
    <3>3. previous # {} => b \in Boxes /\ box[b].state # "unused"
      BY <3>1, BoxesNamed DEF Called, TypeOK
    <3> QED
      BY <3>1, <3>2, <3>3, <1>b DEF Idle, Request, Pc, Ops, Stage, Meant, WithBox, Making
  <2>6. CASE DeployStops(h)
    BY <2>6, Arrives DEF DeployStops, Pc
  <2>7. CASE DeployCreates(h)
    BY <2>7, Arrives DEF DeployCreates, Pc
  <2>8. CASE EnsureBegins(h)
    BY <2>8, <1>b, SystemNamed, BoxesNamed
       DEF EnsureBegins, Called, Idle, Request, Pc, Ops, Stage, Meant, WithBox, Making, TypeOK
  <2>9. CASE EnsureReloads(h)
    BY <2>9, Arrives DEF EnsureReloads, Pc
  <2>10. CASE \E n \in Names : RemovesKey(h, n)
    BY <2>10, <1>b DEF RemovesKey, Idle, Request, Pc, Ops, Stage, Meant, WithBox, Making
  <2> QED
    BY <1>1, <2>1, <2>2, <2>3, <2>4, <2>5, <2>6, <2>7, <2>8, <2>9, <2>10 DEF Creating
<1>2. CASE Switching(h)
  <2>1. CASE \E n \in Names : StartBegins(h, n)
    BY <2>1, <1>b, BoxesNamed, ZenonT(60)
       DEF StartBegins, Called, Idle, Request, Pc, Ops, Stage, Meant, WithBox, Making, TypeOK
  <2>2. CASE \E n \in Names : StopBegins(h, n)
    BY <2>2, <1>b, BoxesNamed, ZenonT(60)
       DEF StopBegins, Called, Idle, Request, Pc, Ops, Stage, Meant, WithBox, Making, TypeOK
  <2>3. CASE RenewStops(h) \/ RenewRemoves(h)
    BY <2>3, Arrives DEF RenewStops, RenewRemoves, Pc
  <2>4. CASE RenewRuns(h)
    BY <2>4, Arrives DEF RenewRuns, RunBox, Pc
  <2>5. CASE Starts(h) \/ Stops(h)
    BY <2>5, Arrives DEF Starts, Stops, Pc
  <2> QED
    BY <1>2, <2>1, <2>2, <2>3, <2>4, <2>5 DEF Switching
<1>3. CASE Deleting(h)
  <2>1. CASE \E n \in Names : DeleteBegins(h, n)
    BY <2>1, <1>b, BoxesNamed, ZenonT(60)
       DEF DeleteBegins, Called, Idle, Request, Pc, Ops, Stage, Meant, WithBox, Making, TypeOK
  <2>2. CASE DeleteStops(h) \/ DeleteRemoves(h)
    BY <2>2, Arrives DEF DeleteStops, DeleteRemoves, Pc
  <2>3. CASE DeleteVolume(h) \/ DeleteKeys(h) \/ DeleteOwner(h)
    BY <2>3, Arrives DEF DeleteVolume, DeleteKeys, DeleteOwner, Pc
  <2> QED
    BY <1>3, <2>1, <2>2, <2>3 DEF Deleting
<1>4. CASE Renaming(h)
  <2>1. CASE \E n, m \in Names : RenameBegins(h, n, m)
    BY <2>1, <1>b, BoxesNamed, ZenonT(60)
       DEF RenameBegins, Called, Idle, Request, Pc, Ops, Stage, Meant, WithBox, Making, TypeOK
  <2>2. CASE RenameStops(h)
    BY <2>2, Arrives DEF RenameStops, Pc
  <2>3. CASE RenameBox(h) \/ RenameBack(h)
    BY <2>3, Arrives DEF RenameBox, RenameBack, SetName, Pc
  <2>4. CASE RenameRows(h)
    BY <2>4, Arrives DEF RenameRows, Pc
  <2> QED
    BY <1>4, <2>1, <2>2, <2>3, <2>4 DEF Renaming
<1>5. CASE OnFleet(h)
  <2>1. CASE \E again \in BOOLEAN : FleetBegins(h, again)
    <3> PICK again \in BOOLEAN : FleetBegins(h, again)
      BY <2>1
    <3> DEFINE S == {Listed[box[b].name] : b \in Running}
    <3>1. S \in SUBSET (Names \union {None})
      BY BoxesNamed, ListedNames DEF Running, Present, TypeOK
    <3> HIDE DEF S
    <3>2. Begin(h, [Idle EXCEPT !.pc = IF Running = {} THEN "done" ELSE "each", !.op = "fleet",
                                !.again = again, !.todo = S])
      BY DEF FleetBegins, S
    <3> QED
      BY <3>1, <3>2, <1>b DEF Idle, Request, Pc, Ops, Stage, Meant, WithBox, Making
  <2>2. CASE \E n \in Names \union {None} : FleetStops(h, n)
    <3> PICK n \in Names \union {None} : FleetStops(h, n)
      BY <2>2
    <3>1. Sound(req[h]) /\ req[h].op = "fleet"
      BY SoundNow DEF FleetStops, TypeOK, Stages, Stage
    <3>2. ASSUME NEW pc \in {"each", "done", "resume"}, NEW b \in Boxes \union {None},
                 pc = "resume" => b \in Boxes /\ box[b].state # "unused",
                 req' = [req EXCEPT ![h] = [req[h] EXCEPT !.pc = pc, !.box = b,
                                                          !.todo = req[h].todo \ {n}]]
          PROVE  \E r \in Request : Becomes(h, r)
      <4> DEFINE r == [req[h] EXCEPT !.pc = pc, !.box = b, !.todo = req[h].todo \ {n}]
      <4>1. r \in Request /\ r.pc = pc /\ r.op = "fleet" /\ r.box = b
        BY <3>1 DEF Sound, Request, Pc
      <4>2. Stage(r) /\ Meant(r)
        BY <3>2, <4>1 DEF Stage, Meant, WithBox
      <4>3. req' = [req EXCEPT ![h] = r]
        BY <3>2
      <4> HIDE DEF r
      <4> QED
        BY <4>1, <4>2, <4>3 DEF Becomes, Sound
    <3> DEFINE next == IF req[h].todo = {n} THEN "done" ELSE "each"
    <3>3. CASE \E b \in Called(n) :
                 req' = [req EXCEPT ![h].pc = IF req[h].again THEN "resume" ELSE next,
                                    ![h].box = b, ![h].todo = @ \ {n}]
      <4> DEFINE pc == IF req[h].again THEN "resume" ELSE next
      <4>1. PICK b \in Called(n) :
              req' = [req EXCEPT ![h].pc = pc, ![h].box = b, ![h].todo = @ \ {n}]
        BY <3>3
      <4>2. req' = [req EXCEPT ![h] = [req[h] EXCEPT !.pc = pc, !.box = b,
                                                     !.todo = req[h].todo \ {n}]]
        BY <4>1, <3>1 DEF Sound, Request, TypeOK, RequestsOK
      <4>3. b \in Boxes /\ box[b].state # "unused" /\ pc \in {"each", "done", "resume"}
        BY BoxesNamed DEF Called, TypeOK
      <4> HIDE DEF pc
      <4> QED
        BY <3>2, <4>2, <4>3
    <3>4. CASE req' = [req EXCEPT ![h].pc = next, ![h].todo = @ \ {n}]
      <4>1. req' = [req EXCEPT ![h] = [req[h] EXCEPT !.pc = next, !.box = req[h].box,
                                                     !.todo = req[h].todo \ {n}]]
        BY <3>1, <3>4 DEF Sound, Request, TypeOK, RequestsOK
      <4> QED
        BY <3>1, <3>2, <4>1 DEF Sound, Request
    <3> QED
      BY <3>3, <3>4 DEF FleetStops
  <2>3. CASE FleetResumes(h)
    BY <2>3, Arrives DEF FleetResumes, Pc
  <2>4. CASE EmergencyStop(h)
    BY <2>4, <1>b DEF EmergencyStop, Idle, Request, Pc, Ops, Stage, Meant, WithBox, Making
  <2> QED
    BY <1>5, <2>1, <2>2, <2>3, <2>4 DEF OnFleet
<1> QED
  BY <1>1, <1>2, <1>3, <1>4, <1>5

-----------------------------------------------------------------------------
LEMMA RowsStayOK ==
  ASSUME TypeOK, Stages, Next
  PROVE  RowsOK' /\ clash' \in BOOLEAN /\ faults' \in 0..MaxFaults
<1> PICK h \in Handlers : Creating(h) \/ Switching(h) \/ Deleting(h) \/ Renaming(h) \/ OnFleet(h)
  BY DEF Next
<1>1. Sound(req[h]) /\ (h \in Active => Meant(req[h])) /\ RowsOK
  BY SoundNow DEF TypeOK, RequestsOK
<1>a. clash' \in BOOLEAN
  BY DEF TypeOK, Creating, Switching, Deleting, Renaming, OnFleet, CreateBegins, CreateVolume,
         CreateRuns, CreateRegisters, DeployBegins, DeployStops, DeployCreates, EnsureBegins,
         EnsureReloads, RemovesKey, MakesKey, StartBegins, StopBegins, RenewStops,
         RenewRemoves, RenewRuns, RunBox, Starts, Stops,
         DeleteBegins, DeleteStops, DeleteRemoves, DeleteVolume, DeleteKeys, DeleteOwner,
         RenameBegins, RenameStops, RenameBox, RenameBack, SetName, RenameRows,
         FleetBegins, FleetStops, FleetResumes, EmergencyStop, Begin, Move
<1>b. UNCHANGED faults \/ (faults < MaxFaults /\ faults' = faults + 1)
  BY DEF Creating, Switching, Deleting, Renaming, OnFleet, CreateBegins, CreateVolume,
         CreateRuns, CreateRegisters, DeployBegins, DeployStops, DeployCreates, EnsureBegins,
         EnsureReloads, RemovesKey, MakesKey, StartBegins, StopBegins, RenewStops,
         RenewRemoves, RenewRuns, RunBox, Starts, Stops,
         DeleteBegins, DeleteStops, DeleteRemoves, DeleteVolume, DeleteKeys, DeleteOwner,
         RenameBegins, RenameStops, RenameBox, RenameBack, SetName, RenameRows,
         FleetBegins, FleetStops, FleetResumes, EmergencyStop, Begin, Works, Fails
<1>2. faults' \in 0..MaxFaults
  BY <1>b, FaultsNatural DEF TypeOK
<1> SUFFICES RowsOK'
  BY <1>a, <1>2
<1>n. req[h].pc \in {"register", "create", "keys", "owner", "rows"} =>
        req[h].name \in Names /\ (req[h].pc = "rows" => req[h].to \in Names)
  BY <1>1 DEF Active, Meant, Sound, Stage, Making
<1>3. CASE \E n \in Names : CreateBegins(h, n)
  BY <1>1, <1>3, KeyMade DEF RowsOK, CreateBegins
<1>4. CASE CreateRegisters(h)
  <2>1. Keyed' = Keyed /\ req[h].name \in Names /\ Maker(h) \in Handlers \union {Admin, None}
    BY <1>4, <1>n DEF CreateRegisters, Keyed, Move, Maker
  <2> QED
    BY <1>1, <1>4, <2>1 DEF RowsOK, CreateRegisters, Register
<1>5. CASE DeployCreates(h)
  <2>1. req[h].name \in Names /\ UNCHANGED <<owner, flagged>>
    BY <1>5, <1>n DEF DeployCreates, Move
  <2>2. Keyed' = Keyed \/ Keyed' = Keyed \union {req[h].name}
    BY <1>5, KeyMade DEF DeployCreates, Keyed
  <2> QED
    BY <1>1, <2>1, <2>2 DEF RowsOK
<1>6. CASE EnsureBegins(h)
  <2>1. Keyed' = Keyed \/ Keyed' = Keyed \union {System}
    BY <1>6, KeyMade DEF EnsureBegins, Keyed
  <2> QED
    BY <1>1, <1>6, <2>1, SystemNamed DEF RowsOK, EnsureBegins
<1>7. CASE EnsureReloads(h)
  <2>1. Keyed' = Keyed
    BY <1>7 DEF EnsureReloads, Keyed
  <2> QED
    BY <1>1, <1>7, <2>1, SystemNamed DEF RowsOK, EnsureReloads, Register
<1>8. CASE DeleteKeys(h)
  <2>1. UNCHANGED <<owner, flagged>>
    BY <1>8 DEF DeleteKeys
  <2> QED
    BY <1>1, <1>8, <2>1, KeyDeleted DEF RowsOK
<1>9. CASE DeleteOwner(h)
  <2>1. req[h].name \in Names
    BY <1>9, <1>n DEF DeleteOwner, Move
  <2> QED
    BY <1>1, <1>9, <2>1, OwnerDeleted DEF RowsOK
<1>10. CASE RenameRows(h)
  <2> DEFINE n == req[h].name
             m == req[h].to
  <2>1. n \in Names /\ m \in Names
    BY <1>10, <1>n DEF RenameRows, Move
  <2>2. CASE UNCHANGED db
    BY <1>1, <2>2 DEF RowsOK, db, Keyed
  <2>3. CASE /\ owner' = [owner EXCEPT ![n] = None, ![m] = owner[n]]
             /\ flagged' = Moved(flagged, n, m)
             /\ keys' = Moved(keys, n, m) /\ lost' = Moved(lost, n, m)
    <3>1. Keyed' = Moved(Keyed, n, m)
      BY <2>3, KeyMoved
    <3> QED
      BY <1>1, <2>1, <2>3, <3>1 DEF RowsOK, Moved
  <2> QED
    BY <1>10, <2>2, <2>3 DEF RenameRows
<1>11. CASE \E n \in Names : RemovesKey(h, n)
  BY <1>1, <1>11, KeyRemoved DEF RowsOK, RemovesKey
<1>12. CASE UNCHANGED db
  BY <1>1, <1>12 DEF RowsOK, db, Keyed
<1>13. \/ \E n \in Names : CreateBegins(h, n) \/ RemovesKey(h, n)
       \/ CreateRegisters(h) \/ DeployCreates(h) \/ EnsureBegins(h) \/ EnsureReloads(h)
       \/ DeleteKeys(h) \/ DeleteOwner(h) \/ RenameRows(h) \/ UNCHANGED db
  BY DEF Creating, Switching, Deleting, Renaming, OnFleet, CreateVolume, CreateRuns, RunBox,
         DeployBegins, DeployStops, StartBegins, StopBegins, RenewStops, RenewRemoves, RenewRuns,
         Starts, Stops, DeleteBegins, DeleteStops, DeleteRemoves, DeleteVolume, RenameBegins,
         RenameStops, RenameBox, RenameBack, SetName, FleetBegins, FleetStops, FleetResumes,
         EmergencyStop
<1> QED
  BY <1>3, <1>4, <1>5, <1>6, <1>7, <1>8, <1>9, <1>10, <1>11, <1>12, <1>13

(* The types and the steps of requests are inductive together.             *)
LEMMA TypesKept ==
  ASSUME TypeOK, Stages, [Next]_vars
  PROVE  TypeOK' /\ Stages'
<1>1. CASE UNCHANGED vars
  BY <1>1 DEF vars, docker, db, Keyed, TypeOK, DockerOK, RowsOK, RequestsOK, Meant, Active, Present, Stages
<1>2. CASE Next
  <2>1. DockerOK' /\ \A b \in Boxes : box[b].state # "unused" => box'[b].state # "unused"
    BY <1>2, OnDocker, DockerKept DEF TypeOK
  <2>2. PICK h \in Handlers, r \in Request : Becomes(h, r)
    BY <1>2, OnRequests
  <2>3. \A g \in Handlers : Sound(req'[g])
    BY <2>2, SoundNow DEF Becomes, TypeOK, RequestsOK
  <2>4. req' \in [Handlers -> Request]
    BY <2>2 DEF Becomes, TypeOK, RequestsOK
  <2>5. RequestsOK' /\ Stages'
    BY <2>1, <2>3, <2>4 DEF RequestsOK, Stages, Sound, Meant, Active
  <2> QED
    BY <1>2, <2>1, <2>5, RowsStayOK DEF TypeOK
<1> QED
  BY <1>1, <1>2

LEMMA TypesAtFirst ==
  ASSUME Init
  PROVE  TypeOK /\ Stages
<1>a. clash = FALSE /\ faults = 0
  BY DEF Init
<1>b. clash \in BOOLEAN
  BY <1>a
<1>c. faults \in 0..MaxFaults
  BY <1>a, FaultsNatural
<1> PICK live \in SUBSET Names : Init!1!(live)
  BY DEF Init
<1> PICK up \in SUBSET live, home \in [live -> Names] :
      /\ box = [b \in Boxes |->
                  IF \E n \in live : First[n] = b
                  THEN LET n == CHOOSE n \in live : First[n] = b IN
                         [state |-> IF n \in up THEN "running" ELSE "stopped",
                          name |-> n, home |-> home[n], by |-> Admin]
                  ELSE NoBox]
      /\ volumes = {home[n] : n \in live}
      /\ owner = [n \in Names |-> IF n \in live THEN Admin ELSE None]
      /\ flagged = live \intersect {System}
      /\ keys = live /\ lost = {}
  OBVIOUS
<1>1. \A b \in Boxes :
        \/ /\ ~ \E n \in live : First[n] = b
           /\ box[b] = NoBox
        \/ \E n \in live : /\ First[n] = b /\ box[b].name = n /\ box[b].home = home[n]
                            /\ box[b] \in Box
  <2> TAKE b \in Boxes
  <2>1. CASE \E n \in live : First[n] = b
    <3> DEFINE n == CHOOSE n \in live : First[n] = b
    <3>1. n \in live /\ First[n] = b
      BY <2>1
    <3>2. box[b] = [state |-> IF n \in up THEN "running" ELSE "stopped",
                    name |-> n, home |-> home[n], by |-> Admin]
      BY <2>1
    <3> HIDE DEF n
    <3> QED
      BY <3>1, <3>2 DEF Box
  <2> QED
    BY <2>1
<1>2. DockerOK
  BY <1>1 DEF DockerOK, Box, NoBox, Present
<1>3. RowsOK
  BY DEF RowsOK, Keyed
<1>4. RequestsOK /\ Stages
  BY DEF Init, RequestsOK, Stages, Stage, Idle, Request, Active, Pc, Ops
<1> QED
  BY <1>b, <1>c, <1>2, <1>3, <1>4 DEF TypeOK

(* In every state that can be reached the variables have their types.      *)
THEOREM TypeCorrect == Spec => []TypeOK
<1>1. TypeOK /\ Stages /\ [Next]_vars => TypeOK' /\ Stages'
  BY TypesKept
<1>2. Init => TypeOK /\ Stages
  BY TypesAtFirst
<1> QED
  BY <1>1, <1>2, PTL DEF Spec

-----------------------------------------------------------------------------
(* Requests that go on keep what they are, so they overlap as before.      *)
Same(r, q) == r.op = q.op /\ r.name = q.name /\ r.to = q.to /\ r.again = q.again
GoesOn(h) == /\ h \in Active /\ UNCHANGED clash
             /\ \E r \in Request : req' = [req EXCEPT ![h] = r] /\ Same(r, req[h])
MakerAt == {"volume", "run", "register"}

LEMMA GoingOn ==
  ASSUME RequestsOK, NoOverlap, SystemNotDeleted, NEW h \in Handlers, GoesOn(h)
  PROVE  /\ NoOverlap' /\ SystemNotDeleted'
         /\ \A g \in Handlers : Same(req'[g], req[g]) /\ (g # h => req'[g] = req[g])
         /\ \A g \in Active' : g \in Active
<1>1. \A g \in Handlers : Same(req'[g], req[g]) /\ (g # h => req'[g] = req[g])
  BY DEF GoesOn, RequestsOK, Same
<1>2. \A g \in Active' : g \in Active
  BY <1>1 DEF GoesOn, Active
<1>3. \A g, k \in Handlers : Overlaps(req'[g], req'[k]) => Overlaps(req[g], req[k])
  BY <1>1 DEF Same, Overlaps, Disturbs, NamesOf
<1>4. NoOverlap'
  BY <1>2, <1>3 DEF NoOverlap, GoesOn, Active
<1>5. SystemNotDeleted'
  BY <1>1, <1>2 DEF SystemNotDeleted, Same, Active
<1> QED
  BY <1>1, <1>2, <1>4, <1>5

LEMMA QuietKeeps ==
  ASSUME TypeOK, Kept, NEW h \in Handlers, GoesOn(h), UNCHANGED db,
         req'[h].pc \in MakerAt => req[h].pc \in MakerAt,
         req[h].pc # "owner"
  PROVE  Kept'
<1>1. /\ NoOverlap' /\ SystemNotDeleted'
      /\ \A g \in Handlers : Same(req'[g], req[g]) /\ (g # h => req'[g] = req[g])
      /\ \A g \in Active' : g \in Active
  BY GoingOn DEF TypeOK, Kept
<1>2. clash' = clash /\ owner' = owner /\ Keyed' = Keyed /\ flagged' = flagged
  BY DEF GoesOn, db, Keyed
<1>3. RowsHaveKeys'
  BY <1>1, <1>2 DEF Kept, RowsHaveKeys
<1>4. MakersHaveKeys'
  BY <1>1, <1>2 DEF Kept, MakersHaveKeys, Same, MakerAt
<1>5. RenamedUnmarked'
  BY <1>1, <1>2 DEF Kept, RenamedUnmarked, Same, Active
<1>6. MarkedHaveRows'
  BY <1>2 DEF Kept, MarkedHaveRows
<1> QED
  BY <1>1, <1>3, <1>4, <1>5, <1>6 DEF Kept

(* A request that begins is weighed against all that are under way.        *)
LEMMA BeginningKeeps ==
  ASSUME TypeOK, Kept, NEW h \in Handlers, NEW r \in Request, Begin(h, r),
         owner' = owner, flagged' = flagged, Keyed \subseteq Keyed',
         r.pc \in MakerAt => r.name \in Keyed',
         r.op = "delete" => r.name # System,
         r.op = "rename" => r.name \notin flagged
  PROVE  Kept'
<1>1. \A g \in Handlers : req'[g] = IF g = h THEN r ELSE req[g]
  BY DEF Begin, TypeOK, RequestsOK
<1>2. \A g \in Active' : g = h \/ g \in Active
  BY <1>1 DEF Active
<1>3. h \notin Active /\ \A g \in Active : g \in Active'
  BY <1>1 DEF Active, Begin
<1>4. ~clash' => ~clash /\ \A g \in Active : ~Overlaps(r, req[g])
  BY DEF Begin
<1>5. \A q, s : Overlaps(q, s) <=> Overlaps(s, q)
  BY DEF Overlaps
<1>6. NoOverlap'
  <2> SUFFICES ASSUME ~clash', NEW g \in Active', NEW k \in Active', g # k
               PROVE  ~Overlaps(req'[g], req'[k])
    BY DEF NoOverlap
  <2> QED
    BY <1>1, <1>2, <1>3, <1>4, <1>5 DEF Kept, NoOverlap, Active
<1>7. RowsHaveKeys'
  BY <1>1, <1>4 DEF Kept, RowsHaveKeys, Begin
<1>8. MakersHaveKeys'
  BY <1>1, <1>4 DEF Kept, MakersHaveKeys, MakerAt
<1>9. RenamedUnmarked'
  BY <1>1, <1>2, <1>4 DEF Kept, RenamedUnmarked, Active
<1>10. MarkedHaveRows' /\ SystemNotDeleted'
  BY <1>1, <1>2 DEF Kept, MarkedHaveRows, SystemNotDeleted, Active
<1> QED
  BY <1>6, <1>7, <1>8, <1>9, <1>10 DEF Kept

LEMMA MovingOn ==
  ASSUME TypeOK, NEW h \in Handlers, NEW from, NEW to \in Pc, from \notin {"idle", "done"},
         Move(h, from, to)
  PROVE  GoesOn(h) /\ req[h].pc = from /\ req'[h].pc = to
<1> DEFINE r == [req[h] EXCEPT !.pc = to]
<1>1. req[h] \in Request
  BY DEF TypeOK, RequestsOK
<1>2. r \in Request /\ r.pc = to /\ Same(r, req[h])
  BY <1>1 DEF Request, Same
<1>3. req' = [req EXCEPT ![h] = r] /\ req[h].pc = from /\ UNCHANGED clash
  BY DEF Move
<1> HIDE DEF r
<1> QED
  BY <1>2, <1>3 DEF GoesOn, Active, TypeOK, RequestsOK

(* A deletion or a renaming is alone with its names, stops apart.          *)
LEMMA Alone ==
  ASSUME Kept, ~clash, NEW h \in Active, req[h].op \in {"delete", "rename"},
         NEW g \in Active, g # h, req[g].op # "stop",
         NEW n \in Names, n \in {req[h].name, req[h].to}, req[g].name = n
  PROVE  FALSE
<1>1. Disturbs(req[h], req[g])
  BY DEF Disturbs
<1>2. n \in NamesOf(req[h]) /\ n \in NamesOf(req[g])
  BY NoneIsNothing DEF NamesOf
<1>3. ~Overlaps(req[h], req[g])
  BY DEF Kept, NoOverlap
<1> QED
  BY <1>1, <1>2, <1>3 DEF Overlaps

(* Steps that make, delete or rename rows and keys.                        *)
LEMMA RegisterKeeps ==
  ASSUME TypeOK, Stages, Kept, NEW h \in Handlers, CreateRegisters(h) \/ EnsureReloads(h)
  PROVE  Kept'
<1> DEFINE n == req[h].name
<1>1. /\ GoesOn(h) /\ req[h].pc \in {"register", "reload"} /\ req'[h].pc \in {"start", "done"}
      /\ Keyed' = Keyed
  BY MovingOn DEF CreateRegisters, EnsureReloads, Keyed, Pc
<1>2. /\ NoOverlap' /\ SystemNotDeleted'
      /\ \A g \in Handlers : Same(req'[g], req[g]) /\ (g # h => req'[g] = req[g])
      /\ \A g \in Active' : g \in Active
  BY <1>1, GoingOn DEF TypeOK, Kept
<1>3. /\ clash' = clash /\ n \in Names /\ h \in Active /\ req[h].op \in Making
      /\ req[h].pc = "reload" => req[h].op = "ensure" /\ n = System
  BY <1>1, SystemNamed DEF GoesOn, TypeOK, RequestsOK, Meant, Active, Making, Stages, Stage
<1>4. \/ /\ owner' = [owner EXCEPT ![n] = IF @ = None THEN Maker(h) ELSE @]
         /\ flagged' = IF req[h].op = "ensure" THEN flagged \union {n} ELSE flagged
      \/ UNCHANGED <<owner, flagged>>
  <2>1. CASE CreateRegisters(h)
    BY <2>1 DEF CreateRegisters, Register
  <2>2. CASE EnsureReloads(h)
    <3>1. req[h].op = "ensure" /\ n = System
      BY <2>2, <1>3 DEF EnsureReloads, Move
    <3> QED
      BY <2>2, <3>1 DEF EnsureReloads, Register, Maker
  <2> QED
    BY <2>1, <2>2
<1>5. Maker(h) # None
  BY NoneIsNothing DEF Maker
<1>6. ~clash => n \in Keyed \/ req[h].op = "ensure"
  BY <1>1, <1>3 DEF Kept, MakersHaveKeys
<1>7. RowsHaveKeys'
  <2>1. \A g \in Handlers : req[g].pc = "owner" => req'[g].pc = "owner" /\ req'[g].name = req[g].name
    BY <1>1, <1>2
  <2> QED
    BY <1>1, <1>3, <1>4, <1>6, <2>1 DEF Kept, RowsHaveKeys, TypeOK, RowsOK
<1>8. MakersHaveKeys'
  BY <1>1, <1>2, <1>3 DEF Kept, MakersHaveKeys, Same
<1>9. RenamedUnmarked'
  <2> SUFFICES ASSUME ~clash', NEW g \in Active', req'[g].op = "rename", req'[g].name \in flagged'
               PROVE  FALSE
    BY DEF RenamedUnmarked
  <2>1. g \in Active /\ g # h /\ req[g].op = "rename" /\ req[g].name = n
    BY <1>1, <1>2, <1>3, <1>4 DEF Kept, RenamedUnmarked, Same, Active, Making
  <2> QED
    BY <1>3, <2>1, Alone DEF Making
<1>10. MarkedHaveRows'
  BY <1>3, <1>4, <1>5 DEF Kept, MarkedHaveRows, TypeOK, RowsOK
<1> QED
  BY <1>2, <1>7, <1>8, <1>9, <1>10 DEF Kept

LEMMA DeployKeeps ==
  ASSUME TypeOK, Stages, Kept, NEW h \in Handlers, DeployCreates(h)
  PROVE  Kept'
<1>1. GoesOn(h) /\ req[h].pc = "create" /\ req'[h].pc \in {"done", "volume"}
      /\ req[h].op = "deploy"
  BY MovingOn DEF DeployCreates, Pc, Stages, Stage
<1>2. /\ NoOverlap' /\ SystemNotDeleted'
      /\ \A g \in Handlers : Same(req'[g], req[g]) /\ (g # h => req'[g] = req[g])
      /\ \A g \in Active' : g \in Active
  BY <1>1, GoingOn DEF TypeOK, Kept
<1>3. /\ clash' = clash /\ owner' = owner /\ flagged' = flagged /\ Keyed \subseteq Keyed'
      /\ req'[h].pc = "volume" => req[h].name \in Keyed'
  <2>1. UNCHANGED <<clash, owner, flagged>>
    BY DEF DeployCreates, Move
  <2>2. CASE Move(h, "create", "done") /\ UNCHANGED <<keys, lost>>
    <3>1. req'[h].pc = "done"
      BY <2>2, MovingOn DEF Pc
    <3> QED
      BY <2>1, <2>2, <3>1 DEF Keyed
  <2>3. CASE MakesKey(req[h].name)
    BY <2>1, <2>3, KeyMade
  <2> QED
    BY <2>2, <2>3 DEF DeployCreates
<1>4. RowsHaveKeys'
  BY <1>1, <1>2, <1>3 DEF Kept, RowsHaveKeys
<1>5. MakersHaveKeys'
  BY <1>1, <1>2, <1>3 DEF Kept, MakersHaveKeys, Same
<1>6. RenamedUnmarked' /\ MarkedHaveRows'
  BY <1>2, <1>3 DEF Kept, RenamedUnmarked, MarkedHaveRows, Same, Active
<1> QED
  BY <1>2, <1>4, <1>5, <1>6 DEF Kept

LEMMA DeletionKeeps ==
  ASSUME TypeOK, Stages, Kept, NEW h \in Handlers, DeleteKeys(h) \/ DeleteOwner(h)
  PROVE  Kept'
<1> DEFINE n == req[h].name
<1>m. PICK from \in {"keys", "owner"}, to \in {"owner", "done"} : Move(h, from, to)
  BY DEF DeleteKeys, DeleteOwner
<1>1. GoesOn(h) /\ req[h].pc \in {"keys", "owner"} /\ req'[h].pc \in {"owner", "done"}
      /\ req[h].op = "delete"
  <2>1. from \notin {"idle", "done"} /\ to \in Pc
    BY DEF Pc
  <2>2. GoesOn(h) /\ req[h].pc = from /\ req'[h].pc = to
    BY <1>m, <2>1, MovingOn
  <2> QED
    BY <2>2 DEF Stages, Stage
<1>2. /\ NoOverlap' /\ SystemNotDeleted'
      /\ \A g \in Handlers : Same(req'[g], req[g]) /\ (g # h => req'[g] = req[g])
      /\ \A g \in Active' : g \in Active
  BY <1>1, GoingOn DEF TypeOK, Kept
<1>3. clash' = clash /\ n \in Names /\ h \in Active
  BY <1>1 DEF GoesOn, TypeOK, RequestsOK, Meant
<1>4. \/ /\ Keyed' = Keyed \ {n} /\ owner' = owner /\ flagged' = flagged
         /\ req[h].pc = "keys" /\ req'[h].pc = "owner"
      \/ Keyed' = Keyed /\ owner' = owner /\ flagged' = flagged /\ req[h].pc = "keys"
      \/ /\ Keyed' = Keyed /\ owner' = [owner EXCEPT ![n] = None] /\ flagged' = flagged \ {n}
         /\ req[h].pc = "owner"
      \/ /\ Keyed' = Keyed \union {n} /\ owner' = owner /\ flagged' = flagged
         /\ req[h].pc = "owner"
  <2>1. CASE DeleteKeys(h)
    <3>1. req[h].pc = "keys" /\ UNCHANGED <<owner, flagged>>
      BY <2>1 DEF DeleteKeys, Move
    <3>2. Move(h, "keys", "owner") => req'[h].pc = "owner"
      BY MovingOn DEF Pc
    <3> QED
      BY <2>1, <3>1, <3>2, KeyDeleted
  <2>2. CASE DeleteOwner(h)
    BY <2>2, OwnerDeleted DEF DeleteOwner, Move
  <2> QED
    BY <2>1, <2>2
<1>5. RowsHaveKeys'
  <2> SUFFICES ASSUME NEW k \in Names \ flagged', owner'[k] # None, ~clash'
               PROVE  \/ k \in Keyed'
                      \/ \E g \in Handlers : req'[g].pc = "owner" /\ req'[g].name = k
    BY DEF RowsHaveKeys
  <2>1. CASE k = n
    <3>1. \A g \in Handlers : req[g].pc = "owner" /\ req[g].name = n => g = h
      <4> SUFFICES ASSUME NEW g \in Handlers, req[g].pc = "owner", req[g].name = n, g # h
                   PROVE  FALSE
        OBVIOUS
      <4>1. g \in Active /\ req[g].op = "delete"
        BY DEF Active, Stages, Stage
      <4> QED
        BY <1>1, <1>3, <4>1, Alone
    <3>2. req[h].pc = "keys" /\ k \notin flagged /\ owner[k] # None => n \in Keyed
      BY <1>3, <2>1, <3>1 DEF Kept, RowsHaveKeys
    <3> QED
      BY <1>2, <1>3, <1>4, <2>1, <3>2 DEF Same, TypeOK, RowsOK
  <2>2. CASE k # n
    <3>1. owner[k] # None /\ k \notin flagged /\ (k \in Keyed => k \in Keyed')
      BY <1>3, <1>4, <2>2 DEF TypeOK, RowsOK
    <3>2. \A g \in Handlers : req[g].pc = "owner" /\ req[g].name = k => req'[g] = req[g]
      BY <1>2, <2>2
    <3> QED
      BY <1>3, <3>1, <3>2 DEF Kept, RowsHaveKeys
  <2> QED
    BY <2>1, <2>2
<1>6. MakersHaveKeys'
  <2> SUFFICES ASSUME ~clash', NEW g \in Handlers, req'[g].pc \in MakerAt
               PROVE  req'[g].name \in Keyed'
    BY DEF MakersHaveKeys, MakerAt
  <2>1. g # h /\ g \in Active /\ req[g].name \in Keyed /\ req[g].op \in Making /\ req[g] = req'[g]
    BY <1>1, <1>2, <1>3
       DEF Kept, MakersHaveKeys, MakerAt, Active, TypeOK, RequestsOK, Stages, Stage, Making
  <2>2. req[g].name # n
    BY <1>1, <1>3, <2>1, Alone DEF Making
  <2> QED
    BY <1>4, <2>1, <2>2
<1>7. RenamedUnmarked' /\ MarkedHaveRows'
  BY <1>2, <1>3, <1>4 DEF Kept, RenamedUnmarked, MarkedHaveRows, Same, Active, TypeOK, RowsOK
<1> QED
  BY <1>2, <1>5, <1>6, <1>7 DEF Kept

LEMMA RenamingKeeps ==
  ASSUME TypeOK, Stages, Kept, NEW h \in Handlers, RenameRows(h)
  PROVE  Kept'
<1> DEFINE n == req[h].name
           m == req[h].to
<1>1. GoesOn(h) /\ req[h].pc = "rows" /\ req'[h].pc \in {"back", "done"} /\ req[h].op = "rename"
  BY MovingOn DEF RenameRows, Pc, Stages, Stage
<1>2. /\ NoOverlap' /\ SystemNotDeleted'
      /\ \A g \in Handlers : Same(req'[g], req[g]) /\ (g # h => req'[g] = req[g])
      /\ \A g \in Active' : g \in Active
  BY <1>1, GoingOn DEF TypeOK, Kept
<1>3. clash' = clash /\ n \in Names /\ m \in Names /\ h \in Active /\ (~clash => n \notin flagged)
  BY <1>1 DEF GoesOn, TypeOK, RequestsOK, Meant, Kept, RenamedUnmarked
<1>4. CASE ~UNCHANGED db
  <2>1. /\ owner' = [owner EXCEPT ![n] = None, ![m] = owner[n]]
        /\ owner[n] # None /\ owner[m] = None /\ n # m
        /\ flagged' = Moved(flagged, n, m) /\ Keyed' = Moved(Keyed, n, m)
    BY <1>4, KeyMoved DEF RenameRows, Works
  <2>2. RowsHaveKeys'
    <3> SUFFICES ASSUME NEW k \in Names \ flagged', owner'[k] # None, ~clash'
                 PROVE  \/ k \in Keyed'
                        \/ \E g \in Handlers : req'[g].pc = "owner" /\ req'[g].name = k
      BY DEF RowsHaveKeys
    <3>1. flagged' = flagged /\ k # n
      BY <1>3, <2>1 DEF Moved, TypeOK, RowsOK
    <3>2. CASE k = m
      <4>1. \A g \in Handlers : ~(req[g].pc = "owner" /\ req[g].name = n)
        <5> SUFFICES ASSUME NEW g \in Handlers, req[g].pc = "owner", req[g].name = n
                     PROVE  FALSE
          OBVIOUS
        <5>1. g \in Active /\ g # h /\ req[g].op = "delete"
          BY <1>1 DEF Active, Stages, Stage
        <5> QED
          BY <1>1, <1>3, <5>1, Alone
      <4>2. n \in Keyed
        BY <1>3, <2>1, <4>1 DEF Kept, RowsHaveKeys
      <4> QED
        BY <2>1, <3>2, <4>2 DEF Moved
    <3>3. CASE k # m
      <4>1. owner[k] # None
        BY <2>1, <3>1, <3>3 DEF TypeOK, RowsOK
      <4>2. CASE k \in Keyed
        BY <2>1, <3>1, <4>2 DEF Moved
      <4>3. CASE \E g \in Handlers : req[g].pc = "owner" /\ req[g].name = k
        BY <1>1, <1>2, <4>3
      <4> QED
        BY <1>3, <3>1, <4>1, <4>2, <4>3 DEF Kept, RowsHaveKeys
    <3> QED
      BY <3>2, <3>3
  <2>3. MakersHaveKeys'
    <3> SUFFICES ASSUME ~clash', NEW g \in Handlers, req'[g].pc \in MakerAt
                 PROVE  req'[g].name \in Keyed'
      BY DEF MakersHaveKeys, MakerAt
    <3>1. g # h /\ g \in Active /\ req[g].name \in Keyed /\ req[g].op \in Making /\ req[g] = req'[g]
      BY <1>1, <1>2, <1>3
         DEF Kept, MakersHaveKeys, MakerAt, Active, TypeOK, RequestsOK, Stages, Stage, Making
    <3>2. req[g].name # n
      BY <1>1, <1>3, <3>1, Alone DEF Making
    <3> QED
      BY <2>1, <3>1, <3>2 DEF Moved
  <2>4. MarkedHaveRows'
    BY <1>3, <2>1 DEF Kept, MarkedHaveRows, Moved, TypeOK, RowsOK
  <2>5. RenamedUnmarked'
    BY <1>2, <1>3, <2>1 DEF Kept, RenamedUnmarked, Moved, Same, Active
  <2> QED
    BY <1>2, <2>2, <2>3, <2>4, <2>5 DEF Kept
<1>5. CASE UNCHANGED db
  BY <1>1, <1>5, QuietKeeps DEF MakerAt
<1> QED
  BY <1>4, <1>5

LEMMA KeptByNext ==
  ASSUME TypeOK, Stages, Kept, Next
  PROVE  Kept'
<1> PICK h \in Handlers : Creating(h) \/ Switching(h) \/ Deleting(h) \/ Renaming(h) \/ OnFleet(h)
  BY DEF Next
<1>1. ASSUME NEW from, NEW to \in Pc, from \notin {"idle", "done"}, Move(h, from, to),
             to \in MakerAt => from \in MakerAt, from # "owner", UNCHANGED db
      PROVE  Kept'
  <2>1. GoesOn(h) /\ req[h].pc = from /\ req'[h].pc = to
    BY <1>1, MovingOn
  <2> QED
    BY <1>1, <2>1, QuietKeeps
<1>b. ASSUME NEW r, Begin(h, r), owner' = owner, flagged' = flagged, Keyed \subseteq Keyed',
             r.pc \in MakerAt => r.name \in Keyed',
             r.op = "delete" => r.name # System,
             r.op = "rename" => r.name \notin flagged
      PROVE  Kept'
  <2>1. r \in Request
    BY <1>b, TypesKept DEF Begin, TypeOK, RequestsOK
  <2> QED
    BY <1>b, <2>1, BeginningKeeps
<1>2. CASE Creating(h)
  <2>1. CASE \E n \in Names : CreateBegins(h, n)
    BY <2>1, <1>b, KeyMade DEF CreateBegins, Idle, MakerAt
  <2>2. CASE CreateVolume(h)
    BY <2>2, <1>1 DEF CreateVolume, Pc, MakerAt
  <2>3. CASE CreateRuns(h)
    BY <2>3, <1>1 DEF CreateRuns, RunBox, Pc, MakerAt
  <2>4. CASE CreateRegisters(h) \/ EnsureReloads(h)
    BY <2>4, RegisterKeeps
  <2>5. CASE DeployBegins(h)
    BY <2>5, <1>b DEF DeployBegins, db, Keyed, Idle, MakerAt
  <2>8. CASE DeployStops(h)
    BY <2>8, <1>1 DEF DeployStops, Pc, MakerAt
  <2>6. CASE DeployCreates(h)
    BY <2>6, DeployKeeps
  <2>7. CASE EnsureBegins(h)
    <3>1. CASE \E b \in Called(System) :
                 Begin(h, [Idle EXCEPT !.op = "ensure", !.name = System, !.pc = "reload", !.box = b])
      <4>1. UNCHANGED <<owner, flagged>> /\ Keyed \subseteq Keyed'
        BY <2>7, KeyMade DEF EnsureBegins, Keyed
      <4> QED
        BY <3>1, <4>1, <1>b DEF Idle, MakerAt
    <3>2. CASE /\ Begin(h, [Idle EXCEPT !.op = "ensure", !.name = System, !.pc = "run"])
               /\ MakesKey(System)
      BY <2>7, <3>2, <1>b, KeyMade DEF EnsureBegins, Idle, MakerAt
    <3> QED
      BY <2>7, <3>1, <3>2 DEF EnsureBegins
  <2>9. CASE \E n \in Names : RemovesKey(h, n)
    BY <2>9, <1>b, KeyRemoved DEF RemovesKey, Idle, MakerAt
  <2> QED
    BY <1>2, <2>1, <2>2, <2>3, <2>4, <2>5, <2>6, <2>7, <2>8, <2>9 DEF Creating
<1>3. CASE Switching(h)
  <2>1. CASE \E n \in Names : StartBegins(h, n) \/ StopBegins(h, n)
    BY <2>1, <1>b DEF StartBegins, StopBegins, db, Keyed, Idle, MakerAt
  <2>2. CASE RenewStops(h) \/ RenewRemoves(h)
    BY <2>2, <1>1 DEF RenewStops, RenewRemoves, Pc, MakerAt
  <2>3. CASE RenewRuns(h)
    BY <2>3, <1>1 DEF RenewRuns, RunBox, Pc, MakerAt
  <2>4. CASE Starts(h) \/ Stops(h)
    BY <2>4, <1>1 DEF Starts, Stops, Pc, MakerAt
  <2> QED
    BY <1>3, <2>1, <2>2, <2>3, <2>4 DEF Switching
<1>4. CASE Deleting(h)
  <2>1. CASE \E n \in Names : DeleteBegins(h, n)
    BY <2>1, <1>b DEF DeleteBegins, db, Keyed, Idle, MakerAt
  <2>2. CASE DeleteStops(h) \/ DeleteRemoves(h) \/ DeleteVolume(h)
    BY <2>2, <1>1 DEF DeleteStops, DeleteRemoves, DeleteVolume, Pc, MakerAt
  <2>3. CASE DeleteKeys(h) \/ DeleteOwner(h)
    BY <2>3, DeletionKeeps
  <2> QED
    BY <1>4, <2>1, <2>2, <2>3 DEF Deleting
<1>5. CASE Renaming(h)
  <2>1. CASE \E n, m \in Names : RenameBegins(h, n, m)
    BY <2>1, <1>b DEF RenameBegins, db, Keyed, Idle, MakerAt
  <2>2. CASE RenameStops(h) \/ RenameBox(h) \/ RenameBack(h)
    BY <2>2, <1>1 DEF RenameStops, RenameBox, RenameBack, SetName, Pc, MakerAt
  <2>3. CASE RenameRows(h)
    BY <2>3, RenamingKeeps
  <2> QED
    BY <1>5, <2>1, <2>2, <2>3 DEF Renaming
<1>6. CASE OnFleet(h)
  <2>1. CASE \E again \in BOOLEAN : FleetBegins(h, again)
    BY <2>1, <1>b DEF FleetBegins, db, Keyed, Idle, MakerAt
  <2>2. CASE \E n \in Names \union {None} : FleetStops(h, n)
    <3>1. UNCHANGED <<db, clash>> /\ req[h].pc = "each"
      BY <2>2 DEF FleetStops
    <3>2. GoesOn(h) /\ req'[h].pc \in {"each", "resume", "done"} /\ req[h].op = "fleet"
      <4>1. req[h] \in Request /\ req[h].op = "fleet"
        BY <3>1 DEF TypeOK, RequestsOK, Stages, Stage
      <4>2. req' \in [Handlers -> Request]
        BY TypesKept DEF TypeOK, RequestsOK
      <4>3. \A g \in Handlers \ {h} : req'[g] = req[g]
        BY <2>2 DEF FleetStops, TypeOK, RequestsOK
      <4>4. Same(req'[h], req[h]) /\ req'[h].pc \in {"each", "resume", "done"}
        <5> DEFINE next(n) == IF req[h].todo = {n} THEN "done" ELSE "each"
        <5>1. PICK n \in Names \union {None} : FleetStops(h, n)
          BY <2>2
        <5>2. CASE req' = [req EXCEPT ![h].pc = next(n), ![h].todo = @ \ {n}]
          BY <4>1, <5>2 DEF Same, Request, TypeOK, RequestsOK
        <5>3. CASE \E b \in Called(n) :
                     req' = [req EXCEPT ![h].pc = IF req[h].again THEN "resume" ELSE next(n),
                                        ![h].box = b, ![h].todo = @ \ {n}]
          <6> DEFINE pc == IF req[h].again THEN "resume" ELSE next(n)
          <6>1. pc \in {"each", "resume", "done"}
            OBVIOUS
          <6>2. PICK b \in Called(n) :
                  req' = [req EXCEPT ![h].pc = pc, ![h].box = b, ![h].todo = @ \ {n}]
            BY <5>3
          <6> HIDE DEF pc
          <6>3. req'[h] = [req[h] EXCEPT !.pc = pc, !.box = b, !.todo = req[h].todo \ {n}]
            BY <4>1, <6>2 DEF Request, TypeOK, RequestsOK
          <6> QED
            BY <4>1, <6>1, <6>3 DEF Same, Request
        <5> QED
          BY <5>1, <5>2, <5>3 DEF FleetStops
      <4>5. req' = [req EXCEPT ![h] = req'[h]]
        BY <4>2, <4>3 DEF TypeOK, RequestsOK
      <4> QED
        BY <3>1, <4>1, <4>2, <4>4, <4>5 DEF GoesOn, Active
    <3> QED
      BY <3>1, <3>2, QuietKeeps DEF MakerAt
  <2>3. CASE FleetResumes(h)
    BY <2>3, <1>1 DEF FleetResumes, Pc, MakerAt
  <2>4. CASE EmergencyStop(h)
    BY <2>4, <1>b DEF EmergencyStop, db, Keyed, Idle, MakerAt
  <2> QED
    BY <1>6, <2>1, <2>2, <2>3, <2>4 DEF OnFleet
<1> QED
  BY <1>2, <1>3, <1>4, <1>5, <1>6

LEMMA KeptAtFirst ==
  ASSUME Init
  PROVE  Kept
<1>1. \A h \in Handlers : req[h] = Idle
  BY DEF Init
<1>2. Active = {}
  BY <1>1 DEF Active, Idle
<1>3. /\ \A n \in Names : owner[n] # None => n \in Keyed
      /\ \A n \in flagged : owner[n] # None
  BY NoneIsNothing DEF Init, Keyed
<1> QED
  BY <1>1, <1>2, <1>3
     DEF Kept, RowsHaveKeys, MakersHaveKeys, NoOverlap, RenamedUnmarked, MarkedHaveRows,
         SystemNotDeleted, Idle

LEMMA Inductive == Spec => []IInv
<1>1. Init => IInv
  BY TypesAtFirst, KeptAtFirst DEF IInv
<1>2. IInv /\ [Next]_vars => IInv'
  <2>1. ASSUME IInv, UNCHANGED vars
        PROVE  Kept'
    BY <2>1 DEF vars, docker, db, Keyed, IInv, Kept, RowsHaveKeys, MakersHaveKeys, NoOverlap,
                RenamedUnmarked, MarkedHaveRows, SystemNotDeleted, Active
  <2>2. ASSUME IInv, Next
        PROVE  Kept'
    BY <2>2, KeptByNext DEF IInv
  <2> QED
    BY <2>1, <2>2, TypesKept DEF IInv
<1> QED
  BY <1>1, <1>2, PTL DEF Spec

(* However many requests there are and calls of Docker and the database    *)
(* fail: while none has disturbed another, an agent with a row is without  *)
(* a key only if none could be made, a user took it away, or its deletion  *)
(* has removed the key and has yet to remove the row, or could not.        *)
THEOREM RowsHaveKeysAlways == Spec => []RowsHaveKeys
<1>1. IInv => RowsHaveKeys
  BY DEF IInv, Kept
<1> QED
  BY <1>1, Inductive, PTL

(* Whatever fails, the system agent keeps its row and its mark.             *)
THEOREM SystemStaysAlways == Spec => SystemStays
<1> DEFINE Stays == ~clash' /\ System \in flagged =>
                      System \in flagged' /\ owner'[System] = owner[System]
<1>1. ASSUME IInv, Next
      PROVE  Stays
  <2> SUFFICES ASSUME ~clash', System \in flagged
               PROVE  System \in flagged' /\ owner'[System] = owner[System]
    OBVIOUS
  <2> PICK h \in Handlers : Creating(h) \/ Switching(h) \/ Deleting(h) \/ Renaming(h) \/ OnFleet(h)
    BY <1>1 DEF Next
  <2>1. /\ owner[System] # None /\ owner \in [Names -> Handlers \union {Admin, None}]
        /\ Stage(req[h]) /\ (h \in Active => Meant(req[h]))
    BY <1>1 DEF IInv, Kept, MarkedHaveRows, TypeOK, RowsOK, RequestsOK, Stages
  <2>2. CASE CreateRegisters(h)
    BY <2>1, <2>2, SystemNamed DEF CreateRegisters, Register
  <2>3. CASE EnsureReloads(h)
    BY <2>1, <2>3, SystemNamed DEF EnsureReloads, Register
  <2>4. CASE DeleteOwner(h)
    <3>1. req[h].name # System
      BY <1>1, <2>1, <2>4
         DEF DeleteOwner, Move, Stage, Active, IInv, Kept, SystemNotDeleted
    <3>2. \/ /\ flagged' = flagged \ {req[h].name}
             /\ owner' = [owner EXCEPT ![req[h].name] = None]
          \/ UNCHANGED <<owner, flagged>>
      BY <2>4, OwnerDeleted
    <3> QED
      BY <2>1, <3>1, <3>2, SystemNamed
  <2>5. CASE RenameRows(h)
    <3>m. PICK to \in {"done", "back"} : Move(h, "rows", to)
      BY <2>5 DEF RenameRows
    <3>1. req[h].pc = "rows" /\ ~clash
      BY <3>m DEF Move
    <3>2. req[h].op = "rename" /\ h \in Active
      BY <2>1, <3>1 DEF Stage, Active
    <3>3. req[h].name \notin flagged
      BY <1>1, <3>1, <3>2 DEF IInv, Kept, RenamedUnmarked
    <3>4. CASE UNCHANGED db
      BY <3>4 DEF db
    <3>5. CASE /\ owner[req[h].name] # None /\ owner[req[h].to] = None
               /\ owner' = [owner EXCEPT ![req[h].name] = None, ![req[h].to] = owner[req[h].name]]
               /\ flagged' = Moved(flagged, req[h].name, req[h].to)
      BY <2>1, <3>3, <3>5, SystemNamed DEF Moved
    <3> QED
      BY <2>5, <3>4, <3>5 DEF RenameRows, Works
  <2>6. CASE UNCHANGED <<owner, flagged>>
    BY <2>6
  <2>7. \/ CreateRegisters(h) \/ EnsureReloads(h) \/ DeleteOwner(h) \/ RenameRows(h)
        \/ UNCHANGED <<owner, flagged>>
    BY DEF Creating, Switching, Deleting, Renaming, OnFleet, EnsureBegins, RemovesKey, CreateBegins, CreateVolume,
           CreateRuns, RunBox, DeployBegins, DeployStops, DeployCreates, StartBegins,
           StopBegins, RenewStops, RenewRemoves, RenewRuns, Starts, Stops, DeleteBegins,
           DeleteStops, DeleteRemoves, DeleteVolume, DeleteKeys, RenameBegins, RenameStops,
           RenameBox, RenameBack, SetName, FleetBegins, FleetStops, FleetResumes,
           EmergencyStop, db, Keyed
  <2> QED
    BY <2>2, <2>3, <2>4, <2>5, <2>6, <2>7
<1>2. IInv /\ [Next]_vars => [Stays]_vars
  BY <1>1
<1> QED
  BY <1>2, Inductive, PTL DEF Spec, SystemStays

-----------------------------------------------------------------------------
(* While no request has disturbed another and no call has failed, Docker   *)
(* and the database agree about every name that nobody is deleting or      *)
(* renaming, but for what a request under way has still to do.  What       *)
(* requests are about:                                                     *)
About ==
  /\ flagged \subseteq {System}
  /\ \A h \in Active : /\ req[h].op = "ensure" => req[h].name = System
                       /\ req[h].op = "rename" => req[h].name # req[h].to
                       /\ req[h].op # "rename" => req[h].to = None
                       /\ req[h].pc = "resume" => req[h].again
(* Up to these steps a request finds its container under its name.         *)
Holds == {"start", "reload", "renew", "discard", "rerun", "pause", "rename", "stop", "remove"}
Placed == \A h \in Active : req[h].pc \in Holds => box[req[h].box].name = req[h].name

Makes(h, n) == req[h].pc \in {"volume", "run"} /\ req[h].name = n
Registers(h, n) == req[h].pc = "register" /\ req[h].name = n
Reruns(h, n) == req[h].pc = "rerun" /\ req[h].name = n
(* n is being deleted or renamed, or something is being renamed to it.     *)
Held(n) == \E h \in Active : req[h].op \in {"delete", "rename"} /\ n \in {req[h].name, req[h].to}
Known(n) == owner[n] # None /\ n \in Keyed
Unknown(n) == owner[n] = None /\ n \notin Keyed
MadeBy(b, n) == n \in flagged \/ box[b].by = owner[n]

(* The row, the key and the container of a name that is left alone go      *)
(* together, or somebody is making the container, writing the row, or      *)
(* making the container again.                                             *)
Agrees(n) ==
  /\ owner[n] # None => n \in Keyed /\ (Taken(n) \/ \E h \in Handlers : Reruns(h, n))
  /\ n \in Keyed => Taken(n) \/ \E h \in Handlers : (Makes(h, n) \/ Reruns(h, n))
  /\ Taken(n) => n \in Keyed /\ (owner[n] # None \/ \E h \in Handlers : Registers(h, n))
  /\ owner[n] # None => \A b \in Called(n) : MadeBy(b, n)

(* Who has made a container is the only one to register it; who removed    *)
(* one to renew it is the only one to make it again; what a deletion or a  *)
(* renaming has done so far holds until it goes on.                        *)
Registering(h) ==
  LET n == req[h].name IN
  req[h].pc = "register" =>
    /\ \E b \in Called(n) : box[b].by = Maker(h)
    /\ owner[n] = None \/ n \in flagged
    /\ \A g \in Handlers : Registers(g, n) => g = h
Rerunning(h) ==
  LET n == req[h].name IN
  req[h].pc = "rerun" =>
    /\ Known(n) /\ ~Taken(n) /\ MadeBy(req[h].box, n)
    /\ \A g \in Handlers : Reruns(g, n) => g = h
Deletes(h) ==
  LET n == req[h].name IN
  /\ req[h].pc = "stop" => req[h].box \in Present
  /\ req[h].pc = "remove" => Removable(req[h].box)
  /\ req[h].pc \in {"unmount", "keys", "owner"} => ~Taken(n)
  /\ req[h].pc = "owner" => n \notin Keyed
Renames(h) ==
  LET n == req[h].name
      m == req[h].to
      b == req[h].box IN
  /\ req[h].pc \in {"pause", "rename", "rows"} =>
       Known(n) /\ Unknown(m) /\ MadeBy(b, n)
  /\ req[h].pc \in {"pause", "rename"} => b \in Present /\ ~Taken(m)
  /\ req[h].pc = "rows" => b \in Called(m) /\ ~Taken(n)
  /\ req[h].pc # "back"
Fine(h) == Registering(h) /\ Rerunning(h) /\ Deletes(h) /\ Renames(h)
InOrder ==
    /\ About /\ Placed
    /\ \A h \in Handlers : Fine(h)
    /\ \A n \in Names : ~Held(n) => Agrees(n)
Ordered == ~clash /\ faults = 0 => InOrder

-----------------------------------------------------------------------------
(* Requests that overlap, and what a step leaves to the others.            *)
LEMMA Disturbed ==
  ASSUME NEW r, NEW q, NEW n \in Names, n \in {r.name, r.to}, n \in {q.name, q.to},
         \/ r.op \in {"delete", "rename"} /\ q.op # "stop"
         \/ r.op = "renew" /\ q.op \in Making
  PROVE  Overlaps(r, q) /\ Overlaps(q, r)
<1>1. Disturbs(r, q)
  BY DEF Disturbs
<1>2. n \in NamesOf(r) /\ n \in NamesOf(q)
  BY NoneIsNothing DEF NamesOf
<1> QED
  BY <1>1, <1>2 DEF Overlaps

(* What a step leaves of a name.                                           *)
Untouched(n) ==
  /\ owner'[n] = owner[n] /\ (n \in Keyed' <=> n \in Keyed) /\ (n \in flagged' <=> n \in flagged)
  /\ Called(n)' = Called(n) /\ \A b \in Called(n) : box'[b].by = box[b].by
Special == {"volume", "run", "register", "rerun"}
Leaves(h, T) ==
  /\ \A g \in Handlers \ {h} : req'[g] = req[g]
  /\ \A n \in Names \ T : Untouched(n)
  /\ req[h].pc \in Special => req[h].name \in T
  /\ req'[h].pc \in Special => req'[h].name \in T
  /\ h \in Active /\ req[h].op \in {"delete", "rename"} =>
       {req[h].name, req[h].to} \intersect Names \subseteq T
Boxed(h) == \A g \in Active \ {h} :
  /\ req[g].pc \in Holds =>
       box'[req[g].box].name = box[req[g].box].name /\ box'[req[g].box].by = box[req[g].box].by
  /\ req[g].pc \in {"stop", "pause", "rename"} => req[g].box \in Present'
  /\ req[g].pc = "remove" => box'[req[g].box].state = "stopped"

(* A request that is about other names than a step keeps its promises.     *)
LEMMA FrameOther ==
  ASSUME IInv, InOrder, NEW h \in Handlers, NEW T, Leaves(h, T), Boxed(h),
         NEW g \in Handlers, g # h,
         g \in Active /\ req[g].op # "stop" => {req[g].name, req[g].to} \intersect T = {}
  PROVE  Fine(g)'
<1>1. req'[g] = req[g] /\ Stage(req[g]) /\ req[g] \in Request /\ (g \in Active => Meant(req[g]))
  BY DEF Leaves, IInv, Stages, TypeOK, RequestsOK
<1> DEFINE n == req[g].name
           m == req[g].to
<1>2. CASE g \notin Active \/ req[g].op = "stop"
  BY <1>1, <1>2 DEF Active, Stage, Making, Fine, Registering, Rerunning, Deletes, Renames
<1>3. CASE g \in Active /\ req[g].op # "stop"
  <2>1. Fine(g) /\ n \notin T /\ m \notin T
    BY <1>3 DEF InOrder
  <2>2. ~Registers(h, n)' /\ ~Reruns(h, n)'
    BY <2>1 DEF Makes, Registers, Reruns, Leaves, Special
  <2>3. Registering(g)'
    <3> SUFFICES ASSUME req[g].pc = "register" PROVE Registering(g)'
      BY <1>1 DEF Registering
    <3>1. n \in Names /\ Untouched(n)
      BY <1>1, <1>3, <2>1 DEF Stage, Making, Meant, Leaves
    <3>2. Maker(g)' = Maker(g)
      BY <1>1 DEF Maker
    <3>3. \A k \in Handlers : Registers(k, n)' => k = g
      BY <2>1, <2>2 DEF Makes, Registers, Reruns, Leaves, Fine, Registering
    <3> QED
      BY <1>1, <2>1, <3>1, <3>2, <3>3 DEF Untouched, Fine, Registering
  <2>4. Rerunning(g)'
    <3> SUFFICES ASSUME req[g].pc = "rerun" PROVE Rerunning(g)'
      BY <1>1 DEF Rerunning
    <3>1. n \in Names /\ Untouched(n)
      BY <1>1, <1>3, <2>1 DEF Stage, Making, Meant, Leaves
    <3>2. box'[req[g].box].by = box[req[g].box].by
      BY <1>3 DEF Boxed, Holds
    <3>3. \A k \in Handlers : Reruns(k, n)' => k = g
      BY <2>1, <2>2 DEF Makes, Registers, Reruns, Leaves, Fine, Rerunning
    <3> QED
      BY <1>1, <2>1, <3>1, <3>2, <3>3 DEF Untouched, Fine, Rerunning, Known, MadeBy, Taken
  <2>5. Deletes(g)'
    <3>1. req[g].pc \in {"unmount", "keys", "owner"} => n \in Names /\ Untouched(n)
      BY <1>1, <1>3, <2>1 DEF Stage, Meant, Leaves
    <3> QED
      BY <1>1, <1>3, <2>1, <3>1 DEF Untouched, Fine, Deletes, Taken, Boxed, Removable
  <2>6. Renames(g)'
    <3> SUFFICES ASSUME req[g].op = "rename" PROVE Renames(g)'
      BY <1>1 DEF Renames, Stage
    <3>1. n \in Names /\ Untouched(n) /\ m \in Names /\ Untouched(m)
      BY <1>1, <1>3, <2>1 DEF Meant, Leaves
    <3>2. req[g].pc \in {"pause", "rename", "rows"} => box'[req[g].box].by = box[req[g].box].by
      BY <1>3, <2>1, <3>1 DEF Boxed, Holds, Fine, Renames, Untouched
    <3> QED
      BY <1>1, <1>3, <2>1, <3>1, <3>2 DEF Untouched, Fine, Renames, Known, Unknown, MadeBy, Taken, Boxed
  <2> QED
    BY <2>3, <2>4, <2>5, <2>6 DEF Fine
<1> QED
  BY <1>2, <1>3

(* Names that a step does not touch agree as before.                       *)
LEMMA FrameName ==
  ASSUME IInv, InOrder, NEW h \in Handlers, NEW T, Leaves(h, T),
         NEW n \in Names \ T, ~Held(n)'
  PROVE  Agrees(n)'
<1>1. Untouched(n) /\ \A g \in Handlers \ {h} : req'[g] = req[g]
  BY DEF Leaves
<1>2. ~Held(n)
  <2> SUFFICES ASSUME NEW g \in Active, req[g].op \in {"delete", "rename"}, n \in {req[g].name, req[g].to}
               PROVE  FALSE
    BY DEF Held
  <2>1. g # h
    BY DEF Leaves
  <2> QED
    BY <1>1, <2>1 DEF Held, Active
<1>3. Agrees(n)
  BY <1>2 DEF InOrder
<1>4. \A g \in Handlers : /\ Reruns(g, n)' <=> Reruns(g, n)
                          /\ Registers(g, n)' <=> Registers(g, n)
                          /\ (Makes(g, n)' \/ Reruns(g, n)') <=> (Makes(g, n) \/ Reruns(g, n))
  BY DEF Leaves, Makes, Registers, Reruns, Special
<1> QED
  BY <1>1, <1>3, <1>4 DEF Agrees, Untouched, Taken, MadeBy

(* Containers keep the names under which other requests hold them.         *)
LEMMA FramePlaced ==
  ASSUME IInv, InOrder, NEW h \in Handlers, NEW T, Leaves(h, T), Boxed(h),
         h \in Active' /\ req'[h].pc \in Holds => box'[req'[h].box].name = req'[h].name
  PROVE  Placed'
BY DEF Placed, InOrder, Leaves, Boxed, Active

(* Together: what is left to show of a step.                               *)
LEMMA Frame ==
  ASSUME IInv, InOrder, NEW h \in Handlers, NEW T, Leaves(h, T), Boxed(h), About',
         h \in Active' /\ req'[h].pc \in Holds => box'[req'[h].box].name = req'[h].name,
         Fine(h)',
         \A g \in Active \ {h} : req[g].op # "stop" /\ {req[g].name, req[g].to} \intersect T # {} => Fine(g)',
         \A n \in Names \intersect T : ~Held(n)' => Agrees(n)'
  PROVE  InOrder'
<1>1. Placed'
  BY FramePlaced
<1>2. \A g \in Handlers : Fine(g)'
  BY FrameOther
<1>3. \A n \in Names : ~Held(n)' => Agrees(n)'
  BY FrameName
<1> QED
  BY <1>1, <1>2, <1>3 DEF InOrder

(* What a step of an operation on the fleet does to its request.           *)
LEMMA FleetMoves ==
  ASSUME TypeOK, Stages, NEW h \in Handlers, NEW n, FleetStops(h, n)
  PROVE  /\ \A g \in Handlers \ {h} : req'[g] = req[g]
         /\ Same(req'[h], req[h]) /\ req'[h].pc \in {"each", "resume", "done"}
         /\ h \in Active /\ req[h].pc = "each" /\ req[h].op = "fleet"
         /\ req'[h].pc = "resume" => req[h].again
<1> DEFINE next == IF req[h].todo = {n} THEN "done" ELSE "each"
           pc == IF req[h].again THEN "resume" ELSE next
<1>1. req[h].pc = "each" /\ req[h] \in Request /\ req \in [Handlers -> Request] /\ req[h].op = "fleet"
  BY DEF FleetStops, TypeOK, RequestsOK, Stages, Stage
<1>2. CASE req' = [req EXCEPT ![h].pc = next, ![h].todo = @ \ {n}]
  <2>1. req'[h] = [req[h] EXCEPT !.pc = next, !.todo = req[h].todo \ {n}]
    BY <1>1, <1>2
  <2>2. next \in {"each", "done"}
    OBVIOUS
  <2> HIDE DEF next
  <2> QED
    BY <1>1, <1>2, <2>1, <2>2 DEF Same, Request, Active
<1>3. CASE \E b \in Called(n) : req' = [req EXCEPT ![h].pc = pc, ![h].box = b, ![h].todo = @ \ {n}]
  <2>1. PICK b \in Called(n) : req' = [req EXCEPT ![h].pc = pc, ![h].box = b, ![h].todo = @ \ {n}]
    BY <1>3
  <2>2. pc \in {"each", "resume", "done"} /\ (pc = "resume" => req[h].again)
    OBVIOUS
  <2> HIDE DEF pc, next
  <2>3. req'[h] = [req[h] EXCEPT !.pc = pc, !.box = b, !.todo = req[h].todo \ {n}]
    BY <1>1, <2>1
  <2> QED
    BY <1>1, <2>1, <2>2, <2>3 DEF Same, Request, Active
<1> QED
  BY <1>1, <1>2, <1>3 DEF FleetStops

Told(r) == /\ r.op = "ensure" => r.name = System
           /\ r.op = "rename" => r.name # r.to
           /\ r.op # "rename" => r.to = None
           /\ r.pc = "resume" => r.again

(* What requests are about does not change.                                *)
LEMMA AboutKept ==
  ASSUME IInv, About, ~clash, NEW h \in Handlers, Creating(h) \/ Switching(h) \/ Deleting(h) \/ Renaming(h) \/ OnFleet(h)
  PROVE  About'
<1>1. TypeOK /\ Stages /\ Stage(req[h]) /\ req[h] \in Request /\ req \in [Handlers -> Request]
      /\ (h \in Active => Meant(req[h]))
  BY DEF IInv, TypeOK, RequestsOK, Stages
<1>t. h \in Active => Told(req[h])
  BY DEF About, Told
<1>2. flagged' \subseteq {System}
  <2>1. CASE CreateRegisters(h)
    BY <1>1, <1>t, <2>1 DEF About, CreateRegisters, Register, Move, Active, Told
  <2>2. CASE EnsureReloads(h)
    BY <2>2 DEF About, EnsureReloads, Register
  <2>3. CASE DeleteOwner(h)
    BY <2>3, OwnerDeleted DEF About
  <2>4. CASE RenameRows(h)
    <3>m. PICK to \in {"done", "back"} : Move(h, "rows", to)
      BY <2>4 DEF RenameRows
    <3>1. req[h].name \notin flagged
      BY <1>1, <3>m DEF Move, Stage, Active, IInv, Kept, RenamedUnmarked
    <3>2. UNCHANGED flagged \/ flagged' = Moved(flagged, req[h].name, req[h].to)
      BY <2>4 DEF RenameRows, db
    <3> QED
      BY <3>1, <3>2 DEF Moved, About
  <2>5. CASE UNCHANGED flagged
    BY <2>5 DEF About
  <2>6. \/ CreateRegisters(h) \/ EnsureReloads(h) \/ DeleteOwner(h) \/ RenameRows(h)
        \/ UNCHANGED flagged
    BY DEF Creating, Switching, Deleting, Renaming, OnFleet, EnsureBegins, RemovesKey, CreateBegins, CreateVolume,
           CreateRuns, RunBox, DeployBegins, DeployStops, DeployCreates, StartBegins,
           StopBegins, RenewStops, RenewRemoves, RenewRuns, Starts, Stops, DeleteBegins,
           DeleteStops, DeleteRemoves, DeleteVolume, DeleteKeys, RenameBegins, RenameStops,
           RenameBox, RenameBack, SetName, FleetBegins, FleetStops, FleetResumes,
           EmergencyStop, db, Keyed
  <2> QED
    BY <2>1, <2>2, <2>3, <2>4, <2>5, <2>6
<1> SUFFICES (\A g \in Handlers \ {h} : req'[g] = req[g]) /\ (h \in Active' => Told(req'[h]))
  BY <1>2 DEF About, Told, Active
<1>m. ASSUME NEW from, NEW to \in Pc, from \notin {"idle", "done"}, Move(h, from, to), to # "resume"
      PROVE  (\A g \in Handlers \ {h} : req'[g] = req[g]) /\ Told(req'[h])
  <2>1. GoesOn(h) /\ req'[h].pc = to
    BY <1>1, <1>m, MovingOn
  <2>2. \A g \in Handlers \ {h} : req'[g] = req[g]
    BY <1>1, <1>m DEF Move
  <2>3. Same(req'[h], req[h])
    BY <1>1, <2>1 DEF GoesOn
  <2> QED
    BY <1>m, <1>t, <2>1, <2>2, <2>3 DEF Told, Same, GoesOn
<1>b. ASSUME NEW r, Begin(h, r), Told(r)
      PROVE  (\A g \in Handlers \ {h} : req'[g] = req[g]) /\ Told(req'[h])
  BY <1>1, <1>b DEF Begin
<1>3. CASE Creating(h)
  <2>1. CASE \E n \in Names : CreateBegins(h, n)
    BY <2>1, <1>b DEF CreateBegins, Idle, Told
  <2>2. CASE CreateVolume(h) \/ CreateRuns(h) \/ CreateRegisters(h) \/ DeployStops(h) \/ DeployCreates(h)
    BY <2>2, <1>m DEF CreateVolume, CreateRuns, RunBox, CreateRegisters, DeployStops, DeployCreates, Pc
  <2>3. CASE DeployBegins(h)
    BY <2>3, <1>b DEF DeployBegins, Idle, Told
  <2>4. CASE EnsureBegins(h)
    BY <2>4, <1>b DEF EnsureBegins, Idle, Told
  <2>5. CASE EnsureReloads(h)
    BY <2>5, <1>m DEF EnsureReloads, Pc
  <2>6. CASE \E k \in Names : RemovesKey(h, k)
    BY <2>6, <1>b DEF RemovesKey, Idle, Told
  <2> QED
    BY <1>3, <2>1, <2>2, <2>3, <2>4, <2>5, <2>6 DEF Creating
<1>4. CASE Switching(h)
  <2>1. CASE \E n \in Names : StartBegins(h, n) \/ StopBegins(h, n)
    BY <2>1, <1>b DEF StartBegins, StopBegins, Idle, Told
  <2>2. CASE RenewStops(h) \/ RenewRemoves(h) \/ RenewRuns(h) \/ Starts(h) \/ Stops(h)
    BY <2>2, <1>m DEF RenewStops, RenewRemoves, RenewRuns, RunBox, Starts, Stops, Pc
  <2> QED
    BY <1>4, <2>1, <2>2 DEF Switching
<1>5. CASE Deleting(h)
  <2>1. CASE \E n \in Names : DeleteBegins(h, n)
    BY <2>1, <1>b DEF DeleteBegins, Idle, Told
  <2>2. CASE DeleteStops(h) \/ DeleteRemoves(h) \/ DeleteVolume(h) \/ DeleteKeys(h) \/ DeleteOwner(h)
    BY <2>2, <1>m DEF DeleteStops, DeleteRemoves, DeleteVolume, DeleteKeys, DeleteOwner, Pc
  <2> QED
    BY <1>5, <2>1, <2>2 DEF Deleting
<1>6. CASE Renaming(h)
  <2>1. CASE \E n, m \in Names : RenameBegins(h, n, m)
    BY <2>1, <1>b DEF RenameBegins, Idle, Told
  <2>2. CASE RenameStops(h) \/ RenameBox(h) \/ RenameRows(h) \/ RenameBack(h)
    BY <2>2, <1>m DEF RenameStops, RenameBox, RenameBack, SetName, RenameRows, Pc
  <2> QED
    BY <1>6, <2>1, <2>2 DEF Renaming
<1>7. CASE OnFleet(h)
  <2>1. CASE \E again \in BOOLEAN : FleetBegins(h, again)
    BY <2>1, <1>b DEF FleetBegins, Idle, Told
  <2>2. CASE \E n \in Names \union {None} : FleetStops(h, n)
    BY <1>1, <1>t, <2>2, FleetMoves DEF Told, Same
  <2>3. CASE FleetResumes(h)
    BY <2>3, <1>m DEF FleetResumes, Pc
  <2>4. CASE EmergencyStop(h)
    BY <2>4, <1>b DEF EmergencyStop, Idle, Told
  <2> QED
    BY <1>7, <2>1, <2>2, <2>3, <2>4 DEF OnFleet
<1> QED
  BY <1>3, <1>4, <1>5, <1>6, <1>7

(* Until here no request has disturbed another, and no call failed.        *)
Undisturbed == IInv /\ InOrder /\ ~clash /\ faults = 0

(* What it means for a request to begin or to go on undisturbed.           *)
LEMMA Begun ==
  ASSUME Undisturbed, NEW h \in Handlers, NEW r, Begin(h, r), ~clash'
  PROVE  /\ req'[h] = r /\ \A g \in Handlers \ {h} : req'[g] = req[g]
         /\ h \notin Active /\ req[h].pc = "idle"
         /\ \A g \in Active : ~Overlaps(r, req[g])
BY DEF Begin, Undisturbed, IInv, TypeOK, RequestsOK, Active

LEMMA MovesOn ==
  ASSUME Undisturbed, NEW h \in Handlers, NEW from, NEW to \in Pc, from \notin {"idle", "done"},
         Move(h, from, to)
  PROVE  /\ req[h].pc = from /\ req'[h].pc = to /\ Same(req'[h], req[h]) /\ req'[h].box = req[h].box
         /\ \A g \in Handlers \ {h} : req'[g] = req[g]
         /\ h \in Active /\ Meant(req[h]) /\ Stage(req[h])
         /\ Fine(h) /\ (from \in Holds => box[req[h].box].name = req[h].name)
<1>1. req[h] \in Request /\ req \in [Handlers -> Request] /\ TypeOK
  BY DEF Undisturbed, IInv, TypeOK, RequestsOK
<1>2. GoesOn(h) /\ req[h].pc = from /\ req'[h].pc = to
  BY <1>1, MovingOn
<1>3. req' = [req EXCEPT ![h].pc = to] /\ h \in Active
  BY <1>2 DEF Move, GoesOn
<1>4. Same(req'[h], req[h]) /\ req'[h].box = req[h].box
  BY <1>1, <1>3 DEF Request, Same
<1>5. \A g \in Handlers \ {h} : req'[g] = req[g]
  BY <1>1, <1>3
<1> QED
  BY <1>2, <1>3, <1>4, <1>5 DEF Undisturbed, IInv, TypeOK, RequestsOK, Stages, InOrder, Placed

(* A call that may fail fails only when it is impossible.                  *)
LEMMA Worked ==
  ASSUME Undisturbed, faults' = 0, NEW possible, Fails(possible)
  PROVE  ~possible
BY DEF Undisturbed, Fails

(* Containers that are started or stopped.                                 *)
SwitchOnly == /\ Present' = Present
              /\ \A b \in Boxes : box'[b].name = box[b].name /\ box'[b].by = box[b].by
LEMMA Switched ==
  ASSUME TypeOK, \/ UNCHANGED box
                 \/ \E b \in Present, s \in {"running", "stopped"} : SetState(b, s)
  PROVE  /\ SwitchOnly
         /\ \A n : Called(n)' = Called(n)
<1>1. SwitchOnly
  <2>1. CASE UNCHANGED box
    BY <2>1 DEF SwitchOnly, Present
  <2>2. CASE \E b \in Present, s \in {"running", "stopped"} : SetState(b, s)
    <3> PICK b \in Present, s \in {"running", "stopped"} : SetState(b, s)
      BY <2>2
    <3>1. /\ box \in [Boxes -> Box] /\ b \in Boxes
          /\ box' = [box EXCEPT ![b] = [box[b] EXCEPT !.state = s]]
      BY DEF TypeOK, DockerOK, Present, SetState
    <3>2. \A c \in Boxes : /\ box'[c].name = box[c].name /\ box'[c].by = box[c].by
                           /\ box'[c].state = IF c = b THEN s ELSE box[c].state
      BY <3>1 DEF Box
    <3> QED
      BY <3>2 DEF SwitchOnly, Present
  <2> QED
    BY <2>1, <2>2
<1>2. \A n : Called(n)' = Called(n)
  BY <1>1 DEF SwitchOnly, Called, Present
<1> QED
  BY <1>1, <1>2

StillRemovable(h) == \A g \in Active \ {h} : req[g].pc = "remove" => box'[req[g].box].state = "stopped"

(* Starting and stopping leave every container in its place.               *)
LEMMA SwitchBoxed ==
  ASSUME Undisturbed, NEW h \in Handlers, SwitchOnly, StillRemovable(h)
  PROVE  Boxed(h)
<1> SUFFICES ASSUME NEW g \in Active \ {h}
             PROVE  Boxed(h)!(g)
  BY DEF Boxed
<1>1. Fine(g) /\ Meant(req[g]) /\ Stage(req[g])
  BY DEF Undisturbed, IInv, InOrder, Active, TypeOK, RequestsOK, Stages
<1>2. req[g].pc \in Holds => req[g].box \in Boxes
  BY <1>1 DEF Meant, Holds, WithBox
<1>3. req[g].pc \in {"stop", "pause", "rename"} => req[g].box \in Present
  BY <1>1 DEF Fine, Deletes, Renames
<1> QED
  BY <1>2, <1>3 DEF SwitchOnly, StillRemovable

RowsKept == UNCHANGED <<owner, flagged, Keyed>>
Benign == {"previous", "create", "start", "reload", "restart", "renew", "discard", "halt", "each", "resume", "done"}

(* A step that leaves containers and rows alone, but for starts and stops. *)
LEMMA SwitchKeeps ==
  ASSUME Undisturbed, NEW h \in Handlers, About', SwitchOnly, \A n : Called(n)' = Called(n),
         RowsKept, StillRemovable(h),
         \A g \in Handlers \ {h} : req'[g] = req[g],
         req[h].pc \in Benign \union {"idle"},
         h \in Active' /\ req'[h].pc \in Holds => /\ req'[h].box \in Boxes
                                                  /\ box[req'[h].box].name = req'[h].name,
         req'[h].pc \in Benign \/ (Fine(h)' /\ req'[h].pc \notin Special)
  PROVE  InOrder'
<1>1. Leaves(h, {})
  <2>1. \A n \in Names : Untouched(n)
    BY DEF SwitchOnly, Untouched, RowsKept, Called, Present
  <2>2. h \in Active => req[h].op \notin {"delete", "rename"}
    BY DEF Undisturbed, IInv, Stages, Stage, Benign, Active, Making
  <2>3. req[h].pc \notin Special /\ req'[h].pc \notin Special
    BY DEF Benign, Special
  <2> QED
    BY <2>1, <2>2, <2>3 DEF Leaves
<1>2. Boxed(h)
  BY SwitchBoxed
<1>3. Fine(h)'
  BY DEF Fine, Registering, Rerunning, Deletes, Renames, Benign
<1>4. h \in Active' /\ req'[h].pc \in Holds => box'[req'[h].box].name = req'[h].name
  BY DEF SwitchOnly
<1> QED
  BY <1>1, <1>2, <1>3, <1>4, Frame DEF Undisturbed

(* Nothing is started that is about to be removed.                         *)
LEMMA NotBeingRemoved ==
  ASSUME Undisturbed, NEW h \in Active, NEW g \in Active \ {h}, req[g].pc = "remove",
         req[h].op # "stop", NEW b, req[g].box = b,
         \/ req[h].again
         \/ req[h].name \in Names /\ box[b].name = req[h].name
  PROVE  FALSE
<1>1. req[g].op = "delete" /\ req[g].name \in Names /\ box[b].name = req[g].name
  BY DEF Undisturbed, IInv, TypeOK, RequestsOK, Meant, Stages, Stage, Active, InOrder, Placed, Holds
<1>2. ~Overlaps(req[g], req[h])
  BY DEF Undisturbed, IInv, Kept, NoOverlap
<1>3. CASE req[h].again
  <2>1. req[g].name \in NamesOf(req[h]) /\ req[g].name \in NamesOf(req[g])
    BY <1>1, <1>3, NoneIsNothing DEF NamesOf
  <2> QED
    BY <1>1, <1>2, <2>1 DEF Overlaps, Disturbs
<1> QED
  BY <1>1, <1>2, <1>3, Disturbed

(* A container that is to be removed stays stopped when others stop theirs. *)
LEMMA StoppedRemovable ==
  ASSUME Undisturbed, NEW h \in Handlers,
         UNCHANGED box \/ \E b \in Present : SetState(b, "stopped")
  PROVE  StillRemovable(h)
<1> SUFFICES ASSUME NEW g \in Active \ {h}, req[g].pc = "remove"
             PROVE  box'[req[g].box].state = "stopped"
  BY DEF StillRemovable
<1>1. Removable(req[g].box) /\ req[g].box \in Boxes
  BY DEF Undisturbed, IInv, InOrder, Fine, Deletes, Active, TypeOK, RequestsOK, Meant, WithBox
<1> QED
  BY <1>1 DEF Removable, SetState, Undisturbed, IInv, TypeOK, DockerOK, Box

(* What a renaming finds at its start.                                     *)
LEMMA SettledName ==
  ASSUME Undisturbed, NEW n \in Names,
         \A g \in Active : n \in {req[g].name, req[g].to} => req[g].op \in {"stop", "start", "renew"}
  PROVE  /\ Taken(n) => Known(n) /\ \A b \in Called(n) : MadeBy(b, n)
         /\ ~Taken(n) => Unknown(n) \/ \E g \in Active : req[g].op = "renew" /\ req[g].name = n
<1>1. Agrees(n)
  BY DEF Undisturbed, InOrder, Held
<1>2. \A g \in Handlers : (Makes(g, n) \/ Registers(g, n) \/ Reruns(g, n)) => g \in Active /\ req[g].op = "renew" /\ req[g].pc = "rerun"
  BY DEF Makes, Registers, Reruns, Special, Undisturbed, IInv, Stages, Stage, Making, Active
<1> QED
  BY <1>1, <1>2 DEF Agrees, Known, Unknown, Makes, Registers, Reruns, Special

(* Requests that begin, and steps, that make or remove nothing.            *)
LEMMA BeginKeeps ==
  ASSUME Undisturbed, NEW h \in Handlers, About', ~clash', NEW r, Begin(h, r), UNCHANGED <<docker, db>>,
         r.pc \in Benign,
         r.pc \in Holds => r.box \in Boxes /\ box[r.box].name = r.name
  PROVE  InOrder'
<1>1. req'[h] = r /\ req[h].pc = "idle" /\ \A g \in Handlers \ {h} : req'[g] = req[g]
  BY Begun
<1>2. TypeOK /\ UNCHANGED box
  BY DEF Undisturbed, IInv, docker
<1>3. SwitchOnly /\ \A n : Called(n)' = Called(n)
  BY <1>2, Switched
<1>4. StillRemovable(h)
  BY <1>2, StoppedRemovable
<1> QED
  BY <1>1, <1>3, <1>4, SwitchKeeps DEF RowsKept, db, Keyed

LEMMA MoveKeeps ==
  ASSUME Undisturbed, NEW h \in Handlers, About', NEW from \in Benign \ {"done"}, NEW to \in Benign,
         Move(h, from, to), UNCHANGED db, StillRemovable(h),
         UNCHANGED box \/ \E b \in Present, s \in {"running", "stopped"} : SetState(b, s),
         to \in Holds => from \in Holds
  PROVE  InOrder'
<1>1. /\ req[h].pc = from /\ req'[h].pc = to /\ Same(req'[h], req[h]) /\ req'[h].box = req[h].box
      /\ \A g \in Handlers \ {h} : req'[g] = req[g]
      /\ h \in Active /\ Meant(req[h])
      /\ from \in Holds => box[req[h].box].name = req[h].name
  BY MovesOn DEF Benign, Pc
<1>2. SwitchOnly /\ \A n : Called(n)' = Called(n)
  BY Switched DEF Undisturbed, IInv
<1>3. to \in Holds => /\ req'[h].box \in Boxes
                      /\ box[req'[h].box].name = req'[h].name
  BY <1>1 DEF Meant, Holds, WithBox, Same
<1> QED
  BY <1>1, <1>2, <1>3, SwitchKeeps DEF RowsKept, db, Keyed

(* Operations on the whole fleet.                                          *)
LEMMA FleetKeeps ==
  ASSUME Undisturbed, NEW h \in Handlers, About', ~clash', faults' = 0, OnFleet(h)
  PROVE  InOrder'
<1>1. CASE \E again \in BOOLEAN : FleetBegins(h, again)
  <2> PICK again \in BOOLEAN : FleetBegins(h, again)
    BY <1>1
  <2> DEFINE S == {Listed[box[b].name] : b \in Running}
             r == [Idle EXCEPT !.pc = IF Running = {} THEN "done" ELSE "each",
                               !.op = "fleet", !.again = again, !.todo = S]
  <2>1. Begin(h, r) /\ UNCHANGED <<docker, db>>
    BY DEF FleetBegins
  <2>2. r.pc \in {"done", "each"}
    BY DEF Idle
  <2> HIDE DEF r
  <2> QED
    BY <2>1, <2>2, BeginKeeps DEF Benign, Holds
<1>2. CASE \E n \in Names \union {None} : FleetStops(h, n)
  <2> PICK n \in Names \union {None} : FleetStops(h, n)
    BY <1>2
  <2>1. /\ \A g \in Handlers \ {h} : req'[g] = req[g]
        /\ req'[h].pc \in {"each", "resume", "done"} /\ req[h].pc = "each"
    BY FleetMoves DEF Undisturbed, IInv
  <2>2. UNCHANGED db /\ (UNCHANGED box \/ \E b \in Present : SetState(b, "stopped"))
    BY DEF FleetStops, Called
  <2>3. StillRemovable(h)
    BY <2>2, StoppedRemovable
  <2>4. SwitchOnly /\ \A k : Called(k)' = Called(k)
    BY <2>2, Switched DEF Undisturbed, IInv
  <2> QED
    BY <2>1, <2>2, <2>3, <2>4, SwitchKeeps DEF Benign, Holds, RowsKept, db, Keyed
<1>3. CASE FleetResumes(h)
  <2>1. h \in Active /\ req[h].again /\ req[h].op = "fleet" /\ req[h].pc = "resume" /\ req[h].box \in Boxes
    BY <1>3 DEF FleetResumes, Move, Active, Undisturbed, IInv, InOrder, About, Stages, Stage, TypeOK,
                RequestsOK, Meant, WithBox
  <2>2. UNCHANGED box \/ (req[h].box \in Present /\ SetState(req[h].box, "running"))
    BY <1>3 DEF FleetResumes, Works
  <2>3. \A g \in Active \ {h} : req[g].pc # "remove"
    BY <2>1, NotBeingRemoved
  <2>4. StillRemovable(h)
    BY <2>3 DEF StillRemovable
  <2> DEFINE to == IF req[h].todo = {} THEN "done" ELSE "each"
  <2>5. to \in Benign /\ to \notin Holds /\ Move(h, "resume", to) /\ "resume" \in Benign \ {"done"} /\ UNCHANGED db
    BY <1>3 DEF Benign, Holds, FleetResumes
  <2> HIDE DEF to
  <2> QED
    BY <2>2, <2>4, <2>5, MoveKeeps
<1>4. CASE EmergencyStop(h)
  <2> DEFINE r == [Idle EXCEPT !.pc = "done", !.op = "fleet"]
             all == {Listed[box[b].name] : b \in Running} \ flagged
  <2>1. Begin(h, r) /\ UNCHANGED db /\ r.pc = "done"
    BY <1>4 DEF EmergencyStop, Idle
  <2> HIDE DEF r
  <2>2. req'[h].pc = "done" /\ req[h].pc = "idle" /\ \A g \in Handlers \ {h} : req'[g] = req[g]
    BY <2>1, Begun
  <2>3. \A b \in Boxes : \/ box'[b] = box[b]
                         \/ b \in Running /\ box'[b] = [box[b] EXCEPT !.state = "stopped"]
    BY <1>4 DEF EmergencyStop
  <2>4. \A b \in Boxes : /\ box'[b].name = box[b].name /\ box'[b].by = box[b].by
                         /\ \/ box'[b].state = box[b].state
                            \/ b \in Running /\ box'[b].state = "stopped"
    <3> TAKE b \in Boxes
    <3>1. box[b] \in Box
      BY DEF Undisturbed, IInv, TypeOK, DockerOK
    <3>2. CASE box'[b] = box[b]
      BY <3>2
    <3>3. CASE b \in Running /\ box'[b] = [box[b] EXCEPT !.state = "stopped"]
      BY <3>1, <3>3 DEF Box
    <3> QED
      BY <2>3, <3>2, <3>3
  <2>5. SwitchOnly
    BY <2>4 DEF SwitchOnly, Present, Running
  <2>6. \A n : Called(n)' = Called(n)
    BY <2>5 DEF SwitchOnly, Called, Present
  <2>7. StillRemovable(h)
    <3> SUFFICES ASSUME NEW g \in Active \ {h}, req[g].pc = "remove"
                 PROVE  box'[req[g].box].state = "stopped"
      BY DEF StillRemovable
    <3>1. Removable(req[g].box) /\ req[g].box \in Boxes
      BY DEF Undisturbed, IInv, InOrder, Fine, Deletes, Active, TypeOK, RequestsOK, Meant, WithBox
    <3> QED
      BY <2>4, <3>1 DEF Removable
  <2> QED
    BY <2>1, <2>2, <2>5, <2>6, <2>7, SwitchKeeps DEF Benign, Holds, RowsKept, db, Keyed
<1> QED
  BY <1>1, <1>2, <1>3, <1>4 DEF OnFleet

(* Deploying and starting, as far as rows and containers stay what they    *)
(* are.                                                                    *)
LEMMA StartsKeep ==
  ASSUME Undisturbed, NEW h \in Handlers, About', ~clash', faults' = 0,
         \/ \E n \in Names : StartBegins(h, n) \/ StopBegins(h, n)
         \/ RenewStops(h) \/ Starts(h) \/ Stops(h) \/ DeployBegins(h) \/ DeployStops(h)
  PROVE  InOrder'
<1>t. TypeOK /\ Stages
  BY DEF Undisturbed, IInv
<1>1. CASE \E n \in Names : StartBegins(h, n)
  <2> PICK n \in Names : StartBegins(h, n)
    BY <1>1
  <2> PICK b \in Called(n), op \in {"start", "renew"} :
        Begin(h, [Idle EXCEPT !.pc = op, !.op = op, !.name = n, !.box = b])
    BY <1>1 DEF StartBegins
  <2> DEFINE r == [Idle EXCEPT !.pc = op, !.op = op, !.name = n, !.box = b]
  <2>1. r.pc \in Benign /\ r.box \in Boxes /\ box[r.box].name = r.name
    BY DEF Idle, Called, Present, Benign
  <2>2. Begin(h, r) /\ UNCHANGED <<docker, db>>
    BY <1>1 DEF StartBegins
  <2> HIDE DEF r
  <2> QED
    BY <2>1, <2>2, BeginKeeps
<1>2. CASE \E n \in Names : StopBegins(h, n)
  <2> PICK n \in Names : StopBegins(h, n)
    BY <1>2
  <2> PICK b \in Called(n) :
        Begin(h, [Idle EXCEPT !.pc = "halt", !.op = "stop", !.name = n, !.box = b])
    BY <1>2 DEF StopBegins
  <2> DEFINE r == [Idle EXCEPT !.pc = "halt", !.op = "stop", !.name = n, !.box = b]
  <2>1. r.pc = "halt"
    BY DEF Idle
  <2>2. Begin(h, r) /\ UNCHANGED <<docker, db>>
    BY <1>2 DEF StopBegins
  <2> HIDE DEF r
  <2> QED
    BY <2>1, <2>2, BeginKeeps DEF Benign, Holds
<1>3. CASE RenewStops(h)
  <2>1. Move(h, "renew", "discard") /\ UNCHANGED db
        /\ (UNCHANGED box \/ \E b \in Present : SetState(b, "stopped"))
    BY <1>3 DEF RenewStops, Works
  <2>2. StillRemovable(h)
    BY <2>1, StoppedRemovable
  <2>3. UNCHANGED box \/ \E b \in Present, s \in {"running", "stopped"} : SetState(b, s)
    BY <2>1
  <2> QED
    BY <2>1, <2>2, <2>3, MoveKeeps DEF Benign, Holds
<1>4. CASE Starts(h)
  <2>1. PICK from \in {"start", "restart"} : Move(h, from, "done")
    BY <1>4 DEF Starts
  <2>2. /\ req[h].pc = from /\ h \in Active /\ req[h].op # "stop" /\ req[h].name \in Names
        /\ from = "start" => box[req[h].box].name = req[h].name
    BY <2>1, <1>t DEF Move, Active, Undisturbed, InOrder, Placed, Holds, Stages, Stage, TypeOK,
                      RequestsOK, Meant
  <2>3. UNCHANGED box \/ \E b \in Present : box[b].name = req[h].name /\ SetState(b, "running")
    BY <1>4, <2>2 DEF Starts, Called
  <2>4. StillRemovable(h)
    <3> SUFFICES ASSUME NEW g \in Active \ {h}, req[g].pc = "remove"
                 PROVE  box'[req[g].box].state = "stopped"
      BY DEF StillRemovable
    <3>1. Removable(req[g].box) /\ req[g].box \in Boxes
      BY DEF Undisturbed, IInv, InOrder, Fine, Deletes, Active, TypeOK, RequestsOK, Meant, WithBox
    <3>2. box[req[g].box].name # req[h].name
      BY <2>2, NotBeingRemoved
    <3> QED
      BY <2>3, <3>1, <3>2, <1>t DEF Removable, SetState, TypeOK, DockerOK
  <2>5. UNCHANGED box \/ \E b \in Present, s \in {"running", "stopped"} : SetState(b, s)
    BY <2>3
  <2>6. from \in Benign \ {"done"} /\ "done" \in Benign /\ "done" \notin Holds /\ UNCHANGED db
    BY <1>4 DEF Benign, Holds, Starts
  <2> QED
    BY <2>1, <2>4, <2>5, <2>6, MoveKeeps
<1>5. CASE Stops(h)
  <2>1. Move(h, "halt", "done") /\ UNCHANGED db
        /\ (UNCHANGED box \/ \E b \in Present : SetState(b, "stopped"))
    BY <1>5 DEF Stops, Works
  <2>2. StillRemovable(h)
    BY <2>1, StoppedRemovable
  <2>3. UNCHANGED box \/ \E b \in Present, s \in {"running", "stopped"} : SetState(b, s)
    BY <2>1
  <2> QED
    BY <2>1, <2>2, <2>3, MoveKeeps DEF Benign, Holds
<1>6. CASE DeployBegins(h)
  <2>1. PICK r : Begin(h, r) /\ r.pc \in {"create", "previous"}
    <3> PICK i \in 0 .. Len(Family) - 1 : DeployBegins(h)!1!(i)
      BY <1>6 DEF DeployBegins
    <3> DEFINE previous == IF i > 0 /\ ListedAs(Family[i]) \intersect Running # {}
                           THEN Called(Family[i]) ELSE {}
               pc == IF previous = {} THEN "create" ELSE "previous"
    <3>1. PICK b \in IF previous = {} THEN {None} ELSE previous :
            Begin(h, [Idle EXCEPT !.pc = pc, !.op = "deploy", !.name = Family[i + 1], !.box = b])
      OBVIOUS
    <3>2. pc \in {"create", "previous"}
      OBVIOUS
    <3> HIDE DEF pc, previous
    <3> DEFINE q == [Idle EXCEPT !.pc = pc, !.op = "deploy", !.name = Family[i + 1], !.box = b]
    <3>3. q.pc = pc /\ Begin(h, q)
      BY <3>1 DEF Idle
    <3> HIDE DEF q
    <3> QED
      BY <3>2, <3>3
  <2>2. UNCHANGED <<docker, db>>
    BY <1>6 DEF DeployBegins
  <2> QED
    BY <2>1, <2>2, BeginKeeps DEF Benign, Holds
<1>7. CASE DeployStops(h)
  <2>1. Move(h, "previous", "create") /\ UNCHANGED db
        /\ (UNCHANGED box \/ \E b \in Present : SetState(b, "stopped"))
    BY <1>7 DEF DeployStops, Works
  <2>2. StillRemovable(h)
    BY <2>1, StoppedRemovable
  <2>3. UNCHANGED box \/ \E b \in Present, s \in {"running", "stopped"} : SetState(b, s)
    BY <2>1
  <2> QED
    BY <2>1, <2>2, <2>3, MoveKeeps DEF Benign, Holds
<1> QED
  BY <1>1, <1>2, <1>3, <1>4, <1>5, <1>6, <1>7

-----------------------------------------------------------------------------
(* Deletions and renamings are alone with their names.                     *)
(* Whoever else is about a name that is deleted or renamed only stops it.  *)
LEMMA NobodyElse ==
  ASSUME Undisturbed, NEW h \in Active, req[h].op \in {"delete", "rename"},
         NEW n \in Names, n \in {req[h].name, req[h].to},
         NEW g \in Active \ {h}, n \in {req[g].name, req[g].to}
  PROVE  req[g].op = "stop"
<1>1. ~Overlaps(req[h], req[g])
  BY DEF Undisturbed, IInv, Kept, NoOverlap
<1> QED
  BY <1>1, Disturbed

(* And nobody else holds its container.                                    *)
LEMMA OtherBoxes ==
  ASSUME Undisturbed, NEW h \in Active, req[h].op \in {"delete", "rename"},
         NEW n \in Names, n \in {req[h].name, req[h].to},
         NEW g \in Active \ {h}, req[g].pc \in Holds
  PROVE  req[g].box \in Boxes /\ box[req[g].box].name # n
<1>1. req[g].op # "stop" /\ req[g].box \in Boxes
  BY DEF Undisturbed, IInv, TypeOK, RequestsOK, Meant, Stages, Stage, Making, Holds, WithBox, Active
<1>2. box[req[g].box].name = req[g].name
  BY DEF Undisturbed, InOrder, Placed
<1> QED
  BY <1>1, <1>2, NobodyElse

(* A step of a deletion or renaming.                                       *)
LEMMA OwnStep ==
  ASSUME Undisturbed, NEW h \in Handlers, About', Boxed(h),
         h \in Active, req[h].op \in {"delete", "rename"},
         \A g \in Handlers \ {h} : req'[g] = req[g],
         Same(req'[h], req[h]), req'[h].pc \notin Special,
         \A n \in Names \ {req[h].name, req[h].to} : Untouched(n),
         req'[h].pc \in Holds => box'[req'[h].box].name = req'[h].name,
         Fine(h)',
         \A n \in Names : n \in {req[h].name, req[h].to} /\ req'[h].pc = "done" => Agrees(n)',
         req'[h].pc # "idle"
  PROVE  InOrder'
<1> DEFINE T == {req[h].name, req[h].to} \intersect Names
<1>1. req[h].name \in T /\ (req[h].op = "rename" => req[h].to \in T) /\ req[h].pc \notin Special
  BY DEF Undisturbed, IInv, TypeOK, RequestsOK, Meant, Stages, Stage, Making, Special
<1>2. Leaves(h, T)
  BY <1>1 DEF Leaves, Same
<1>3. \A g \in Active \ {h} : req[g].op # "stop" => {req[g].name, req[g].to} \intersect T = {}
  BY NobodyElse
<1>4. \A n \in Names \intersect T : ~Held(n)' => Agrees(n)'
  <2> SUFFICES ASSUME NEW n \in T, ~Held(n)'
               PROVE  Agrees(n)'
    OBVIOUS
  <2>1. h \notin Active'
    BY DEF Held, Same
  <2> QED
    BY <2>1 DEF Active
<1>5. IInv /\ InOrder
  BY DEF Undisturbed
<1> HIDE DEF T
<1> QED
  BY <1>2, <1>3, <1>4, <1>5, Frame

(* Deletions.                                                              *)
LEMMA DeletesKeep ==
  ASSUME Undisturbed, NEW h \in Handlers, About', ~clash', faults' = 0, Deleting(h)
  PROVE  InOrder'
<1>t. TypeOK /\ Stages /\ box \in [Boxes -> Box]
  BY DEF Undisturbed, IInv, TypeOK, DockerOK
<1>1. CASE \E n \in Names : DeleteBegins(h, n)
  <2> PICK n \in Names : DeleteBegins(h, n)
    BY <1>1
  <2> PICK b \in Called(n) : Begin(h, [Idle EXCEPT !.pc = "stop", !.op = "delete", !.name = n, !.box = b])
    BY DEF DeleteBegins
  <2> DEFINE r == [Idle EXCEPT !.pc = "stop", !.op = "delete", !.name = n, !.box = b]
  <2>1. r.pc = "stop" /\ r.box = b /\ r.name = n /\ b \in Boxes /\ box[b].name = n /\ b \in Present
    BY DEF Idle, Called, Present
  <2>2. Begin(h, r) /\ UNCHANGED <<docker, db>>
    BY DEF DeleteBegins
  <2> HIDE DEF r
  <2>3. req'[h] = r /\ req[h].pc = "idle" /\ \A g \in Handlers \ {h} : req'[g] = req[g]
    BY <2>2, Begun
  <2>4. SwitchOnly /\ StillRemovable(h) /\ \A k : Called(k)' = Called(k)
    BY <1>t, <2>2, Switched, StoppedRemovable DEF docker
  <2>5. Fine(h)' /\ req'[h].pc \notin Special
    BY <2>1, <2>3, <2>4 DEF Fine, Registering, Rerunning, Deletes, Renames, Special, SwitchOnly
  <2> QED
    BY <2>1, <2>2, <2>3, <2>4, <2>5, SwitchKeeps DEF RowsKept, db, Keyed
<1> PICK n, b : n = req[h].name /\ b = req[h].box
  OBVIOUS
<1>m. ASSUME NEW from \in {"stop", "remove", "unmount", "keys", "owner"},
             NEW to \in {"remove", "unmount", "keys", "owner", "done"}, Move(h, from, to)
      PROVE  /\ h \in Active /\ req[h].op = "delete" /\ n \in Names /\ Same(req'[h], req[h])
             /\ req[h].pc = from /\ req'[h].pc = to /\ req'[h].box = b
             /\ \A g \in Handlers \ {h} : req'[g] = req[g]
             /\ Deletes(h) /\ (from \in Holds => b \in Boxes /\ box[b].name = n)
             /\ to \notin Special
  <2>1. from \notin {"idle", "done"} /\ to \in Pc /\ to \notin Special
    BY DEF Pc, Special
  <2>2. /\ req[h].pc = from /\ req'[h].pc = to /\ Same(req'[h], req[h]) /\ req'[h].box = b
        /\ \A g \in Handlers \ {h} : req'[g] = req[g]
        /\ h \in Active /\ Meant(req[h]) /\ Stage(req[h])
        /\ Fine(h) /\ (from \in Holds => box[b].name = n)
    BY <1>m, <2>1, MovesOn
  <2>3. req[h].op = "delete"
    BY <2>2 DEF Stage
  <2>4. n \in Names /\ (from \in Holds => b \in Boxes)
    BY <2>2, <2>3 DEF Meant, Holds, WithBox
  <2> QED
    BY <2>1, <2>2, <2>3, <2>4 DEF Fine
<1>f. ASSUME NEW to \in {"remove", "unmount", "keys", "owner", "done"}, req'[h].pc = to, Deletes(h)'
      PROVE  Fine(h)'
  BY <1>f DEF Fine, Registering, Rerunning, Renames
<1>2. CASE DeleteStops(h)
  <2>1. CASE Move(h, "stop", "remove") /\ Works(b \in Present) /\ SetState(b, "stopped")
    <3>1. /\ h \in Active /\ req[h].op = "delete" /\ n \in Names /\ Same(req'[h], req[h])
          /\ req'[h].pc = "remove" /\ req'[h].box = b
          /\ \A g \in Handlers \ {h} : req'[g] = req[g]
          /\ b \in Boxes /\ box[b].name = n
      BY <1>m, <2>1 DEF Holds
    <3>2. SwitchOnly /\ \A k : Called(k)' = Called(k)
      BY <1>t, <2>1, Switched DEF Works
    <3>3. Boxed(h)
      BY <2>1, <3>2, SwitchBoxed, StoppedRemovable DEF Works
    <3>4. \A k \in Names \ {req[h].name, req[h].to} : Untouched(k)
      BY <1>2, <3>2 DEF Untouched, SwitchOnly, Called, Present, DeleteStops, db, Keyed
    <3>5. Deletes(h)' /\ box'[b].name = n
      BY <1>t, <2>1, <3>1, <3>2 DEF Deletes, Removable, SetState, SwitchOnly
    <3> QED
      BY <1>f, <3>1, <3>3, <3>4, <3>5, OwnStep DEF Same, Special
  <2>2. CASE Move(h, "stop", "unmount") /\ Fails(b \in Present)
    BY <1>m, <2>2, Worked DEF Deletes
  <2> QED
    BY <1>2, <2>1, <2>2 DEF DeleteStops
<1>3. CASE DeleteRemoves(h)
  <2>1. /\ h \in Active /\ req[h].op = "delete" /\ n \in Names /\ Same(req'[h], req[h])
        /\ req'[h].pc = "unmount" /\ req'[h].box = b
        /\ \A g \in Handlers \ {h} : req'[g] = req[g]
        /\ b \in Boxes /\ box[b].name = n /\ Removable(b)
    BY <1>m, <1>3 DEF Holds, DeleteRemoves, Deletes
  <2>2. SetState(b, "removed")
    BY <1>3, <2>1, Worked DEF DeleteRemoves
  <2>3. /\ \A c \in Boxes \ {b} : box'[c] = box[c]
        /\ box'[b].name = box[b].name /\ box'[b].by = box[b].by /\ box'[b].state = "removed"
    BY <1>t, <2>1, <2>2 DEF SetState, Box
  <2>4. \A k : Called(k)' = Called(k) \ {b}
    BY <2>3 DEF Called, Present
  <2>5. Boxed(h)
    <3> SUFFICES ASSUME NEW g \in Active \ {h}
                 PROVE  Boxed(h)!(g)
      BY DEF Boxed
    <3>1. req[g].pc \in Holds => req[g].box \in Boxes /\ req[g].box # b
      BY <2>1, OtherBoxes
    <3>2. Fine(g)
      BY DEF Undisturbed, InOrder, Active
    <3> QED
      BY <2>3, <3>1, <3>2 DEF Fine, Deletes, Renames, Removable, Holds, Present
  <2>6. \A k \in Names \ {req[h].name, req[h].to} : Untouched(k)
    BY <1>3, <2>1, <2>3, <2>4 DEF Untouched, Called, Present, DeleteRemoves, db, Keyed
  <2>7. Called(n)' = {}
    <3>1. \A c \in Called(n) : c = b
      BY <1>t, <2>1 DEF Called, TypeOK, DockerOK, Removable, Present
    <3> QED
      BY <2>4, <3>1
  <2>8. Deletes(h)'
    BY <2>1, <2>7 DEF Deletes, Taken, Same
  <2> QED
    BY <1>f, <2>1, <2>5, <2>6, <2>8, OwnStep DEF Same, Special, Holds
<1>u. ASSUME UNCHANGED box
      PROVE  Boxed(h) /\ Present' = Present /\ \A k : Called(k)' = Called(k)
  BY <1>t, <1>u, Switched, SwitchBoxed, StoppedRemovable DEF SwitchOnly
<1>4. CASE DeleteVolume(h)
  <2>1. /\ h \in Active /\ req[h].op = "delete" /\ n \in Names /\ Same(req'[h], req[h])
        /\ req'[h].pc = "keys" /\ req'[h].box = b
        /\ \A g \in Handlers \ {h} : req'[g] = req[g] /\ ~Taken(n)
    BY <1>m, <1>4 DEF DeleteVolume, Deletes
  <2>2. ~Taken(n)
    BY <1>m, <1>4 DEF DeleteVolume, Deletes
  <2>3. \A k \in Names : Untouched(k)
    BY <1>4, <1>u DEF Untouched, DeleteVolume, db, Keyed
  <2>4. Deletes(h)'
    BY <1>4, <1>u, <2>1, <2>2 DEF Deletes, Taken, Same, DeleteVolume
  <2> QED
    BY <1>4, <1>f, <1>u, <2>1, <2>3, <2>4, OwnStep DEF Same, Special, Holds, DeleteVolume
<1>n. ~Fails(TRUE)
  BY Worked
<1>5. CASE DeleteKeys(h)
  <2>0. Move(h, "keys", "owner") /\ Keyed' = Keyed \ {n}
    BY <1>5, <1>n, KeyDeleted
  <2>1. /\ h \in Active /\ req[h].op = "delete" /\ n \in Names /\ Same(req'[h], req[h])
        /\ req'[h].pc = "owner" /\ req'[h].box = b /\ ~Taken(n)
        /\ \A g \in Handlers \ {h} : req'[g] = req[g]
    BY <1>m, <2>0 DEF Deletes
  <2>2. UNCHANGED <<box, owner, flagged>> /\ Keyed' = Keyed \ {n}
    BY <1>5, <2>0 DEF DeleteKeys, docker
  <2>3. \A k \in Names \ {req[h].name, req[h].to} : Untouched(k)
    BY <1>u, <2>2 DEF Untouched
  <2>4. Deletes(h)'
    BY <1>u, <2>1, <2>2 DEF Deletes, Taken, Same
  <2> QED
    BY <1>f, <1>u, <2>1, <2>2, <2>3, <2>4, OwnStep DEF Same, Special, Holds
<1>6. CASE DeleteOwner(h)
  <2>1. /\ h \in Active /\ req[h].op = "delete" /\ n \in Names /\ Same(req'[h], req[h])
        /\ req'[h].pc = "done" /\ req'[h].box = b /\ ~Taken(n) /\ n \notin Keyed
        /\ \A g \in Handlers \ {h} : req'[g] = req[g]
    BY <1>m, <1>6 DEF DeleteOwner, Deletes
  <2>2. UNCHANGED <<box, Keyed>> /\ owner' = [owner EXCEPT ![n] = None] /\ flagged' = flagged \ {n}
    BY <1>6, <1>n, OwnerDeleted DEF DeleteOwner, docker
  <2>3. \A k \in Names \ {req[h].name, req[h].to} : Untouched(k)
    BY <1>t, <1>u, <2>2 DEF Untouched, TypeOK, RowsOK
  <2>4. Deletes(h)'
    BY <2>1 DEF Deletes
  <2>5. Agrees(n)'
    <3>1. owner'[n] = None
      BY <1>t, <2>1, <2>2 DEF TypeOK, RowsOK
    <3>2. ~Taken(n)' /\ n \notin Keyed'
      BY <1>u, <2>1, <2>2 DEF Taken
    <3> QED
      BY <3>1, <3>2 DEF Agrees
  <2>6. req[h].to \notin Names
    BY <2>1, NoneIsNothing DEF Undisturbed, InOrder, About
  <2> QED
    BY <1>f, <1>u, <2>1, <2>2, <2>3, <2>4, <2>5, <2>6, OwnStep DEF Same, Special, Holds
<1> QED
  BY <1>1, <1>2, <1>3, <1>4, <1>5, <1>6 DEF Deleting

(* Renamings.                                                              *)
LEMMA RenamesKeep ==
  ASSUME Undisturbed, NEW h \in Handlers, About', ~clash', faults' = 0, Renaming(h)
  PROVE  InOrder'
<1>t. TypeOK /\ Stages /\ box \in [Boxes -> Box]
  BY DEF Undisturbed, IInv, TypeOK, DockerOK
<1>1. CASE \E n, m \in Names : RenameBegins(h, n, m)
  <2> PICK n, m \in Names : RenameBegins(h, n, m)
    BY <1>1
  <2> PICK b \in Called(n) : Begin(h, [Idle EXCEPT !.pc = IF b \in Running THEN "pause" ELSE "rename",
                                                   !.op = "rename", !.name = n, !.to = m, !.box = b])
    BY DEF RenameBegins
  <2> DEFINE r == [Idle EXCEPT !.pc = IF b \in Running THEN "pause" ELSE "rename",
                               !.op = "rename", !.name = n, !.to = m, !.box = b]
  <2>1. /\ r.pc \in {"pause", "rename"} /\ r.op = "rename" /\ r.box = b /\ r.name = n /\ r.to = m
        /\ b \in Boxes /\ box[b].name = n /\ b \in Present
    BY DEF Idle, Called, Present
  <2>2. Begin(h, r) /\ UNCHANGED <<docker, db>> /\ ~Taken(m)
    BY DEF RenameBegins
  <2> HIDE DEF r
  <2>3. /\ req'[h] = r /\ req[h].pc = "idle" /\ \A g \in Handlers \ {h} : req'[g] = req[g]
        /\ \A g \in Active : ~Overlaps(r, req[g])
    BY <2>2, Begun
  <2>4. SwitchOnly /\ StillRemovable(h) /\ \A k : Called(k)' = Called(k)
    BY <1>t, <2>2, Switched, StoppedRemovable DEF docker
  <2>5. \A k \in {n, m} : \A g \in Active : k \in {req[g].name, req[g].to} => req[g].op = "stop"
    BY <2>1, <2>3, Disturbed
  <2>6. Known(n) /\ MadeBy(b, n)
    BY <2>5, SettledName DEF Taken
  <2>7. Unknown(m)
    BY <2>2, <2>5, SettledName
  <2>8. Renames(h)'
    <3>1. Known(n)' /\ Unknown(m)' /\ MadeBy(b, n)' /\ ~Taken(m)' /\ b \in Present'
      BY <2>1, <2>2, <2>4, <2>6, <2>7 DEF Known, Unknown, MadeBy, Taken, db, Keyed, SwitchOnly
    <3> QED
      BY <2>1, <2>3, <3>1 DEF Renames
  <2>9. Fine(h)' /\ req'[h].pc \notin Special
    BY <2>1, <2>3, <2>8 DEF Fine, Registering, Rerunning, Deletes, Special
  <2> QED
    BY <2>1, <2>2, <2>3, <2>4, <2>9, SwitchKeeps DEF RowsKept, db, Keyed
<1> PICK n, m, b : n = req[h].name /\ m = req[h].to /\ b = req[h].box
  OBVIOUS
<1>m. ASSUME NEW from \in {"pause", "rename", "rows", "back"},
             NEW to \in {"rename", "rows", "back", "done"}, Move(h, from, to)
      PROVE  /\ h \in Active /\ req[h].op = "rename" /\ n \in Names /\ m \in Names /\ n # m
             /\ Same(req'[h], req[h]) /\ req[h].pc = from /\ req'[h].pc = to /\ req'[h].box = b
             /\ \A g \in Handlers \ {h} : req'[g] = req[g]
             /\ Renames(h) /\ b \in Boxes /\ (from \in Holds => box[b].name = n)
             /\ to \notin Special
  <2>1. /\ h \in Active /\ Same(req'[h], req[h]) /\ req[h].pc = from /\ req'[h].pc = to /\ req'[h].box = b
        /\ \A g \in Handlers \ {h} : req'[g] = req[g]
        /\ Meant(req[h]) /\ Stage(req[h]) /\ Fine(h) /\ (from \in Holds => box[b].name = n)
    BY <1>m, MovesOn DEF Pc
  <2>2. About
    BY DEF Undisturbed, InOrder
  <2> QED
    BY <2>1, <2>2 DEF Meant, Stage, Fine, WithBox, Special, About
<1>f. ASSUME NEW to \in {"rename", "rows", "back", "done"}, req'[h].pc = to, Renames(h)'
      PROVE  Fine(h)'
  BY <1>f DEF Fine, Registering, Rerunning, Deletes
<1>2. CASE RenameStops(h)
  <2>1. CASE Move(h, "pause", "rename") /\ Works(b \in Present) /\ SetState(b, "stopped")
    <3>1. /\ h \in Active /\ req[h].op = "rename" /\ n \in Names /\ m \in Names /\ n # m
          /\ Same(req'[h], req[h]) /\ req[h].pc = "pause" /\ req'[h].pc = "rename" /\ req'[h].box = b
          /\ \A g \in Handlers \ {h} : req'[g] = req[g]
          /\ Renames(h) /\ b \in Boxes /\ box[b].name = n
      BY <1>m, <2>1 DEF Holds
    <3>2. SwitchOnly /\ \A k : Called(k)' = Called(k)
      BY <1>t, <2>1, Switched DEF Works
    <3>3. Boxed(h)
      BY <2>1, <3>2, SwitchBoxed, StoppedRemovable DEF Works
    <3>4. \A k \in Names : Untouched(k)
      BY <1>2, <3>2 DEF Untouched, SwitchOnly, Called, Present, RenameStops, db, Keyed
    <3>5. Renames(h)'
      <4>1. Known(n) /\ Unknown(m) /\ MadeBy(b, n) /\ ~Taken(m) /\ b \in Present
        BY <3>1 DEF Renames
      <4>2. Known(n)' /\ Unknown(m)' /\ MadeBy(b, n)' /\ ~Taken(m)' /\ b \in Present'
        BY <1>2, <3>1, <3>2, <4>1 DEF Known, Unknown, MadeBy, Taken, db, Keyed, SwitchOnly, RenameStops
      <4> QED
        BY <3>1, <4>2 DEF Renames, Same
    <3>6. box'[b].name = n
      BY <3>1, <3>2 DEF SwitchOnly
    <3> QED
      BY <1>f, <3>1, <3>3, <3>4, <3>5, <3>6, OwnStep DEF Same, Special
  <2>2. CASE Move(h, "pause", "done") /\ Fails(b \in Present)
    BY <1>m, <2>2, Worked DEF Renames
  <2> QED
    BY <1>2, <2>1, <2>2 DEF RenameStops
<1>3. CASE RenameBox(h)
  <2>1. b \in Present /\ ~Taken(m) /\ Known(n) /\ Unknown(m) /\ MadeBy(b, n) /\ n # m
    <3>1. Renames(h) /\ req[h].pc = "rename" /\ n # m
      BY <1>3, <1>m DEF RenameBox, SetName
    <3> QED
      BY <3>1 DEF Renames
  <2>2. Move(h, "rename", "rows") /\ box' = [box EXCEPT ![b].name = m] /\ UNCHANGED db
    BY <1>3, <2>1, Worked DEF RenameBox, SetName
  <2>3. /\ h \in Active /\ req[h].op = "rename" /\ n \in Names /\ m \in Names
        /\ Same(req'[h], req[h]) /\ req'[h].pc = "rows" /\ req'[h].box = b
        /\ \A g \in Handlers \ {h} : req'[g] = req[g]
        /\ b \in Boxes /\ box[b].name = n
    BY <1>m, <2>2 DEF Holds
  <2>4. /\ \A c \in Boxes \ {b} : box'[c] = box[c]
        /\ box'[b].name = m /\ box'[b].by = box[b].by /\ box'[b].state = box[b].state
    BY <1>t, <2>2, <2>3 DEF Box
  <2>5. Present' = Present
    BY <2>4 DEF Present
  <2>6. /\ Called(n)' = {} /\ b \in Called(m)'
        /\ \A k \in Names \ {n, m} : Called(k)' = Called(k)
    <3>1. \A c \in Present : box[c].name = n => c = b
      BY <1>t, <2>1, <2>3 DEF TypeOK, DockerOK
    <3> QED
      BY <2>1, <2>3, <2>4, <2>5, <3>1 DEF Called, Present
  <2>7. \A k \in Names \ {req[h].name, req[h].to} : Untouched(k)
    BY <2>2, <2>3, <2>4, <2>6 DEF Untouched, Called, Present, db, Keyed
  <2>8. Boxed(h)
    <3> SUFFICES ASSUME NEW g \in Active \ {h}
                 PROVE  Boxed(h)!(g)
      BY DEF Boxed
    <3>1. req[g].pc \in Holds => req[g].box \in Boxes /\ req[g].box # b
      BY <2>3, OtherBoxes
    <3>2. Fine(g)
      BY DEF Undisturbed, InOrder, Active
    <3> QED
      BY <2>4, <3>1, <3>2 DEF Fine, Deletes, Renames, Removable, Holds, Present
  <2>9. Renames(h)'
    <3>1. Known(n)' /\ Unknown(m)' /\ MadeBy(b, n)' /\ ~Taken(n)'
      BY <2>1, <2>2, <2>4, <2>6 DEF Known, Unknown, MadeBy, Taken, db, Keyed
    <3> QED
      BY <2>3, <2>6, <3>1 DEF Renames, Same
  <2> QED
    BY <1>f, <2>3, <2>7, <2>8, <2>9, OwnStep DEF Same, Special, Holds
<1>4. CASE RenameRows(h)
  <2>1. /\ h \in Active /\ req[h].op = "rename" /\ req[h].pc = "rows"
        /\ n \in Names /\ m \in Names /\ n # m /\ b \in Boxes /\ Renames(h)
    <3>1. PICK to \in {"done", "back"} : Move(h, "rows", to)
      BY <1>4 DEF RenameRows
    <3> QED
      BY <1>m, <3>1
  <2>2. Known(n) /\ Unknown(m) /\ MadeBy(b, n) /\ b \in Called(m) /\ ~Taken(n) /\ n \notin flagged
        /\ m \notin flagged
    BY <2>1 DEF Renames, Undisturbed, IInv, Kept, RenamedUnmarked, MarkedHaveRows, Unknown
  <2>3. /\ Move(h, "rows", "done")
        /\ owner' = [owner EXCEPT ![n] = None, ![m] = owner[n]]
        /\ flagged' = flagged
        /\ Keyed' = (Keyed \ {n}) \union {m}
        /\ UNCHANGED box
    <3>1. ~Fails(TRUE)
      BY Worked
    <3>2. /\ Move(h, "rows", "done") /\ UNCHANGED box
          /\ owner' = [owner EXCEPT ![n] = None, ![m] = owner[n]]
          /\ flagged' = Moved(flagged, n, m)
          /\ keys' = Moved(keys, n, m) /\ lost' = Moved(lost, n, m)
      BY <1>4, <2>2, <3>1 DEF RenameRows, Known, Unknown, docker
    <3>3. Keyed' = Moved(Keyed, n, m)
      BY <3>2, KeyMoved
    <3> QED
      BY <2>2, <3>2, <3>3 DEF Moved, Known
  <2>4. /\ Same(req'[h], req[h]) /\ req'[h].pc = "done" /\ req'[h].box = b
        /\ \A g \in Handlers \ {h} : req'[g] = req[g]
    BY <1>m, <2>3
  <2>5. Boxed(h) /\ SwitchOnly /\ \A k : Called(k)' = Called(k)
    BY <1>t, <2>3, Switched, SwitchBoxed, StoppedRemovable
  <2>6. owner'[n] = None /\ owner'[m] = owner[n] /\ \A k \in Names \ {n, m} : owner'[k] = owner[k]
    BY <1>t, <2>1, <2>3 DEF TypeOK, RowsOK
  <2>7. \A k \in Names \ {req[h].name, req[h].to} : Untouched(k)
    BY <2>3, <2>5, <2>6 DEF Untouched
  <2>8. Agrees(n)'
    <3>1. ~Taken(n)' /\ n \notin Keyed'
      BY <2>1, <2>2, <2>3, <2>5 DEF Taken
    <3> QED
      BY <2>6, <3>1 DEF Agrees
  <2>9. Agrees(m)'
    <3>1. Taken(m)' /\ m \in Keyed' /\ owner'[m] # None
      BY <2>2, <2>3, <2>5, <2>6 DEF Taken, Known
    <3>2. \A c \in Called(m)' : c = b
      <4>1. \A c \in Called(m) : c = b
        BY <1>t, <2>1, <2>2 DEF TypeOK, DockerOK, Called, Present
      <4> QED
        BY <2>5, <4>1
    <3>3. box'[b].by = owner'[m]
      BY <2>2, <2>3, <2>6 DEF MadeBy
    <3> QED
      BY <3>1, <3>2, <3>3 DEF Agrees, MadeBy
  <2>10. Renames(h)'
    BY <2>4 DEF Renames
  <2> QED
    BY <1>f, <2>1, <2>4, <2>5, <2>7, <2>8, <2>9, <2>10, OwnStep DEF Same, Special, Holds
<1>5. CASE RenameBack(h)
  BY <1>5, <1>m DEF RenameBack, SetName, Renames
<1> QED
  BY <1>1, <1>2, <1>3, <1>4, <1>5 DEF Renaming

(* Making a container gives its name one and changes no other.             *)
LEMMA IsPut ==
  ASSUME Undisturbed, NEW b \in Boxes, NEW n \in Names, NEW home, NEW by, ~Taken(n),
         PutBox(b, "running", n, home, by)
  PROVE  /\ Called(n)' = {b} /\ box'[b].by = by
         /\ \A k \in Names \ {n} : Called(k)' = Called(k)
         /\ \A c \in Boxes : box[c].state # "unused" => box'[c] = box[c]
         /\ \A k \in Names : \A c \in Called(k) : box'[c] = box[c]
<1>1. box \in [Boxes -> Box]
  BY DEF Undisturbed, IInv, TypeOK, DockerOK
<1>2. /\ \A c \in Boxes \ {b} : box'[c] = box[c]
      /\ box'[b] = [state |-> "running", name |-> n, home |-> home, by |-> by]
      /\ box[b].state = "unused"
  BY <1>1 DEF PutBox, Fresh
<1>3. b \notin Present /\ Present' = Present \union {b}
  BY <1>2 DEF Present
<1>4. \A k : Called(k)' = {c \in Present' : box'[c].name = k}
  BY DEF Called
<1>5. Called(n)' = {b}
  BY <1>2, <1>3, <1>4 DEF Taken, Called, Present
<1>6. \A k \in Names \ {n} : Called(k)' = Called(k)
  BY <1>2, <1>3, <1>4 DEF Called, Present
<1> QED
  BY <1>2, <1>5, <1>6 DEF Called, Present

LEMMA PutBoxed ==
  ASSUME Undisturbed, NEW h \in Handlers,
         \A c \in Boxes : box[c].state # "unused" => box'[c] = box[c]
  PROVE  Boxed(h)
<1> SUFFICES ASSUME NEW g \in Active \ {h}
             PROVE  Boxed(h)!(g)
  BY DEF Boxed
<1>1. Fine(g) /\ Meant(req[g])
  BY DEF Undisturbed, IInv, InOrder, Active, TypeOK, RequestsOK
<1>2. req[g].pc \in Holds => req[g].box \in Boxes /\ box'[req[g].box] = box[req[g].box]
  BY <1>1 DEF Meant, Holds, WithBox
<1> QED
  BY <1>1, <1>2 DEF Fine, Deletes, Renames, Present, Removable, Holds

Disturbing == {"delete", "rename", "renew"}

(* What is known of a name that is only created, started or stopped.       *)
LEMMA MakerName ==
  ASSUME Undisturbed, NEW n \in Names,
         \A g \in Active : n \in {req[g].name, req[g].to} => req[g].op \notin Disturbing
  PROVE  /\ owner[n] # None => n \in Keyed /\ Taken(n)
         /\ n \in Keyed => Taken(n) \/ \E g \in Handlers : Makes(g, n)
         /\ Taken(n) => n \in Keyed /\ (owner[n] # None \/ \E g \in Handlers : Registers(g, n))
         /\ owner[n] # None => \A b \in Called(n) : MadeBy(b, n)
<1>1. Agrees(n)
  BY DEF Undisturbed, InOrder, Held, Disturbing
<1>2. \A g \in Handlers : ~Reruns(g, n)
  BY DEF Makes, Registers, Reruns, Disturbing, Undisturbed, IInv, Stages, Stage, Active
<1>3. \A g \in Handlers : (Makes(g, n) \/ Reruns(g, n)) => Makes(g, n)
  BY <1>2 DEF Makes, Registers, Reruns
<1> QED
  BY <1>1, <1>2, <1>3 DEF Agrees

(* A step of somebody who makes an agent: others may be making it too.     *)
LEMMA MakeStep ==
  ASSUME Undisturbed, NEW h \in Handlers, About', NEW n \in Names, Leaves(h, {n}), Boxed(h),
         \A g \in Active \ {h} : n \in {req[g].name, req[g].to} => req[g].op \notin Disturbing,
         req'[h].pc \in {"volume", "run", "register", "start", "done"},
         req'[h].pc = "start" => box'[req'[h].box].name = req'[h].name,
         Registering(h)',
         \A g \in Handlers \ {h} : Registers(g, n) => Registering(g)',
         Agrees(n)'
  PROVE  InOrder'
<1>1. Fine(h)'
  BY DEF Fine, Rerunning, Deletes, Renames
<1>2. ASSUME NEW g \in Active \ {h}, {req[g].name, req[g].to} \intersect {n} # {}
      PROVE  Fine(g)'
  <2>1. req[g].op \notin Disturbing /\ req'[g] = req[g] /\ Stage(req[g]) /\ (req[g].op \in Making => Meant(req[g]))
    BY <1>2 DEF Leaves, Undisturbed, IInv, Stages, TypeOK, RequestsOK
  <2>2. Rerunning(g)' /\ Deletes(g)' /\ Renames(g)'
    BY <2>1 DEF Disturbing, Rerunning, Deletes, Renames, Stage
  <2>3. Registering(g)'
    <3>1. CASE req[g].pc = "register" /\ req[g].name = n
      BY <3>1 DEF Registers, Active
    <3>2. CASE req[g].pc = "register" /\ req[g].name # n
      <4>1. Registering(g) /\ req[g].name \in Names
        BY <2>1, <3>2 DEF Stage, Meant, Making, Undisturbed, InOrder, Fine, Active
      <4>2. Untouched(req[g].name)
        BY <3>2, <4>1 DEF Leaves
      <4>3. Maker(g)' = Maker(g)
        BY <2>1 DEF Maker
      <4>4. \A k \in Handlers : Registers(k, req[g].name)' => k = g
        BY <2>1, <3>2, <4>1 DEF Makes, Registers, Reruns, Leaves, Registering, Special
      <4> QED
        BY <2>1, <3>2, <4>1, <4>2, <4>3, <4>4 DEF Registering, Untouched
    <3>3. CASE req[g].pc # "register"
      BY <2>1, <3>3 DEF Registering
    <3> QED
      BY <3>1, <3>2, <3>3
  <2> QED
    BY <2>2, <2>3 DEF Fine
<1>3. IInv /\ InOrder
  BY DEF Undisturbed
<1>4. h \in Active' /\ req'[h].pc \in Holds => box'[req'[h].box].name = req'[h].name
  BY DEF Holds
<1> QED
  BY <1>1, <1>2, <1>3, <1>4, Frame

(* Somebody who is to write a row is not disturbed by other creations.     *)
LEMMA RegisterStays ==
  ASSUME Undisturbed, NEW h \in Handlers, NEW n \in Names, NEW g \in Handlers \ {h}, Registers(g, n),
         req'[g] = req[g], Called(n)' = Called(n), \A b \in Called(n) : box'[b].by = box[b].by,
         owner'[n] = owner[n] \/ n \in flagged', n \in flagged => n \in flagged',
         \A k \in Handlers \ {g} : ~Registers(k, n)'
  PROVE  Registering(g)'
<1>1. Registering(g) /\ req[g].name = n /\ req[g].pc = "register"
  BY DEF Undisturbed, InOrder, Fine, Active, Makes, Registers, Reruns
<1>2. Maker(g)' = Maker(g)
  BY DEF Maker
<1> QED
  BY <1>1, <1>2 DEF Registering

LEMMA RegisterTaken ==
  ASSUME Undisturbed, NEW n \in Names, NEW g \in Handlers, Registers(g, n)
  PROVE  Taken(n) /\ \A k \in Handlers : Registers(k, n) => k = g
BY DEF Undisturbed, InOrder, Fine, Registering, Makes, Registers, Reruns, Taken

LEMMA BoxStays ==
  ASSUME Undisturbed, NEW h \in Handlers, UNCHANGED box
  PROVE  Boxed(h) /\ Present' = Present /\ \A k : Called(k)' = Called(k)
BY Switched, SwitchBoxed, StoppedRemovable DEF SwitchOnly, Undisturbed, IInv

(* Creations: nobody has, and nobody is about to have, another container.  *)
LEMMA CreatesBeginKeep ==
  ASSUME Undisturbed, NEW h \in Handlers, About', ~clash', faults' = 0,
         NEW n \in Names, NEW r, Begin(h, r), r.name = n, r.op \in Making, r.pc \in {"volume", "run"},
         ~Taken(n), Keyed' = Keyed \union {n}, UNCHANGED <<docker, owner, flagged>>
  PROVE  InOrder'
<1>1. /\ req'[h] = r /\ req[h].pc = "idle" /\ \A g \in Handlers \ {h} : req'[g] = req[g]
      /\ \A g \in Active : ~Overlaps(r, req[g])
  BY Begun
<1>2. Boxed(h) /\ \A k : Called(k)' = Called(k)
  BY BoxStays DEF docker
<1>3. \A g \in Active : n \in {req[g].name, req[g].to} => req[g].op \notin Disturbing
  BY <1>1, Disturbed DEF Disturbing, Making
<1>4. Leaves(h, {n})
  BY <1>1, <1>2 DEF Leaves, Untouched, docker, Special, Active
<1>5. \A g \in Handlers : ~Registers(g, n)
  BY RegisterTaken
<1>6. Agrees(n)'
  <2>1. owner[n] = None
    BY <1>3, MakerName
  <2>2. (Makes(h, n)' \/ Reruns(h, n)')
    BY <1>1 DEF Makes, Registers, Reruns
  <2>3. ~Taken(n)'
    BY <1>2 DEF Taken
  <2> QED
    BY <2>1, <2>2, <2>3 DEF Agrees
<1> QED
  BY <1>1, <1>2, <1>3, <1>4, <1>5, <1>6, MakeStep DEF Registering

LEMMA MakerAlone ==
  ASSUME Undisturbed, NEW h \in Active, req[h].op \in Making,
         NEW g \in Active, req[h].name \in {req[g].name, req[g].to}
  PROVE  req[g].op \notin Disturbing /\ req[h].name \in Names
<1>1. req[h].name \in Names
  BY DEF Making, Undisturbed, IInv, TypeOK, RequestsOK, Meant
<1>2. g # h => ~Overlaps(req[g], req[h])
  BY DEF Undisturbed, IInv, Kept, NoOverlap
<1> QED
  BY <1>1, <1>2, Disturbed DEF Disturbing, Making

LEMMA CreatesKeep ==
  ASSUME Undisturbed, NEW h \in Handlers, About', ~clash', faults' = 0, Creating(h)
  PROVE  InOrder'
<1>t. TypeOK /\ Stages
  BY DEF Undisturbed, IInv
<1>1. CASE \E n \in Names : CreateBegins(h, n)
  <2> PICK n \in Names : CreateBegins(h, n)
    BY <1>1
  <2> DEFINE r == [Idle EXCEPT !.pc = "volume", !.op = "create", !.name = n]
  <2>1. r.name = n /\ r.op \in Making /\ r.pc \in {"volume", "run"}
    BY DEF Idle, Making
  <2>2. Begin(h, r) /\ ~Taken(n) /\ Keyed' = Keyed \union {n} /\ UNCHANGED <<docker, owner, flagged>>
    BY KeyMade DEF CreateBegins
  <2> HIDE DEF r
  <2> QED
    BY <2>1, <2>2, CreatesBeginKeep
<1> PICK n : n = req[h].name
  OBVIOUS
<1>n. ~Fails(TRUE)
  BY Worked
<1>m. ASSUME NEW from \in {"create", "volume", "run", "register", "reload"},
             NEW to \in {"volume", "run", "register", "start", "done"}, Move(h, from, to)
      PROVE  /\ h \in Active /\ req[h].op \in Making /\ n \in Names
             /\ Same(req'[h], req[h]) /\ req[h].pc = from /\ req'[h].pc = to
             /\ \A g \in Handlers \ {h} : req'[g] = req[g]
             /\ \A g \in Active : n \in {req[g].name, req[g].to} => req[g].op \notin Disturbing
             /\ Registering(h)
             /\ n \in Keyed \/ from \in {"create", "reload"}
             /\ req'[h].box = req[h].box
             /\ from = "reload" => n = System /\ box[req[h].box].name = n
             /\ ~(h \in Active /\ req[h].op \in {"delete", "rename"})
             /\ Maker(h)' = Maker(h)
  <2>1. /\ h \in Active /\ Same(req'[h], req[h]) /\ req[h].pc = from /\ req'[h].pc = to
        /\ \A g \in Handlers \ {h} : req'[g] = req[g]
        /\ Meant(req[h]) /\ Stage(req[h]) /\ Fine(h) /\ req'[h].box = req[h].box
        /\ from \in Holds => box[req[h].box].name = n
    BY <1>m, MovesOn DEF Pc
  <2>2. req[h].op \in Making /\ (from = "reload" => n = System /\ box[req[h].box].name = n)
    BY <2>1 DEF Stage, Making, Holds
  <2>3. from \notin {"create", "reload"} => n \in Keyed
    BY <2>1 DEF Undisturbed, IInv, Kept, MakersHaveKeys
  <2> QED
    BY <2>1, <2>2, <2>3, MakerAlone DEF Fine, Making, Maker, Same
<1>2. CASE CreateVolume(h)
  <2>1. Move(h, "volume", "run") /\ UNCHANGED <<box, db>>
    BY <1>2, Worked DEF CreateVolume
  <2>2. /\ n \in Names /\ Same(req'[h], req[h]) /\ req[h].pc = "volume" /\ req'[h].pc = "run"
        /\ \A g \in Handlers \ {h} : req'[g] = req[g]
        /\ \A g \in Active : n \in {req[g].name, req[g].to} => req[g].op \notin Disturbing
        /\ req[h].op \in Making /\ n \in Keyed
    BY <1>m, <2>1
  <2>3. Boxed(h) /\ \A k : Called(k)' = Called(k)
    BY <2>1, BoxStays
  <2>4. Leaves(h, {n})
    BY <2>1, <2>2, <2>3 DEF Leaves, Untouched, Same, db, Keyed, Making
  <2>5. \A k \in Handlers : Registers(k, n)' <=> Registers(k, n)
    BY <2>2 DEF Makes, Registers, Reruns
  <2>6. ASSUME NEW g \in Handlers \ {h}, Registers(g, n)
        PROVE  Registering(g)'
    BY <2>1, <2>2, <2>3, <2>5, <2>6, RegisterTaken, RegisterStays DEF db, Keyed
  <2>7. Agrees(n)'
    <3>1. (Makes(h, n)' \/ Reruns(h, n)')
      BY <2>2 DEF Makes, Registers, Reruns, Same
    <3>2. Taken(n)' <=> Taken(n)
      BY <2>3 DEF Taken
    <3>3. \A b \in Called(n) : MadeBy(b, n)' <=> MadeBy(b, n)
      BY <2>1 DEF MadeBy, db, Keyed
    <3> QED
      BY <2>1, <2>2, <2>3, <2>5, <3>1, <3>2, <3>3, MakerName DEF Agrees, db, Keyed
  <2>8. Registering(h)'
    BY <2>2 DEF Registering
  <2> QED
    BY <2>2, <2>3, <2>4, <2>6, <2>7, <2>8, MakeStep
<1>3. CASE CreateRuns(h)
  <2>1. CASE ~Taken(n)
    <3>1. Move(h, "run", "register") /\ UNCHANGED db
          /\ \E b \in Boxes : PutBox(b, "running", n, n, Maker(h))
      BY <1>3, <2>1, Worked DEF CreateRuns, RunBox
    <3>2. PICK b \in Boxes : PutBox(b, "running", n, n, Maker(h))
      BY <3>1
    <3>3. /\ n \in Names /\ Same(req'[h], req[h]) /\ req[h].pc = "run" /\ req'[h].pc = "register"
          /\ \A g \in Handlers \ {h} : req'[g] = req[g]
          /\ \A g \in Active : n \in {req[g].name, req[g].to} => req[g].op \notin Disturbing
          /\ req[h].op \in Making /\ n \in Keyed /\ Maker(h)' = Maker(h)
      BY <1>m, <3>1
    <3>4. /\ Called(n)' = {b} /\ box'[b].by = Maker(h)
          /\ \A k \in Names \ {n} : Called(k)' = Called(k)
          /\ \A c \in Boxes : box[c].state # "unused" => box'[c] = box[c]
          /\ \A k \in Names : \A c \in Called(k) : box'[c] = box[c]
      BY <2>1, <3>2, <3>3, IsPut
    <3>5. Boxed(h)
      BY <3>4, PutBoxed
    <3>6. Leaves(h, {n})
      BY <3>1, <3>3, <3>4 DEF Leaves, Untouched, Same, db, Keyed, Making
    <3>7. \A g \in Handlers : ~Registers(g, n)
      BY <2>1, <3>3, RegisterTaken
    <3>8. owner[n] = None
      BY <2>1, <3>3, MakerName
    <3>9. Registering(h)'
      <4>1. \A g \in Handlers : Registers(g, n)' => g = h
        BY <3>3, <3>7 DEF Makes, Registers, Reruns
      <4> QED
        BY <3>1, <3>3, <3>4, <3>8, <4>1 DEF Registering, Same, db, Keyed
    <3>10. Agrees(n)'
      <4>1. Registers(h, n)' /\ Taken(n)' /\ owner'[n] = None /\ n \in Keyed'
        BY <3>1, <3>3, <3>4, <3>8 DEF Makes, Registers, Reruns, Same, db, Keyed, Taken
      <4> QED
        BY <4>1 DEF Agrees
    <3> QED
      BY <3>3, <3>5, <3>6, <3>7, <3>9, <3>10, MakeStep
  <2>2. CASE Taken(n)
    <3>1. Move(h, "run", "done") /\ UNCHANGED <<docker, db>>
      BY <1>3, <2>2 DEF CreateRuns, RunBox, Works
    <3>2. /\ n \in Names /\ Same(req'[h], req[h]) /\ req[h].pc = "run" /\ req'[h].pc = "done"
          /\ \A g \in Handlers \ {h} : req'[g] = req[g]
          /\ \A g \in Active : n \in {req[g].name, req[g].to} => req[g].op \notin Disturbing
          /\ req[h].op \in Making /\ n \in Keyed
      BY <1>m, <3>1
    <3>3. Boxed(h) /\ \A k : Called(k)' = Called(k)
      BY <3>1, BoxStays DEF docker
    <3>4. Leaves(h, {n})
      BY <3>1, <3>2, <3>3 DEF Leaves, Untouched, Same, db, Keyed, docker, Making
    <3>5. \A k \in Handlers : Registers(k, n)' <=> Registers(k, n)
      BY <3>2 DEF Makes, Registers, Reruns
    <3>6. ASSUME NEW g \in Handlers \ {h}, Registers(g, n)
          PROVE  Registering(g)'
      BY <3>1, <3>2, <3>3, <3>5, <3>6, RegisterTaken, RegisterStays DEF db, Keyed, docker
    <3>7. Agrees(n)'
      <4>1. Taken(n)'
        BY <2>2, <3>3 DEF Taken
      <4>2. \A b \in Called(n) : MadeBy(b, n)' <=> MadeBy(b, n)
        BY <3>1 DEF MadeBy, db, Keyed, docker
      <4> QED
        BY <2>2, <3>1, <3>2, <3>3, <3>5, <4>1, <4>2, MakerName DEF Agrees, db, Keyed
    <3>8. Registering(h)'
      BY <3>2 DEF Registering
    <3> QED
      BY <3>2, <3>3, <3>4, <3>6, <3>7, <3>8, MakeStep
  <2> QED
    BY <2>1, <2>2
<1>4. CASE CreateRegisters(h)
  <2>1. Move(h, "register", "done") /\ Register(Maker(h), n, req[h].op = "ensure") /\ UNCHANGED <<docker, Keyed>>
    BY <1>4, <1>n DEF CreateRegisters, Keyed
  <2>2. /\ n \in Names /\ Same(req'[h], req[h]) /\ req[h].pc = "register" /\ req'[h].pc = "done"
        /\ \A g \in Handlers \ {h} : req'[g] = req[g]
        /\ \A g \in Active : n \in {req[g].name, req[g].to} => req[g].op \notin Disturbing
        /\ req[h].op \in Making /\ n \in Keyed /\ Registering(h)
    BY <1>m, <2>1
  <2>3. Boxed(h) /\ \A k : Called(k)' = Called(k)
    BY <2>1, BoxStays DEF docker
  <2>4. /\ owner'[n] = IF owner[n] = None THEN Maker(h) ELSE owner[n]
        /\ \A k \in Names \ {n} : owner'[k] = owner[k]
        /\ \A k \in Names \ {n} : k \in flagged' <=> k \in flagged
        /\ n \in flagged => n \in flagged'
    BY <1>t, <2>1, <2>2 DEF Register, TypeOK, RowsOK
  <2>5. Leaves(h, {n})
    BY <2>1, <2>2, <2>3, <2>4 DEF Leaves, Untouched, Same, docker, Making
  <2>6. \A g \in Handlers : Registers(g, n) => g = h
    BY <2>2 DEF Registering
  <2>7. Agrees(n)'
    <3>1. PICK b \in Called(n) : box[b].by = Maker(h)
      BY <2>2 DEF Registering
    <3>2. \A c \in Called(n) : c = b
      BY <1>t, <3>1 DEF TypeOK, DockerOK, Called
    <3>3. owner'[n] # None
      BY <2>4, NoneIsNothing DEF Maker
    <3>4. \A c \in Called(n) : MadeBy(c, n)'
      BY <2>1, <2>2, <2>4, <3>1, <3>2 DEF MadeBy, Registering, docker
    <3>5. Taken(n)' /\ n \in Keyed'
      BY <2>1, <2>2, <2>3, <3>1 DEF Taken
    <3> QED
      BY <2>3, <3>3, <3>4, <3>5 DEF Agrees
  <2>8. Registering(h)'
    BY <2>2 DEF Registering
  <2> QED
    BY <2>2, <2>3, <2>5, <2>6, <2>7, <2>8, MakeStep
<1>5. CASE DeployCreates(h)
  <2> DEFINE to == IF Taken(n) THEN "done" ELSE "volume"
  <2>0. to \in {"done", "volume"}
    OBVIOUS
  <2>1. Move(h, "create", to) /\ Keyed' = (IF Taken(n) THEN Keyed ELSE Keyed \union {n})
        /\ UNCHANGED <<docker, owner, flagged>>
    BY <1>5, KeyMade DEF DeployCreates, Keyed
  <2>t. (to = "done") <=> Taken(n)
    OBVIOUS
  <2> HIDE DEF to
  <2>2. /\ n \in Names /\ Same(req'[h], req[h]) /\ req[h].pc = "create" /\ req'[h].pc = to
        /\ \A g \in Handlers \ {h} : req'[g] = req[g]
        /\ \A g \in Active : n \in {req[g].name, req[g].to} => req[g].op \notin Disturbing
        /\ req[h].op \in Making
    BY <1>m, <2>0, <2>1
  <2>3. Boxed(h) /\ \A k : Called(k)' = Called(k)
    BY <2>1, BoxStays DEF docker
  <2>4. Leaves(h, {n})
    BY <2>1, <2>2, <2>3 DEF Leaves, Untouched, Same, docker, Making
  <2>5. \A k \in Handlers : Registers(k, n)' <=> Registers(k, n)
    BY <2>0, <2>2 DEF Makes, Registers, Reruns
  <2>6. ASSUME NEW g \in Handlers \ {h}, Registers(g, n)
        PROVE  Registering(g)'
    BY <2>1, <2>2, <2>3, <2>5, <2>6, RegisterTaken, RegisterStays DEF docker
  <2>7. Agrees(n)'
    <3>1. \A b \in Called(n) : MadeBy(b, n)' <=> MadeBy(b, n)
      BY <2>1 DEF MadeBy, docker
    <3>2. Taken(n)' <=> Taken(n)
      BY <2>3 DEF Taken
    <3>3. ~Taken(n) => (Makes(h, n)' \/ Reruns(h, n)') /\ n \in Keyed'
      BY <2>0, <2>1, <2>t, <2>2 DEF Makes, Registers, Reruns, Same
    <3> QED
      BY <2>1, <2>2, <2>3, <2>5, <3>1, <3>2, <3>3, MakerName DEF Agrees
  <2>8. Registering(h)'
    BY <2>0, <2>2 DEF Registering
  <2> QED
    BY <2>0, <2>2, <2>3, <2>4, <2>6, <2>7, <2>8, MakeStep
<1>6. CASE EnsureBegins(h)
  <2>1. CASE Begin(h, [Idle EXCEPT !.op = "ensure", !.name = System, !.pc = "run"]) /\ MakesKey(System)
        /\ ~Taken(System)
    <3> DEFINE q == [Idle EXCEPT !.op = "ensure", !.name = System, !.pc = "run"]
    <3>1. Begin(h, q) /\ Keyed' = Keyed \union {System} /\ UNCHANGED <<docker, owner, flagged>>
      BY <1>6, <2>1, KeyMade DEF EnsureBegins
    <3>2. q.name = System /\ q.op \in Making /\ q.pc \in {"volume", "run"}
      BY DEF Idle, Making
    <3> HIDE DEF q
    <3> QED
      BY <2>1, <3>1, <3>2, SystemNamed, CreatesBeginKeep
  <2>2. ASSUME NEW b \in Called(System), UNCHANGED <<keys, lost>>,
               Begin(h, [Idle EXCEPT !.op = "ensure", !.name = System, !.pc = "reload", !.box = b])
        PROVE  InOrder'
    <3> DEFINE q == [Idle EXCEPT !.op = "ensure", !.name = System, !.pc = "reload", !.box = b]
    <3>1. Begin(h, q) /\ UNCHANGED <<docker, db>>
      BY <1>6, <2>2 DEF EnsureBegins, db
    <3>2. q.pc \in Benign /\ q.box \in Boxes /\ box[q.box].name = q.name
      BY DEF Idle, Called, Present, Benign
    <3> HIDE DEF q
    <3> QED
      BY <3>1, <3>2, BeginKeeps
  <2> QED
    BY <1>6, <2>1, <2>2 DEF EnsureBegins
<1>8. CASE EnsureReloads(h)
  <2> DEFINE b == req[h].box
  <2>1. CASE b \notin Present
    <3>1. Move(h, "reload", "done") /\ UNCHANGED <<docker, db>>
      BY <1>8, <2>1 DEF EnsureReloads, Works, db
    <3>2. StillRemovable(h)
      BY <3>1, StoppedRemovable DEF docker
    <3> QED
      BY <3>1, <3>2, MoveKeeps DEF Benign, Holds, docker, db
  <2>2. CASE b \in Present
    <3>1. PICK to \in {"start", "done"} : Move(h, "reload", to)
      BY <1>8 DEF EnsureReloads
    <3>2. Register(Admin, System, TRUE) /\ UNCHANGED <<docker, Keyed>>
      BY <1>8, <2>2, Worked DEF EnsureReloads, Keyed
    <3>3. /\ Same(req'[h], req[h]) /\ req[h].pc = "reload" /\ req'[h].pc = to
          /\ \A g \in Handlers \ {h} : req'[g] = req[g]
          /\ \A g \in Active : System \in {req[g].name, req[g].to} => req[g].op \notin Disturbing
          /\ req[h].op \in Making /\ req[h].name = System
          /\ req'[h].box = b /\ box[b].name = System
      BY <1>m, <3>1
    <3>4. Boxed(h) /\ \A k : Called(k)' = Called(k)
      BY <3>2, BoxStays DEF docker
    <3>5. /\ owner'[System] # None /\ System \in flagged'
          /\ \A k \in Names \ {System} : owner'[k] = owner[k] /\ (k \in flagged' <=> k \in flagged)
      BY <1>t, <3>2, SystemNamed, NoneIsNothing DEF Register, TypeOK, RowsOK
    <3>6. Leaves(h, {System})
      BY <3>2, <3>3, <3>4, <3>5 DEF Leaves, Untouched, docker, Special, Making
    <3>7. \A k \in Handlers : Registers(k, System)' <=> Registers(k, System)
      BY <3>3 DEF Registers
    <3>8. ASSUME NEW g \in Handlers \ {h}, Registers(g, System)
          PROVE  Registering(g)'
      BY <3>2, <3>3, <3>4, <3>5, <3>7, <3>8, RegisterTaken, RegisterStays, SystemNamed DEF docker
    <3>9. Agrees(System)'
      <4>1. Taken(System)
        BY <2>2, <3>3 DEF Taken, Called
      <4>2. Taken(System)' /\ System \in Keyed'
        BY <3>2, <3>3, <3>4, <4>1, MakerName, SystemNamed DEF Taken
      <4> QED
        BY <3>5, <4>2 DEF Agrees, MadeBy
    <3>10. Registering(h)'
      BY <3>3 DEF Registering
    <3>11. req'[h].pc = "start" => box'[req'[h].box].name = req'[h].name
      BY <3>2, <3>3 DEF docker, Same
    <3> QED
      BY <3>3, <3>4, <3>6, <3>8, <3>9, <3>10, <3>11, MakeStep, SystemNamed
  <2> QED
    BY <2>1, <2>2
<1>9. CASE \E k \in Names : RemovesKey(h, k)
  <2> PICK k \in Names : RemovesKey(h, k)
    BY <1>9
  <2> DEFINE q == [Idle EXCEPT !.pc = "done"]
  <2>1. Begin(h, q) /\ UNCHANGED docker /\ RowsKept /\ q.pc = "done"
    BY KeyRemoved DEF RemovesKey, RowsKept, Idle
  <2> HIDE DEF q
  <2>2. req'[h] = q /\ req[h].pc = "idle" /\ \A g \in Handlers \ {h} : req'[g] = req[g]
    BY <2>1, Begun
  <2>3. SwitchOnly /\ (\A n_1 : Called(n_1)' = Called(n_1)) /\ StillRemovable(h)
    BY <1>t, <2>1, Switched, StoppedRemovable DEF docker
  <2> QED
    BY <2>1, <2>2, <2>3, SwitchKeeps DEF Benign, Holds
<1>7. CASE DeployBegins(h) \/ DeployStops(h)
  BY <1>7, StartsKeep
<1> QED
  BY <1>1, <1>2, <1>3, <1>4, <1>5, <1>6, <1>7, <1>8, <1>9 DEF Creating

(* Renewals: who removes a container makes it again.                       *)
LEMMA RenewsKeep ==
  ASSUME Undisturbed, NEW h \in Handlers, About', ~clash', faults' = 0,
         RenewRemoves(h) \/ RenewRuns(h)
  PROVE  InOrder'
<1>t. TypeOK /\ Stages /\ box \in [Boxes -> Box]
  BY DEF Undisturbed, IInv, TypeOK, DockerOK
<1> PICK n, b : n = req[h].name /\ b = req[h].box
  OBVIOUS
<1>m. ASSUME NEW from \in {"discard", "rerun"}, NEW to \in {"rerun", "restart", "done"}, Move(h, from, to)
      PROVE  /\ h \in Active /\ req[h].op = "renew" /\ n \in Names
             /\ Same(req'[h], req[h]) /\ req[h].pc = from /\ req'[h].pc = to /\ req'[h].box = b
             /\ \A g \in Handlers \ {h} : req'[g] = req[g]
             /\ Rerunning(h) /\ b \in Boxes /\ box[b].name = n /\ box[b].state # "unused"
             /\ \A g \in Active : n \in {req[g].name, req[g].to} =>
                                    req[g].op \notin {"delete", "rename"} \union Making
  <2>1. /\ h \in Active /\ Same(req'[h], req[h]) /\ req[h].pc = from /\ req'[h].pc = to /\ req'[h].box = b
        /\ \A g \in Handlers \ {h} : req'[g] = req[g]
        /\ Meant(req[h]) /\ Stage(req[h]) /\ Fine(h) /\ box[b].name = n
    BY <1>m, MovesOn DEF Pc, Holds
  <2>2. req[h].op = "renew" /\ n \in Names /\ b \in Boxes /\ box[b].state # "unused"
    BY <2>1 DEF Stage, Meant, WithBox
  <2>3. \A g \in Active \ {h} : ~Overlaps(req[g], req[h])
    BY <2>1 DEF Undisturbed, IInv, Kept, NoOverlap
  <2>4. \A g \in Active : n \in {req[g].name, req[g].to} =>
                            req[g].op \notin {"delete", "rename"} \union Making
    BY <2>2, <2>3, Disturbed DEF Making
  <2> QED
    BY <2>1, <2>2, <2>4 DEF Fine
(* Who else is about n starts, stops or renews it too.                     *)
<1>o. ASSUME n \in Names, Leaves(h, {n}),
             \A g \in Active : n \in {req[g].name, req[g].to} =>
                                 req[g].op \notin {"delete", "rename"} \union Making,
             NEW g \in Active \ {h}, {req[g].name, req[g].to} \intersect {n} # {},
             req[g].pc = "rerun" => req[g].name # n
      PROVE  Fine(g)'
  <2>1. /\ req'[g] = req[g] /\ Stage(req[g]) /\ Meant(req[g]) /\ Rerunning(g)
        /\ req[g].op \notin {"delete", "rename"} \union Making
    BY <1>o DEF Leaves, Undisturbed, IInv, Stages, TypeOK, RequestsOK, InOrder, Fine, Active
  <2>2. Registering(g)' /\ Deletes(g)' /\ Renames(g)'
    BY <2>1 DEF Registering, Deletes, Renames, Stage
  <2>3. CASE req[g].pc # "rerun"
    BY <2>1, <2>2, <2>3 DEF Fine, Rerunning
  <2>4. CASE req[g].pc = "rerun"
    <3>1. req[g].to = n
      BY <1>o, <2>4
    <3> QED
      BY <3>1, <1>o, <2>1, <2>4, NoneIsNothing DEF Undisturbed, InOrder, About, Stage
  <2> QED
    BY <2>3, <2>4
<1>b. IInv /\ InOrder
  BY DEF Undisturbed
<1>1. CASE RenewRemoves(h)
  <2>1. CASE Move(h, "discard", "rerun") /\ Removable(b) /\ SetState(b, "removed")
    <3>1. /\ h \in Active /\ req[h].op = "renew" /\ n \in Names
          /\ Same(req'[h], req[h]) /\ req[h].pc = "discard" /\ req'[h].pc = "rerun" /\ req'[h].box = b
          /\ \A g \in Handlers \ {h} : req'[g] = req[g]
          /\ b \in Boxes /\ box[b].name = n
          /\ \A g \in Active : n \in {req[g].name, req[g].to} =>
                                 req[g].op \notin {"delete", "rename"} \union Making
      BY <1>m, <2>1
    <3>2. /\ \A c \in Boxes \ {b} : box'[c] = box[c]
          /\ box'[b].name = box[b].name /\ box'[b].by = box[b].by /\ box'[b].state = "removed"
      BY <1>t, <2>1, <3>1 DEF SetState, Box
    <3>3. b \in Called(n) /\ Present' = Present \ {b} /\ \A k : Called(k)' = Called(k) \ {b}
      BY <2>1, <3>1, <3>2 DEF Called, Present, Removable
    <3>4. \A c \in Called(n) : c = b
      BY <1>t, <3>3 DEF TypeOK, DockerOK, Called
    <3>5. UNCHANGED db
      BY <1>1 DEF RenewRemoves
    <3>6. Boxed(h)
      <4> SUFFICES ASSUME NEW g \in Active \ {h}
                   PROVE  Boxed(h)!(g)
        BY DEF Boxed
      <4>1. Fine(g) /\ Meant(req[g]) /\ Stage(req[g]) /\ (req[g].pc \in Holds => box[req[g].box].name = req[g].name)
        BY <1>b, <1>t DEF InOrder, TypeOK, RequestsOK, Active, Stages, Placed
      <4>2. req[g].pc \in Holds => req[g].box \in Boxes
        BY <4>1 DEF Meant, Holds, WithBox
      <4>3. req[g].pc \in {"stop", "pause", "rename", "remove"} => req[g].box # b
        BY <3>1, <4>1 DEF Stage, Holds
      <4> QED
        BY <3>2, <3>3, <4>1, <4>2, <4>3 DEF Fine, Deletes, Renames, Removable, Holds
    <3>7. Leaves(h, {n})
      BY <3>1, <3>2, <3>3, <3>5 DEF Leaves, Untouched, Called, Present, db, Keyed, Same, Special
    <3>8. Known(n) /\ MadeBy(b, n)
      <4>1. \A g \in Handlers : ~Registers(g, n)
        BY <1>t, <3>1 DEF Registers, Active, Stages, Stage
      <4>2. Agrees(n)
        BY <1>b, <3>1 DEF InOrder, Held
      <4> QED
        BY <3>3, <4>1, <4>2 DEF Agrees, Known, Taken
    <3>9. \A g \in Handlers \ {h} : ~Reruns(g, n)
      BY <1>b, <3>3 DEF Reruns, InOrder, Fine, Rerunning, Taken
    <3>10. ~Taken(n)' /\ Known(n)' /\ MadeBy(b, n)'
      BY <3>1, <3>2, <3>3, <3>4, <3>5, <3>8 DEF Taken, Known, MadeBy, db, Keyed
    <3>11. Rerunning(h)'
      <4>1. \A g \in Handlers : Reruns(g, n)' => g = h
        BY <3>1, <3>9 DEF Reruns
      <4> QED
        BY <3>1, <3>10, <4>1 DEF Rerunning, Same
    <3>12. Agrees(n)'
      <4>1. Reruns(h, n)'
        BY <3>1 DEF Reruns, Same
      <4> QED
        BY <3>10, <4>1 DEF Agrees, Known, Taken
    <3>13. Fine(h)'
      BY <3>1, <3>11 DEF Fine, Registering, Deletes, Renames
    <3>14. ASSUME NEW g \in Active \ {h}, {req[g].name, req[g].to} \intersect {n} # {}
           PROVE  Fine(g)'
      BY <1>o, <3>1, <3>7, <3>9, <3>14 DEF Reruns, Active
    <3>15. box'[req'[h].box].name = req'[h].name
      BY <3>1, <3>2 DEF Same
    <3> QED
      BY <1>b, <3>6, <3>7, <3>12, <3>13, <3>14, <3>15, Frame
  <2>2. CASE Move(h, "discard", "done") /\ UNCHANGED box
    <3>1. StillRemovable(h)
      BY <2>2, StoppedRemovable
    <3>2. UNCHANGED db
      BY <1>1 DEF RenewRemoves
    <3> QED
      BY <2>2, <3>1, <3>2, MoveKeeps DEF Benign, Holds
  <2> QED
    BY <1>1, <2>1, <2>2 DEF RenewRemoves, Works
<1>2. CASE RenewRuns(h)
  <2>1. Rerunning(h) /\ req[h].pc = "rerun"
    BY <1>2, <1>b DEF RenewRuns, InOrder, Fine
  <2>2. Known(n) /\ ~Taken(n) /\ MadeBy(b, n) /\ \A g \in Handlers : Reruns(g, n) => g = h
    BY <2>1 DEF Rerunning
  <2>3. /\ Move(h, "rerun", "restart") /\ UNCHANGED db
        /\ \E c \in Boxes : PutBox(c, "running", n, box[b].home, box[b].by)
    BY <1>2, <2>2, Worked DEF RenewRuns, RunBox
  <2>4. PICK c \in Boxes : PutBox(c, "running", n, box[b].home, box[b].by)
    BY <2>3
  <2>5. /\ h \in Active /\ req[h].op = "renew" /\ n \in Names
        /\ Same(req'[h], req[h]) /\ req'[h].pc = "restart" /\ req'[h].box = b
        /\ \A g \in Handlers \ {h} : req'[g] = req[g]
        /\ \A g \in Active : n \in {req[g].name, req[g].to} =>
                               req[g].op \notin {"delete", "rename"} \union Making
    BY <1>m, <2>3
  <2>6. /\ Called(n)' = {c} /\ box'[c].by = box[b].by
        /\ \A k \in Names \ {n} : Called(k)' = Called(k)
        /\ \A d \in Boxes : box[d].state # "unused" => box'[d] = box[d]
        /\ \A k \in Names : \A d \in Called(k) : box'[d] = box[d]
    BY <2>2, <2>4, <2>5, IsPut
  <2>7. Boxed(h)
    BY <2>6, PutBoxed
  <2>8. Leaves(h, {n})
    BY <2>3, <2>5, <2>6 DEF Leaves, Untouched, Same, db, Keyed, Special
  <2>9. Fine(h)'
    BY <2>5 DEF Fine, Registering, Rerunning, Deletes, Renames
  <2>10. Agrees(n)'
    <3>1. Taken(n)' /\ Known(n)' /\ MadeBy(c, n)'
      BY <2>2, <2>3, <2>6 DEF Taken, Known, MadeBy, db, Keyed
    <3> QED
      BY <2>6, <3>1 DEF Agrees, Known
  <2>11. ASSUME NEW g \in Active \ {h}, {req[g].name, req[g].to} \intersect {n} # {}
         PROVE  Fine(g)'
    BY <1>o, <2>2, <2>5, <2>8, <2>11 DEF Reruns, Active
  <2> QED
    BY <1>b, <2>5, <2>7, <2>8, <2>9, <2>10, <2>11, Frame DEF Holds
<1> QED
  BY <1>1, <1>2

(* Every step of every request.                                            *)
LEMMA OrderKept ==
  ASSUME IInv, Ordered, Next
  PROVE  Ordered'
<1> SUFFICES ASSUME ~clash', faults' = 0
             PROVE  InOrder'
  BY DEF Ordered
<1> PICK h \in Handlers : Creating(h) \/ Switching(h) \/ Deleting(h) \/ Renaming(h) \/ OnFleet(h)
  BY DEF Next
<1>1. ~clash
  BY DEF Creating, Switching, Deleting, Renaming, OnFleet, CreateBegins, CreateVolume,
         CreateRuns, CreateRegisters, DeployBegins, DeployStops, DeployCreates, EnsureBegins,
         EnsureReloads, RemovesKey, MakesKey, StartBegins, StopBegins, RenewStops,
         RenewRemoves, RenewRuns, RunBox, Starts, Stops,
         DeleteBegins, DeleteStops, DeleteRemoves, DeleteVolume, DeleteKeys, DeleteOwner,
         RenameBegins, RenameStops, RenameBox, RenameBack, SetName, RenameRows,
         FleetBegins, FleetStops, FleetResumes, EmergencyStop, Begin, Move
<1>2. UNCHANGED faults \/ (faults < MaxFaults /\ faults' = faults + 1)
  BY DEF Creating, Switching, Deleting, Renaming, OnFleet, CreateBegins, CreateVolume,
         CreateRuns, CreateRegisters, DeployBegins, DeployStops, DeployCreates, EnsureBegins,
         EnsureReloads, RemovesKey, MakesKey, StartBegins, StopBegins, RenewStops,
         RenewRemoves, RenewRuns, RunBox, Starts, Stops,
         DeleteBegins, DeleteStops, DeleteRemoves, DeleteVolume, DeleteKeys, DeleteOwner,
         RenameBegins, RenameStops, RenameBox, RenameBack, SetName, RenameRows,
         FleetBegins, FleetStops, FleetResumes, EmergencyStop, Begin, Works, Fails
<1>3. faults \in 0..MaxFaults /\ MaxFaults \in Nat
  BY FaultsNatural DEF IInv, TypeOK
<1>4. faults = 0
  BY <1>2, <1>3
<1>5. Undisturbed
  BY <1>1, <1>4 DEF Undisturbed, Ordered
<1>6. About'
  BY <1>5, AboutKept DEF Undisturbed, InOrder
<1>7. CASE Switching(h)
  BY <1>5, <1>6, <1>7, StartsKeep, RenewsKeep DEF Switching
<1> QED
  BY <1>5, <1>6, <1>7, CreatesKeep, DeletesKeep, RenamesKeep, FleetKeeps

(* At first each agent has a container of its own, a row and a key.        *)
LEMMA OrderAtFirst ==
  ASSUME Init
  PROVE  Ordered
<1>1. \A h \in Handlers : req[h] = Idle
  BY DEF Init
<1>2. Active = {} /\ \A n : ~Held(n)
  BY <1>1 DEF Active, Idle, Held
<1>3. \A h \in Handlers : Fine(h)
  BY <1>1 DEF Idle, Fine, Registering, Rerunning, Deletes, Renames
<1>4. About /\ Placed
  BY <1>2 DEF About, Placed, Init
<1>5. First \in [Names -> Boxes] /\ \A n, m \in Names : First[n] = First[m] => n = m
  BY BoxForEach DEF First
<1> PICK live \in SUBSET Names : Init!1!(live)
  BY DEF Init
<1> PICK up \in SUBSET live, home \in [live -> Names] :
      /\ box = [b \in Boxes |->
                  IF \E n \in live : First[n] = b
                  THEN LET n == CHOOSE n \in live : First[n] = b IN
                         [state |-> IF n \in up THEN "running" ELSE "stopped",
                          name |-> n, home |-> home[n], by |-> Admin]
                  ELSE NoBox]
      /\ owner = [n \in Names |-> IF n \in live THEN Admin ELSE None]
      /\ flagged = live \intersect {System}
      /\ keys = live /\ lost = {}
  OBVIOUS
<1>6. \A n \in live : /\ First[n] \in Boxes /\ box[First[n]].name = n
                      /\ box[First[n]].state \in {"running", "stopped"} /\ box[First[n]].by = Admin
  <2> TAKE n \in live
  <2>1. (CHOOSE m \in live : First[m] = First[n]) = n
    BY <1>5
  <2> QED
    BY <1>5, <2>1
<1>7. \A b \in Present : \E n \in live : b = First[n]
  BY DEF Present, NoBox
<1>8. \A n \in Names : Called(n) = IF n \in live THEN {First[n]} ELSE {}
  BY <1>6, <1>7 DEF Called, Present
<1>9. \A n \in Names : Agrees(n)
  <2> TAKE n \in Names
  <2>1. CASE n \in live
    <3>1. Called(n) = {First[n]} /\ owner[n] = Admin /\ Admin # None /\ n \in Keyed
      BY <1>8, <2>1, NoneIsNothing DEF Keyed
    <3>2. Taken(n) /\ \A b \in Called(n) : MadeBy(b, n)
      BY <1>6, <2>1, <3>1 DEF Taken, MadeBy
    <3> QED
      BY <3>1, <3>2 DEF Agrees
  <2>2. CASE n \notin live
    <3>1. ~Taken(n) /\ owner[n] = None /\ n \notin Keyed
      BY <1>8, <2>2 DEF Taken, Keyed
    <3> QED
      BY <3>1 DEF Agrees
  <2> QED
    BY <2>1, <2>2
<1> QED
  BY <1>3, <1>4, <1>9 DEF Ordered, InOrder

(* Whatever requests there are and however they interleave: when all have  *)
(* ended, none disturbed another and no call of Docker or the database     *)
(* failed, every agent has a container, a row and a key (unless a user     *)
(* took it away) or none of them, and its row names who made its           *)
(* container.                                                              *)
THEOREM AgreementAlways == Spec => []Agreement
<1>1. Init => Ordered
  BY OrderAtFirst
<1>2. IInv /\ Ordered /\ [Next]_vars => Ordered'
  <2>1. ASSUME IInv, Ordered, UNCHANGED vars
        PROVE  Ordered'
    BY <2>1 DEF vars, docker, db, Keyed, Ordered, InOrder, About, Placed, Fine, Registering, Rerunning, Deletes,
                Renames, Agrees, Held, Active, Called, Present, Taken, Known, Unknown, MadeBy, Makes,
                Registers, Reruns, Removable, Maker
  <2> QED
    BY <2>1, OrderKept
<1>3. IInv /\ Ordered => Agreement
  <2> SUFFICES ASSUME IInv, Ordered, Quiet, ~clash, faults = 0, NEW n \in Names
               PROVE  /\ Taken(n) <=> owner[n] # None
                      /\ n \in Keyed <=> owner[n] # None
                      /\ \A b \in Called(n) : n # System => box[b].by = owner[n]
    BY DEF Agreement
  <2>1. Agrees(n) /\ flagged \subseteq {System}
    BY DEF Ordered, InOrder, About, Held, Quiet
  <2>2. \A h \in Handlers : ~Makes(h, n) /\ ~Registers(h, n) /\ ~Reruns(h, n)
    BY DEF Quiet, Active, Makes, Registers, Reruns
  <2> QED
    BY <2>1, <2>2 DEF Agrees, MadeBy, Taken
<1> QED
  BY <1>1, <1>2, <1>3, Inductive, PTL DEF Spec
=============================================================================
