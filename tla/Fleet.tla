-------------------------------- MODULE Fleet --------------------------------
(***************************************************************************)
(* The life of agents in the backend: creating, deploying, starting,       *)
(* stopping, renaming and deleting them, the operations on the whole fleet *)
(* and the system agent's deployment.  An agent is a container named after *)
(* it, a volume with its workspace, a row in agent_ownership and an MCP    *)
(* key; the handlers keep the four together without a transaction or a     *)
(* lock, other handlers run wherever one awaits the Docker API, and calls  *)
(* of Docker and of the database may fail.                                 *)
(***************************************************************************)
EXTENDS Naturals, Sequences, FiniteSets

CONSTANTS
  Names,     (* Names of agents.                                           *)
  System,    (* The system agent's: SYSTEM_AGENT_NAME.                     *)
  Listed,    (* Listed[n] is the name by which listings show agent n: the  *)
             (* container's with every "agent-" cut out of it.             *)
  Family,    (* A name and its versions, as deployments number them.       *)
  Boxes,     (* Numbers of containers; none is used twice (a bound).       *)
  Handlers,  (* Requests (a bound).                                        *)
  MaxFaults, (* Calls of Docker or the database that fail (a bound).       *)
  Admin,     (* Who owns the system agent, and what there was at first.    *)
  None

ASSUME SystemNamed == System \in Names
ASSUME ListedNames == Listed \in [Names -> Names \union {None}]
ASSUME FamilyNames == Family \in Seq(Names \ {System})
ASSUME BoxesNumbered == Boxes \subseteq Nat
ASSUME BoxForEach == \E f \in [Names -> Boxes] : \A n, m \in Names : f[n] = f[m] => n = m
ASSUME FaultsNatural == MaxFaults \in Nat
ASSUME NoneIsNothing == None \notin Names \union Boxes \union Handlers \union {Admin}

VARIABLES
  box,     (* The containers.                                              *)
  volumes, (* Names whose workspace volume exists.                         *)
  owner,   (* owner[n] is who registered n's row, or None.                 *)
  flagged, (* Names whose row says is_system.                              *)
  keys,    (* Names with an active MCP key.                                *)
  lost,    (* History: names that are without a key because none could be  *)
           (* made, a user took it away, or a deletion left the row.       *)
  req,     (* The requests.                                                *)
  clash,   (* A request overlapped one that it disturbs.                    *)
  faults   (* Failed calls so far.                                         *)

db == <<owner, flagged, keys, lost>>
docker == <<box, volumes>>
vars == <<docker, db, req, clash, faults>>

Ops == {"create", "deploy", "ensure", "start", "renew", "stop", "delete", "rename", "fleet", "none"}
Pc == {"idle", "previous", "create", "volume", "run", "register", "renew", "discard", "rerun",
       "start", "restart", "reload", "pause", "stop", "remove", "unmount", "keys", "owner",
       "halt", "rename", "rows", "back", "each", "resume", "done"}
Box == [state : {"unused", "running", "stopped", "removed"}, name : Names \union {None},
        home : Names \union {None}, by : Handlers \union {Admin, None}]
WithBox == {"previous", "renew", "discard", "rerun", "start", "reload", "halt", "stop", "remove",
            "pause", "rename", "rows", "back", "resume"}
Request == [pc : Pc, op : Ops, name : Names \union {None}, to : Names \union {None},
            box : Boxes \union {None}, todo : SUBSET (Names \union {None}), again : BOOLEAN]

Idle == [pc |-> "idle", op |-> "none", name |-> None, to |-> None, box |-> None,
         todo |-> {}, again |-> FALSE]
NoBox == [state |-> "unused", name |-> None, home |-> None, by |-> None]

(* Containers that Docker has, and the one with a name: there is no other. *)
Present == {b \in Boxes : box[b].state \in {"running", "stopped"}}
Running == {b \in Boxes : box[b].state = "running"}
Called(n) == {b \in Present : box[b].name = n}
Taken(n) == Called(n) # {}
Fresh(b) == box[b].state = "unused" /\ \A c \in Boxes : box[c].state = "unused" => b <= c

-----------------------------------------------------------------------------
(* Requests begin, move on and overlap.                                    *)

Active == {h \in Handlers : req[h].pc \notin {"idle", "done"}}
NamesOf(r) == IF r.again THEN Names ELSE {r.name, r.to} \ {None}
(* What another request for the same name may not bear: to delete or       *)
(* rename what it works on, or to replace a container while it makes one.  *)
(* Stops, starts of the same container and repeated creations do no harm.  *)
Making == {"create", "deploy", "ensure"}
Disturbs(r, q) == \/ r.op \in {"delete", "rename"} /\ q.op # "stop"
                  \/ r.op = "renew" /\ q.op \in Making
Overlaps(r, q) == /\ Disturbs(r, q) \/ Disturbs(q, r)
                  /\ NamesOf(r) \intersect NamesOf(q) # {}

Begin(h, r) ==
  /\ req[h].pc = "idle"
  /\ req' = [req EXCEPT ![h] = r]
  /\ clash' = (clash \/ \E g \in Active : Overlaps(r, req[g]))
Move(h, from, to) ==
  /\ req[h].pc = from
  /\ req' = [req EXCEPT ![h].pc = to]
  /\ UNCHANGED clash

(* A call of Docker or of the database works if it is possible, and fails  *)
(* if it is not or if the service does.                                    *)
Works(possible) == possible /\ UNCHANGED faults
Fails(possible) == IF possible THEN faults < MaxFaults /\ faults' = faults + 1
                               ELSE UNCHANGED faults
SetState(b, state) == box' = [box EXCEPT ![b].state = state]

-----------------------------------------------------------------------------
(* An agent's key.  That none can be made is logged, and the creation goes *)
(* on without.                                                             *)
Keyed == keys \union lost

MakesKey(n) ==
  \/ Works(TRUE) /\ keys' = keys \union {n} /\ lost' = lost \ {n}
  \/ Fails(TRUE) /\ keys' = keys /\ lost' = lost \union ({n} \ keys)

(* A user revokes or deletes an agent's key.                               *)
RemovesKey(h, n) ==
  /\ n \in keys
  /\ Begin(h, [Idle EXCEPT !.pc = "done"])
  /\ keys' = keys \ {n} /\ lost' = lost \union {n}
  /\ UNCHANGED <<docker, owner, flagged, faults>>

(* create_agent_internal(): between the check of the name and the key      *)
(* there is no await.                                                      *)
CreateBegins(h, n) ==
  /\ ~Taken(n)
  /\ Begin(h, [Idle EXCEPT !.pc = "volume", !.op = "create", !.name = n])
  /\ MakesKey(n)
  /\ UNCHANGED <<docker, owner, flagged>>

(* volume_get(), and volume_create() if there is none.                     *)
CreateVolume(h) ==
  \/ /\ Move(h, "volume", "run") /\ Works(TRUE)
     /\ volumes' = volumes \union {req[h].name}
     /\ UNCHANGED <<box, db>>
  \/ /\ Move(h, "volume", "done") /\ Fails(TRUE)
     /\ UNCHANGED <<docker, db>>

(* containers_run(): the name must be free; a missing volume is created; a *)
(* container that cannot be started is left behind.                        *)
PutBox(b, state, n, home, by) ==
  /\ Fresh(b)
  /\ box' = [box EXCEPT ![b] = [state |-> state, name |-> n, home |-> home, by |-> by]]
  /\ volumes' = volumes \union {home}

RunBox(h, from, to, home, by) ==
  LET n == req[h].name IN
  /\ \/ /\ Move(h, from, to) /\ Works(~Taken(n))
        /\ \E b \in Boxes : PutBox(b, "running", n, home, by)
     \/ /\ Move(h, from, "done") /\ Fails(~Taken(n))
        /\ \/ UNCHANGED docker
           \/ ~Taken(n) /\ \E b \in Boxes : PutBox(b, "stopped", n, home, by)
  /\ UNCHANGED db

Maker(h) == IF req[h].op = "ensure" THEN Admin ELSE h

CreateRuns(h) ==
  req[h].op \in Making /\ RunBox(h, "run", "register", req[h].name, Maker(h))

(* register_agent_owner(): an existing row is kept.                        *)
Register(who, n, system) ==
  /\ owner' = [owner EXCEPT ![n] = IF @ = None THEN who ELSE @]
  /\ flagged' = IF system THEN flagged \union {n} ELSE flagged

CreateRegisters(h) ==
  /\ Move(h, "register", "done")
  /\ \/ Works(TRUE) /\ Register(Maker(h), req[h].name, req[h].op = "ensure")
     \/ Fails(TRUE) /\ UNCHANGED <<owner, flagged>>
  /\ UNCHANGED <<docker, keys, lost>>

(* deploy_local_agent_logic(): the version after the latest one listed; if *)
(* that runs it is stopped first.                                          *)
ListedAs(n) == {b \in Present : Listed[box[b].name] = n}
IsLatest(i) == /\ i > 0 => ListedAs(Family[i]) # {}
               /\ \A j \in i + 1 .. Len(Family) : ListedAs(Family[j]) = {}

DeployBegins(h) ==
  /\ \E i \in 0 .. Len(Family) - 1 :
       /\ IsLatest(i)
       /\ LET previous == IF i > 0 /\ ListedAs(Family[i]) \intersect Running # {}
                          THEN Called(Family[i]) ELSE {} IN
          \E b \in IF previous = {} THEN {None} ELSE previous :
            Begin(h, [Idle EXCEPT !.pc = IF previous = {} THEN "create" ELSE "previous",
                                  !.op = "deploy", !.name = Family[i + 1], !.box = b])
  /\ UNCHANGED <<docker, db, faults>>

DeployStops(h) ==
  LET b == req[h].box IN
  /\ Move(h, "previous", "create")
  /\ \/ Works(b \in Present) /\ SetState(b, "stopped")
     \/ Fails(b \in Present) /\ UNCHANGED box
  /\ UNCHANGED <<volumes, db>>

DeployCreates(h) ==
  LET n == req[h].name IN
  /\ \/ Taken(n) /\ Move(h, "create", "done") /\ UNCHANGED <<keys, lost, faults>>
     \/ ~Taken(n) /\ Move(h, "create", "volume") /\ MakesKey(n)
  /\ UNCHANGED <<docker, owner, flagged>>

(* ensure_deployed(), at the start of the backend: a container that it     *)
(* finds is looked at again before its row is written.                     *)
EnsureBegins(h) ==
  LET r == [Idle EXCEPT !.op = "ensure", !.name = System] IN
  /\ \/ /\ \E b \in Called(System) : Begin(h, [r EXCEPT !.pc = "reload", !.box = b])
        /\ UNCHANGED <<keys, lost, faults>>
     \/ ~Taken(System) /\ Begin(h, [r EXCEPT !.pc = "run"]) /\ MakesKey(System)
  /\ UNCHANGED <<docker, owner, flagged>>

EnsureReloads(h) ==
  LET b == req[h].box IN
  /\ \/ /\ Works(b \in Present)
        /\ Move(h, "reload", IF b \in Running THEN "done" ELSE "start")
        /\ Register(Admin, System, TRUE)
     \/ Fails(b \in Present) /\ Move(h, "reload", "done") /\ UNCHANGED <<owner, flagged>>
  /\ UNCHANGED <<docker, keys, lost>>

-----------------------------------------------------------------------------
(* start_agent_internal(): a container whose mounts, environment or limits *)
(* differ from the settings is replaced by one with the same volumes.      *)
StartBegins(h, n) ==
  /\ \E b \in Called(n), op \in {"start", "renew"} :
       Begin(h, [Idle EXCEPT !.pc = op, !.op = op, !.name = n, !.box = b])
  /\ UNCHANGED <<docker, db, faults>>

RenewStops(h) ==
  LET b == req[h].box IN
  /\ Move(h, "renew", "discard")
  /\ \/ Works(b \in Present) /\ SetState(b, "stopped")
     \/ Fails(b \in Present) /\ UNCHANGED box
  /\ UNCHANGED <<volumes, db>>

(* Docker does not remove a container that runs.                           *)
Removable(b) == box[b].state = "stopped"

RenewRemoves(h) ==
  LET b == req[h].box IN
  /\ \/ Move(h, "discard", "rerun") /\ Works(Removable(b)) /\ SetState(b, "removed")
     \/ Move(h, "discard", "done") /\ Fails(Removable(b)) /\ UNCHANGED box
  /\ UNCHANGED <<volumes, db>>

RenewRuns(h) ==
  /\ req[h].pc = "rerun"
  /\ LET old == box[req[h].box] IN RunBox(h, "rerun", "restart", old.home, old.by)

(* A container that was replaced is looked up again by its name.           *)
Starts(h) ==
  LET S == IF req[h].pc = "start" THEN {req[h].box} \intersect Present ELSE Called(req[h].name) IN
  /\ \E from \in {"start", "restart"} : Move(h, from, "done")
  /\ \/ Works(S # {}) /\ \E b \in S : SetState(b, "running")
     \/ Fails(S # {}) /\ UNCHANGED box
  /\ UNCHANGED <<volumes, db>>

StopBegins(h, n) ==
  /\ \E b \in Called(n) : Begin(h, [Idle EXCEPT !.pc = "halt", !.op = "stop", !.name = n, !.box = b])
  /\ UNCHANGED <<docker, db, faults>>
Stops(h) ==
  LET b == req[h].box IN
  /\ Move(h, "halt", "done")
  /\ \/ Works(b \in Present) /\ SetState(b, "stopped")
     \/ Fails(b \in Present) /\ UNCHANGED box
  /\ UNCHANGED <<volumes, db>>

-----------------------------------------------------------------------------
(* delete_agent_endpoint(): errors of Docker are logged and passed over.   *)
DeleteBegins(h, n) ==
  /\ n # System /\ n \notin flagged
  /\ \E b \in Called(n) : Begin(h, [Idle EXCEPT !.pc = "stop", !.op = "delete", !.name = n, !.box = b])
  /\ UNCHANGED <<docker, db, faults>>

DeleteStops(h) ==
  LET b == req[h].box IN
  /\ \/ Move(h, "stop", "remove") /\ Works(b \in Present) /\ SetState(b, "stopped")
     \/ Move(h, "stop", "unmount") /\ Fails(b \in Present) /\ UNCHANGED box
  /\ UNCHANGED <<volumes, db>>

DeleteRemoves(h) ==
  LET b == req[h].box IN
  /\ Move(h, "remove", "unmount")
  /\ \/ Works(Removable(b)) /\ SetState(b, "removed")
     \/ Fails(Removable(b)) /\ UNCHANGED box
  /\ UNCHANGED <<volumes, db>>

(* Docker does not remove a volume that a container mounts, if only a      *)
(* stopped one.                                                            *)
DeleteVolumeFaulty(h) ==
  /\ Move(h, "unmount", "keys") /\ Works(TRUE)
  /\ volumes' = volumes \ {req[h].name}
  /\ UNCHANGED <<box, db>>

DeleteVolume(h) ==
  LET n == req[h].name
      free == \A b \in Present : box[b].home # n IN
  /\ Move(h, "unmount", "keys")
  /\ \/ Works(free) /\ volumes' = volumes \ {n}
     \/ Fails(free) /\ UNCHANGED volumes
  /\ UNCHANGED <<box, db>>

(* After the schedules: that these cannot be deleted ends the request, that *)
(* the key cannot is logged.                                               *)
DeleteKeys(h) ==
  /\ \/ /\ Move(h, "keys", "owner") /\ Works(TRUE)
        /\ keys' = keys \ {req[h].name} /\ lost' = lost \ {req[h].name}
     \/ \E to \in {"owner", "done"} : Move(h, "keys", to) /\ Fails(TRUE) /\ UNCHANGED <<keys, lost>>
  /\ UNCHANGED <<docker, owner, flagged>>

(* After the volume of the shared folder.                                  *)
DeleteOwnerFaulty(h) ==
  /\ Move(h, "owner", "done")
  /\ UNCHANGED <<docker, db, faults>>

DeleteOwner(h) ==
  LET n == req[h].name IN
  /\ Move(h, "owner", "done")
  /\ \/ /\ Works(TRUE)
        /\ owner' = [owner EXCEPT ![n] = None] /\ flagged' = flagged \ {n}
        /\ UNCHANGED lost
     \/ Fails(TRUE) /\ lost' = lost \union ({n} \ keys) /\ UNCHANGED <<owner, flagged>>
  /\ UNCHANGED <<docker, keys>>

-----------------------------------------------------------------------------
(* rename_agent_endpoint(): the container is renamed, the volume is not.   *)
RenameBeginsFaulty(h, n, m) ==
  /\ n # m /\ ~Taken(m)
  /\ \E b \in Called(n) :
       Begin(h, [Idle EXCEPT !.pc = IF b \in Running THEN "pause" ELSE "rename",
                             !.op = "rename", !.name = n, !.to = m, !.box = b])
  /\ UNCHANGED <<docker, db, faults>>

RenameBegins(h, n, m) ==
  /\ n \notin flagged
  /\ n # m /\ ~Taken(m)
  /\ \E b \in Called(n) :
       Begin(h, [Idle EXCEPT !.pc = IF b \in Running THEN "pause" ELSE "rename",
                             !.op = "rename", !.name = n, !.to = m, !.box = b])
  /\ UNCHANGED <<docker, db, faults>>

RenameStops(h) ==
  LET b == req[h].box IN
  /\ \/ Move(h, "pause", "rename") /\ Works(b \in Present) /\ SetState(b, "stopped")
     \/ Move(h, "pause", "done") /\ Fails(b \in Present) /\ UNCHANGED box
  /\ UNCHANGED <<volumes, db>>

SetName(h, from, n, to) ==
  LET b == req[h].box
      possible == b \in Present /\ ~Taken(n) IN
  /\ \/ Move(h, from, to) /\ Works(possible) /\ box' = [box EXCEPT ![b].name = n]
     \/ Move(h, from, "done") /\ Fails(possible) /\ UNCHANGED box
  /\ UNCHANGED <<volumes, db>>

RenameBox(h) == SetName(h, "rename", req[h].to, "rows")
RenameBack(h) == SetName(h, "back", req[h].name, "done")

(* One transaction, refused if there is no old row or already a new one.   *)
(* If the database fails the container keeps its new name.                 *)
Moved(S, n, m) == IF n \in S THEN (S \ {n}) \union {m} ELSE S

RenameRowsFaulty(h) ==
  LET n == req[h].name
      m == req[h].to IN
  /\ req[h].pc = "rows"
  /\ IF owner[n] # None /\ owner[m] = None
     THEN /\ Move(h, "rows", "done")
          /\ owner' = [owner EXCEPT ![n] = None, ![m] = owner[n]]
          /\ flagged' = Moved(flagged, n, m)
     ELSE Move(h, "rows", "back") /\ UNCHANGED <<owner, flagged>>
  /\ UNCHANGED <<docker, keys, lost, faults>>

RenameRows(h) ==
  LET n == req[h].name
      m == req[h].to IN
  /\ \/ /\ Move(h, "rows", "done") /\ Works(owner[n] # None /\ owner[m] = None)
        /\ owner' = [owner EXCEPT ![n] = None, ![m] = owner[n]]
        /\ flagged' = Moved(flagged, n, m)
        /\ keys' = Moved(keys, n, m) /\ lost' = Moved(lost, n, m)
     \/ /\ Move(h, "rows", "back") /\ ~(owner[n] # None /\ owner[m] = None)
        /\ UNCHANGED <<db, faults>>
     \/ Move(h, "rows", "done") /\ Fails(TRUE) /\ UNCHANGED db
  /\ UNCHANGED docker

-----------------------------------------------------------------------------
(* stop_fleet() and restart_fleet(): those listed as running at first, one *)
(* by one, except the system agent.                                        *)
FleetBegins(h, again) ==
  /\ Begin(h, [Idle EXCEPT !.pc = IF Running = {} THEN "done" ELSE "each",
                           !.op = "fleet", !.again = again, !.todo = {Listed[box[b].name] : b \in Running}])
  /\ UNCHANGED <<docker, db, faults>>

FleetStops(h, n) ==
  LET r == req[h]
      S == IF n \in flagged THEN {} ELSE Called(n)
      next == IF r.todo = {n} THEN "done" ELSE "each" IN
  /\ r.pc = "each" /\ n \in r.todo
  /\ \/ /\ Works(S # {})
        /\ \E b \in S :
             /\ SetState(b, "stopped")
             /\ req' = [req EXCEPT ![h].pc = IF r.again THEN "resume" ELSE next,
                                   ![h].box = b, ![h].todo = @ \ {n}]
     \/ /\ Fails(S # {}) /\ UNCHANGED box
        /\ req' = [req EXCEPT ![h].pc = next, ![h].todo = @ \ {n}]
  /\ UNCHANGED <<volumes, db, clash>>

FleetResumes(h) ==
  LET b == req[h].box IN
  /\ Move(h, "resume", IF req[h].todo = {} THEN "done" ELSE "each")
  /\ \/ Works(b \in Present) /\ SetState(b, "running")
     \/ Fails(b \in Present) /\ UNCHANGED box
  /\ UNCHANGED <<volumes, db>>

(* emergency_stop(): the event loop waits for all of them; none is taken   *)
(* to fail.                                                                *)
EmergencyStop(h) ==
  LET all == {Listed[box[b].name] : b \in Running} \ flagged IN
  /\ Begin(h, [Idle EXCEPT !.pc = "done", !.op = "fleet"])
  /\ box' = [b \in Boxes |-> IF b \in Running /\ box[b].name \in all
                             THEN [box[b] EXCEPT !.state = "stopped"] ELSE box[b]]
  /\ UNCHANGED <<volumes, db, faults>>

-----------------------------------------------------------------------------
(* Agents that an undisturbed past has left, each with a container, a row, *)
(* a key and a workspace: its own or, after a rename, that of another name.*)
First == CHOOSE f \in [Names -> Boxes] : \A n, m \in Names : f[n] = f[m] => n = m

Init ==
  /\ \E live \in SUBSET Names : \E up \in SUBSET live, home \in [live -> Names] :
       /\ \A n \in live : home[n] = System <=> n = System
       /\ box = [b \in Boxes |->
                   IF \E n \in live : First[n] = b
                   THEN LET n == CHOOSE n \in live : First[n] = b IN
                          [state |-> IF n \in up THEN "running" ELSE "stopped",
                           name |-> n, home |-> home[n], by |-> Admin]
                   ELSE NoBox]
       /\ volumes = {home[n] : n \in live}
       /\ owner = [n \in Names |-> IF n \in live THEN Admin ELSE None]
       /\ flagged = live \intersect {System}
       /\ keys = live /\ lost = {}
  /\ req = [h \in Handlers |-> Idle]
  /\ clash = FALSE
  /\ faults = 0

Creating(h) ==
  \/ \E n \in Names : CreateBegins(h, n)
  \/ CreateVolume(h) \/ CreateRuns(h) \/ CreateRegisters(h)
  \/ DeployBegins(h) \/ DeployStops(h) \/ DeployCreates(h)
  \/ EnsureBegins(h) \/ EnsureReloads(h)
  \/ \E n \in Names : RemovesKey(h, n)
Switching(h) ==
  \/ \E n \in Names : StartBegins(h, n) \/ StopBegins(h, n)
  \/ RenewStops(h) \/ RenewRemoves(h) \/ RenewRuns(h) \/ Starts(h) \/ Stops(h)
Deleting(h) ==
  \/ \E n \in Names : DeleteBegins(h, n)
  \/ DeleteStops(h) \/ DeleteRemoves(h) \/ DeleteVolume(h) \/ DeleteKeys(h) \/ DeleteOwner(h)
Renaming(h) ==
  \/ \E n, m \in Names : RenameBegins(h, n, m)
  \/ RenameStops(h) \/ RenameBox(h) \/ RenameRows(h) \/ RenameBack(h)
OnFleet(h) ==
  \/ \E again \in BOOLEAN : FleetBegins(h, again)
  \/ \E n \in Names \union {None} : FleetStops(h, n)
  \/ FleetResumes(h) \/ EmergencyStop(h)

Next == \E h \in Handlers :
  Creating(h) \/ Switching(h) \/ Deleting(h) \/ Renaming(h) \/ OnFleet(h)

Spec == Init /\ [][Next]_vars

-----------------------------------------------------------------------------
DockerOK ==
  /\ box \in [Boxes -> Box] /\ volumes \subseteq Names
  /\ \A b \in Boxes : box[b].state # "unused" => {box[b].name, box[b].home} \subseteq Names
  /\ \A b \in Present : box[b].home \in volumes
  /\ \A b, c \in Present : box[b].name = box[c].name => b = c
RowsOK == /\ flagged \subseteq Names /\ Keyed \subseteq Names
          /\ owner \in [Names -> Handlers \union {Admin, None}]
Meant(r) == /\ r.op # "fleet" => r.name \in Names
            /\ r.op = "rename" => r.to \in Names
            /\ r.pc \in WithBox => r.box \in Boxes /\ box[r.box].state # "unused"
RequestsOK == req \in [Handlers -> Request] /\ \A h \in Active : Meant(req[h])

(* Every variable keeps its type; a name has one container at most, which  *)
(* mounts a volume that exists; a request works on containers there were.  *)
TypeOK == DockerOK /\ RowsOK /\ RequestsOK /\ clash \in BOOLEAN /\ faults \in 0..MaxFaults

Quiet == Active = {}

(* Requests that do not disturb each other leave Docker and the database   *)
(* in agreement: an agent has a container, a row and a key (unless a user  *)
(* took it away) or none of them, and its row names who made its           *)
(* container.  (Anybody may create an agent with the system agent's name,  *)
(* which then becomes it.)                                                 *)
Agreement ==
  Quiet /\ ~clash /\ faults = 0 =>
    \A n \in Names : /\ Taken(n) <=> owner[n] # None
                     /\ n \in Keyed <=> owner[n] # None
                     /\ \A b \in Called(n) : n # System => box[b].by = owner[n]

(* However many calls of Docker and the database fail, an agent with a row *)
(* is without a key only if none could be made when it was created, a user *)
(* took it away, or its deletion did and has yet to remove the row or      *)
(* could not.  No rename, second creation or other failed call leaves one. *)
(* (The system agent is excepted: its row may be written for a container   *)
(* that is found.)                                                         *)
RowsHaveKeys ==
  \A n \in Names \ flagged :
    owner[n] # None /\ ~clash => \/ n \in Keyed
                                \/ \E h \in Handlers : req[h].pc = "owner" /\ req[h].name = n

(* The system agent's row and its mark stay, however many calls fail:      *)
(* nobody deletes or renames it, and no agent is renamed over it.          *)
SystemStays ==
  [][~clash' /\ System \in flagged => System \in flagged' /\ owner'[System] = owner[System]]_vars

(* A container that is made mounts a workspace of its own: "Create         *)
(* per-agent persistent volume", services/agent_service/crud.py:339.       *)
OwnWorkspace ==
  [][\A b \in Present' \ Present : \A c \in Present' \ {b} : box'[b].home # box'[c].home]_vars
=============================================================================
