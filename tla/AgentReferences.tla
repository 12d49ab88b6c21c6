--------------------------- MODULE AgentReferences ---------------------------
(***************************************************************************)
(* What refers to an agent by its id, and what becomes of the reference    *)
(* when the id changes.  A Docker agent's id is its container's id, and    *)
(* attaching or detaching a volume replaces the container: the agent is    *)
(* entered again under a new id.  A direct agent has no container: its id  *)
(* is its name, and comes back when the name is used again.  The ids are   *)
(* held by                                                                 *)
(*   - the volumes (attached_agents, consulted before a volume is deleted),*)
(*   - the dynamic role assignments of the teams (in memory only),         *)
(*   - the access table agent_assignments of chat.db, which decides who    *)
(*     may open a chat,                                                    *)
(*   - agents.json, one record per id.                                     *)
(* The module has the handlers of volume_attachment.rs, the volume, role   *)
(* and access endpoints of api.rs, and, as far as they touch ids, mounts   *)
(* and containers, create_agent, start_agent, delete_agent, the reconciler *)
(* and a restart (AgentLifecycle has those in full).                       *)
(*                                                                         *)
(* A step is what a handler does between two awaits at which another task  *)
(* can change what it uses.  agents.json is written as if the writes never *)
(* failed (AgentLifecycle has their failures); volumes.json is not.        *)
(***************************************************************************)
EXTENDS Naturals, FiniteSets

CONSTANTS
    Names,        \* agent names, also the names of their containers
    VolumeIds,    \* the ids create_volume will generate
    VolumeNames,  \* the names clients give volumes
    HostPath,     \* an existing host directory
    Targets,      \* mount targets clients ask for
    Roles,        \* intents of the loaded teams
    Users,        \* users who are neither admin nor without a role claim
    Handlers, NoProc, Ops, Faults,
    MaxIds,       \* bound: containers ever created
    MaxRequests,  \* bound: requests ever sent
    MaxFaults     \* bound: how often something goes wrong

Ids     == 1 .. MaxIds
NoAgent == 0
AllOps  == {"create", "delete", "start", "attach", "detach", "assignRole",
            "removeRole", "grant", "revoke", "chat", "volumes"}
AllFaults == {"runtime",  \* a call of the Docker API fails
              "disk",     \* volumes.json cannot be written
              "exit",     \* a container's process ends
              "hangup",   \* a client closes its connection
              "crash"}    \* the orchestrator dies and is started again

ASSUME BoundsAssumption == /\ MaxIds \in Nat /\ MaxRequests \in Nat
                           /\ MaxFaults \in Nat
ASSUME NamingAssumption == /\ NoProc \notin Handlers
                           /\ NoAgent \notin VolumeIds \cup Roles \cup Users
                           /\ \A n \in Names : n \notin Nat
                           /\ HostPath \notin VolumeIds
                           /\ Ops \subseteq AllOps /\ Faults \subseteq AllFaults

VARIABLES
    agents,       \* AppState.containers: id -> name, status, config.volumes,
                  \* runtime
    stored,       \* agents.json: id -> name, config.volumes, runtime
    world,        \* Docker's containers: id -> name, state
    volumes,      \* AppState.volumes: id -> name, managed, attached_agents
    volumesFile,  \* volumes.json
    assigned,     \* TeamRegistry.role_assignments: intent -> agent id
    grants,       \* agent_assignments of chat.db: (agent id, user) -> may chat
    writer,       \* who holds the write lock of AppState.containers
    pc, loc,      \* where each handler stands, and its local copies
    used,         \* container ids used up so far
    requests, faults,
    cutOff,       \* history: ids of attaches dropped just before their save
    unsaved,      \* history: the last save of volumes.json failed
    deleted,      \* history: agents deleted since the orchestrator started
    missed,       \* history: agents still listed when their deletion was answered
    granted,      \* history: (agent, user) an admin ever granted
    chats         \* history: (agent, user) of every chat opened

deletions  == <<deleted, missed>>
agentVars  == <<agents, stored, deletions>>
saveVars   == <<volumesFile, cutOff, unsaved>>
volumeVars == <<volumes, saveVars>>
accessVars == <<grants, granted, chats>>
procVars   == <<writer, pc, loc>>
vars == <<agents, stored, world, volumes, volumesFile, assigned, grants, writer,
          pc, loc, used, requests, faults, deleted, missed, cutOff, unsaved,
          granted, chats>>

(* An agent is told from its namesakes by the id of its first container    *)
(* (self), which only the history variables look at; nothing tells a       *)
(* direct agent from those of its name before and after it.                *)
Sources  == VolumeIds \cup Roles \cup {HostPath, "data"}
Mounts   == [source : Sources, target : Targets \cup {"/role", "/data", "/identity"}]
Statuses == {"Running", "Starting", "Stopping", "Stopped"}

Put(f, k, v) == [x \in DOMAIN f \cup {k} |-> IF x = k THEN v ELSE f[x]]
Without(f, S) == [x \in DOMAIN f \ S |-> f[x]]

ToStored(a) ==
    [name |-> a.name, self |-> a.self, mounts |-> a.mounts, direct |-> a.direct]
UpsertAgent(s, id, a) == Put(s, id, ToStored(a))
Locals(id, a, arg) ==
    [id |-> id, name |-> a.name, self |-> a.self, mounts |-> a.mounts, arg |-> arg]
Nothing == [id |-> NoAgent, name |-> "", self |-> NoAgent, mounts |-> {}, arg |-> NoAgent]

ByName(n) == {c \in DOMAIN world : world[c].name = n}
\* Docker takes an id or a name.
ByKey(k) == {c \in DOMAIN world : c = k} \cup ByName(k)
Fresh == used + 1
Container(n, self, state) == [name |-> n, self |-> self, state |-> state]

Goto(p, s) == pc' = [pc EXCEPT ![p] = s]
Keep(p, l) == loc' = [loc EXCEPT ![p] = l]
End(p) == Goto(p, "idle") /\ Keep(p, Nothing)

Request(op) == op \in Ops /\ requests > 0 /\ requests' = requests - 1
Begin(p, op) == pc[p] = "idle" /\ Request(op) /\ UNCHANGED faults
Strike(f) == f \in Faults /\ faults > 0 /\ faults' = faults - 1
Continue == UNCHANGED <<requests, faults>>
MayFail(failed) == IF failed THEN Strike("runtime") ELSE UNCHANGED faults

-----------------------------------------------------------------------------
(* create_agent, start_agent, delete_agent.                                *)

(* setup_persistent_data_volume: /data and /identity unless the client's   *)
(* configuration mounts something there.                                   *)
WithPersistent(own) ==
    own \cup {[source |-> "data", target |-> t] :
                 t \in {"/data", "/identity"} \ {m.target : m \in own}}

Created(id, n, own) ==
    [id |-> id, name |-> n, self |-> id, mounts |-> WithPersistent(own), arg |-> NoAgent]

\* Bound: no two direct agents of a name at a time (AgentLifecycle has those).
Free(n) == n \notin DOMAIN agents /\ \A q \in Handlers : loc[q].id # n

CreateAgent(p) ==
    /\ Begin(p, "create")
    /\ \E n \in Names, own \in {{}, {[source |-> HostPath, target |-> "/data"]}} :
          \/ /\ Fresh \in Ids /\ ByName(n) = {}
             /\ world' = Put(world, Fresh, Container(n, Fresh, "created"))
             /\ used' = Fresh
             /\ Keep(p, Created(Fresh, n, own))
          \/ /\ Free(n)
             /\ Keep(p, Created(n, n, own))
             /\ UNCHANGED <<world, used>>
    /\ Goto(p, "push")
    /\ UNCHANGED <<agentVars, volumeVars, assigned, accessVars, writer>>

CreatePush(p) ==
    /\ pc[p] = "push"
    /\ writer = NoProc
    /\ LET a == [name |-> loc[p].name, self |-> loc[p].self, status |-> "Stopped",
                 mounts |-> loc[p].mounts, direct |-> loc[p].id \in Names]
       IN /\ agents' = Put(agents, loc[p].id, a)
          /\ stored' = UpsertAgent(stored, loc[p].id, a)
    /\ deleted' = deleted \ {loc[p].self}
    /\ End(p)
    /\ Continue
    /\ UNCHANGED <<missed, world, volumeVars, assigned, accessVars, writer, used>>

(* start_agent recreates a missing container and only logs the new id; of  *)
(* a direct agent it only sets the status.                                 *)
StartAgent(p) ==
    /\ Begin(p, "start")
    /\ writer = NoProc
    /\ \E id \in DOMAIN agents :
          LET a  == [agents[id] EXCEPT !.status = "Running"]
              cs == ByName(a.name)
          IN /\ \/ a.direct /\ UNCHANGED <<world, used>>
                \/ /\ ~a.direct /\ cs = {}
                   /\ Fresh \in Ids
                   /\ used' = Fresh
                   /\ world' = Put(world, Fresh, Container(a.name, a.self, "running"))
                \/ /\ ~a.direct /\ cs # {}
                   /\ world' = [c \in DOMAIN world |->
                          IF c \in cs THEN [world[c] EXCEPT !.state = "running"]
                          ELSE world[c]]
                   /\ UNCHANGED used
             /\ agents' = [agents EXCEPT ![id] = a]
             /\ stored' = UpsertAgent(stored, id, a)
    /\ UNCHANGED <<deletions, volumeVars, assigned, accessVars, procVars>>

DeleteAgent(p) ==
    /\ Begin(p, "delete")
    /\ writer = NoProc
    /\ \E id \in DOMAIN agents : Keep(p, Locals(id, agents[id], NoAgent))
    /\ Goto(p, "delete")
    /\ UNCHANGED <<agentVars, world, volumeVars, assigned, accessVars, writer, used>>

(* Whatever else holds the id keeps it.  The answer is 204 also when no    *)
(* entry had the id any more.                                              *)
DeleteState(p) ==
    /\ pc[p] = "delete"
    /\ writer = NoProc
    /\ \E failed \in BOOLEAN :
          /\ MayFail(failed)
          /\ world' = IF failed THEN world ELSE Without(world, ByKey(loc[p].id))
    /\ agents' = Without(agents, {loc[p].id})
    /\ deleted' = deleted \cup {loc[p].self}
    /\ missed' = IF \E id \in DOMAIN agents' : agents'[id].self = loc[p].self
                 THEN missed \cup {loc[p].self} ELSE missed \ {loc[p].self}
    /\ stored' = Without(stored, {loc[p].id})
    /\ End(p)
    /\ UNCHANGED <<volumeVars, assigned, accessVars, writer, used, requests>>

-----------------------------------------------------------------------------
(* The volume endpoints: each is one critical section of volumes.          *)

(* save_volumes: a write that fails is only logged, and the request goes   *)
(* on.  The file is truncated first: what is left of it then may be no     *)
(* JSON, which load_volumes takes for no volumes.                          *)
SaveVolumes ==
    \/ /\ volumesFile' = volumes' /\ unsaved' = FALSE /\ cutOff' = {}
       /\ UNCHANGED faults
    \/ /\ Strike("disk")
       /\ volumesFile' \in {volumesFile, <<>>}
       /\ unsaved' = TRUE
       /\ UNCHANGED cutOff

CreateVolume ==
    /\ Request("volumes")
    /\ \E v \in VolumeIds \ DOMAIN volumes, n \in VolumeNames, managed \in BOOLEAN :
          /\ \A w \in DOMAIN volumes : volumes[w].name # n
          /\ volumes' = Put(volumes, v, [name |-> n, managed |-> managed, attached |-> {}])
    /\ SaveVolumes
    /\ UNCHANGED <<agentVars, world, assigned, accessVars, procVars, used>>

(* A wrong version: the change stays in memory.                            *)
UpdateVolumeUnsaved ==
    /\ Request("volumes")
    /\ \E v \in DOMAIN volumes, n \in VolumeNames :
          volumes' = [volumes EXCEPT ![v].name = n]
    /\ UNCHANGED <<agentVars, saveVars, world, assigned, accessVars, procVars,
                   used, faults>>

UpdateVolume ==
    /\ Request("volumes")
    /\ \E v \in DOMAIN volumes, n \in VolumeNames :
          /\ \A w \in DOMAIN volumes \ {v} : volumes[w].name # n
          /\ volumes' = [volumes EXCEPT ![v].name = n]
    /\ SaveVolumes
    /\ UNCHANGED <<agentVars, world, assigned, accessVars, procVars, used>>

DeleteVolume ==
    /\ Request("volumes")
    /\ \E v \in DOMAIN volumes :
          /\ volumes[v].attached = {}
          /\ volumes' = Without(volumes, {v})
    /\ SaveVolumes
    /\ UNCHANGED <<agentVars, world, assigned, accessVars, procVars, used>>

-----------------------------------------------------------------------------
(* Attach and detach.                                                      *)

(* Check and push the mount; containers stays write-locked, the read lock  *)
(* of volumes is given back before its write lock is asked for.            *)
AttachMount(p) ==
    /\ Begin(p, "attach")
    /\ writer = NoProc
    /\ \E id \in DOMAIN agents, v \in DOMAIN volumes, t \in Targets :
          LET m == [source |-> IF volumes[v].managed THEN v ELSE HostPath, target |-> t]
          IN /\ m \notin agents[id].mounts
             /\ agents' = [agents EXCEPT ![id].mounts = @ \cup {m}]
             /\ Keep(p, Locals(id, agents'[id], v))
    /\ writer' = p
    /\ Goto(p, "attachRecord")
    /\ UNCHANGED <<deletions, stored, world, volumeVars, assigned, accessVars, used>>

(* The volume may be gone by now; the mount stays all the same.            *)
AttachRecord(p) ==
    /\ pc[p] = "attachRecord"
    /\ volumes' = [v \in DOMAIN volumes |->
          IF v = loc[p].arg THEN [volumes[v] EXCEPT !.attached = @ \cup {loc[p].id}]
          ELSE volumes[v]]
    /\ stored' = UpsertAgent(stored, loc[p].id, agents[loc[p].id])
    /\ Goto(p, "attachSave")
    /\ Continue
    /\ UNCHANGED <<deletions, agents, world, saveVars, assigned, accessVars, writer, loc, used>>

(* A wrong version: containers stays locked over the restart.              *)
AttachSaveLocked(p) ==
    /\ pc[p] = "attachSave"
    /\ UNCHANGED volumes
    /\ SaveVolumes
    /\ agents' = [agents EXCEPT ![loc[p].id].status = "Stopping"]
    /\ Goto(p, "restartRemove")
    /\ UNCHANGED <<deletions, stored, world, assigned, accessVars,
                   writer, loc, used, requests>>

(* Save both files, mark the agent and let go of containers.               *)
AttachSave(p) ==
    /\ pc[p] = "attachSave"
    /\ UNCHANGED volumes
    /\ SaveVolumes
    /\ stored' = UpsertAgent(stored, loc[p].id, agents[loc[p].id])
    /\ agents' = [agents EXCEPT ![loc[p].id].status = "Stopping"]
    /\ writer' = NoProc
    /\ Goto(p, "restartRemove")
    /\ UNCHANGED <<deletions, world, assigned, accessVars, loc, used, requests>>

(* The mounts a detach request selects: by volume id, found in the path of *)
(* a managed volume only, by target, or by both.                           *)
Selections(ms) ==
    {{m \in ms : m.source = v} : v \in VolumeIds}
    \cup {{m \in ms : m.target = k.target} : k \in ms}
    \cup {{m \in ms : m.source = v /\ m.target = k.target} : v \in VolumeIds, k \in ms}

(* Drop the mounts, then take the agent off the volumes it still mounts;   *)
(* neither agents.json nor volumes.json is written.                        *)
DetachMount(p) ==
    /\ Begin(p, "detach")
    /\ writer = NoProc
    /\ \E id \in DOMAIN agents : \E gone \in Selections(agents[id].mounts) :
          LET left == agents[id].mounts \ gone
          IN /\ agents' = [agents EXCEPT ![id].mounts = left, ![id].status = "Stopping"]
             /\ volumes' = [v \in DOMAIN volumes |->
                   IF \E m \in left : m.source = v
                   THEN [volumes[v] EXCEPT !.attached = @ \ {id}] ELSE volumes[v]]
             /\ Keep(p, Locals(id, agents'[id], NoAgent))
    /\ Goto(p, "restartRemove")
    /\ UNCHANGED <<deletions, stored, world, saveVars, assigned, accessVars, writer, used>>

(* With no lock held: stop and delete the container by id and by name,     *)
(* errors ignored, and forget the old id in agents.json.                   *)
RestartRemove(p) ==
    /\ pc[p] = "restartRemove"
    /\ \E failed \in BOOLEAN :
          /\ MayFail(failed)
          /\ world' = IF failed THEN world
                      ELSE Without(world, ByKey(loc[p].id) \cup ByName(loc[p].name))
    /\ stored' = Without(stored, {loc[p].id})
    /\ Goto(p, "restartCreate")
    /\ UNCHANGED <<deletions, agents, volumeVars, assigned, accessVars, writer, loc, used, requests>>

(* Create under the same name (tried again for as long as it is taken) and *)
(* start; an error of either leaves the agent as it is.                    *)
RestartCreate(p) ==
    /\ pc[p] = "restartCreate"
    /\ \/ /\ Strike("runtime")
          /\ End(p)
          /\ UNCHANGED <<world, used>>
       \/ /\ ByName(loc[p].name) = {}
          /\ Fresh \in Ids
          /\ used' = Fresh
          /\ \E started \in BOOLEAN :
                /\ MayFail(~started)
                /\ world' = Put(world, Fresh,
                      Container(loc[p].name, loc[p].self,
                                IF started THEN "running" ELSE "created"))
                /\ IF started
                   THEN Goto(p, "rekey") /\ Keep(p, [loc[p] EXCEPT !.arg = Fresh])
                   ELSE End(p)
    /\ UNCHANGED <<agentVars, volumeVars, assigned, accessVars, writer, requests>>

(* A wrong version: the agent is entered whether it is still listed or not.*)
RekeyAnyway(p) ==
    /\ pc[p] = "rekey"
    /\ writer = NoProc
    /\ LET a == [name |-> loc[p].name, self |-> loc[p].self, status |-> "Running",
                 mounts |-> loc[p].mounts, direct |-> FALSE]
       IN /\ agents' = Put(Without(agents, {loc[p].id}), loc[p].arg, a)
          /\ stored' = UpsertAgent(stored, loc[p].arg, a)
    /\ writer' = p
    /\ Goto(p, "stuck")
    /\ Keep(p, Nothing)
    /\ Continue
    /\ UNCHANGED <<deletions, world, volumeVars, assigned, accessVars, used>>

(* Enter the agent under the new id if the old one is still listed.  The   *)
(* write guard is then in the way of the function's own read guard.        *)
Rekey(p) ==
    /\ pc[p] = "rekey"
    /\ writer = NoProc
    /\ LET old == loc[p].id
           new == loc[p].arg
       IN IF old \in DOMAIN agents
          THEN LET a == [agents[old] EXCEPT !.status = "Running"]
               IN /\ agents' = Put(Without(agents, {old}), new, a)
                  /\ stored' = UpsertAgent(stored, new, a)
                  /\ UNCHANGED deletions
          ELSE UNCHANGED agentVars
    /\ writer' = p
    /\ Goto(p, "stuck")
    /\ Keep(p, Nothing)
    /\ Continue
    /\ UNCHANGED <<world, volumeVars, assigned, accessVars, used>>

(* Sooner or later the client of the stuck handler gives up.               *)
GiveUp(p) ==
    /\ pc[p] = "stuck"
    /\ writer' = NoProc
    /\ Goto(p, "idle")
    /\ Continue
    /\ UNCHANGED <<agentVars, world, volumeVars, assigned, accessVars, loc, used>>

-----------------------------------------------------------------------------
(* Team roles.  The container is replaced here too, but the new id is only *)
(* logged: the agent keeps the old one.                                    *)

(* The agent is whatever id the client names, listed or not.               *)
AssignRole(p) ==
    /\ Begin(p, "assignRole")
    /\ \E r \in Roles, id \in (1 .. used) \cup Names :
          /\ assigned' = [assigned EXCEPT ![r] = id]
          /\ Keep(p, [Nothing EXCEPT !.id = id, !.arg = r])
    /\ Goto(p, "roleMount")
    /\ UNCHANGED <<agentVars, world, volumeVars, accessVars, writer, used>>

(* setup_role_volume: an unknown agent is a warning.  Otherwise the /role  *)
(* mount is pointed to the role's directory, or added, and saved.          *)
RoleMount(p) ==
    /\ pc[p] = "roleMount"
    /\ writer = NoProc
    /\ LET id == loc[p].id
           m  == [source |-> loc[p].arg, target |-> "/role"]
       IN IF id \notin DOMAIN agents
          THEN End(p) /\ UNCHANGED <<agentVars, writer>>
          ELSE LET ms  == agents[id].mounts
                   old == {k \in ms : k.target = "/role"}
               IN /\ \/ /\ old = {}
                        /\ agents' = [agents EXCEPT ![id].mounts = ms \cup {m}]
                     \/ \E k \in old :
                           agents' = [agents EXCEPT ![id].mounts = (ms \ {k}) \cup {m}]
                  /\ stored' = UpsertAgent(stored, id, agents'[id])
                  /\ UNCHANGED deletions
                  /\ Keep(p, Locals(id, agents'[id], loc[p].arg))
                  /\ writer' = p
                  /\ Goto(p, "roleStop")
    /\ Continue
    /\ UNCHANGED <<world, volumeVars, assigned, accessVars, used>>

(* A Running agent's container is stopped and deleted by name.             *)
RoleStop(p) ==
    /\ pc[p] = "roleStop"
    /\ LET id == loc[p].id
           cs == ByName(loc[p].name)
       IN IF agents[id].status = "Running" /\ cs # {}
          THEN \E failed \in BOOLEAN :
                 /\ MayFail(failed)
                 /\ IF failed THEN UNCHANGED <<agents, world>>
                    ELSE /\ world' = Without(world, cs)
                         /\ agents' = [agents EXCEPT ![id].status = "Stopped"]
          ELSE UNCHANGED <<agents, world, faults>>
    /\ Goto(p, "roleStart")
    /\ UNCHANGED <<deletions, stored, volumeVars, assigned, accessVars, writer, loc, used, requests>>

(* Create the container unless one of that name exists, start it by name,  *)
(* save the status; an error leaves everything as it is, also the role.    *)
RoleStart(p) ==
    /\ pc[p] = "roleStart"
    /\ \/ /\ Strike("runtime")
          /\ UNCHANGED <<agentVars, world, used>>
       \/ /\ LET id == loc[p].id
                 cs == ByName(loc[p].name)
             IN /\ IF cs = {}
                   THEN /\ Fresh \in Ids
                        /\ used' = Fresh
                        /\ world' = Put(world, Fresh,
                              Container(loc[p].name, loc[p].self, "running"))
                   ELSE /\ world' = [c \in DOMAIN world |->
                              IF c \in cs THEN [world[c] EXCEPT !.state = "running"]
                              ELSE world[c]]
                        /\ UNCHANGED used
                /\ agents' = [agents EXCEPT ![id].status = "Running"]
                /\ stored' = UpsertAgent(stored, id, agents'[id])
                /\ UNCHANGED deletions
          /\ UNCHANGED faults
    /\ writer' = NoProc
    /\ End(p)
    /\ UNCHANGED <<volumeVars, assigned, accessVars, requests>>

(* remove_team_role reads the assignment, then removes whatever is there.  *)
RemoveRole(p) ==
    /\ Begin(p, "removeRole")
    /\ \E r \in Roles :
          /\ assigned[r] # NoAgent
          /\ Keep(p, [Nothing EXCEPT !.id = assigned[r], !.arg = r])
    /\ Goto(p, "roleRemove")
    /\ UNCHANGED <<agentVars, world, volumeVars, assigned, accessVars, writer, used>>

RoleRemove(p) ==
    /\ pc[p] = "roleRemove"
    /\ assigned' = [assigned EXCEPT ![loc[p].arg] = NoAgent]
    /\ Goto(p, "roleUnmount")
    /\ Continue
    /\ UNCHANGED <<agentVars, world, volumeVars, accessVars, writer, loc, used>>

(* Drop every /role mount; a Running agent's container is stopped and      *)
(* deleted, by the agent's id.                                             *)
RoleUnmount(p) ==
    /\ pc[p] = "roleUnmount"
    /\ writer = NoProc
    /\ LET id == loc[p].id
       IN IF id \in DOMAIN agents /\ \E m \in agents[id].mounts : m.target = "/role"
          THEN LET a == [agents[id] EXCEPT !.mounts = {m \in @ : m.target # "/role"}]
               IN /\ stored' = UpsertAgent(stored, id, a)
                  /\ IF a.status = "Running" /\ ByKey(id) # {}
                     THEN \E failed \in BOOLEAN :
                            /\ MayFail(failed)
                            /\ world' = IF failed THEN world ELSE Without(world, ByKey(id))
                            /\ agents' = [agents EXCEPT ![id] =
                                  IF failed THEN a ELSE [a EXCEPT !.status = "Stopped"]]
                     ELSE agents' = [agents EXCEPT ![id] = a] /\ UNCHANGED <<world, faults>>
                  /\ UNCHANGED deletions
                  /\ Keep(p, Locals(id, a, NoAgent))
                  /\ writer' = p
                  /\ Goto(p, "roleRestart")
          ELSE End(p) /\ UNCHANGED <<agentVars, world, writer, faults>>
    /\ UNCHANGED <<volumeVars, assigned, accessVars, used, requests>>

(* Create by name, which fails while the name is taken; the start that     *)
(* follows asks for the agent's id, which the new container only has for   *)
(* a name.  If either fails the request ends in an error, the status as it *)
(* was.                                                                    *)
RoleRestart(p) ==
    /\ pc[p] = "roleRestart"
    /\ LET id == loc[p].id
       IN \/ /\ ByName(loc[p].name) # {} \/ Fresh \notin Ids
             /\ UNCHANGED <<agentVars, world, used, faults>>
          \/ /\ ByName(loc[p].name) = {} /\ Fresh \in Ids
             /\ used' = Fresh
             /\ \/ /\ IF id \in Names THEN Strike("runtime") ELSE UNCHANGED faults
                   /\ world' = Put(world, Fresh,
                         Container(loc[p].name, loc[p].self, "created"))
                   /\ UNCHANGED agentVars
                \/ /\ id \in Names
                   /\ world' = Put(world, Fresh,
                         Container(loc[p].name, loc[p].self, "running"))
                   /\ agents' = [agents EXCEPT ![id].status = "Running"]
                   /\ stored' = UpsertAgent(stored, id, agents'[id])
                   /\ UNCHANGED <<deletions, faults>>
    /\ writer' = NoProc
    /\ End(p)
    /\ UNCHANGED <<volumeVars, assigned, accessVars, requests>>

-----------------------------------------------------------------------------
(* Access: the table is keyed by the agent's id of the moment.             *)

(* Both endpoints resolve the agent (by id or name), then write the table. *)
FindForAccess(p, op, next) ==
    /\ Begin(p, op)
    /\ writer = NoProc
    /\ \E id \in DOMAIN agents, u \in Users : Keep(p, Locals(id, agents[id], u))
    /\ Goto(p, next)
    /\ UNCHANGED <<agentVars, world, volumeVars, assigned, accessVars, writer, used>>

AssignUser(p)   == FindForAccess(p, "grant", "grant")
UnassignUser(p) == FindForAccess(p, "revoke", "revoke")

(* A wrong version: the agent's name, which another agent may have later.  *)
AccessKeyByName(l) == <<l.name, l.arg>>
AccessKey(l) == <<l.id, l.arg>>

(* INSERT OR REPLACE: one role per agent and user; an observer may not     *)
(* chat.                                                                   *)
Grant(p) ==
    /\ pc[p] = "grant"
    /\ \E mayChat \in BOOLEAN :
          grants' = Put(grants, AccessKey(loc[p]), mayChat)
    /\ granted' = granted \cup {<<loc[p].self, loc[p].arg>>}
    /\ End(p)
    /\ Continue
    /\ UNCHANGED <<agentVars, world, volumeVars, assigned, chats, writer, used>>

Revoke(p) ==
    /\ pc[p] = "revoke"
    /\ grants' = Without(grants, {AccessKey(loc[p])})
    /\ End(p)
    /\ Continue
    /\ UNCHANGED <<agentVars, world, volumeVars, assigned, granted, chats, writer, used>>

(* chat_websocket: find the agent, which must not be Stopped; with the     *)
(* locks given back, look into the table.                                  *)
OpenChat(p) ==
    /\ Begin(p, "chat")
    /\ writer = NoProc
    /\ \E id \in DOMAIN agents, u \in Users :
          /\ agents[id].status # "Stopped"
          /\ Keep(p, Locals(id, agents[id], u))
    /\ Goto(p, "chat")
    /\ UNCHANGED <<agentVars, world, volumeVars, assigned, accessVars, writer, used>>

CanChat(key) == key \in DOMAIN grants /\ grants[key]

Upgrade(p) ==
    /\ pc[p] = "chat"
    /\ chats' = IF CanChat(AccessKey(loc[p]))
                THEN chats \cup {<<loc[p].self, loc[p].arg>>} ELSE chats
    /\ End(p)
    /\ Continue
    /\ UNCHANGED <<agentVars, world, volumeVars, assigned, grants, granted, writer, used>>

-----------------------------------------------------------------------------
(* The reconciler and the environment.                                     *)

ListedStatus(state) == CASE state = "running" -> "Running"
                         [] state = "created" -> "Starting"
                         [] OTHER -> "Stopped"

(* The listing is by name; that a direct agent is not in it means nothing. *)
Reconciled(a) ==
    LET actual == {ListedStatus(world[c].state) : c \in ByName(a.name)}
    IN CASE "Running" \in actual -> "Running"
         [] actual = {"Starting"} ->
              IF a.status = "Running" THEN "Running" ELSE "Starting"
         [] actual = {"Stopped"} ->
              IF a.status = "Running" THEN "Stopped" ELSE a.status
         [] OTHER -> IF ~a.direct /\ a.status \in {"Running", "Starting"}
                     THEN "Stopped" ELSE a.status

(* One pass; if a status changed, every listed agent is written.           *)
Sync ==
    /\ writer = NoProc
    /\ LET new == [id \in DOMAIN agents |->
                     [agents[id] EXCEPT !.status = Reconciled(agents[id])]]
       IN /\ new # agents
          /\ agents' = new
          /\ stored' = [id \in DOMAIN stored \cup DOMAIN new |->
                           IF id \in DOMAIN new THEN ToStored(new[id]) ELSE stored[id]]
    /\ Continue
    /\ UNCHANGED <<deletions, world, volumeVars, assigned, accessVars, procVars, used>>

ContainerExit ==
    /\ Strike("exit")
    /\ \E c \in DOMAIN world : /\ world[c].state = "running"
                               /\ world' = [world EXCEPT ![c].state = "exited"]
    /\ UNCHANGED <<agentVars, volumeVars, assigned, accessVars, procVars, used, requests>>

(* The handler is dropped at an await, with its guards.                    *)
ClientHangsUp ==
    /\ Strike("hangup")
    /\ \E p \in Handlers :
          /\ pc[p] \notin {"idle", "stuck"}
          /\ writer' = IF writer = p THEN NoProc ELSE writer
          /\ cutOff' = IF pc[p] = "attachSave" THEN cutOff \cup {loc[p].id} ELSE cutOff
          /\ End(p)
    /\ UNCHANGED <<agentVars, world, volumes, volumesFile, unsaved, assigned, accessVars,
                   used, requests>>

(* A crash can cut a save of volumes.json short.                           *)
Saving ==
    \/ requests > 0 /\ "volumes" \in Ops
    \/ \E p \in Handlers : pc[p] = "attachSave"

(* Startup reads the two files and chat.db; a container no record has the  *)
(* id of becomes an agent with an empty configuration.  The roles were     *)
(* only in memory.                                                         *)
CrashRestart ==
    /\ Strike("crash")
    /\ agents' = [id \in DOMAIN stored \cup DOMAIN world |->
          IF id \in DOMAIN stored
          THEN [name |-> stored[id].name, self |-> stored[id].self,
                mounts |-> stored[id].mounts, direct |-> stored[id].direct,
                status |-> IF id \in DOMAIN world THEN ListedStatus(world[id].state)
                           ELSE "Stopped"]
          ELSE [name |-> world[id].name, self |-> world[id].self, mounts |-> {},
                direct |-> FALSE, status |-> ListedStatus(world[id].state)]]
    /\ deleted' = {} /\ missed' = {}
    /\ volumesFile' \in {volumesFile} \cup (IF Saving THEN {<<>>} ELSE {})
    /\ volumes' = volumesFile'
    /\ cutOff' = {} /\ unsaved' = FALSE
    /\ assigned' = [r \in Roles |-> NoAgent]
    /\ writer' = NoProc
    /\ pc' = [p \in Handlers |-> "idle"]
    /\ loc' = [p \in Handlers |-> Nothing]
    /\ UNCHANGED <<stored, world, accessVars, used, requests>>

-----------------------------------------------------------------------------
Init ==
    /\ agents = <<>> /\ deleted = {} /\ missed = {} /\ stored = <<>> /\ world = <<>>
    /\ volumes = <<>> /\ volumesFile = <<>> /\ cutOff = {} /\ unsaved = FALSE
    /\ assigned = [r \in Roles |-> NoAgent]
    /\ grants = <<>> /\ granted = {} /\ chats = {}
    /\ writer = NoProc
    /\ pc = [p \in Handlers |-> "idle"]
    /\ loc = [p \in Handlers |-> Nothing]
    /\ used = 0
    /\ requests = MaxRequests
    /\ faults = MaxFaults

Volumes  == CreateVolume \/ UpdateVolume \/ DeleteVolume
Restart(p) == RestartRemove(p) \/ RestartCreate(p) \/ Rekey(p) \/ GiveUp(p)
AttachVolume(p) == AttachMount(p) \/ AttachRecord(p) \/ AttachSave(p)
RoleChange(p) ==
    \/ AssignRole(p) \/ RoleMount(p) \/ RoleStop(p) \/ RoleStart(p)
    \/ RemoveRole(p) \/ RoleRemove(p) \/ RoleUnmount(p) \/ RoleRestart(p)
Access(p) ==
    \/ AssignUser(p) \/ UnassignUser(p) \/ Grant(p) \/ Revoke(p)
    \/ OpenChat(p) \/ Upgrade(p)

Next ==
    \/ \E p \in Handlers :
          \/ CreateAgent(p) \/ CreatePush(p) \/ StartAgent(p)
          \/ DeleteAgent(p) \/ DeleteState(p)
          \/ AttachVolume(p) \/ DetachMount(p) \/ Restart(p)
          \/ RoleChange(p) \/ Access(p)
    \/ Volumes
    \/ Sync \/ ContainerExit \/ ClientHangsUp \/ CrashRestart

Spec == Init /\ [][Next]_vars

-----------------------------------------------------------------------------
Steps == {"idle", "push", "delete", "attachRecord", "attachSave", "restartRemove",
          "restartCreate", "rekey", "stuck", "roleMount", "roleStop", "roleStart",
          "roleRemove", "roleUnmount", "roleRestart", "grant", "revoke", "chat"}

Lockers == {"attachRecord", "attachSave", "stuck", "roleStop", "roleStart", "roleRestart"}

(* Every variable has its type, ids are names or ids of containers that    *)
(* were created, and the write lock of containers is held by the one       *)
(* handler that stands between taking and releasing it.                    *)
TypeOK ==
    /\ DOMAIN agents \cup DOMAIN stored \subseteq (1 .. used) \cup Names
    /\ DOMAIN world \subseteq 1 .. used
    /\ \A id \in DOMAIN agents : agents[id].status \in Statuses
    /\ used \in 0 .. MaxIds /\ requests \in 0 .. MaxRequests /\ faults \in 0 .. MaxFaults
    /\ pc \in [Handlers -> Steps]
    /\ \A p \in Handlers : pc[p] \in Lockers <=> writer = p
    /\ assigned \in [Roles -> (0 .. used) \cup Names]
    /\ unsaved \in BOOLEAN

(* Who chats with an agent was let in by an admin for this very agent.     *)
(* The table outlives the agent it names: rows stay behind when an agent   *)
(* is deleted or gets a new id, and the endpoint looks the agent up, lets  *)
(* go of the locks and only then reads the table; yet no row ever admits a *)
(* user to another agent that has or had a container, whatever is created, *)
(* replaced, adopted after a crash or given the same name.  Of a direct    *)
(* agent only this is true: an admin let the user in for an agent of its   *)
(* name.  Its id is its name (api.rs:470-472), delete_agent leaves the     *)
(* rows, and who creates the name again inherits its users.                *)
GrantsStayWithAgent == chats \subseteq granted

(* Until a save of volumes.json fails, the next start loses no volume and  *)
(* forgets no attachment: the file has the volumes the API lists, under    *)
(* their names, and each with at least the agents that keep it from being  *)
(* deleted, except the one an attach has entered and is about to save, and *)
(* those whose attach was dropped there, until the next save.  A failed    *)
(* save is only logged (main.rs:99-106), and what is not in the file stays *)
(* so until a save succeeds.  Nor is anything promised of a crash in the   *)
(* middle of a save: the next start takes the torn file for no volumes     *)
(* (main.rs:87-97), and then has none.                                     *)
VolumesSurviveRestart ==
    ~unsaved =>
        /\ DOMAIN volumes = DOMAIN volumesFile
        /\ \A v \in DOMAIN volumes :
              /\ volumes[v].name = volumesFile[v].name
              /\ volumes[v].attached \subseteq volumesFile[v].attached
                     \cup {loc[p].id : p \in {q \in Handlers : pc[q] = "attachSave"}}
                     \cup cutOff

(* An agent whose deletion was answered and that was gone then is not      *)
(* listed again while the orchestrator runs, unless it is created again    *)
(* under the name that is its id: no attach, detach or role change that    *)
(* was replacing its container at the time brings it back, under no id.    *)
(* The answer alone does not say that it was gone: delete_agent answers    *)
(* 204 also when the retain (api.rs:640-641) removed nothing, because an   *)
(* attach or detach gave the agent a new id since the check (606-613), or  *)
(* when the agent was listed twice, as it is after a start that adopted a  *)
(* second container of its.  Those are missed.                             *)
DeletedStaysDeleted ==
    \A id \in DOMAIN agents : agents[id].self \in deleted => agents[id].self \in missed
=============================================================================
