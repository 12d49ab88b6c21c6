--------------------------- MODULE AgentLifecycle ---------------------------
(***************************************************************************)
(* The agent registry of the orchestrator: the vector AppState.containers, *)
(* its position index, the agents.json file, the containers the Docker and *)
(* exo runtimes hold, and everything that moves them: the REST handlers of *)
(* api.rs (create, import, update, delete, start, stop, start_all,         *)
(* stop_all, the Tailscale refresh), the reconciler of main.rs that runs   *)
(* every ten seconds, and a crash followed by the startup merge.           *)
(*                                                                         *)
(* The handlers run concurrently.  A step is what a handler does between   *)
(* two points where another task can run: an await on the runtime or on a  *)
(* lock, and the parts (read, truncate, write) of an update of             *)
(* agents.json, which no lock protects.                                    *)
(***************************************************************************)
EXTENDS Naturals, Sequences, FiniteSets

CONSTANTS
    Names,          \* agent names, also the names of their containers
    Runtimes,       \* the values of AgentContainer.runtime in play
    Handlers,       \* request handlers that may be in flight together
    Reconciler,     \* the task that runs sync_container_states
    NoProc,         \* nobody: the write lock of containers is free
    BasePort, LastPort, FallbackPort,   \* allocate_port's range and last resort
    Ops,            \* the requests clients send
    MaxContainers,  \* bound: containers ever created
    MaxRequests,    \* bound: requests ever sent
    Faults,         \* what may go wrong outside the orchestrator
    MaxFaults       \* bound: how often something goes wrong

Procs == Handlers \cup {Reconciler}
Ports == BasePort .. LastPort
AllOps == {"create", "import", "update", "delete", "start", "stop",
           "startAll", "stopAll", "tailscale"}
AllFaults == {"exit",     \* a container's process ends
              "hangup",   \* a client closes its connection
              "prune",    \* somebody removes a container that is not running
              "listing",  \* a runtime does not answer list_containers
              "disk",     \* reading or writing agents.json fails
              "crash"}    \* the orchestrator dies and is started again

ASSUME NamesAssumption   == \A n \in Names : n \notin Nat
ASSUME RuntimeAssumption == Runtimes \subseteq {"docker", "exo", "direct"}
ASSUME ProcAssumption    == Reconciler \notin Handlers /\ NoProc \notin Procs
ASSUME PortAssumption    == /\ BasePort \in Nat /\ LastPort \in Nat
                            /\ FallbackPort \in Ports
ASSUME BoundAssumption   == /\ MaxContainers \in Nat /\ MaxRequests \in Nat
                            /\ MaxFaults \in Nat
                            /\ Ops \subseteq AllOps /\ Faults \subseteq AllFaults

VARIABLES
    containers,  \* AppState.containers, in vector order
    index,       \* AppState.agent_index: id -> position
    disk,        \* the agents agents.json holds, in file order
    form,        \* what agents.json is: "json", "empty" or "garbled"
    world,       \* every container ever created; its id is its position here
    writer,      \* who holds the write lock of AppState.containers
    pc,          \* where each task stands
    loc,         \* the agent a handler works on (its own copy)
    file,        \* the contents of agents.json a task has read and will write
    todo,        \* the agents a task has still to write to agents.json
    listing,     \* the reconciler's map from name to what the runtimes reported
    requests, faults,   \* what is left of the bounds
    unwritten           \* history: the ids nothing is promised about, see below

vars == <<containers, index, disk, form, world, writer, pc, loc, file, todo,
          listing, requests, faults, unwritten>>

agentVars == <<containers, index>>
diskVars  == <<disk, form>>
ioVars    == <<file, todo, unwritten>>

readable == form = "json"

-----------------------------------------------------------------------------
(* Types.                                                                  *)

Statuses == {"Running", "Stopped", "Starting", "Stopping", "Error"}

(* An id is what the runtime returned, or the name for the direct backend. *)
AgentIds == Nat \cup Names

Agent == [id : AgentIds, name : Names, runtime : Runtimes \cup {"docker"},
          status : Statuses, port : Ports]

ContainerStates == {"created", "running", "exited", "gone"}

Container == [name : Names, client : {"docker", "exo"}, state : ContainerStates,
              port : Ports]

PCs == {"idle", "create", "push", "index", "importPush", "delRuntime", "delState",
        "startEnsure", "startRun", "startProbe", "stopState", "apply", "persist", "remove",
        "save", "write"}

TypeOK ==
    /\ containers \in Seq(Agent)
    /\ DOMAIN index \subseteq AgentIds /\ index \in [DOMAIN index -> Nat]
    /\ disk \in Seq(Agent)
    /\ form \in {"json", "empty", "garbled"} /\ (form = "json" \/ disk = <<>>)
    /\ world \in Seq(Container)
    /\ writer \in Procs \cup {NoProc}
    /\ pc \in [Procs -> PCs]
    /\ loc \in [Procs -> Agent \cup {<<>>}]
    /\ file \in [Procs -> Seq(Agent)]
    /\ todo \in [Procs -> Seq(Agent)]
    /\ listing \in [Names -> Statuses \cup {"absent"}]
    /\ requests \in Nat
    /\ faults \in Nat
    /\ unwritten \subseteq AgentIds

-----------------------------------------------------------------------------
(* Sequences of agents.                                                    *)

Ids(s) == {s[i].id : i \in DOMAIN s}

(* Position i is the first of s with its id: the one find returns.         *)
IsFirst(s, i) == /\ i \in DOMAIN s
                 /\ \A j \in 1 .. (i - 1) : s[j].id # s[i].id

(* The increasing enumerations of a finite set of naturals: there is one.  *)
Enumerations(S) ==
    {f \in [1 .. Cardinality(S) -> S] :
        \A i, j \in 1 .. Cardinality(S) : i < j => f[i] < f[j]}

(* retain(|a| a.id != id): the survivors in order.                         *)
Retained(s, id) ==
    {[k \in DOMAIN e |-> s[e[k]]] :
        e \in Enumerations({i \in DOMAIN s : s[i].id # id})}

(* Wrong versions, for the mutation runs: one that never looks for the      *)
(* entry, one that forgets to append.                                      *)
UpsertAppends(s, a) == Append(s, a)
UpsertReplaces(s, a) ==
    [i \in DOMAIN s |-> IF s[i].id = a.id /\ IsFirst(s, i) THEN a ELSE s[i]]

(* upsert_agent: replace the first entry with the agent's id, or append.   *)
Upsert(s, a) ==
    IF a.id \in Ids(s)
    THEN [i \in DOMAIN s |-> IF s[i].id = a.id /\ IsFirst(s, i) THEN a ELSE s[i]]
    ELSE Append(s, a)

(* The index built from scratch: a later duplicate overwrites.  There is   *)
(* one.                                                                    *)
Indexes(s) ==
    {f \in [Ids(s) -> DOMAIN s] :
        \A i \in DOMAIN s : /\ i <= f[s[i].id]
                            /\ s[f[s[i].id]].id = s[i].id}

(* The agent of the vector the chat endpoint talks to for a key: the index *)
(* first, if the entry it points at still matches, then a scan by id, then *)
(* a scan by name.  0 is "not found".                                      *)
Verified(key, i) == /\ i \in DOMAIN containers
                    /\ containers[i].id = key \/ containers[i].name = key

First(S) == IF S = {} THEN 0 ELSE CHOOSE i \in S : \A j \in S : i <= j

ChatTrustsIndex(key) ==    \* wrong: the index is taken at its word
    IF key \in DOMAIN index THEN index[key]
    ELSE First({i \in DOMAIN containers : containers[i].id = key})

ChatTarget(key) ==
    IF key \in DOMAIN index /\ Verified(key, index[key]) THEN index[key]
    ELSE IF key \in Ids(containers)
         THEN First({i \in DOMAIN containers : containers[i].id = key})
         ELSE First({i \in DOMAIN containers : containers[i].name = key})

AllocateByCount(s) == {BasePort + Len(s)}    \* wrong: no search, no fallback

(* allocate_port: the first free port, or a fixed one when all are taken.  *)
(* A set of one port.                                                      *)
AllocatePort(s) ==
    LET free == Ports \ {s[i].port : i \in DOMAIN s}
    IN IF free = {} THEN {FallbackPort}
       ELSE {q \in free : \A r \in free : q <= r}

-----------------------------------------------------------------------------
(* The runtimes, as their clients in container.rs drive them.              *)

(* Every handler picks exo_runtime for "exo" and runtime otherwise.        *)
Client(rt) == IF rt = "exo" THEN "exo" ELSE "docker"

(* The containers a client reaches under a key: an id or a name.           *)
Resolve(rt, key) ==
    {c \in DOMAIN world : /\ world[c].client = Client(rt)
                          /\ world[c].state # "gone"
                          /\ c = key \/ world[c].name = key}

(* Containers of cs in one of the states from move to state to.            *)
Moved(cs, from, to) ==
    [c \in DOMAIN world |->
        IF c \in cs /\ world[c].state \in from
        THEN [world[c] EXCEPT !.state = to] ELSE world[c]]

(* Docker creates a container and leaves it; exo run --detach starts it.   *)
NewContainer(a) ==
    [name   |-> a.name,
     client |-> Client(a.runtime),
     state  |-> IF Client(a.runtime) = "exo" THEN "running" ELSE "created",
     port   |-> a.port]

(* A name can be taken only once per runtime.                              *)
CanCreate(a) == /\ Len(world) < MaxContainers
                /\ Resolve(a.runtime, a.name) = {}

(* The status list_containers reports; exo's ps may take a live container  *)
(* for a dead one (lies).                                                  *)
ListedStatus(c, lies) ==
    CASE world[c].state = "running" ->
             IF world[c].client = "exo" /\ lies THEN "Error" ELSE "Running"
      [] world[c].state = "created" -> "Starting"
      [] OTHER -> "Stopped"

(* A TCP connection to a port succeeds iff a live container serves it.     *)
PortAnswered(q) ==
    \E c \in DOMAIN world : world[c].state = "running" /\ world[c].port = q

(* start_agent's probe: the port for exo, inspect by name for the others.  *)
Healthy(a) ==
    IF a.runtime = "exo" THEN PortAnswered(a.port)
    ELSE \E c \in Resolve(a.runtime, a.name) : world[c].state = "running"

-----------------------------------------------------------------------------
(* Steps common to all tasks.                                              *)

(* A request reaches an idle handler.                                      *)
Begin(p, op) == /\ op \in Ops
                /\ pc[p] = "idle"
                /\ requests > 0
                /\ requests' = requests - 1
                /\ UNCHANGED faults

Goto(p, step) == pc' = [pc EXCEPT ![p] = step]

(* The handler's copy of the agent goes out of scope.                      *)
Drop(p) == loc' = [loc EXCEPT ![p] = <<>>]

Release(p) == writer' = IF writer = p THEN NoProc ELSE writer

(* The handler answers an error: its guards are dropped, nothing is saved. *)
Fail(p) == /\ Goto(p, "idle")
           /\ Release(p)
           /\ Drop(p)

LockBriefly(p) == writer = NoProc /\ UNCHANGED writer    \* wrong: lookup only

(* state.containers.write().await, the guard kept beyond this step.        *)
LockAgents(p) == /\ writer = NoProc
                 /\ writer' = p

(* Wrong: the guard is dropped before the file is written.                 *)
PersistUnlocked(p, q) == /\ UNCHANGED writer
                         /\ todo' = [todo EXCEPT ![p] = q]
                         /\ Goto(p, "persist")

(* The handler holds the write lock from here and persists the agents of q.*)
PersistLocked(p, q) == /\ writer' = p
                       /\ todo' = [todo EXCEPT ![p] = q]
                       /\ Goto(p, "persist")

(* The first agent with the id of the handler's gets its new status, which *)
(* is then persisted.                                                      *)
SetStatus(p, st) ==
    /\ \E i \in DOMAIN containers :
          /\ IsFirst(containers, i)
          /\ containers[i].id = loc[p].id
          /\ containers' = [containers EXCEPT ![i].status = st]
          /\ PersistLocked(p, <<containers'[i]>>)
    /\ Drop(p)

(* Something goes wrong.                                                   *)
Strike(kind) == /\ kind \in Faults
                /\ faults > 0
                /\ faults' = faults - 1

(* One agent of todo is dealt with; the last one ends the request.         *)
Advance(p) ==
    /\ todo' = [todo EXCEPT ![p] = Tail(todo[p])]
    /\ IF Len(todo[p]) = 1
       THEN Goto(p, "idle") /\ Release(p)
       ELSE Goto(p, "persist") /\ UNCHANGED writer

(* A write that failed is only logged: from then on the id is unwritten,   *)
(* until a write of it succeeds while no other task is about to write what *)
(* it read before.                                                         *)
Failed(p) == unwritten' = unwritten \cup {Head(todo[p]).id}
Written(p) ==
    unwritten' = IF \A q \in Procs \ {p} : pc[q] \notin {"save", "write"}
                 THEN unwritten \ {Head(todo[p]).id} ELSE unwritten

(* The read half of upsert_agent; a file that does not parse ends it.      *)
LoadForUpsert(p) ==
    /\ pc[p] = "persist"
    /\ IF readable
       THEN /\ file' = [file EXCEPT ![p] = Upsert(disk, Head(todo[p]))]
            /\ Goto(p, "save")
            /\ UNCHANGED <<todo, writer, unwritten>>
       ELSE /\ Failed(p)
            /\ Advance(p)
            /\ UNCHANGED file
    /\ UNCHANGED <<agentVars, diskVars, world, loc, listing, requests, faults>>

(* The read half of remove_agent.                                          *)
LoadForRemove(p) ==
    /\ pc[p] = "remove"
    /\ IF readable
       THEN /\ \E s \in Retained(disk, Head(todo[p]).id) :
                   file' = [file EXCEPT ![p] = s]
            /\ Goto(p, "save")
            /\ UNCHANGED <<todo, writer, unwritten>>
       ELSE /\ Failed(p)
            /\ Advance(p)
            /\ UNCHANGED file
    /\ UNCHANGED <<agentVars, diskVars, world, loc, listing, requests, faults>>

(* save_agents is fs::write, which truncates the file and then writes.     *)
TruncateFile(p) ==
    /\ pc[p] = "save"
    /\ disk' = <<>> /\ form' = "empty"
    /\ Goto(p, "write")
    /\ UNCHANGED <<agentVars, world, writer, loc, ioVars, listing, requests, faults>>

(* Onto what another task wrote since: a shorter text leaves its end.      *)
WriteFile(p) ==
    /\ pc[p] = "write"
    /\ \/ disk' = file[p] /\ form' = "json"
       \/ form # "empty" /\ disk' = <<>> /\ form' = "garbled"
    /\ file' = [file EXCEPT ![p] = <<>>]
    /\ Written(p)
    /\ Advance(p)
    /\ UNCHANGED <<agentVars, world, loc, listing, requests, faults>>

(* An error of the file system; one of the write may come after a part.    *)
FileFails(p) ==
    /\ pc[p] \in {"persist", "remove", "save", "write"}
    /\ Strike("disk")
    /\ \/ UNCHANGED diskVars
       \/ pc[p] = "write" /\ disk' = <<>> /\ form' = "garbled"
    /\ file' = [file EXCEPT ![p] = <<>>]
    /\ Failed(p)
    /\ Advance(p)
    /\ UNCHANGED <<agentVars, world, loc, listing, requests>>

-----------------------------------------------------------------------------
(* create_agent                                                            *)

(* Validate, allocate a port under the read lock, release the lock.        *)
CreateAllocate(p) ==
    /\ Begin(p, "create")
    /\ writer = NoProc
    /\ \E n \in Names, rt \in Runtimes, q \in AllocatePort(containers) :
          loc' = [loc EXCEPT ![p] =
                    [id |-> n, name |-> n, runtime |-> rt, status |-> "Stopped",
                     port |-> q]]
    /\ Goto(p, "create")
    /\ UNCHANGED <<agentVars, diskVars, world, writer, ioVars, listing>>

(* Create the container; the direct backend has none and uses the name.    *)
CreateContainer(p) ==
    /\ pc[p] = "create"
    /\ \/ /\ loc[p].runtime = "direct"
          /\ Goto(p, "push")
          /\ UNCHANGED <<world, loc, writer>>
       \/ /\ loc[p].runtime # "direct"
          /\ CanCreate(loc[p])
          /\ world' = Append(world, NewContainer(loc[p]))
          /\ loc' = [loc EXCEPT ![p].id = Len(world) + 1]
          /\ Goto(p, "push")
          /\ UNCHANGED writer
       \/ /\ loc[p].runtime # "direct"
          /\ Fail(p)
          /\ UNCHANGED world
    /\ UNCHANGED <<agentVars, diskVars, ioVars, listing, requests, faults>>

(* Push and, with containers still locked, wait for the index.             *)
CreatePush(p) ==
    /\ pc[p] = "push"
    /\ LockAgents(p)
    /\ containers' = Append(containers, loc[p])
    /\ Goto(p, "index")
    /\ UNCHANGED <<index, diskVars, world, loc, ioVars, listing, requests, faults>>

(* Enter the agent in the index; persist after releasing both locks.       *)
CreateIndex(p) ==
    /\ pc[p] = "index"
    /\ index' = [id \in DOMAIN index \cup {loc[p].id} |->
                    IF id = loc[p].id THEN Len(containers) ELSE index[id]]
    /\ todo' = [todo EXCEPT ![p] = <<loc[p]>>]
    /\ Goto(p, "persist")
    /\ Release(p)
    /\ Drop(p)
    /\ UNCHANGED <<containers, diskVars, world, file, unwritten, listing, requests, faults>>

-----------------------------------------------------------------------------
(* import_agent: the agent is the client's JSON, its id is replaced by the *)
(* new container's; the index and agents.json are left alone.              *)

ImportContainer(p) ==
    /\ Begin(p, "import")
    /\ \E n \in Names, rt \in Runtimes, st \in {"Running", "Stopped"}, q \in Ports :
          LET a == [id |-> Len(world) + 1, name |-> n, runtime |-> rt,
                    status |-> st, port |-> q]
          IN /\ CanCreate(a)
             /\ world' = Append(world, NewContainer(a))
             /\ loc' = [loc EXCEPT ![p] = a]
    /\ Goto(p, "importPush")
    /\ UNCHANGED <<agentVars, diskVars, writer, ioVars, listing>>

ImportPush(p) ==
    /\ pc[p] = "importPush"
    /\ writer = NoProc
    /\ containers' = Append(containers, loc[p])
    /\ unwritten' = unwritten \cup {loc[p].id}
    /\ Goto(p, "idle")
    /\ Drop(p)
    /\ UNCHANGED <<index, diskVars, world, writer, file, todo, listing, requests, faults>>

-----------------------------------------------------------------------------
(* update_agent: the new name stays in the orchestrator, the container     *)
(* keeps the old one.                                                      *)

UpdateAgent(p) ==
    /\ Begin(p, "update")
    /\ writer = NoProc
    /\ \E i \in DOMAIN containers, n \in Names :
          /\ IsFirst(containers, i)
          /\ containers' = [containers EXCEPT ![i].name = n]
          /\ PersistLocked(p, <<[containers[i] EXCEPT !.name = n]>>)
    /\ UNCHANGED <<index, diskVars, world, loc, file, unwritten, listing>>

(* update_agent_tailscale_ip: save_agents writes the whole vector, with no *)
(* read before.                                                            *)
UpdateTailscaleIp(p) ==
    /\ Begin(p, "tailscale")
    /\ LockAgents(p)
    /\ \E i \in DOMAIN containers :
          /\ IsFirst(containers, i)
          /\ todo' = [todo EXCEPT ![p] = <<containers[i]>>]
    /\ file' = [file EXCEPT ![p] = containers]
    /\ Goto(p, "save")
    /\ UNCHANGED <<agentVars, diskVars, world, loc, unwritten, listing>>

-----------------------------------------------------------------------------
(* delete_agent                                                            *)

(* Look the agent up under the read lock, release it.                      *)
DeleteCheck(p) ==
    /\ Begin(p, "delete")
    /\ writer = NoProc
    /\ \E i \in DOMAIN containers :
          /\ IsFirst(containers, i)
          /\ loc' = [loc EXCEPT ![p] = containers[i]]
    /\ Goto(p, "delRuntime")
    /\ UNCHANGED <<agentVars, diskVars, world, writer, ioVars, listing>>

(* Stop and remove by id; an error of either is ignored.                   *)
DeleteContainer(p) ==
    /\ pc[p] = "delRuntime"
    /\ LET hit == Resolve(loc[p].runtime, loc[p].id)
       IN \/ UNCHANGED world
          \/ world' = Moved(hit, {"running"}, "exited")
          \/ world' = Moved(hit, {"created", "running", "exited"}, "gone")
    /\ Goto(p, "delState")
    /\ UNCHANGED <<agentVars, diskVars, writer, loc, ioVars, listing, requests, faults>>

(* Retain the others and remove from storage under the write lock; the     *)
(* index is not touched.                                                   *)
DeleteState(p) ==
    /\ pc[p] = "delState"
    /\ LockAgents(p)
    /\ containers' \in Retained(containers, loc[p].id)
    /\ todo' = [todo EXCEPT ![p] = <<loc[p]>>]
    /\ Goto(p, "remove")
    /\ Drop(p)
    /\ UNCHANGED <<index, diskVars, world, file, unwritten, listing, requests, faults>>

-----------------------------------------------------------------------------
(* start_agent: the write lock of containers is held from the lookup to    *)
(* the answer, over every call to the runtime.                             *)

StartAgent(p) ==
    /\ Begin(p, "start")
    /\ writer = NoProc
    /\ \E i \in DOMAIN containers :
          /\ IsFirst(containers, i)
          /\ IF containers[i].runtime = "direct"
             THEN /\ containers' = [containers EXCEPT ![i].status = "Running"]
                  /\ PersistLocked(p, <<containers'[i]>>)
                  /\ UNCHANGED loc
             ELSE /\ loc' = [loc EXCEPT ![p] = containers[i]]
                  /\ LockAgents(p)
                  /\ Goto(p, "startEnsure")
                  /\ UNCHANGED <<containers, todo>>
    /\ UNCHANGED <<index, diskVars, world, file, unwritten, listing>>

(* Create the container if no container has the agent's name; the new id   *)
(* is only logged.                                                         *)
StartEnsure(p) ==
    /\ pc[p] = "startEnsure"
    /\ \/ /\ Resolve(loc[p].runtime, loc[p].name) # {}
          /\ Goto(p, "startRun")
          /\ UNCHANGED <<world, writer, loc>>
       \/ /\ CanCreate(loc[p])
          /\ world' = Append(world, NewContainer(loc[p]))
          /\ Goto(p, "startRun")
          /\ UNCHANGED <<writer, loc>>
       \/ /\ Resolve(loc[p].runtime, loc[p].name) = {}
          /\ Fail(p)
          /\ UNCHANGED world
    /\ UNCHANGED <<agentVars, diskVars, ioVars, listing, requests, faults>>

(* Start by name.                                                          *)
StartRun(p) ==
    /\ pc[p] = "startRun"
    /\ \/ /\ Resolve(loc[p].runtime, loc[p].name) # {}
          /\ world' = Moved(Resolve(loc[p].runtime, loc[p].name),
                            {"created", "exited"}, "running")
          /\ Goto(p, "startProbe")
          /\ UNCHANGED <<writer, loc>>
       \/ /\ Fail(p)
          /\ UNCHANGED world
    /\ UNCHANGED <<agentVars, diskVars, ioVars, listing, requests, faults>>

(* The health check; on success the status changes and is persisted.       *)
StartProbe(p) ==
    /\ pc[p] = "startProbe"
    /\ \/ /\ Healthy(loc[p])
          /\ SetStatus(p, "Running")
       \/ /\ ~Healthy(loc[p])
          /\ Fail(p)
          /\ UNCHANGED <<containers, todo>>
    /\ UNCHANGED <<index, diskVars, world, file, unwritten, listing, requests, faults>>

(* stop_agent: stop by name with the write lock held; an error of the      *)
(* runtime (always for a container it does not know, never for exo) ends   *)
(* the request with nothing changed.                                       *)
StopAgent(p) ==
    /\ Begin(p, "stop")
    /\ \E i \in DOMAIN containers :
          LET hit == Resolve(containers[i].runtime, containers[i].name)
          IN /\ IsFirst(containers, i)
             /\ \/ /\ hit # {} \/ containers[i].runtime = "exo"
                   /\ LockAgents(p)
                   /\ world' = Moved(hit, {"running"}, "exited")
                   /\ loc' = [loc EXCEPT ![p] = containers[i]]
                   /\ Goto(p, "stopState")
                \/ /\ containers[i].runtime # "exo"
                   /\ writer = NoProc
                   /\ UNCHANGED <<world, writer, pc, loc>>
    /\ UNCHANGED <<agentVars, diskVars, ioVars, listing>>

StopState(p) ==
    /\ pc[p] = "stopState"
    /\ SetStatus(p, "Stopped")
    /\ UNCHANGED <<index, diskVars, world, file, unwritten, listing, requests, faults>>

(* start_all and stop_all hold the read lock, call the runtime by id for   *)
(* each agent, ignore errors, and leave every status as it is.             *)
StartAll(p) ==
    /\ Begin(p, "startAll")
    /\ writer = NoProc
    /\ \E cs \in SUBSET UNION {Resolve(containers[i].runtime, containers[i].id) :
                    i \in {j \in DOMAIN containers : containers[j].status # "Running"}} :
          world' = Moved(cs, {"created", "exited"}, "running")
    /\ UNCHANGED <<agentVars, diskVars, writer, pc, loc, ioVars, listing>>

StopAll(p) ==
    /\ Begin(p, "stopAll")
    /\ writer = NoProc
    /\ \E cs \in SUBSET UNION {Resolve(containers[i].runtime, containers[i].id) :
                    i \in {j \in DOMAIN containers : containers[j].status = "Running"}} :
          world' = Moved(cs, {"running"}, "exited")
    /\ UNCHANGED <<agentVars, diskVars, writer, pc, loc, ioVars, listing>>

-----------------------------------------------------------------------------
(* sync_container_states                                                   *)

(* Ask both runtimes with no lock held.  Docker's failure counts as no     *)
(* containers, exo's is skipped; exo's entries come later in the map.      *)
SyncList ==
    /\ pc[Reconciler] = "idle"
    /\ \E dockerOK, exoOK, lies \in BOOLEAN :
          /\ IF dockerOK /\ exoOK THEN UNCHANGED faults
             ELSE Strike("listing")
          /\ listing' = [n \in Names |->
                LET d == IF dockerOK THEN Resolve("docker", n) ELSE {}
                    e == IF exoOK THEN Resolve("exo", n) ELSE {}
                IN IF e # {} THEN ListedStatus(First(e), lies)
                   ELSE IF d # {} THEN ListedStatus(First(d), lies)
                   ELSE "absent"]
    /\ Goto(Reconciler, "apply")
    /\ UNCHANGED <<agentVars, diskVars, world, writer, loc, ioVars, requests>>

(* Wrong versions: only crashes are detected, only starts are.             *)
ReconciledDown(a) ==
    IF a.status = "Running" /\ listing[a.name] \in {"Stopped", "Error"}
    THEN [a EXCEPT !.status = listing[a.name]] ELSE a
ReconciledUp(a) ==
    IF listing[a.name] = "Running" THEN [a EXCEPT !.status = "Running"] ELSE a

(* One agent against the map; a Running exo agent whose gateway port       *)
(* answers is left alone.                                                  *)
Reconciled(a) ==
    LET actual == listing[a.name]
        becomes(st) == [a EXCEPT !.status = st]
    IN CASE actual \in {"Stopped", "Error"} ->
              IF /\ a.status = "Running"
                 /\ ~(a.runtime = "exo" /\ PortAnswered(a.port))
              THEN becomes(actual) ELSE a
         [] actual = "Running" -> becomes("Running")
         [] actual \in {"Starting", "Stopping"} ->
              IF a.status \in {"Running", "Starting"} THEN a ELSE becomes("Starting")
         [] actual = "absent" ->
              IF a.runtime # "direct" /\ a.status \in {"Running", "Starting"}
              THEN becomes("Stopped") ELSE a

(* Apply the map under the write lock; if anything changed, rebuild the    *)
(* index and persist every agent.                                          *)
SyncApply ==
    LET new == [i \in DOMAIN containers |-> Reconciled(containers[i])]
    IN /\ pc[Reconciler] = "apply"
       /\ writer = NoProc
       /\ IF new = containers
          THEN /\ Goto(Reconciler, "idle")
               /\ UNCHANGED <<agentVars, writer, todo>>
          ELSE /\ containers' = new
               /\ index' \in Indexes(new)
               /\ PersistLocked(Reconciler, new)
       /\ listing' = [n \in Names |-> "absent"]
       /\ UNCHANGED <<diskVars, world, loc, file, unwritten, requests, faults>>

-----------------------------------------------------------------------------
(* The environment.                                                        *)

(* A container's process ends: a crash, or somebody stops it by hand.      *)
ContainerExit ==
    /\ Strike("exit")
    /\ \E c \in DOMAIN world :
          /\ world[c].state = "running"
          /\ world' = Moved({c}, {"running"}, "exited")
    /\ UNCHANGED <<agentVars, diskVars, writer, pc, loc, ioVars, listing, requests>>

(* Somebody removes a container that is not running.                       *)
ContainerPruned ==
    /\ Strike("prune")
    /\ \E c \in DOMAIN world :
          /\ world[c].state \in {"created", "exited"}
          /\ world' = Moved({c}, {"created", "exited"}, "gone")
    /\ UNCHANGED <<agentVars, diskVars, writer, pc, loc, ioVars, listing, requests>>

(* The client hangs up: its handler's future is dropped where it awaits,   *)
(* with its guards.  The writes of agents.json do not await; an agent that *)
(* is in the vector already is then never written by its own request.      *)
ClientHangsUp ==
    /\ Strike("hangup")
    /\ \E p \in Handlers :
          /\ pc[p] \notin {"idle", "persist", "remove", "save", "write"}
          /\ unwritten' = IF pc[p] = "index" THEN unwritten \cup {loc[p].id}
                          ELSE unwritten
          /\ Fail(p)
    /\ UNCHANGED <<agentVars, diskVars, world, file, todo, listing, requests>>

(* Startup: a stored agent takes the status of the Docker container with   *)
(* its id, or Stopped; a Docker container no stored agent has the id of    *)
(* becomes an agent.  exo is not asked.                                    *)
Merged(stored, docker) ==
    [i \in DOMAIN stored |->
        [stored[i] EXCEPT !.status =
            IF stored[i].id \in docker THEN ListedStatus(stored[i].id, FALSE)
            ELSE "Stopped"]]

Adopted(c) == [id |-> c, name |-> world[c].name, runtime |-> "docker",
               status |-> ListedStatus(c, FALSE), port |-> BasePort]

Strangers(stored, docker) ==
    {[k \in DOMAIN e |-> Adopted(e[k])] : e \in Enumerations(docker \ Ids(stored))}

(* The orchestrator dies, whatever its tasks were doing, and starts again. *)
(* A file that does not parse, as one it was about to write into does not, *)
(* is read as no agents.                                                   *)
CrashRestart ==
    /\ Strike("crash")
    /\ \E docker \in {{}, {c \in DOMAIN world : /\ world[c].client = "docker"
                                                /\ world[c].state # "gone"}} :
          \E new \in Strangers(disk, docker) :
                containers' = Merged(disk, docker) \o new
    /\ index' \in Indexes(containers')
    /\ unwritten' = Ids(containers') \ Ids(disk)
    /\ writer' = NoProc
    /\ pc' = [p \in Procs |-> "idle"]
    /\ file' = [p \in Procs |-> <<>>]
    /\ todo' = [p \in Procs |-> <<>>]
    /\ loc' = [p \in Procs |-> <<>>]
    /\ listing' = [n \in Names |-> "absent"]
    /\ UNCHANGED <<diskVars, world, requests>>

-----------------------------------------------------------------------------
Init ==
    /\ containers = <<>>
    /\ index = <<>>
    /\ disk = <<>>
    /\ form = "json"
    /\ world = <<>>
    /\ writer = NoProc
    /\ pc = [p \in Procs |-> "idle"]
    /\ loc = [p \in Procs |-> <<>>]
    /\ file = [p \in Procs |-> <<>>]
    /\ todo = [p \in Procs |-> <<>>]
    /\ listing = [n \in Names |-> "absent"]
    /\ requests = MaxRequests
    /\ faults = MaxFaults
    /\ unwritten = {}

(* A request arrives and its handler runs up to its first await.           *)
Request(p) ==
    \/ CreateAllocate(p) \/ ImportContainer(p) \/ UpdateAgent(p)
    \/ UpdateTailscaleIp(p) \/ DeleteCheck(p) \/ StartAgent(p) \/ StopAgent(p)
    \/ StartAll(p) \/ StopAll(p)

(* A handler that is waiting goes on.                                      *)
Continue(p) ==
    \/ CreateContainer(p) \/ CreatePush(p) \/ CreateIndex(p) \/ ImportPush(p)
    \/ DeleteContainer(p) \/ DeleteState(p)
    \/ StartEnsure(p) \/ StartRun(p) \/ StartProbe(p) \/ StopState(p)

FileStep(p) == \/ LoadForUpsert(p) \/ LoadForRemove(p)
               \/ TruncateFile(p) \/ WriteFile(p)

Environment == ContainerExit \/ ContainerPruned \/ ClientHangsUp \/ CrashRestart

Next ==
    \/ \E p \in Handlers : Request(p) \/ Continue(p)
    \/ \E p \in Procs : FileStep(p) \/ FileFails(p)
    \/ SyncList \/ SyncApply
    \/ Environment

Spec == Init /\ [][Next]_vars

(* The reconciler's loop never ends and tokio's locks are first come first *)
(* served, so a task that waits for one gets it although others take it    *)
(* again and again; requests and faults are not promised.                  *)
Fairness ==
    /\ \A p \in Handlers : SF_vars(Continue(p))
    /\ \A p \in Procs : WF_vars(FileStep(p))
    /\ WF_vars(SyncList) /\ SF_vars(SyncApply)

FairSpec == Spec /\ Fairness

-----------------------------------------------------------------------------
(* Safety.                                                                 *)

UniqueContainers(s) ==
    \A i, j \in DOMAIN s : s[i].id = s[j].id /\ s[i].id \in Nat => i = j

(* A container id names one agent: no two entries of the vector carry the  *)
(* id of the same container, nor do two records of agents.json, although   *)
(* create, import, the reconciler and the startup merge all introduce ids  *)
(* and upsert_agent replaces only the first match.  (Direct agents may     *)
(* share an id: it is their name, which create_agent does not compare.)    *)
ContainerIdsUnique == UniqueContainers(containers) /\ UniqueContainers(disk)

(* The chat endpoint given a container id talks to the agent of that id,   *)
(* however stale the index is (delete_agent shifts the vector and leaves   *)
(* the index, import_agent does not enter it).                             *)
ChatResolvesContainerId ==
    \A c \in Ids(containers) \cap Nat :
        /\ ChatTarget(c) \in DOMAIN containers
        /\ containers[ChatTarget(c)].id = c

(* Over the awaits of start_agent and stop_agent the agent they found      *)
(* stays in the vector, so the status they set at the end has somewhere to *)
(* go: nothing else may move the vector meanwhile.                         *)
TargetStays ==
    \A p \in Handlers :
        pc[p] \in {"startEnsure", "startRun", "startProbe", "stopState"} =>
            loc[p].id \in Ids(containers)

(* Tasks that still have to write an agent to agents.json.                 *)
Persisting(id) ==
    \E p \in Procs : \/ pc[p] \in {"persist", "save", "write"} /\ id \in Ids(todo[p])
                     \/ pc[p] = "index" /\ loc[p].id = id

(* As long as agents.json parses, it has a record of every agent the API   *)
(* lists, or one is about to be written, however the writes of create      *)
(* (which holds no lock, api.rs:546) and of the reconciler (main.rs:222)   *)
(* interleave: a restart then lists the agent again.                       *)
(* What the code does not give, and the property excepts, are the          *)
(* unwritten: an agent no write was made for, because the client hung up   *)
(* on create_agent between the vector and the index, or because            *)
(* import_agent (which never writes) or the startup merge entered it; and  *)
(* one of which a write failed, with a line in the log.  Each until a      *)
(* write of it succeeds.                                                   *)
(* Nor is it given that the file parses: fs::write truncates it first, so  *)
(* a crash, a failed write or a second write at the same time leaves text  *)
(* that does not parse.  Every later update then fails, but for the one    *)
(* that writes the whole vector (Tailscale), and a restart has only what   *)
(* Docker lists.                                                           *)
ListedAgentsSurviveRestart ==
    readable => \A i \in DOMAIN containers :
                    LET id == containers[i].id
                    IN id \in Ids(disk) \/ Persisting(id) \/ id \in unwritten

(* agents.json holds no agent the API does not list, except one whose      *)
(* delete_agent is still between the vector and the file, or whose removal *)
(* from the file failed: no other deleted agent comes back at the next     *)
(* start.                                                                  *)
StoredAgentsAreListed ==
    \A i \in DOMAIN disk :
        \/ disk[i].id \in Ids(containers)
        \/ \E p \in Handlers : /\ pc[p] \in {"remove", "save", "write"}
                               /\ disk[i].id \in Ids(todo[p])
        \/ disk[i].id \in unwritten

(* Every agent the API lists has a gateway port of its own.                *)
PortsDistinct ==
    \A i, j \in DOMAIN containers :
        containers[i].port = containers[j].port => i = j

-----------------------------------------------------------------------------
(* Liveness, for what the runtimes settle on.                              *)

States(n) == {world[c].state : c \in Resolve("docker", n)}

(* A container that keeps running is eventually shown as running, whatever *)
(* the handlers last wrote.                                                *)
RunningIsNoticed ==
    \A n \in Names :
        <>[]("running" \in States(n)) =>
            <>[](\A i \in DOMAIN containers :
                    containers[i].name = n => containers[i].status = "Running")

(* A container that exited, or is gone, for good is eventually not shown   *)
(* as running, even when a stale listing was applied after the exit.       *)
ExitIsNoticed ==
    \A n \in Names :
        <>[](States(n) \subseteq {"exited"}) =>
            <>[](\A i \in DOMAIN containers :
                    containers[i].name = n /\ containers[i].runtime # "direct" =>
                        containers[i].status # "Running")
=============================================================================
