# Claw Pen: a formal model

TLA+ models of the Claw Pen orchestrator (`src/orchestrator`), the TLC runs that check them on
small instances, and theorems about them checked by TLAPS. Every definition is translated from
the Rust source; `PROJECT.json` names the lines. The first part of this file surveys the system,
the second says what is modelled, checked and proved, the last what is planned and what is not
modelled.

## 1. The system

The orchestrator is one tokio process. REST handlers (`api.rs`, axum), a reconciler task that
runs every ten seconds (`main.rs:668-678`) and the WebSocket proxies share `AppState`
(`main.rs:42-73`): vectors and maps behind `tokio::sync::RwLock`s, which are fair (first come,
first served) and not re-entrant. A handler is a future: it may be suspended at every `.await`
and is dropped there, with its guards, when the client hangs up.

| Component | State | Operations | Interacts with | Hard behaviours | Correct when |
|---|---|---|---|---|---|
| Agent registry and lifecycle (`api.rs`, `main.rs`, `storage.rs`, `container.rs`) | `containers` vector, `agent_index`, `agents.json`, containers of Docker and exo | create, import, update, delete, start, stop, start_all, stop_all, Tailscale refresh; reconciler; startup merge | both runtimes, the file system, everything that looks an agent up | steps between awaits interleave; the index and the reconciler's listing are stale when used; the file is written outside locks; crashes; hang-ups | no id names two agents, lookups hit the agent meant, no agent is lost or resurrected, statuses converge |
| AppState locks (`main.rs:42-73`, taken in `api.rs`, `volume_attachment.rs`, `direct_llm.rs`, `auth.rs`, `teams.rs`, `executor.rs`, `inference.rs`) | nine `RwLock`s (with that of the inference process), their queues, the guards of suspended handlers | read, write, drop; hang-up | every handler, the reconciler, spawned tasks | nested guards, fair queues (a reader waits behind a waiting writer), futures dropped half way | no circle of waiting tasks; every request ends |
| Volume attachment (`volume_attachment.rs`) | `volumes`, `attached_agents`, `volumes.json`, the agent's mounts | attach, detach (both recreate the container), create, update and delete a volume | registry (same locks, same file), runtimes | recreates an agent over many awaits without a lock; takes a lock it holds | mounts and `attached_agents` agree; the agent comes back; the handler answers |
| Workflow registry and executor (`workflow.rs`, `executor.rs`) | workflows, executions, per-step results | register, validate, execute sequentially or by dependency level | the agents vector (read), spawned tasks | cycles, missing dependencies, failures of one step among parallel ones | a step runs after its dependencies; an execution ends once, and not as Completed without its steps |
| Agent RPC (`rpc.rs`) | connections, pending requests, sequence numbers | connect, send, listen, time out | agents' gateways | registration after the send, a listener that holds the connection's mutex, late answers | every answer reaches its request; a timed-out request leaves nothing behind. No handler calls it |
| Shared memory and task queue (`shared_memory.rs`) | SQLite tables of entries, tasks and agent status | store, search, delete, push, pop, report, stale clean-up | whoever opens the file, with a handle (a connection and its mutex) of its own | read-then-update claims, several handles on one file, a crash between statements | a task is handed out once, the most urgent first; a search hides nothing nearer; ids do not come back |
| Teams and roles (`teams.rs`, team handlers of `api.rs`) | team templates, dynamic role assignments | assign and remove roles, resolve, classify a message, team chat | registry, volumes, chat | an assignment replaces a container; an agent removed, or given a new id, under a role | a role change brings no agent back and moves no access |
| Chat, proxy and terminal (`api.rs`, `direct_llm.rs`, `agent_comms.rs`) | the history, a JSONL file per session; the tasks of each connection | chat with an agent, a provider or a team; a message between agents; proxy; terminal | agents' gateways, providers, Docker; registry lookups | either side closes first, falls silent or stops reading; two writes per stored line; hang-ups and crashes between storing and sending | nobody saw what the history lacks; what was stored is read back; both directions end |
| Snapshots, sessions, secrets, orchestrations | directories and JSON files | create, restore, check, revoke | file system | a directory that exists without its metadata | what was created can be read back |
| Authentication, RBAC (`auth.rs`, `chat_db.rs`) | users, tokens, who may chat with which agent | login, verify, assign, withdraw | every handler | the table is keyed by ids that change; it is read after the locks are given back | only users assigned to an agent reach it |
| Configuration, validation, templates, network | none after start | parse, check | create_agent | - | - |
| Containment, code index | external sandbox; not compiled in | - | - | - | - |
| Runtime daemon (`src/runtime`), inference server (`src/inference`) | processes, loaded model | start, stop, request | orchestrator over HTTP | process exit, concurrent requests | - |
| User interfaces, example agents | none shared | HTTP calls | orchestrator | - | - |

The behaviours that are hard to test are listed with their lines under `hazards` in
`PROJECT.json`.

## 2. What is modelled

### `AgentLifecycle`: the agent registry

State and code:

| Variable | Code |
|---|---|
| `containers` | `AppState.containers`, the vector in order; an agent is a record of id, name, runtime, status, port |
| `index` | `AppState.agent_index`, id to position |
| `disk`, `form` | the agents of `agents.json`, and what the file is: JSON, empty (truncated), or text that does not parse; `readable` says it parses |
| `world` | every container Docker and exo ever created; a container's id is its position, so ids are never reused |
| `writer` | the write lock of `containers` when it is kept over a step. Read locks and write locks taken and released within a step are the conjunct `writer = NoProc` |
| `pc`, `loc` | where a handler (or the reconciler) stands, and its own copy of the agent |
| `file`, `todo` | the contents of `agents.json` a task has read, changed and not yet written; the agents it has still to write |
| `listing` | the reconciler's `runtime_map_by_name` |
| `requests`, `faults` | bounds |
| `unwritten` | history: ids no write was made for (a hang-up between vector and index, `import_agent`, the startup merge) or whose write failed, until one succeeds |

A step is what a task does between two points at which another task can run: an await on the
runtime or on a lock, and, because worker threads run in parallel, the three parts of
`upsert_agent`/`remove_agent`: the load (`LoadForUpsert`, `LoadForRemove`), and the two of
`fs::write` (`storage.rs:57`), which truncates the file (`TruncateFile`) and then writes it
(`WriteFile`). `create_agent` updates the file with no lock held (`api.rs:546`), so its parts and
the reconciler's come in any order: a load of the truncated file fails, a save is overwritten, and
two writes into one truncated file may leave the end of the longer text behind the shorter, which
does not parse. Each part may also fail (`FileFails`, fault `disk`), and every caller only logs it.

| Action | Handler |
|---|---|
| `CreateAllocate`, `CreateContainer`, `CreatePush`, `CreateIndex` | `create_agent`: port under the read lock; container (none for `direct`, the id is the name); push; then, the write lock kept, the wait for the index, at which a client can hang up |
| `ImportContainer`, `ImportPush` | `import_agent`: neither indexed nor persisted |
| `UpdateAgent`, `UpdateTailscaleIp` | `update_agent` (renames in the orchestrator only); the Tailscale refresh, which rewrites the file from the vector |
| `DeleteCheck`, `DeleteContainer`, `DeleteState` | `delete_agent`: the index is left alone |
| `StartAgent`, `StartEnsure`, `StartRun`, `StartProbe` | `start_agent`, with the write lock over all of it; a missing container is created and its id forgotten |
| `StopAgent`, `StopState`, `StartAll`, `StopAll` | stop and the batch calls (which change no status) |
| `LoadForUpsert`, `LoadForRemove`, `TruncateFile`, `WriteFile`, `FileFails` | `storage.rs` |
| `SyncList`, `SyncApply` | `sync_container_states` |
| `ContainerExit`, `ContainerPruned`, `ClientHangsUp`, `CrashRestart` | the environment; startup as in `main` |

Abstractions: the two listings of `SyncList` are one step, and the probes inside `SyncApply` are
part of its step (they change nothing and run under the write lock). The up to 30 probes of
`start_agent` are one: the first success decides. `exo run --detach` either creates and starts
the container or fails without creating one. Configuration fields, logs, AndOR registration and
the read-only endpoints are left out: nothing here tells them apart.

`MCAgentLifecycle` adds the symmetry of names and handlers, used in the safety runs only.

### `StateLocks`: who waits for whom

`AgentLifecycle` keeps one lock, of one vector. `StateLocks` keeps all the locks of `AppState`, and
nothing else: the data behind them is left out, and a handler is the set of its *paths*, what it
locks and unlocks on each way through its branches (`LockPaths`, one operator per handler, early
returns included; a guard no path drops goes when the handler returns).

| Variable | Code |
|---|---|
| `path`, `pc` | the handler's future: which way it goes, and the await it stands at |
| `queue` | the waiters of each lock, in order: tokio's `RwLock` serves them first come, first served |

| Action | Code |
|---|---|
| `Arrive` | a request is dispatched, a task is spawned, the reconciler's interval ticks |
| `Ask`, `Grant` | `.read().await`, `.write().await`: the task is queued; the head of the queue gets its guard when no guard is in its way |
| `DropGuard`, `Return` | `drop(guard)` or the end of its block; the end of the handler |
| `HangUp` | the connection closes and axum drops the handler's future: its guards and its place in the queue go. Only requests of clients are dropped so; the reconciler and spawned tasks run to their end |

`ReadersWriterLocks` is the abstract specification: what the code takes for granted of the locks.
The detailed module implements it, with the guards of the suspended handlers as the abstract
`readers` and `writers` (`GuardsExclude`).

Abstractions: which branch a handler takes is free (its data is elsewhere). `DetachPaths` has at most
one pass of the loop over the remaining mounts, as each pass locks and unlocks the same. A run of
a workflow goes as far as the first step, as `prepare_task` (`executor.rs:324-331`) always fails.
`container_ips` is used only by a function nobody calls, `TeamRegistry::upsert`, `remove` and
`get_agent_role` are called by tests only, and `auth_middleware` is part of no route. The process
lock inside the inference client is one of the nine; `stop` keeps it over an await.

### `Workflows`: the registry and the executor

| Variable | Code |
|---|---|
| `offered` | what the clients send under each id: any workflow of up to `MaxSteps` steps, chosen at the start and fixed |
| `workflows`, `executions` | the two maps of `WorkflowRegistry` |
| `refused` | the ids `create_workflow` answered with an error for what they hold |
| `running`, `failing` | the tasks inside `execute_step`; the executions one of whose tasks answered an error |

| Action | Code |
|---|---|
| `CreateWorkflow` | `create_workflow`: `validate_workflow` with its depth-first search (`HasCircularDependencies`), whose two sets are handed from call to call as in the code |
| `ExecuteWorkflow` | `execute_workflow`: the execution is entered as Pending and a task is spawned |
| `RunWorkflow` | the task: Running, and the first step or the whole first level is begun (`BeginsWith`, `Level`) |
| `StepFails`, `Fail`, `Complete` | `execute_step` answers an error; after the join the error is passed on and entered; no error, the end of `run_workflow` |

`prepare_task` is not implemented (`executor.rs:324-331`): it answers an error for every step. So a
step never has a result (`StepResults`), no level but the first is begun, and retries are
unreachable. The model says what the code does: an execution that has steps fails, one without
steps completes. When `prepare_task` is written, `StepFails` gets its counterpart and `Level` its
later uses; the properties are stated so that they stay as they are.

### `AgentReferences`: what names an agent by its id

A Docker agent's id is the id of its container. Attaching or detaching a volume replaces the
container, and the agent is entered again under the new id; a role change replaces it as well and
keeps the old id. A direct agent has no container: its id is its name (`api.rs:470-472`), and comes
back when the name is used again (attach, detach and role changes work on it too, and give it a
container). Four other places hold the id: `attached_agents` of the volumes, the role
assignments, the access table and `agents.json`. The module composes their handlers with as much of
the registry as moves ids, mounts and containers (`AgentLifecycle` has the rest of it).

| Variable | Code |
|---|---|
| `agents`, `stored`, `world` | `AppState.containers`, `agents.json`, Docker's containers; functions from ids, the order in the vector is `AgentLifecycle`'s business |
| `volumes`, `volumesFile` | `AppState.volumes`, `volumes.json` |
| `assigned` | `TeamRegistry.role_assignments`, in memory only |
| `grants` | the table `agent_assignments` of `chat.db` |
| `writer`, `pc`, `loc` | the write lock of `containers`; where each handler stands and its local copies |
| `cutOff`, `unsaved` | histories: attaches dropped before their save; whether the last save of `volumes.json` failed |
| `deleted`, `missed` | histories: the agents deleted, and those of them still listed when their deletion was answered |
| `granted`, `chats` | histories: who was let in for which agent, and who chatted with which. An agent is told from its namesakes by `self`, the id of its first container, which nothing but the histories reads; a direct agent's is its name, as nothing tells it from those before and after it |

| Action | Handler |
|---|---|
| `CreateVolume`, `UpdateVolume`, `DeleteVolume` | the volume endpoints, one critical section each |
| `AttachMount`, `AttachRecord`, `AttachSave` | `attach_volume_to_agent`, up to the release of `containers` |
| `DetachMount` | `detach_volume_from_agent`, which takes the agent off the volumes it still mounts |
| `RestartRemove`, `RestartCreate`, `Rekey`, `GiveUp` | what both do next with no lock held: remove the container and the record, create and start a new one, enter the new id; then the handler waits for a lock it holds, until its client gives up |
| `AssignRole`, `RoleMount`, `RoleStop`, `RoleStart` | `assign_team_role`, `setup_role_volume` |
| `RemoveRole`, `RoleRemove`, `RoleUnmount`, `RoleRestart` | `remove_team_role`, which reads, then removes |
| `AssignUser`, `UnassignUser`, `Grant`, `Revoke` | the two access endpoints: find the agent, then write the table |
| `OpenChat`, `Upgrade` | `chat_websocket`: find the agent; without a lock, read the table |
| `CreateAgent`, `CreatePush`, `StartAgent`, `DeleteAgent`, `DeleteState`, `Sync`, `ContainerExit`, `ClientHangsUp`, `CrashRestart` | the registry, the reconciler and the environment |

Abstractions: a mount is its source (a managed volume, a host directory, a role's or the agent's own
directory) and its target. `save_volumes` may fail, which it only logs, and leave the file as it was or
with text `load_volumes` takes for no volumes (`SaveVolumes`); a crash inside a save leaves the latter
(`Saving`). The writes of `agents.json` succeed here, each in one step (`AgentLifecycle` has their
parts and failures). Two direct agents of one name at a time are in `AgentLifecycle` only. The locks but that of `containers` are taken and given back within a step
(`StateLocks` shows in which order). Start and the reconciler's pass are one step each, as the lock is
held or, for the listing, as `AgentLifecycle` shows what staleness does.

### `SharedMemory`: the store and the task queue

| Variable | Code |
|---|---|
| `memories`, `lastMemory` | the table and its AUTOINCREMENT counter |
| `tasks`, `heartbeats` | the tables `tasks` and `agent_statuses` |
| `mutex`, `pc`, `loc` | the mutex of each `SharedMemory` value (a handle), the callers inside `pop_task` and the row they selected |
| `now` | the clock in seconds, which is what `datetime('now')` has |
| `handed`, `via` | histories: what each handle handed out since it was last pending, and by which handle it became so |

`StoreMemory`, `DeleteMemory`, `DeleteAgentMemories`, `PushTask`, `UpdateTaskStatus`, `UpdateStatus` and
`CleanupStaleStatuses` are the methods of those names, one SQL statement each. `pop_task` has two,
`PopSelect` and `PopClaim`: it keeps the mutex of its handle between them, but not the file, so that
callers of another handle, or a `Crash`, come in between. `SearchMemories` is the fallback search (the
vss extension is never loaded): all embedded rows of the scope by rowid, sorted by cosine similarity,
truncated; the sort is stable, so it is by `Ranks`, which breaks ties by rowid. The cosine is compared
by its square with its sign, so that integers do: rounding and NaN of `f32` are left out. No handler of the
orchestrator calls the module as yet; it is the store the agents are to share.

### `Conversations`: clients, agents and the history

Six handlers take a message, store it and pass it on: chat, direct chat, team chat, a message between
agents, the proxy, the terminal. One module has their common shape, with an operator of its own
wherever they differ (`OpenChat`, `TakeDirect`, `TeamStored`, ...); a behaviour has one `kind`, as
connections of different kinds share no state.

| Variable | Code |
|---|---|
| `main`, `held` | the handler's loop and the message it is at |
| `forward`, `carried` | the spawned task from agent to client, of a chat and a proxy |
| `clientHere`, `link` | the two sides: whether the client is connected; the connection to the agent, the provider or the shell, up, up but not reading, or closed |
| `fromClient`, `fromAgent`, `sent`, `emitted` | what is under way, and how much each side has sent |
| `aborting` | `abort()` was called while the task was inside an append, which has no await |
| `file`, `torn` | the JSONL file: messages, parts of messages (`Broken` if cut inside a character) and newlines; what a crash or an error left without its newline |
| `reached`, `shown`, `damaged`, `skipped` | histories: delivered to agents and to clients; appends that met an unfinished one; messages an error kept from being written whole |

| Action | Code |
|---|---|
| `Open`, `Connect` | the endpoint up to `on_upgrade`; `connect_to_agent_with_token`, Docker's exec |
| `TakeMessage`, `ClientLeft` | the receiving end of the loop |
| `Store` (`Append1`, `Append2`, `AppendFails`, `NewlineFails`) | `append_conversation_message`: `writeln!` writes the line and its newline separately; the file may not open, the first write may stop after a part, the second may fail; the handler warns and goes on |
| `SendToAgent`, `Collect`, `Reply` | `send_message_to_agent` and the team's answer |
| `Ask`, `Finalize` | the request to the provider with the history read back from the file; its end |
| `ShellPrints`, `ShellExits` | the other half of the terminal's `select!` |
| `TakeEvent`, `StoreEvent`, `SendToClient`, `AgentLeft` | the spawned task |
| `ClientSends`, `ClientGoes`, `AgentEmits`, `AgentGoes`, `Crash` | the two sides and the process |

Abstractions: which agent a team's classification names is free, and so is what a request contains; the
handshake is one step that succeeds or fails (each wait in it has a timeout); a client that is gone
may be noticed at a write or later. A message is told by its role: a client's plain text (`user`), an
OpenClaw request or a text that does not parse as JSON, which a chat forwards unstored (`verbatim`,
`api.rs:2315-2321`), any other JSON, which it drops (`control`); an agent's event, its final event with a
text item, which a chat stores (`agent`), and one without, which it forwards unstored (`mute`,
`api.rs:2163-2178`). `Loaded` is the loader: it skips a line that is not one message, and fails as a whole
on one that is not UTF-8 (`api.rs:2422`), which the direct chat takes for an empty history.

### Runs

| Run | Question | Bounds and why |
|---|---|---|
| `lifecycle_concurrent` | Can interleaved handlers, the reconciler, a prune, a hang-up, an error of the file system or a crash make ids collide, send a chat to the wrong agent or move a vector under a start? | two handlers, two names, three requests, two faults: two creations and a third request that deletes or starts is the least that shifts the vector while another handler is suspended; two faults are a damaged file and the crash that reads it. Docker agents only, as the properties speak of container ids; all three runtimes are in the theorems and in `lifecycle_durable` |
| `lifecycle_durable` | With one handler and the reconciler, is an agent ever missing from a file that parses, or a deleted one in it? | all three runtimes, the operations that write the vector or the file (`import_agent`, which writes no file and makes the run too long, is in the theorems and in `lifecycle_liveness`), three requests; two faults, so that a hang-up or an error of the file system meets a crash or a second error. `create_agent` writes without a lock, so its truncation and write interleave with the reconciler's |
| `lifecycle_liveness` | Do statuses converge to what Docker reports? | every operation, one handler, one fault |
| `lifecycle_ports` | refuted: "Each agent gets a unique port" (`src/PORTS.md:44`) | two concurrent creations |
| `lifecycle_lost_update` | refuted: `upsert_agent` adds the agent to storage (`storage.rs:61`) | two concurrent creations of direct agents |
| `locks_ordered` | Do requests, spawned tasks and the reconciler ever wait for each other in a circle, is any of them overtaken for ever, and are the guards exclusive, hang-ups included? | two connections with three handlers (the one that nests across two locks, a reader of its outer lock, a writer of its inner lock), one spawned task with all its paths, the reconciler: four tasks, so a reader, a queued writer and a nested pair meet on both locks |
| `locks_chat` | refuted: the system answers under concurrent requests (`SECURITY_AUDIT.md:653-658`) | two connections that open chats and create agents |
| `locks_attach` | refuted: volume attachment has no deadlocks (`SECURITY_AUDIT.md:267`) | one handler suffices |
| `workflows` | Are exactly the runnable workflows accepted, does every step have its level, and does every execution end once, with its tasks? | all 86550 workflows of up to three steps (self-dependencies, duplicates and unknown names among them), one registered, two executions: three steps hold cycles of every length up to three, forks, joins and chains listed in every order; two executions show that they do not disturb each other |
| `references` | While ids change under everything that holds them, does a grant ever lead to another agent, does a restart forget a volume or an attachment, does a deleted agent come back? | one name, so that every new agent, with a container or direct, is a namesake of the old one; two handlers, two volumes, three containers, four requests, three faults (a call of Docker, a write of `volumes.json`, an exit, a hang-up, a crash). A deletion that meets a re-keying attach is three requests. Granting, deleting, creating again with a container and chatting would be five: TLC reaches namesakes by creating one agent with a container, granting, creating a direct one and chatting, and by a grant, a detach and a chat; the rest is the theorem's |
| `memory` | Is a task handed out once and in order, does a search return the nearest, do ids of memories come back? | two callers of one handle and one of another, two tasks, three memories with parallel, differing and incomparable vectors, one crash. A behaviour calls the methods of one table, as no method touches two |
| `messaging` | Has anybody seen what the history lacks, is what was stored read back, do answers follow their questions, does what a client left end? | every kind; a chat, a proxy, a team chat and a terminal with two messages and two events, direct chats and messages between agents in pairs that share a file; in a chat one event; one fault: an append that fails before, inside or after its first write, or a crash between any two writes or inside one |

The four refuted statements are the findings of `PROJECT.json`. Two more places were met where a
comment says more than the code does, and no run is spent on them: agents that crashed are to be
marked (`main.rs:109`), but one that is Starting is not (`main.rs:139`, `Reconciled` of both modules);
a step's dependencies are to complete before it (`workflow.rs:49`), but the sequential executor goes
by the order of the vector (`executor.rs:120`, `BeginsWith`). `lifecycle_durable` has one
handler because of `lifecycle_lost_update`: with two in flight the file loses records. `locks_ordered` leaves out
the three handlers of `locks_chat` and `locks_attach`; that they are the only ones is a theorem, below.

Fairness (`Fairness`): the reconciler's loop never ends, so `SyncList` is weakly fair; tokio's
locks are queues, so a task that waits for the lock gets it although others take it again and
again, which is strong fairness of `SyncApply` and of each waiting handler; the parts of an update
of `agents.json` do not wait. Requests and faults are not promised. In `StateLocks` (`FairSpec`) every
step of a task that can run is weakly fair (the executor polls it), and so is the grant to the head
of each queue (a released permit wakes the task it is assigned to); no strong fairness is needed,
because the queues are part of the model. Clients may hang up or not, and requests need not come. In
`Workflows` the tasks of each execution are weakly fair for the same reason.

The liveness properties of these two modules assume that `containers` is granted in the end: `RunningIsNoticed` and
`ExitIsNoticed` to the reconciler (`main.rs:128`) and to a waiting handler, `ExecutionsEnd` to the
read in `execute_step` (`executor.rs:293`). `locks_ordered` shows that it is, for the handlers it has;
`DeadlockFree` shows that of all handlers only three can close a circle. Those three break the assumption: a chat that is being
opened and the reconciler can wait for each other (`locks_chat`), and a successful attach or detach
keeps the lock to itself until its client gives up (`locks_attach`). The liveness properties hold
outside these two reported deadlocks, and while one of them lasts no status converges and no
execution ends. `ExitIsNoticed` moreover speaks of agents shown as Running only: one that is Starting
when its container dies stays so (`main.rs:139`, against the comment at `main.rs:109`).

In `Conversations` the handler (`Serve`) and the spawned task (`Forward`) of each connection are weakly fair, again the executor's promise, and nothing is
asked of clients and agents: they may fall silent, and what they block is what `KeptByAgent` excuses.
`AgentReferences` and `SharedMemory` state no fairness; their properties are safety.

What the properties except is what the code does, and worth knowing:

- `ListedAgentsSurviveRestart`, `StoredAgentsAreListed`: `agents.json` is written in place, so a crash, an
  error or two writes at a time leave text that does not parse; from then on every update fails but the
  Tailscale refresh, which does not read it, and a restart has only what Docker lists. While it parses, an
  agent is missing only if no write was made for it or its write failed, both without an error to the
  client (`unwritten`).
- `GrantsStayWithAgent`: who creates a direct agent under a deleted one's name inherits its users.
- `DeletedStaysDeleted`: `delete_agent` answers 204 for an agent that has a new id by then and stays
  listed (`missed`; also when a start adopted a second container of the agent, so that it was listed twice).
- `VolumesSurviveRestart`: a save that fails is only logged (`unsaved`); a crash inside a save leaves no
  volumes; an attach cut off before its save is forgotten (`cutOff`).
- `StoredIsLoaded`: two appends that meet, or one after an append that an error or a crash cut short, cost
  two messages; one cut inside a character costs the whole history.
- `HistoryBeforeDelivery`: final events without text and texts that do not parse are passed on unstored.
- `AbandonedEnds`: the proxy's second task is detached, not ended.
- `HandedOnce`, `MostUrgentFirst`: two handles can hand out the same task.

### Proofs

`AgentLifecycleProofs` proves, for any sets of names, runtimes and handlers and any bounds, from
the five named assumptions of `AgentLifecycle` (a name is not a number, runtimes are the three
strings, the reconciler is not a handler and nobody is neither, ports are naturals with the last
resort among them, bounds are naturals):

- `TypeCorrect`: `TypeOK`. The invariant that is inductive is `TypeInv`: a handler inside a step
  that reads its agent has one (`LocTyped`), and whoever is in a file step has something to write
  (`TodoTyped`).
- `TargetsStay`: `TargetStays`, from `LockInv`: a task between the lookup and the end of start or
  stop holds the write lock and its agent is in the vector. An action that shortens the vector
  needs the lock free, or resets every task.
- `IdsUnique`: `ContainerIdsUnique`, from `IdInv`. Uniqueness alone is not inductive: an id must
  be known to be *old* before a new one is fresh. So `IdInv` says that every container id held
  anywhere (vector, file, half-written file, list of agents to write, a handler's copy) is one
  `world` already has, that buffers are unique themselves, and that the agent a creation is about
  to push has an id neither the vector nor another creation has. `WorldGrows` keeps the first part.
- `ChatResolves`: `ChatResolvesContainerId`, from `TypeInv`: the index is not needed, because what
  it points at is compared before use.
- `PortAllocated`: `allocate_port` returns one port in range, free if any is.

`AgentDurabilityProofs` proves what the registry keeps over a restart, from the same assumptions and
`OneHandler`: clients call one handler at a time. That hypothesis is the code's limit, not the
prover's: with two handlers in flight a write of `agents.json` is lost, which `lifecycle_lost_update`
shows. The reconciler's saves, which are not under any lock either, the runtimes, hang-ups and crashes
interleave freely.

- `StoredListed`: `StoredAgentsAreListed`, for all operations and faults. Inductive is `StoredInv`: what
  a task has read from the file and is going to write are ids of listed or unwritten agents too, that of
  the agent the write is for only if it is listed, and a truncated or garbled file counts as empty.
- `ListedSurvive`: `ListedAgentsSurviveRestart`, for all operations and faults. Inductive is `ListedInv`:
  each of the buffers on their way to the file covers the vector, or does so together with the agents
  their owner has still to write, but for the unwritten. A write that succeeds makes its agent due again,
  so a buffer has to hold that one although it was unwritten. That the reconciler loads the file while a
  handler is about to save, or the other way round, is why this is said of pairs.
- Both rest on `Turns`, which says who can be in the middle of a write while who else is, and on the
  lemma `Steps`, which puts every step of the specification into one of twelve kinds by what it does to
  the vector, the file, the buffers and the unwritten. `RetainedIds` is what `retain` does to the ids of a
  sequence: it drops one and, by a pigeonhole argument (`EnumerationCovers`), no other.

`StateLocksProofs` proves, for any number of connections and spawned tasks, from the two named
assumptions of `StateLocks` (the three kinds of task are disjoint, the active handlers are handlers):

- `LocksTyped`: `TypeOK`, inductive as it stands, since it says where a waiting task is: once in
  one queue, that of the lock its current step acquires.
- `HandlersNestInOrder`: every path of all handlers but three (`OutOfOrder`: `chat_websocket`,
  attach, detach), of the reconciler and of the spawned tasks acquires only locks ranked above
  those it holds; the rank is `containers` first, everything else after. One lemma per handler.
- `DeadlockFree`: `NoDeadlock`, if no client calls one of the three. In a group of waiting tasks
  take the lock of highest rank someone waits for, and the first of the group in its queue. What
  it waits for in the group is not ahead of it, so holds the lock, so waits for a higher one.
- `GuardsRefine`: `GuardsExclude`, for whatever the clients call. `HoldsAfterStep` says what passing
  one step of a path does to the guards; a step is an acquisition only in `Grant`, which looks at
  all guards in its way, and a release of one task everywhere else.

`WorkflowsLemmas` proves that validation and levels compute what they should, for workflows of any
length; both are recursive functions, a `CHOOSE` until they are known to exist:

- the level of every step: `LevelIs` and what follows it, by induction on the level, and by counting
  that a level of a runnable workflow is empty only when every step is placed;
- the depth-first search: `SearchExists` by induction on the pair of the nodes not yet visited and the
  nodes left at this level, laid out as one number; `VisitRight`, along the same order, says that a call
  that begins legally (what is visited and off the stack reaches no cycle, the stack is a path) ends so,
  and reports a cycle exactly if there is one ahead. Which neighbour comes first is left open, as in
  the code, whose maps have no order;
- `ValidIsRunnable`: so `validate_workflow` accepts exactly the workflows in which every group of steps
  has one that waits for none of the group.

The induction is over the naturals by the library's least-element theorem for well-founded relations
(`WFMin`), applied to the set of counterexamples; it takes no operator as a parameter.

`WorkflowsProofs` proves, for any ids and steps, from the one named assumption of `Workflows`
(`MaxSteps` is a natural number): `WorkflowsTyped` (`TypeOK`), `TasksJoined` (`NoTaskLeftBehind`),
`EndsStay` (`EndedStays`), `OnlyRunnableAccepted` (`RefusedIffNotRunnable`), `LevelsComplete`
(`LevelsInOrder`) and `CompletedComplete` (`CompletedRanAll`). The strengthenings are
`OnlyRunningExecutes` (steps are being executed only for executions in Running, which is what makes
the guard of `Fail` and `Complete` enough), `Validated` (registered is what validation accepted, of
offers that never change) and `Begun` (a running execution none of whose steps has failed is at the
steps it began with, and one that completed had none to begin with).

`SharedMemoryProofs` proves, for any callers, handles and agents and any bounds, from the two named
assumptions of `SharedMemory` (every caller has a handle, nobody is no caller; bounds are naturals and
embeddings sequences of integers): `MemoryTyped` (`TypeOK`), `TasksHandedOnce` (`HandedOnce`), `UrgentFirst`
(`MostUrgentFirst`), `IdsNotReused` (`MemoryIdsNotReused`) and `SearchNearest` (`SearchFindsNearest`).
`HandedOnce` is not inductive: it needs `HandedNotPending`, that no pending task is among those a handle
has handed out, so that what `PopSelect` finds was not. `HandleBusy` says that whoever is inside
`pop_task` keeps other calls off its handle, which is why no push or status report of the same handle
comes between its two statements. The search rests on lemmas about the operators: a dot product is an
integer, and not negative with itself (`DotTyped`, by induction on the length), so the squared cosine is
a quotient with a positive denominator (`CosineTyped`) and "not nearer" a weak order (`NearerOrders`);
with ties broken by row it is a strict total one (`RanksOrders`), in which any finite set of rows can be
sorted (`SortedExists`, by induction on its size). That the wider search is at least as near, hit by
hit, is a pigeonhole argument (`WiderAtLeastAsNear`). The theorem is about exact arithmetic on integer
vectors; `f32` rounds, and with a NaN the code's comparison is no order.

`AgentReferencesProofs` proves, for any names, volumes, roles, users and handlers and any bounds, from
the two named assumptions of `AgentReferences` (bounds are naturals; a volume, role or user is not the
null id, a name is no number, a host path is no volume, nobody is not a handler, operations and faults are the listed ones),
four theorems:

- `ReferencesTyped` (`TypeOK`) and `GrantsStay` (`GrantsStayWithAgent`). A row of the access table says
  nothing of whom it was written for, so the invariant is an existential one: there is a naming `S` of
  the ids used so far such that every place that pairs an id with an agent (the vector, `agents.json`,
  Docker, what a handler copied before it let go of the lock) agrees with it, and every row is a grant
  for the agent `S` names. A container that replaces another one extends `S` by its own new id
  (`Extend`) and changes it nowhere, which is why a row left behind never comes to mean another agent.
  `Held` keeps the agent of an attach or a role change listed while the handler has the write lock. A
  name that is an id is named by itself: of a direct agent the theorem says what the code gives, that its
  users were let in for an agent of its name.
- `DeletedStays` (`DeletedStaysDeleted`), inductive with the naming: no step but a creation enters an agent
  that was not listed before it (`SelvesKept`), because `Rekey` finds the agent it enters under the lock
  it enters it with.
- `VolumesSurvive` (`VolumesSurviveRestart`), which is inductive once the entries have their shape
  (`Saved`): every step either makes the file what the memory is or fails to and says so (`unsaved`),
  leaves both alone, belongs to an attach that is before its save, or reads the file at startup.

`ConversationsProofs` proves, for any connections, messages and bounds, from the two named
assumptions of `Conversations` (each kind has its clients among the connections; bounds are naturals): `ConversationsTyped` (`TypeOK`), `StoredMessagesLoad` (`StoredIsLoaded`), `HistoryFirst`
(`HistoryBeforeDelivery`) and `QuestionsFirst` (`AnswersFollowQuestions`), from one invariant. Its parts are
what each of the two tasks of a connection has in hand at each of its steps (`MainOK`, `ForwardOK`: what
is sent on in a chat, if it is a plain text or an answer, or asked of a provider is recorded, an answer
about to be stored has its question recorded, where recorded means in the file or kept out of it by an
error), what the file looks like line by line
(`Lines`, `OpenEnd`: a line that met no other stands between newlines; a last line without one is
somebody's who is about to write it, or was torn by an error or a crash), and what has been delivered (`Told`).

Only model-checked: the liveness properties (`RunningIsNoticed`, `ExitIsNoticed`, `EveryRequestEnds`,
`ExecutionsEnd`, `AbandonedEnds`), which are out of the prover's reach. Every safety invariant and action
property a passing run checks is a theorem, `NoDeadlock` and the two of `lifecycle_durable` under the
hypotheses their runs share.

## 3. Plan

1. More proofs: an abstract task queue that `SharedMemory` refines handle by handle; what a restart
   keeps when several handlers write, once `agents.json` is written under a lock.
2. The rest of the registry's operations (snapshots, sessions) as directory state machines.
3. The inference process (two starts, a start that fails its health check, a stop).
4. `AgentRpc`, once a handler uses it: requests, pending map, listener and connection mutex.
5. A workflow's later levels, once `prepare_task` is written.

## 4. Not modelled, and why

`rpc.rs` is constructed and never called (`main.rs:413`). Reading it shows what a module would have to
deal with: the listener keeps the connection's mutex for its lifetime (line 141), so that senders
wait; the request is sent before it is entered as pending (lines 60 and 210), so that an early answer
is dropped; a dead connection is never removed. The inference process is started and stopped in steps
two requests can interleave (`inference.rs:35-77`). Snapshots, sessions, secrets and orchestrations are
files written by one request each; sessions and orchestrations are declared in a line that is not
valid Rust (`main.rs:24`) and used by no handler.

Parsing, validation of strings, templates and configuration have no protocol; passwords and tokens are
sequential look-ups; `containment.rs` and the AndOR client wrap external services; `code_index.rs` is not
compiled in; the user interfaces keep no state the orchestrator depends on; the example agents are
programs that run inside containers. The runtime daemon and the inference server are crates of their
own that the orchestrator reaches over HTTP or as a process.
