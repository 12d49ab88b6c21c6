----------------------------- MODULE StateLocks -----------------------------
(***************************************************************************)
(* The RwLocks of AppState (main.rs:44-69, teams.rs:60-65, inference.rs:15)*)
(* and the order in which every request handler, and the reconciler, takes *)
(* them.                                                                   *)
(*                                                                         *)
(* tokio's RwLock is fair: a request waits behind every earlier request of *)
(* the same lock, so a reader waits behind a queued writer although the    *)
(* lock is only read-held.  Nothing bounds such a wait; what keeps the     *)
(* orchestrator alive is only the order in which its handlers nest guards. *)
(*                                                                         *)
(* A handler is the set of its paths: what it locks and unlocks from its   *)
(* first await to its return, one path for each way through its branches.  *)
(* The data behind the locks is left to AgentLifecycle.                    *)
(***************************************************************************)
EXTENDS Naturals, Sequences

CONSTANTS
    Clients,        \* connections, each with at most one request in flight
    Spawned,        \* tasks handlers leave behind: workflow runs, open chats
    Reconciler,     \* the background task main() spawns
    Active          \* the handlers the clients call

Tasks == Clients \cup Spawned \cup {Reconciler}

Locks == {"containers", "agent_index", "api_keys", "volumes",
          "auth", "teams", "role_assignments", "workflows", "inference"}

Reading(l) == [op |-> "read", lock |-> l]       \* l.read().await
Writing(l) == [op |-> "write", lock |-> l]      \* l.write().await
Dropping(l) == [op |-> "drop", lock |-> l]      \* drop(guard), end of its scope

Steps == [op : {"read", "write", "drop"}, lock : Locks]

-----------------------------------------------------------------------------
(* The handlers.  A guard that no path drops goes when the handler returns. *)

\* list_agents, get_agent, exec_agent, start_all, stop_all, get_logs, ...
ReadAgentsPaths == {<<Reading("containers")>>}

\* runtime_status counts the agents twice.
RuntimeStatusPaths ==
    {<<Reading("containers"), Dropping("containers"), Reading("containers")>>}

\* update_agent, stop_agent, import_agent, update_agent_tailscale_ip
WriteAgentsPaths == {<<Writing("containers")>>}

CreateAgentPaths ==
    {<<Reading("containers"), Dropping("containers"),
       Reading("api_keys"), Dropping("api_keys")>>,
     <<Reading("containers"), Dropping("containers"),
       Reading("api_keys"), Dropping("api_keys"),
       Writing("containers"), Writing("agent_index"),
       Dropping("agent_index"), Dropping("containers")>>}

StartAgentPaths ==
    {<<Writing("containers")>>,
     <<Writing("containers"), Reading("api_keys"), Dropping("api_keys")>>}

DeleteAgentPaths ==
    {<<Reading("containers"), Dropping("containers")>>,
     <<Reading("containers"), Dropping("containers"), Writing("containers")>>}

HealthCheckPaths ==
    {<<Reading("containers"), Dropping("containers")>>,
     <<Reading("containers"), Dropping("containers"), Writing("containers")>>}

\* discover_tailscale_ips; the loop runs once for each agent whose container
\* logged an address, a further pass locks and unlocks the same again.
DiscoverPaths ==
    {<<Reading("containers"), Dropping("containers")>>,
     <<Reading("containers"), Dropping("containers"),
       Writing("containers"), Dropping("containers")>>}

\* logs_websocket, terminal_websocket and the user assignments of an agent
StreamPaths ==
    {<<Reading("auth")>>,
     <<Reading("auth"), Dropping("auth"), Reading("containers"), Dropping("containers")>>}

ChatPaths ==
    {<<Reading("auth")>>,
     <<Reading("auth"), Dropping("auth"),
       Reading("agent_index"), Reading("containers"),
       Dropping("containers"), Dropping("agent_index")>>}

\* wrong: the keys stay locked while the agent is looked up
DirectChatKeysFirst ==
    {<<Reading("api_keys"), Reading("containers"), Dropping("containers")>>}

\* handle_direct_chat, once the connection is a WebSocket; the first path is
\* that of handle_chat_stream and handle_websocket_proxy as well
DirectChatPaths ==
    {<<Reading("containers"), Dropping("containers")>>,
     <<Reading("containers"), Dropping("containers"),
       Reading("api_keys"), Dropping("api_keys")>>}

ListKeysPaths == {<<Reading("api_keys")>>}

\* set_api_key and delete_api_key
ChangeKeysPaths == {<<Writing("api_keys")>>}

\* list_volumes, get_volume
ReadVolumesPaths == {<<Reading("volumes")>>}

\* create_volume, update_volume, delete_volume
ChangeVolumesPaths == {<<Writing("volumes")>>}

\* The container is made anew with no lock held; then the agent's new id is
\* entered, and the agent is read back while the write guard is still alive.
ReenterPaths(before) ==
    {before,
     before \o <<Writing("containers"), Reading("containers")>>,
     before \o <<Writing("containers"), Writing("agent_index"),
                 Dropping("agent_index"), Reading("containers")>>}

AttachPaths ==
    LET find == <<Writing("containers"), Reading("volumes")>>
        note == <<Dropping("volumes"), Writing("volumes"), Dropping("volumes")>>
        save == <<Reading("volumes"), Dropping("volumes")>>
    IN {<<Writing("containers")>>, find}
         \cup ReenterPaths(find \o note \o save \o save \o <<Dropping("containers")>>)

\* The loop runs once for each mount that stays; here at most one stays, as
\* a further pass locks and unlocks the same again.
DetachPaths ==
    LET look == <<Reading("volumes"), Dropping("volumes")>>
        pass == {<<>>, look, look \o <<Writing("volumes"), Dropping("volumes")>>}
    IN {<<Writing("containers")>>}
         \cup UNION {ReenterPaths(<<Writing("containers")>> \o m \o <<Dropping("containers")>>)
                      : m \in pass}

\* login, refresh, auth_status, me, user_login, user_register
ReadAuthPaths == {<<Reading("auth")>>}

RegisterPaths == {<<Writing("auth")>>}

ListTeamsPaths == {<<Reading("teams")>>}

TeamChatPaths ==
    {<<Reading("auth")>>,
     <<Reading("auth"), Dropping("auth"), Reading("teams"), Dropping("teams")>>}

\* handle_team_chat_stream, for one message
TeamMessagePaths ==
    {<<Reading("teams"), Dropping("teams")>>,
     <<Reading("teams"), Dropping("teams"), Reading("containers"), Dropping("containers")>>}

\* TeamRegistry::assign_role, then setup_role_volume
AssignRolePaths ==
    {<<Reading("teams")>>,
     <<Reading("teams"), Dropping("teams"), Reading("teams")>>,
     <<Reading("teams"), Dropping("teams"), Reading("teams"), Dropping("teams"),
       Writing("role_assignments"), Dropping("role_assignments"),
       Reading("teams"), Dropping("teams")>>,
     <<Reading("teams"), Dropping("teams"), Reading("teams"), Dropping("teams"),
       Writing("role_assignments"), Dropping("role_assignments"),
       Reading("teams"), Dropping("teams"), Writing("containers")>>}

RemoveRolePaths ==
    {<<Reading("role_assignments")>>,
     <<Reading("role_assignments"), Dropping("role_assignments"),
       Writing("role_assignments"), Dropping("role_assignments"),
       Writing("containers")>>}

\* resolve_team_role; the first path is that of get_team_role, list_team_roles
ResolveRolePaths ==
    {<<Reading("role_assignments"), Dropping("role_assignments")>>,
     <<Reading("role_assignments"), Dropping("role_assignments"), Reading("teams")>>}

\* create_workflow, execute_workflow
WriteWorkflowsPaths == {<<Writing("workflows")>>}

ReadWorkflowsPaths == {<<Reading("workflows")>>}

\* The process is spawned with no lock held, then waited for.
StartInferencePaths ==
    {<<Reading("inference")>>,
     <<Reading("inference"), Dropping("inference"),
       Writing("inference"), Dropping("inference")>>}

\* The guard is kept while the process is killed.
StopInferencePaths == {<<Writing("inference")>>}

\* The task execute_workflow spawns: Running, the agent of a step, Failed.
RunWorkflowPaths ==
    {<<Writing("workflows"), Dropping("workflows"), Writing("workflows")>>,
     <<Writing("workflows"), Dropping("workflows"),
       Reading("containers"), Dropping("containers"), Writing("workflows")>>}

SyncPaths ==
    {<<Writing("containers")>>,
     <<Writing("containers"), Writing("agent_index"), Dropping("agent_index")>>}

LockPaths ==
    [read_agents       |-> ReadAgentsPaths,
     runtime_status    |-> RuntimeStatusPaths,
     write_agents      |-> WriteAgentsPaths,
     create_agent      |-> CreateAgentPaths,
     start_agent       |-> StartAgentPaths,
     delete_agent      |-> DeleteAgentPaths,
     run_health_check  |-> HealthCheckPaths,
     discover          |-> DiscoverPaths,
     stream            |-> StreamPaths,
     chat_websocket    |-> ChatPaths,
     list_api_keys     |-> ListKeysPaths,
     change_api_keys   |-> ChangeKeysPaths,
     read_volumes      |-> ReadVolumesPaths,
     change_volumes    |-> ChangeVolumesPaths,
     attach_volume     |-> AttachPaths,
     detach_volume     |-> DetachPaths,
     read_auth         |-> ReadAuthPaths,
     register          |-> RegisterPaths,
     list_teams        |-> ListTeamsPaths,
     team_chat         |-> TeamChatPaths,
     assign_team_role  |-> AssignRolePaths,
     remove_team_role  |-> RemoveRolePaths,
     resolve_team_role |-> ResolveRolePaths,
     inference_start   |-> StartInferencePaths,
     inference_stop    |-> StopInferencePaths,
     write_workflows   |-> WriteWorkflowsPaths,
     read_workflows    |-> ReadWorkflowsPaths]

ASSUME TasksDiffer ==
    /\ Reconciler \notin Clients \cup Spawned
    /\ Clients \cap Spawned = {}
ASSUME ActiveAreHandlers == Active \subseteq DOMAIN LockPaths

\* The paths of what task t may be asked to do.
Serves(t) ==
    IF t = Reconciler THEN SyncPaths
    ELSE IF t \in Spawned THEN DirectChatPaths \cup TeamMessagePaths \cup RunWorkflowPaths
    ELSE UNION {LockPaths[h] : h \in Active}

-----------------------------------------------------------------------------
VARIABLES
    path,       \* path[t]: the path t follows, <<>> while it has nothing to do
    pc,         \* pc[t]: the step of it t is at; behind the last one it returns
    queue       \* queue[l]: the tasks awaiting l, in the order they asked

vars == <<path, pc, queue>>

Busy(t) == path[t] # <<>>
AtStep(t) == pc[t] \in DOMAIN path[t]
Current(t) == path[t][pc[t]]

\* The guard that step s acquired is alive before step k of path p.
HoldsAt(p, k, s) ==
    \E a \in 1 .. k - 1 :
        /\ p[a] = s
        /\ \A d \in a + 1 .. k - 1 : p[d] # Dropping(s.lock)

Holds(t, s) == HoldsAt(path[t], pc[t], s)

\* wrong: a writer does not wait for the readers
BlocksWriters(u, s) == Holds(u, Writing(s.lock))

\* A guard of u stands against the acquisition s.
Blocks(u, s) ==
    \/ Holds(u, Writing(s.lock))
    \/ s.op = "write" /\ Holds(u, Reading(s.lock))

\* The queue s when t, which is in it at most once, has left it.
Without(s, t) ==
    IF \E i \in DOMAIN s : s[i] = t
    THEN LET i == CHOOSE i \in DOMAIN s : s[i] = t
         IN [j \in 1 .. Len(s) - 1 |-> IF j < i THEN s[j] ELSE s[j + 1]]
    ELSE s

Waiting(t) == \E l \in Locks : \E i \in DOMAIN queue[l] : queue[l][i] = t

-----------------------------------------------------------------------------
Init ==
    /\ path = [t \in Tasks |-> <<>>]
    /\ pc = [t \in Tasks |-> 1]
    /\ queue = [l \in Locks |-> <<>>]

\* A request arrives, or the reconciler's interval ticks.
Arrive(t) ==
    /\ ~Busy(t)
    /\ \E p \in Serves(t) : path' = [path EXCEPT ![t] = p]
    /\ UNCHANGED <<pc, queue>>

\* The task calls read() or write() and is queued.
Ask(t) ==
    /\ AtStep(t)
    /\ Current(t).op # "drop"
    /\ ~Waiting(t)
    /\ queue' = [queue EXCEPT ![Current(t).lock] = Append(@, t)]
    /\ UNCHANGED <<path, pc>>

\* wrong: a reader overtakes the writers queued before it
GrantableToReaders(l, i) ==
    /\ i = 1 \/ Current(queue[l][i]).op = "read"
    /\ \A u \in Tasks : ~Blocks(u, Current(queue[l][i]))

\* Only the head of the queue is served, once no guard stands against it.
Grantable(l, i) ==
    /\ i = 1
    /\ \A u \in Tasks : ~Blocks(u, Current(queue[l][i]))

Grant(l) ==
    \E i \in DOMAIN queue[l] :
        /\ Grantable(l, i)
        /\ pc' = [pc EXCEPT ![queue[l][i]] = @ + 1]
        /\ queue' = [queue EXCEPT ![l] = Without(@, queue[l][i])]
        /\ UNCHANGED path

DropGuard(t) ==
    /\ AtStep(t)
    /\ Current(t).op = "drop"
    /\ pc' = [pc EXCEPT ![t] = @ + 1]
    /\ UNCHANGED <<path, queue>>

Ended(t) ==
    /\ path' = [path EXCEPT ![t] = <<>>]
    /\ pc' = [pc EXCEPT ![t] = 1]

Return(t) ==
    /\ Busy(t)
    /\ ~AtStep(t)
    /\ Ended(t)
    /\ UNCHANGED queue

\* wrong: the task stays queued
HangUpQueued(t) ==
    /\ t \in Clients
    /\ Busy(t)
    /\ Ended(t)
    /\ UNCHANGED queue

\* The connection closes and the handler's future is dropped where it is: its
\* guards are released and it leaves the queue.
HangUp(t) ==
    /\ t \in Clients
    /\ Busy(t)
    /\ Ended(t)
    /\ queue' = [l \in Locks |-> Without(queue[l], t)]

TaskStep(t) == Ask(t) \/ DropGuard(t) \/ Return(t)

Next ==
    \/ \E t \in Tasks : Arrive(t) \/ TaskStep(t) \/ HangUp(t)
    \/ \E l \in Locks : Grant(l)

Spec == Init /\ [][Next]_vars

\* The executor polls every task that can run, and a released permit wakes the
\* task it is assigned to.  Requests need not arrive.
FairSpec ==
    /\ Spec
    /\ \A t \in Tasks : WF_vars(TaskStep(t))
    /\ \A l \in Locks : WF_vars(Grant(l))

-----------------------------------------------------------------------------
\* The types, and that a task waits in one queue at most, once, and only for
\* the lock its current step acquires.
TypeOK ==
    /\ path \in [Tasks -> {<<>>} \cup UNION {Serves(t) : t \in Tasks}]
    /\ pc \in [Tasks -> Nat \ {0}]
    /\ queue \in [Locks -> Seq(Tasks)]
    /\ \A t \in Tasks : ~Busy(t) => pc[t] = 1
    /\ \A l \in Locks : \A i \in DOMAIN queue[l] :
         LET t == queue[l][i] IN
         /\ AtStep(t)
         /\ Current(t).op # "drop"
         /\ Current(t).lock = l
         /\ \A j \in DOMAIN queue[l] : queue[l][j] = t => i = j

\* Whom the task at place i of the queue of l waits for: everyone ahead of it
\* and everyone with a guard that stands against it, itself included.
Blockers(l, i) ==
    {queue[l][j] : j \in 1 .. i - 1}
        \cup {u \in Tasks : Blocks(u, Current(queue[l][i]))}

\* No group of tasks waits for each other (a group of one: a task for its own
\* guard), which only a hang-up could resolve and for tasks of the
\* orchestrator nothing could.  At stake in the nested guards of create_agent,
\* start_agent, the reconciler, chat_websocket and the volume handlers.
NoDeadlock ==
    \A S \in (SUBSET Tasks) \ {{}} :
        ~ \A t \in S : \E l \in Locks : \E i \in DOMAIN queue[l] :
              queue[l][i] = t /\ Blockers(l, i) \cap S # {}

\* Every request, every tick of the reconciler and every spawned task gets
\* through its locks, however many others keep coming: the FIFO queues leave
\* no writer behind a stream of readers.
EveryRequestEnds ==
    \A t \in Tasks : Busy(t) ~> ~Busy(t)

\* The guards alive in the suspended handlers are, for every lock, those of a
\* readers-writer lock: a writer is alone, and no step, not even a hang-up in
\* the middle of a handler, touches the guards of a second task.
AppState == INSTANCE ReadersWriterLocks WITH
    readers <- [l \in Locks |-> {t \in Tasks : Holds(t, Reading(l))}],
    writers <- [l \in Locks |-> {t \in Tasks : Holds(t, Writing(l))}]

GuardsExclude == AppState!Spec

=============================================================================
