---------------------------- MODULE SharedMemory ----------------------------
(***************************************************************************)
(* The SQLite store that agents share (shared_memory.rs): memories that    *)
(* are searched by similarity, a task queue and agent statuses.            *)
(*                                                                         *)
(* A SharedMemory value is one connection behind a mutex; every method     *)
(* takes the mutex and gives it back when it returns.  Several values may  *)
(* be open on the one file, in one process or in several: between the two  *)
(* statements of pop_task a caller of another value may change the file.   *)
(* Every method but pop_task writes with one statement, which SQLite makes *)
(* atomic; that is a single step here.                                     *)
(*                                                                         *)
(* The vss extension is never loaded (load_vss_extension only has error    *)
(* paths), so search is the fallback.                                      *)
(***************************************************************************)
EXTENDS Integers, Sequences, FiniteSets, SequencesExt

CONSTANTS
    Callers,      \* threads that call the store
    Handles,      \* SharedMemory values open on the file
    HandleOf,     \* the one each caller uses
    Agents,
    Orgs,         \* organisations memories are stored under
    AllOrgs,      \* ORG_ALL, which searches everything
    Anyone,       \* to_agent NULL; pop_task and list_tasks for no agent
    NoCaller,
    Embeddings,   \* vectors, and Unembedded for a memory without one
    Unembedded,
    Priorities,
    MaxMemories, MaxTasks,  \* bounds: rows ever inserted
    Mixes,        \* the sets of operations the clients may confine themselves to
    MaxTime,      \* bound: seconds on the clock
    MaxRequests,  \* bound: calls
    MaxCrashes

ASSUME HandlesAssumption ==
    /\ HandleOf \in [Callers -> Handles]
    /\ NoCaller \notin Callers /\ Anyone \notin Agents
ASSUME MemoryBoundsAssumption ==
    /\ MaxMemories \in Nat /\ MaxTasks \in Nat /\ MaxTime \in Nat
    /\ MaxRequests \in Nat /\ MaxCrashes \in Nat
    /\ Mixes \subseteq SUBSET {"memories", "tasks", "statuses"}
    /\ Priorities \subseteq Int
    /\ Embeddings \subseteq Seq(Int)

VARIABLES
    memories,     \* table memories: id -> org, agent, embedding
    lastMemory,   \* the largest id it ever had (AUTOINCREMENT)
    tasks,        \* table tasks: id -> to, priority, status, created
    heartbeats,   \* table agent_statuses: agent -> last_heartbeat
    mutex,        \* who holds the mutex of each handle
    pc, loc,      \* the callers inside pop_task, and what they selected
    ops,          \* the operations clients call in this behaviour
    now,          \* the clock, in seconds as datetime('now') has it
    requests, crashes,
    handed,       \* history: (task, handle) handed out since last pending
    via           \* history: the handle each task last became pending by

tables == <<memories, lastMemory, tasks, heartbeats>>
queueHistory == <<handed, via>>
calls  == <<mutex, pc, loc>>
vars   == <<memories, lastMemory, tasks, heartbeats, mutex, pc, loc, ops,
            now, requests, crashes, handed, via>>

TaskStatuses == {"pending", "claimed", "in_progress", "completed", "failed", "cancelled"}
Nobody == [task |-> 0, agent |-> Anyone]

Put(f, k, v) == [x \in DOMAIN f \cup {k} |-> IF x = k THEN v ELSE f[x]]
Without(f, S) == [x \in DOMAIN f \ S |-> f[x]]

(* A call gets the mutex of its handle.  The tables have nothing else in   *)
(* common, so a run need not mix the operations of all three.              *)
Call(p, op) ==
    /\ op \in ops
    /\ pc[p] = "idle"
    /\ mutex[HandleOf[p]] = NoCaller
    /\ requests > 0
    /\ requests' = requests - 1
    /\ UNCHANGED <<ops, now, crashes>>

OneStatement(p, op) == Call(p, op) /\ UNCHANGED calls

-----------------------------------------------------------------------------
(* Memories.                                                               *)

(* A wrong version: without AUTOINCREMENT, one more than the largest row.  *)
NextMemoryByRow ==
    CHOOSE i \in 1 .. MaxMemories + 1 :
        /\ \A m \in DOMAIN memories : m < i
        /\ i = 1 \/ i - 1 \in DOMAIN memories
NextMemory == lastMemory + 1

StoreMemory(p) ==
    /\ OneStatement(p, "memories")
    /\ NextMemory <= MaxMemories
    /\ \E o \in Orgs, a \in Agents, e \in Embeddings \cup {Unembedded} :
          memories' = Put(memories, NextMemory, [org |-> o, agent |-> a, embedding |-> e])
    /\ lastMemory' = IF NextMemory > lastMemory THEN NextMemory ELSE lastMemory
    /\ UNCHANGED <<tasks, heartbeats, queueHistory>>

DeleteMemory(p) ==
    /\ OneStatement(p, "memories")
    /\ \E m \in DOMAIN memories : memories' = Without(memories, {m})
    /\ UNCHANGED <<lastMemory, tasks, heartbeats, queueHistory>>

(* Here ORG_ALL is an organisation like any other.                         *)
DeleteAgentMemories(p) ==
    /\ OneStatement(p, "memories")
    /\ \E o \in Orgs \cup {AllOrgs}, a \in Agents :
          memories' = Without(memories, {m \in DOMAIN memories :
                          memories[m].org = o /\ memories[m].agent = a})
    /\ UNCHANGED <<lastMemory, tasks, heartbeats, queueHistory>>

Dot(x, y) ==
    LET sum[i \in 0 .. Len(x)] == IF i = 0 THEN 0 ELSE sum[i - 1] + x[i] * y[i]
    IN sum[Len(x)]

(* cosine_similarity is 0 for vectors of different length or without a     *)
(* direction; otherwise it is compared by its square, with its sign.       *)
Comparable(q, e) == Len(q) = Len(e) /\ Dot(q, q) # 0 /\ Dot(e, e) # 0
Cosine(q, e) ==
    IF ~Comparable(q, e) THEN [over |-> 0, under |-> 1]
    ELSE LET d == Dot(q, e)
         IN [over |-> IF d < 0 THEN -(d * d) ELSE d * d, under |-> Dot(q, q) * Dot(e, e)]
Closer(q, e, f) == Cosine(q, e).over * Cosine(q, f).under > Cosine(q, f).over * Cosine(q, e).under

InScope(org) == {m \in DOMAIN memories : org = AllOrgs \/ memories[m].org = org}
Embedded(S) == {m \in S : memories[m].embedding # Unembedded}

(* The rows come by rowid and are sorted by similarity, stably: there is   *)
(* one such order.                                                         *)
Ranks(q, m, n) ==
    \/ Closer(q, memories[m].embedding, memories[n].embedding)
    \/ /\ ~Closer(q, memories[n].embedding, memories[m].embedding)
       /\ m < n
Sorted(S, q) ==
    CHOOSE s \in [1 .. Cardinality(S) -> S] :
        \A i, j \in DOMAIN s : i < j => Ranks(q, s[i], s[j])
Truncated(s, limit) == SubSeq(s, 1, IF limit < Len(s) THEN limit ELSE Len(s))

(* A wrong version: truncated before it is sorted.                         *)
SearchFirstRows(org, q, limit) ==
    LET rows == Embedded(InScope(org))
        Earlier(m) == {n \in rows : n < m}
    IN Sorted({m \in rows : Cardinality(Earlier(m)) < limit}, q)
SearchMemories(org, q, limit) == Truncated(Sorted(Embedded(InScope(org)), q), limit)

-----------------------------------------------------------------------------
(* The task queue.                                                         *)

PushTask(p) ==
    /\ OneStatement(p, "tasks")
    /\ Cardinality(DOMAIN tasks) < MaxTasks
    /\ LET t == Cardinality(DOMAIN tasks) + 1
       IN /\ \E to \in Agents \cup {Anyone}, priority \in Priorities :
                tasks' = Put(tasks, t, [to |-> to, priority |-> priority,
                                        status |-> "pending", created |-> now])
          /\ via' = Put(via, t, HandleOf[p])
    /\ UNCHANGED <<memories, lastMemory, heartbeats, handed>>

(* ORDER BY priority DESC, created_at ASC: tasks of one second are tied.   *)
Before(t, u) ==
    \/ tasks[t].priority > tasks[u].priority
    \/ tasks[t].priority = tasks[u].priority /\ tasks[t].created < tasks[u].created

WaitingFor(a) ==
    {t \in DOMAIN tasks : tasks[t].status = "pending"
                          /\ (a = Anyone \/ tasks[t].to \in {Anyone, a})}

(* A wrong version: the oldest task whatever its priority.                 *)
FirstPushed(S) == {t \in S : \A u \in S : tasks[t].created <= tasks[u].created}
First(S) == {t \in S : \A u \in S : ~Before(u, t)}

(* A wrong version: the guard dropped after the first statement.           *)
PopSelectUnlocked(p) ==
    /\ Call(p, "tasks")
    /\ \E a \in Agents \cup {Anyone} : \E t \in First(WaitingFor(a)) :
          loc' = [loc EXCEPT ![p] = [task |-> t, agent |-> a]]
    /\ pc' = [pc EXCEPT ![p] = "claim"]
    /\ UNCHANGED <<tables, queueHistory, mutex>>

(* pop_task selects with one statement; it keeps the mutex, and the file   *)
(* is not locked.  Without a waiting task it returns None.                 *)
PopSelect(p) ==
    /\ Call(p, "tasks")
    /\ \E a \in Agents \cup {Anyone} : \E t \in First(WaitingFor(a)) :
          loc' = [loc EXCEPT ![p] = [task |-> t, agent |-> a]]
    /\ pc' = [pc EXCEPT ![p] = "claim"]
    /\ mutex' = [mutex EXCEPT ![HandleOf[p]] = p]
    /\ UNCHANGED <<tables, queueHistory>>

(* The second statement updates the row whatever its status is by now.     *)
PopClaim(p) ==
    /\ pc[p] = "claim"
    /\ tasks' = [tasks EXCEPT ![loc[p].task].status = "claimed"]
    /\ handed' = handed \cup {<<loc[p].task, HandleOf[p]>>}
    /\ mutex' = [mutex EXCEPT ![HandleOf[p]] = NoCaller]
    /\ pc' = [pc EXCEPT ![p] = "idle"]
    /\ loc' = [loc EXCEPT ![p] = Nobody]
    /\ UNCHANGED <<memories, lastMemory, heartbeats, ops, now, requests, crashes, via>>

(* A wrong version: an unknown id is inserted.                             *)
UpdateTaskStatusUpsert(p) ==
    /\ OneStatement(p, "tasks")
    /\ \E t \in 1 .. MaxTasks, status \in TaskStatuses :
          tasks' = Put(tasks, t, [to |-> Anyone, priority |-> 0, status |-> status,
                                  created |-> now])
    /\ UNCHANGED <<memories, lastMemory, heartbeats, queueHistory>>

(* update_task_status: from any status to any other.                       *)
UpdateTaskStatus(p) ==
    /\ OneStatement(p, "tasks")
    /\ \E t \in DOMAIN tasks, status \in TaskStatuses :
          /\ tasks' = [tasks EXCEPT ![t].status = status]
          /\ IF status = "pending"
             THEN /\ handed' = {h \in handed : h[1] # t}
                  /\ via' = [via EXCEPT ![t] = HandleOf[p]]
             ELSE UNCHANGED queueHistory
    /\ UNCHANGED <<memories, lastMemory, heartbeats>>

-----------------------------------------------------------------------------
(* Agent statuses.                                                         *)

UpdateStatus(p) ==
    /\ OneStatement(p, "statuses")
    /\ \E a \in Agents : heartbeats' = Put(heartbeats, a, now)
    /\ UNCHANGED <<memories, lastMemory, tasks, queueHistory>>

CleanupStaleStatuses(p) ==
    /\ OneStatement(p, "statuses")
    /\ \E age \in 0 .. MaxTime :
          heartbeats' = Without(heartbeats, {a \in DOMAIN heartbeats :
                                                heartbeats[a] < now - age})
    /\ UNCHANGED <<memories, lastMemory, tasks, queueHistory>>

-----------------------------------------------------------------------------
Tick ==
    /\ now < MaxTime
    /\ now' = now + 1
    /\ UNCHANGED <<tables, calls, ops, requests, crashes, queueHistory>>

(* The process of a handle dies and opens the file again: the schema is    *)
(* there already, and a task selected but not claimed is still pending.    *)
Crash ==
    /\ crashes > 0
    /\ crashes' = crashes - 1
    /\ \E h \in Handles :
          /\ pc' = [p \in Callers |-> IF HandleOf[p] = h THEN "idle" ELSE pc[p]]
          /\ loc' = [p \in Callers |-> IF HandleOf[p] = h THEN Nobody ELSE loc[p]]
          /\ mutex' = [mutex EXCEPT ![h] = NoCaller]
    /\ UNCHANGED <<tables, ops, now, requests, queueHistory>>

Init ==
    /\ memories = <<>> /\ lastMemory = 0 /\ tasks = <<>> /\ heartbeats = <<>>
    /\ mutex = [h \in Handles |-> NoCaller]
    /\ pc = [p \in Callers |-> "idle"]
    /\ loc = [p \in Callers |-> Nobody]
    /\ ops \in Mixes
    /\ now = 0 /\ requests = MaxRequests /\ crashes = MaxCrashes
    /\ handed = {} /\ via = <<>>

Next ==
    \/ \E p \in Callers :
          \/ StoreMemory(p) \/ DeleteMemory(p) \/ DeleteAgentMemories(p)
          \/ PushTask(p) \/ PopSelect(p) \/ PopClaim(p) \/ UpdateTaskStatus(p)
          \/ UpdateStatus(p) \/ CleanupStaleStatuses(p)
    \/ Tick \/ Crash

Spec == Init /\ [][Next]_vars

-----------------------------------------------------------------------------
(* Every variable has its type; tasks have the ids of AUTOINCREMENT; the   *)
(* mutex of a handle is held by the one caller inside pop_task.            *)
TypeOK ==
    /\ \A m \in DOMAIN memories : m \in 1 .. lastMemory
    /\ lastMemory \in 0 .. MaxMemories
    /\ DOMAIN tasks = 1 .. Cardinality(DOMAIN tasks)
    /\ \A t \in DOMAIN tasks : tasks[t].status \in TaskStatuses
    /\ DOMAIN via = DOMAIN tasks
    /\ DOMAIN heartbeats \subseteq Agents
    /\ handed \subseteq (DOMAIN tasks) \X Handles
    /\ pc \in [Callers -> {"idle", "claim"}]
    /\ \A p \in Callers : pc[p] = "claim" <=> mutex[HandleOf[p]] = p
    /\ \A p \in Callers : pc[p] = "claim" => loc[p].task \in DOMAIN tasks

(* pop_task selects a pending task and claims it with a second statement   *)
(* that does not look at the status again.  A handle nevertheless hands a  *)
(* task to one of its callers only, until somebody makes it pending again, *)
(* however often other handles hand it out or change it in between.        *)
HandedOnce ==
    \A p \in Callers :
        pc[p] = "claim" => <<loc[p].task, HandleOf[p]>> \notin handed

(* When a caller gets its task, no more urgent one it could have had is    *)
(* waiting, unless another handle entered it or made it pending again.     *)
MostUrgentFirst ==
    \A p \in Callers :
        pc[p] = "claim" =>
            \A u \in WaitingFor(loc[p].agent) :
                Before(u, loc[p].task) => via[u] # HandleOf[p]

(* A search hides nothing: a memory of the scope, with an embedding, that  *)
(* is not among the results is not closer to the query than any of them;   *)
(* and the search of everything finds something at least as close as the   *)
(* best hit of an organisation.                                            *)
SearchFindsNearest ==
    \A q \in Embeddings, limit \in 1 .. MaxMemories :
        LET E(m) == memories[m].embedding
            everywhere == SearchMemories(AllOrgs, q, limit)
        IN \A o \in Orgs :
              LET hits == SearchMemories(o, q, limit)
              IN /\ \A m \in Embedded(InScope(o)) \ ToSet(hits) :
                       \A i \in 1 .. Len(hits) : ~Closer(q, E(m), E(hits[i]))
                 /\ \A i \in 1 .. Len(hits) :
                       /\ i <= Len(everywhere)
                       /\ ~Closer(q, E(hits[i]), E(everywhere[i]))

(* The id of a deleted memory is never given to another one: an agent that *)
(* kept an id finds the memory it stored or nothing.                       *)
MemoryIdsNotReused ==
    [][\A m \in 1 .. lastMemory : m \notin DOMAIN memories => m \notin DOMAIN memories']_vars
=============================================================================
