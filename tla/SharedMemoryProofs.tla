------------------------- MODULE SharedMemoryProofs -------------------------
(***************************************************************************)
(* Theorems about SharedMemory, for any callers, handles, agents and       *)
(* organisations and any bounds: the queue first, then the search.         *)
(***************************************************************************)
EXTENDS SharedMemory, FiniteSetTheorems, SequenceTheorems, WellFoundedInduction, TLAPS

Task == [to : Agents \cup {Anyone}, priority : Priorities,
         status : TaskStatuses, created : 0 .. MaxTime]

\* The shapes TypeOK leaves open.
Shaped ==
    /\ \E n \in Nat : DOMAIN tasks = 1 .. n
    /\ tasks \in [DOMAIN tasks -> Task]
    /\ via \in [DOMAIN tasks -> Handles]
    /\ mutex \in [Handles -> Callers \cup {NoCaller}]
    /\ loc \in [Callers -> [task : Nat, agent : Agents \cup {Anyone}]]
    /\ now \in 0 .. MaxTime

\* A handle has handed out no pending task: making a task pending again
\* forgets who had it, and nothing pending was ever claimed since.
HandedNotPending ==
    \A t \in DOMAIN tasks, h \in Handles :
        <<t, h>> \in handed => tasks[t].status # "pending"

Inv == TypeOK /\ Shaped /\ HandedOnce /\ HandedNotPending /\ MostUrgentFirst

USE DEF queueHistory, calls, tables

-----------------------------------------------------------------------------
\* A domain 1 .. n has the cardinality its largest element says.
LEMMA IntervalCard ==
    ASSUME NEW n \in Nat
    PROVE  Cardinality(1 .. n) = n
  BY FS_Interval

LEMMA PutDomain ==
    ASSUME NEW f, NEW k, NEW v
    PROVE  /\ DOMAIN Put(f, k, v) = DOMAIN f \cup {k}
           /\ Put(f, k, v)[k] = v
           /\ \A x \in DOMAIN f : x # k => Put(f, k, v)[x] = f[x]
  BY DEF Put

LEMMA InvInit == Init => Inv
  <1> SUFFICES ASSUME Init PROVE Inv
    OBVIOUS
  <1>1. DOMAIN tasks = {} /\ DOMAIN memories = {} /\ DOMAIN via = {} /\ DOMAIN heartbeats = {}
    BY DEF Init
  <1>2. DOMAIN tasks = 1 .. 0
    BY <1>1
  <1>3. Cardinality(DOMAIN tasks) = 0
    BY <1>2, IntervalCard
  <1>4. tasks \in [DOMAIN tasks -> Task] /\ via \in [DOMAIN tasks -> Handles]
    BY <1>1 DEF Init
  <1>5. Shaped
    BY <1>2, <1>4, MemoryBoundsAssumption DEF Init, Shaped, Nobody
  <1>6. TypeOK
    BY <1>1, <1>2, <1>3, MemoryBoundsAssumption, HandlesAssumption DEF Init, TypeOK
  <1> QED BY <1>1, <1>5, <1>6 DEF Inv, Init, HandedOnce, HandedNotPending, MostUrgentFirst

\* Whatever leaves the queue and the callers alone keeps what is said of them.
LEMMA QueueKept ==
    ASSUME Inv, UNCHANGED <<tasks, handed, via, mutex, pc, loc>>,
           now' \in 0 .. MaxTime, lastMemory' \in 0 .. MaxMemories,
           DOMAIN memories' \subseteq 1 .. lastMemory', DOMAIN heartbeats' \subseteq Agents
    PROVE  Inv'
  <1>1. TypeOK'
    BY DEF Inv, TypeOK
  <1>2. Shaped'
    BY DEF Inv, Shaped
  <1>3. HandedOnce' /\ HandedNotPending' /\ MostUrgentFirst'
    BY DEF Inv, HandedOnce, HandedNotPending, MostUrgentFirst, WaitingFor, Before
  <1> QED BY <1>1, <1>2, <1>3 DEF Inv

LEMMA InvMemories ==
    ASSUME Inv, NEW p \in Callers,
           StoreMemory(p) \/ DeleteMemory(p) \/ DeleteAgentMemories(p)
    PROVE  Inv'
  <1>1. lastMemory \in 0 .. MaxMemories /\ now \in 0 .. MaxTime
        /\ DOMAIN memories \subseteq 1 .. lastMemory /\ DOMAIN heartbeats \subseteq Agents
    BY DEF Inv, TypeOK, Shaped
  <1>2. CASE StoreMemory(p)
    <2>1. lastMemory' = lastMemory + 1 /\ lastMemory' <= MaxMemories
      BY <1>1, <1>2, MemoryBoundsAssumption DEF StoreMemory, NextMemory
    <2>2. DOMAIN memories' = DOMAIN memories \cup {lastMemory + 1}
      BY <1>2, PutDomain DEF StoreMemory, NextMemory
    <2>3. UNCHANGED <<tasks, handed, via, mutex, pc, loc, now, heartbeats>>
      BY <1>2 DEF StoreMemory, OneStatement, Call
    <2>4. lastMemory' \in 0 .. MaxMemories /\ DOMAIN memories' \subseteq 1 .. lastMemory'
      BY <1>1, <2>1, <2>2, MemoryBoundsAssumption
    <2> QED BY <1>1, <2>3, <2>4, QueueKept
  <1>3. CASE DeleteMemory(p) \/ DeleteAgentMemories(p)
    <2>1. DOMAIN memories' \subseteq DOMAIN memories
      BY <1>3 DEF DeleteMemory, DeleteAgentMemories, Without
    <2>2. UNCHANGED <<tasks, handed, via, mutex, pc, loc, now, heartbeats, lastMemory>>
      BY <1>3 DEF DeleteMemory, DeleteAgentMemories, OneStatement, Call
    <2> QED BY <1>1, <2>1, <2>2, QueueKept
  <1> QED BY <1>2, <1>3

LEMMA InvStatuses ==
    ASSUME Inv, NEW p \in Callers, UpdateStatus(p) \/ CleanupStaleStatuses(p)
    PROVE  Inv'
  <1>1. lastMemory \in 0 .. MaxMemories /\ now \in 0 .. MaxTime
        /\ DOMAIN memories \subseteq 1 .. lastMemory /\ DOMAIN heartbeats \subseteq Agents
    BY DEF Inv, TypeOK, Shaped
  <1>2. DOMAIN heartbeats' \subseteq Agents
    BY <1>1 DEF UpdateStatus, CleanupStaleStatuses, Put, Without
  <1>3. UNCHANGED <<tasks, handed, via, mutex, pc, loc, now, memories, lastMemory>>
    BY DEF UpdateStatus, CleanupStaleStatuses, OneStatement, Call
  <1> QED BY <1>1, <1>2, <1>3, QueueKept

LEMMA InvTick == ASSUME Inv, Tick PROVE Inv'
  <1>1. now' \in 0 .. MaxTime
    BY MemoryBoundsAssumption DEF Tick, Inv, Shaped
  <1> QED BY <1>1, QueueKept DEF Tick, Inv, TypeOK

LEMMA InvStutter == ASSUME Inv, UNCHANGED vars PROVE Inv'
  BY QueueKept DEF vars, Inv, TypeOK, Shaped

-----------------------------------------------------------------------------
\* A caller inside pop_task keeps every other call off its handle.
LEMMA HandleBusy ==
    ASSUME Inv, NEW p \in Callers, NEW q \in Callers,
           mutex[HandleOf[p]] = NoCaller \/ pc[p] = "claim", q # p, pc[q] = "claim"
    PROVE  HandleOf[q] # HandleOf[p]
  BY HandlesAssumption DEF Inv, TypeOK

LEMMA InvPush ==
    ASSUME Inv, NEW p \in Callers, PushTask(p)
    PROVE  Inv'
  <1>1. PICK n \in Nat : DOMAIN tasks = 1 .. n
    BY DEF Inv, Shaped
  <1>2. Cardinality(DOMAIN tasks) = n
    BY <1>1, IntervalCard
  <1>3. PICK to \in Agents \cup {Anyone}, priority \in Priorities :
            tasks' = Put(tasks, n + 1, [to |-> to, priority |-> priority,
                                        status |-> "pending", created |-> now])
    BY <1>2 DEF PushTask
  <1>4. via' = Put(via, n + 1, HandleOf[p])
    BY <1>2 DEF PushTask
  <1>5. UNCHANGED <<memories, lastMemory, heartbeats, handed, mutex, pc, loc, now>>
        /\ mutex[HandleOf[p]] = NoCaller
    BY DEF PushTask, OneStatement, Call
  <1>6. HandleOf[p] \in Handles /\ NoCaller \notin Callers
    BY HandlesAssumption
  <1> DEFINE new == [to |-> to, priority |-> priority, status |-> "pending", created |-> now]
  <1>p. DOMAIN tasks = 1 .. n /\ DOMAIN via = 1 .. n
    BY <1>1 DEF Inv, TypeOK
  <1>q. /\ tasks' = [t \in 1 .. n + 1 |-> IF t = n + 1 THEN new ELSE tasks[t]]
        /\ via' = [t \in 1 .. n + 1 |-> IF t = n + 1 THEN HandleOf[p] ELSE via[t]]
    <2>1. (1 .. n) \cup {n + 1} = 1 .. n + 1
      OBVIOUS
    <2> HIDE DEF new
    <2>2. /\ Put(tasks, n + 1, new) = [t \in 1 .. n + 1 |-> IF t = n + 1 THEN new ELSE tasks[t]]
          /\ Put(via, n + 1, HandleOf[p]) = [t \in 1 .. n + 1 |-> IF t = n + 1 THEN HandleOf[p] ELSE via[t]]
      BY <1>p, <2>1 DEF Put
    <2>3. tasks' = Put(tasks, n + 1, new)
      BY <1>3 DEF new
    <2> QED BY <1>4, <2>2, <2>3
  <1>7. DOMAIN tasks' = 1 .. n + 1 /\ DOMAIN via' = 1 .. n + 1
    BY <1>q
  <1>8. Cardinality(DOMAIN tasks') = n + 1
    BY <1>7, IntervalCard
  <1>9. \A t \in 1 .. n : tasks'[t] = tasks[t] /\ via'[t] = via[t]
    BY <1>q
  <1>10. /\ tasks'[n + 1] = [to |-> to, priority |-> priority,
                             status |-> "pending", created |-> now]
         /\ via'[n + 1] = HandleOf[p]
    BY <1>q
  <1>11. Shaped'
    <2>1. \A t \in 1 .. n : tasks[t] \in Task /\ via[t] \in Handles
      BY <1>1 DEF Inv, Shaped
    <2>2. tasks'[n + 1] \in Task
      BY <1>3, <1>10 DEF Task, TaskStatuses, Inv, Shaped
    <2>3. \A t \in 1 .. n + 1 : tasks'[t] \in Task /\ via'[t] \in Handles
      BY <1>6, <1>9, <1>10, <2>1, <2>2
    <2>4. tasks' = [t \in 1 .. n + 1 |-> tasks'[t]] /\ via' = [t \in 1 .. n + 1 |-> via'[t]]
      BY <1>q
    <2>5. tasks' \in [DOMAIN tasks' -> Task] /\ via' \in [DOMAIN tasks' -> Handles]
      BY <1>7, <2>3, <2>4
    <2>6. n + 1 \in Nat /\ DOMAIN tasks' = 1 .. n + 1
      BY <1>7
    <2>7. \E k \in Nat : DOMAIN tasks' = 1 .. k
      BY <2>6
    <2>8. /\ mutex' \in [Handles -> Callers \cup {NoCaller}]
          /\ loc' \in [Callers -> [task : Nat, agent : Agents \cup {Anyone}]]
          /\ now' \in 0 .. MaxTime
      BY <1>5 DEF Inv, Shaped
    <2> QED BY <2>5, <2>7, <2>8 DEF Shaped
  <1>12. TypeOK'
    <2>1. DOMAIN tasks' = 1 .. Cardinality(DOMAIN tasks')
      BY <1>7, <1>8
    <2>2. \A t \in DOMAIN tasks' : tasks'[t].status \in TaskStatuses
      BY <1>11 DEF Shaped, Task
    <2>3. handed' \subseteq (DOMAIN tasks') \X Handles
      BY <1>1, <1>5, <1>7 DEF Inv, TypeOK
    <2>4. \A q \in Callers : pc'[q] = "claim" => loc'[q].task \in DOMAIN tasks'
      BY <1>1, <1>5, <1>7 DEF Inv, TypeOK
    <2> QED BY <1>5, <1>7, <2>1, <2>2, <2>3, <2>4 DEF Inv, TypeOK
  <1>13. HandedOnce'
    BY <1>5 DEF Inv, HandedOnce
  <1>14. HandedNotPending'
    <2>1. \A h \in Handles : <<n + 1, h>> \notin handed
      BY <1>1 DEF Inv, TypeOK
    <2> QED BY <1>1, <1>5, <1>7, <1>9, <2>1 DEF Inv, HandedNotPending
  <1>15. MostUrgentFirst'
    <2> SUFFICES ASSUME NEW q \in Callers, pc[q] = "claim",
                        NEW u \in WaitingFor(loc[q].agent)', Before(u, loc[q].task)'
                 PROVE  via'[u] # HandleOf[q]
      BY <1>5 DEF MostUrgentFirst
    <2>1. loc[q].task \in 1 .. n
      BY <1>1 DEF Inv, TypeOK
    <2>2. u \in 1 .. n + 1
      BY <1>7 DEF WaitingFor
    <2>3. CASE u = n + 1
      <3>1. q # p
        BY <1>5, <1>6 DEF Inv, TypeOK
      <3> QED BY <1>5, <1>10, <2>3, <3>1, HandleBusy
    <2>4. CASE u \in 1 .. n
      <3>1. u \in WaitingFor(loc[q].agent)
        BY <1>1, <1>5, <1>9, <2>4 DEF WaitingFor
      <3>2. Before(u, loc[q].task)
        BY <1>9, <2>1, <2>4, <1>5 DEF Before
      <3> QED BY <1>9, <2>4, <3>1, <3>2 DEF Inv, MostUrgentFirst
    <2> QED BY <2>2, <2>3, <2>4
  <1> QED BY <1>11, <1>12, <1>13, <1>14, <1>15 DEF Inv

\* pop_task: what it selects was not handed out before, and nothing more
\* urgent waits.
LEMMA InvPopSelect ==
    ASSUME Inv, NEW p \in Callers, PopSelect(p)
    PROVE  Inv'
  <1>1. PICK a \in Agents \cup {Anyone} : \E t \in First(WaitingFor(a)) :
            loc' = [loc EXCEPT ![p] = [task |-> t, agent |-> a]]
    BY DEF PopSelect
  <1>2. PICK t \in First(WaitingFor(a)) :
            loc' = [loc EXCEPT ![p] = [task |-> t, agent |-> a]]
    BY <1>1
  <1>3. /\ UNCHANGED <<memories, lastMemory, heartbeats, tasks, handed, via, now>>
        /\ mutex[HandleOf[p]] = NoCaller /\ pc[p] = "idle"
        /\ pc' = [pc EXCEPT ![p] = "claim"]
        /\ mutex' = [mutex EXCEPT ![HandleOf[p]] = p]
    BY DEF PopSelect, Call
  <1>4. /\ t \in DOMAIN tasks /\ tasks[t].status = "pending"
        /\ \A u \in WaitingFor(a) : ~Before(u, t)
    BY DEF First, WaitingFor
  <1>5. HandleOf \in [Callers -> Handles] /\ NoCaller \notin Callers
    BY HandlesAssumption
  <1>6. /\ pc \in [Callers -> {"idle", "claim"}]
        /\ mutex \in [Handles -> Callers \cup {NoCaller}]
        /\ loc \in [Callers -> [task : Nat, agent : Agents \cup {Anyone}]]
        /\ \A q \in Callers : pc[q] = "claim" <=> mutex[HandleOf[q]] = q
        /\ \E n \in Nat : DOMAIN tasks = 1 .. n
    BY DEF Inv, TypeOK, Shaped
  <1>7. /\ loc'[p] = [task |-> t, agent |-> a] /\ pc'[p] = "claim"
        /\ \A q \in Callers : q # p => loc'[q] = loc[q] /\ pc'[q] = pc[q]
    BY <1>2, <1>3, <1>6
  <1>8. Shaped'
    <2>1. t \in Nat
      BY <1>4, <1>6
    <2>2. loc' \in [Callers -> [task : Nat, agent : Agents \cup {Anyone}]]
      BY <1>2, <1>6, <2>1
    <2>3. mutex' \in [Handles -> Callers \cup {NoCaller}]
      BY <1>3, <1>5, <1>6
    <2> QED BY <1>3, <2>2, <2>3 DEF Inv, Shaped
  <1>9. TypeOK'
    <2>1. pc' \in [Callers -> {"idle", "claim"}]
      BY <1>3, <1>6
    <2>2. \A q \in Callers : pc'[q] = "claim" <=> mutex'[HandleOf[q]] = q
      <3> TAKE q \in Callers
      <3>1. CASE q = p
        BY <1>3, <1>5, <1>6, <1>7, <3>1
      <3>2. CASE q # p /\ HandleOf[q] = HandleOf[p]
        BY <1>3, <1>5, <1>6, <1>7, <3>2
      <3>3. CASE q # p /\ HandleOf[q] # HandleOf[p]
        BY <1>3, <1>5, <1>6, <1>7, <3>3
      <3> QED BY <3>1, <3>2, <3>3
    <2>3. \A q \in Callers : pc'[q] = "claim" => loc'[q].task \in DOMAIN tasks'
      BY <1>3, <1>4, <1>7 DEF Inv, TypeOK
    <2> QED BY <1>3, <2>1, <2>2, <2>3 DEF Inv, TypeOK
  <1>10. HandedOnce'
    <2>1. <<t, HandleOf[p]>> \notin handed
      BY <1>4, <1>5 DEF Inv, HandedNotPending
    <2> QED BY <1>3, <1>7, <2>1 DEF Inv, HandedOnce
  <1>11. HandedNotPending'
    BY <1>3 DEF Inv, HandedNotPending
  <1>12. MostUrgentFirst'
    <2> SUFFICES ASSUME NEW q \in Callers, pc'[q] = "claim",
                        NEW u \in WaitingFor(loc'[q].agent), Before(u, loc'[q].task)
                 PROVE  via[u] # HandleOf[q]
      BY <1>3 DEF MostUrgentFirst, WaitingFor, Before
    <2>1. CASE q = p
      BY <1>4, <1>7, <2>1
    <2>2. CASE q # p
      BY <1>7, <2>2 DEF Inv, MostUrgentFirst
    <2> QED BY <2>1, <2>2
  <1> QED BY <1>8, <1>9, <1>10, <1>11, <1>12 DEF Inv

\* A task whose row keeps its place: priority and age stay, and with a status
\* that does not wait nothing becomes more urgent than what was selected.
LEMMA StatusChange ==
    ASSUME Inv, NEW t \in DOMAIN tasks, NEW status \in TaskStatuses,
           tasks' = [tasks EXCEPT ![t].status = status]
    PROVE  /\ DOMAIN tasks' = DOMAIN tasks
           /\ tasks' \in [DOMAIN tasks' -> Task]
           /\ tasks'[t].status = status
           /\ \A u \in DOMAIN tasks : u # t => tasks'[u] = tasks[u]
           /\ \A u, v \in DOMAIN tasks : Before(u, v)' <=> Before(u, v)
           /\ \A a : \A u \in WaitingFor(a)' :
                 u \in DOMAIN tasks /\ (u # t \/ status # "pending" => u \in WaitingFor(a))
  <1>1. tasks \in [DOMAIN tasks -> Task] /\ DOMAIN tasks' = DOMAIN tasks
    BY DEF Inv, Shaped
  <1>2. /\ tasks'[t] = [tasks[t] EXCEPT !.status = status]
        /\ \A u \in DOMAIN tasks : u # t => tasks'[u] = tasks[u]
    BY <1>1
  <1>3. /\ tasks'[t].status = status /\ tasks'[t].to = tasks[t].to
        /\ tasks'[t].priority = tasks[t].priority /\ tasks'[t].created = tasks[t].created
        /\ tasks'[t] \in Task
    BY <1>1, <1>2 DEF Task
  <1>4. \A u \in DOMAIN tasks : /\ tasks'[u].to = tasks[u].to
                                /\ tasks'[u].priority = tasks[u].priority
                                /\ tasks'[u].created = tasks[u].created
                                /\ tasks'[u] \in Task
    BY <1>1, <1>2, <1>3
  <1>5. tasks' \in [DOMAIN tasks' -> Task]
    BY <1>1, <1>4
  <1>6. \A u, v \in DOMAIN tasks : Before(u, v)' <=> Before(u, v)
    BY <1>4 DEF Before
  <1>7. ASSUME NEW a, NEW u \in WaitingFor(a)'
        PROVE  u \in DOMAIN tasks /\ (u # t \/ status # "pending" => u \in WaitingFor(a))
    <2>1. u \in DOMAIN tasks /\ tasks'[u].status = "pending"
          /\ (a = Anyone \/ tasks[u].to \in {Anyone, a})
      BY <1>1, <1>4, <1>7 DEF WaitingFor
    <2> QED BY <1>2, <1>3, <2>1 DEF WaitingFor
  <1> QED BY <1>1, <1>2, <1>3, <1>5, <1>6, <1>7

LEMMA InvPopClaim ==
    ASSUME Inv, NEW p \in Callers, PopClaim(p)
    PROVE  Inv'
  <1> DEFINE t == loc[p].task
  <1>1. /\ pc[p] = "claim" /\ t \in DOMAIN tasks
        /\ tasks' = [tasks EXCEPT ![t].status = "claimed"]
        /\ handed' = handed \cup {<<t, HandleOf[p]>>}
        /\ mutex' = [mutex EXCEPT ![HandleOf[p]] = NoCaller]
        /\ pc' = [pc EXCEPT ![p] = "idle"]
        /\ loc' = [loc EXCEPT ![p] = Nobody]
        /\ UNCHANGED <<memories, lastMemory, heartbeats, now, via>>
    BY DEF PopClaim, Inv, TypeOK
  <1>2. HandleOf \in [Callers -> Handles] /\ NoCaller \notin Callers
    BY HandlesAssumption
  <1>3. /\ pc \in [Callers -> {"idle", "claim"}]
        /\ mutex \in [Handles -> Callers \cup {NoCaller}]
        /\ loc \in [Callers -> [task : Nat, agent : Agents \cup {Anyone}]]
        /\ \A q \in Callers : pc[q] = "claim" <=> mutex[HandleOf[q]] = q
    BY DEF Inv, TypeOK, Shaped
  <1>4. "claimed" \in TaskStatuses /\ "claimed" # "pending"
    BY DEF TaskStatuses
  <1> HIDE DEF t
  <1>5. /\ DOMAIN tasks' = DOMAIN tasks
        /\ tasks' \in [DOMAIN tasks' -> Task]
        /\ tasks'[t].status = "claimed"
        /\ \A u \in DOMAIN tasks : u # t => tasks'[u] = tasks[u]
        /\ \A u, v \in DOMAIN tasks : Before(u, v)' <=> Before(u, v)
        /\ \A a : \A u \in WaitingFor(a)' : u \in DOMAIN tasks /\ u \in WaitingFor(a)
    BY <1>1, <1>4, StatusChange
  <1>6. \A q \in Callers : pc'[q] = "claim" =>
            q # p /\ pc[q] = "claim" /\ loc'[q] = loc[q]
    BY <1>1, <1>3
  <1>7. Shaped'
    <2>1. loc' \in [Callers -> [task : Nat, agent : Agents \cup {Anyone}]]
      BY <1>1, <1>3 DEF Nobody
    <2>2. mutex' \in [Handles -> Callers \cup {NoCaller}]
      BY <1>1, <1>3
    <2> QED BY <1>1, <1>5, <2>1, <2>2 DEF Inv, Shaped
  <1>8. TypeOK'
    <2>1. pc' \in [Callers -> {"idle", "claim"}]
      BY <1>1, <1>3
    <2>2. \A q \in Callers : pc'[q] = "claim" <=> mutex'[HandleOf[q]] = q
      <3> TAKE q \in Callers
      <3>1. CASE q = p
        BY <1>1, <1>2, <1>3, <3>1
      <3>2. CASE q # p /\ HandleOf[q] = HandleOf[p]
        BY <1>1, <1>2, <1>3, <3>2
      <3>3. CASE q # p /\ HandleOf[q] # HandleOf[p]
        BY <1>1, <1>2, <1>3, <3>3
      <3> QED BY <3>1, <3>2, <3>3
    <2>3. \A u \in DOMAIN tasks' : tasks'[u].status \in TaskStatuses
      BY <1>5 DEF Task
    <2>4. handed' \subseteq (DOMAIN tasks') \X Handles
      <3>1. handed \subseteq (DOMAIN tasks) \X Handles
        BY DEF Inv, TypeOK
      <3>2. <<t, HandleOf[p]>> \in (DOMAIN tasks) \X Handles
        BY <1>1, <1>2
      <3> QED BY <1>1, <1>5, <3>1, <3>2
    <2>5. \A q \in Callers : pc'[q] = "claim" => loc'[q].task \in DOMAIN tasks'
      BY <1>5, <1>6 DEF Inv, TypeOK
    <2>6. DOMAIN tasks' = 1 .. Cardinality(DOMAIN tasks') /\ DOMAIN via' = DOMAIN tasks'
      BY <1>1, <1>5 DEF Inv, TypeOK
    <2> QED BY <1>1, <2>1, <2>2, <2>3, <2>4, <2>5, <2>6 DEF Inv, TypeOK
  <1>9. HandedOnce'
    <2> SUFFICES ASSUME NEW q \in Callers, pc'[q] = "claim"
                 PROVE  <<loc'[q].task, HandleOf[q]>> \notin handed'
      BY DEF HandedOnce
    <2>1. HandleOf[q] # HandleOf[p]
      BY <1>1, <1>6, HandleBusy
    <2> QED BY <1>1, <1>6, <2>1 DEF Inv, HandedOnce
  <1>10. HandedNotPending'
    <2> SUFFICES ASSUME NEW u \in DOMAIN tasks, NEW h \in Handles, <<u, h>> \in handed'
                 PROVE  tasks'[u].status # "pending"
      BY <1>5 DEF HandedNotPending
    <2>1. CASE u = t
      BY <1>4, <1>5, <2>1
    <2>2. CASE u # t
      BY <1>1, <1>5, <2>2 DEF Inv, HandedNotPending
    <2> QED BY <2>1, <2>2
  <1>11. MostUrgentFirst'
    <2> SUFFICES ASSUME NEW q \in Callers, pc'[q] = "claim",
                        NEW u \in WaitingFor(loc[q].agent)', loc'[q] = loc[q], pc[q] = "claim",
                        Before(u, loc[q].task)'
                 PROVE  via'[u] # HandleOf[q]
      BY <1>6 DEF MostUrgentFirst, WaitingFor
    <2>1. u \in WaitingFor(loc[q].agent) /\ u \in DOMAIN tasks
      BY <1>5 DEF WaitingFor
    <2>2. Before(u, loc[q].task)
      BY <1>5, <2>1 DEF Inv, TypeOK, Before
    <2> QED BY <1>1, <2>1, <2>2 DEF Inv, MostUrgentFirst
  <1> QED BY <1>7, <1>8, <1>9, <1>10, <1>11 DEF Inv

LEMMA InvUpdateTask ==
    ASSUME Inv, NEW p \in Callers, UpdateTaskStatus(p)
    PROVE  Inv'
  <1>1. PICK t \in DOMAIN tasks, status \in TaskStatuses :
            /\ tasks' = [tasks EXCEPT ![t].status = status]
            /\ IF status = "pending"
               THEN /\ handed' = {h \in handed : h[1] # t}
                    /\ via' = [via EXCEPT ![t] = HandleOf[p]]
               ELSE handed' = handed /\ via' = via
    BY DEF UpdateTaskStatus
  <1>2. UNCHANGED <<memories, lastMemory, heartbeats, mutex, pc, loc, now>>
        /\ mutex[HandleOf[p]] = NoCaller
    BY DEF UpdateTaskStatus, OneStatement, Call
  <1>3. /\ DOMAIN tasks' = DOMAIN tasks
        /\ tasks' \in [DOMAIN tasks' -> Task]
        /\ tasks'[t].status = status
        /\ \A u \in DOMAIN tasks : u # t => tasks'[u] = tasks[u]
        /\ \A u, v \in DOMAIN tasks : Before(u, v)' <=> Before(u, v)
        /\ \A a : \A u \in WaitingFor(a)' :
              u \in DOMAIN tasks /\ (u # t \/ status # "pending" => u \in WaitingFor(a))
    BY <1>1, StatusChange
  <1>4. HandleOf[p] \in Handles /\ NoCaller \notin Callers
    BY HandlesAssumption
  <1>5. via \in [DOMAIN tasks -> Handles]
    BY DEF Inv, Shaped
  <1>6. /\ via' \in [DOMAIN tasks -> Handles] /\ handed' \subseteq handed
        /\ \A u \in DOMAIN tasks : u # t \/ status # "pending" => via'[u] = via[u]
        /\ status = "pending" => via'[t] = HandleOf[p]
    BY <1>1, <1>4, <1>5
  <1>7. Shaped'
    BY <1>2, <1>3, <1>6 DEF Inv, Shaped
  <1>8. TypeOK'
    <2>1. \A u \in DOMAIN tasks' : tasks'[u].status \in TaskStatuses
      BY <1>3 DEF Task
    <2>2. handed' \subseteq (DOMAIN tasks') \X Handles
      BY <1>3, <1>6 DEF Inv, TypeOK
    <2> QED BY <1>2, <1>3, <1>6, <2>1, <2>2 DEF Inv, TypeOK
  <1>9. HandedOnce'
    BY <1>2, <1>6 DEF Inv, HandedOnce
  <1>10. HandedNotPending'
    <2> SUFFICES ASSUME NEW u \in DOMAIN tasks, NEW h \in Handles, <<u, h>> \in handed'
                 PROVE  tasks'[u].status # "pending"
      BY <1>3 DEF HandedNotPending
    <2>1. CASE u = t
      BY <1>1, <1>3, <2>1
    <2>2. CASE u # t
      BY <1>3, <1>6, <2>2 DEF Inv, HandedNotPending
    <2> QED BY <2>1, <2>2
  <1>11. MostUrgentFirst'
    <2> SUFFICES ASSUME NEW q \in Callers, pc[q] = "claim",
                        NEW u \in WaitingFor(loc[q].agent)', Before(u, loc[q].task)'
                 PROVE  via'[u] # HandleOf[q]
      BY <1>2 DEF MostUrgentFirst, WaitingFor, Before
    <2>1. u \in DOMAIN tasks
      BY <1>3 DEF WaitingFor
    <2>2. CASE u = t /\ status = "pending"
      <3>1. q # p
        BY <1>2, <1>4 DEF Inv, TypeOK
      <3> QED BY <1>2, <1>6, <2>2, <3>1, HandleBusy
    <2>3. CASE u # t \/ status # "pending"
      <3>1. u \in WaitingFor(loc[q].agent)
        BY <1>2, <1>3, <2>3 DEF WaitingFor
      <3>2. Before(u, loc[q].task)
        BY <1>2, <1>3, <2>1 DEF Inv, TypeOK, Before
      <3> QED BY <1>6, <2>1, <2>3, <3>1, <3>2 DEF Inv, MostUrgentFirst
    <2> QED BY <2>2, <2>3
  <1> QED BY <1>7, <1>8, <1>9, <1>10, <1>11 DEF Inv

LEMMA InvCrash == ASSUME Inv, Crash PROVE Inv'
  <1>1. PICK h \in Handles :
            /\ pc' = [p \in Callers |-> IF HandleOf[p] = h THEN "idle" ELSE pc[p]]
            /\ loc' = [p \in Callers |-> IF HandleOf[p] = h THEN Nobody ELSE loc[p]]
            /\ mutex' = [mutex EXCEPT ![h] = NoCaller]
    BY DEF Crash
  <1>2. UNCHANGED <<memories, lastMemory, heartbeats, tasks, handed, via, now>>
    BY DEF Crash
  <1>3. HandleOf \in [Callers -> Handles] /\ NoCaller \notin Callers
    BY HandlesAssumption
  <1>4. /\ pc \in [Callers -> {"idle", "claim"}]
        /\ mutex \in [Handles -> Callers \cup {NoCaller}]
        /\ loc \in [Callers -> [task : Nat, agent : Agents \cup {Anyone}]]
        /\ \A q \in Callers : pc[q] = "claim" <=> mutex[HandleOf[q]] = q
    BY DEF Inv, TypeOK, Shaped
  <1>5. \A q \in Callers : pc'[q] = "claim" =>
            HandleOf[q] # h /\ pc[q] = "claim" /\ loc'[q] = loc[q]
    BY <1>1
  <1>6. Shaped'
    <2>1. loc' \in [Callers -> [task : Nat, agent : Agents \cup {Anyone}]]
      BY <1>1, <1>4 DEF Nobody
    <2>2. mutex' \in [Handles -> Callers \cup {NoCaller}]
      BY <1>1, <1>4
    <2> QED BY <1>2, <2>1, <2>2 DEF Inv, Shaped
  <1>7. TypeOK'
    <2>1. pc' \in [Callers -> {"idle", "claim"}]
      BY <1>1, <1>4
    <2>2. \A q \in Callers : pc'[q] = "claim" <=> mutex'[HandleOf[q]] = q
      BY <1>1, <1>3, <1>4
    <2>3. \A q \in Callers : pc'[q] = "claim" => loc'[q].task \in DOMAIN tasks'
      BY <1>2, <1>5 DEF Inv, TypeOK
    <2> QED BY <1>2, <2>1, <2>2, <2>3 DEF Inv, TypeOK
  <1>8. HandedOnce' /\ HandedNotPending'
    BY <1>2, <1>5 DEF Inv, HandedOnce, HandedNotPending
  <1>9. MostUrgentFirst'
    BY <1>2, <1>5 DEF Inv, MostUrgentFirst, WaitingFor, Before
  <1> QED BY <1>6, <1>7, <1>8, <1>9 DEF Inv

LEMMA InvNext == Inv /\ [Next]_vars => Inv'
  <1> SUFFICES ASSUME Inv, [Next]_vars PROVE Inv'
    OBVIOUS
  <1>1. ASSUME NEW p \in Callers, StoreMemory(p) \/ DeleteMemory(p) \/ DeleteAgentMemories(p)
        PROVE  Inv'
    BY <1>1, InvMemories
  <1>2. ASSUME NEW p \in Callers, UpdateStatus(p) \/ CleanupStaleStatuses(p)
        PROVE  Inv'
    BY <1>2, InvStatuses
  <1>3. ASSUME NEW p \in Callers, PushTask(p) PROVE Inv'
    BY <1>3, InvPush
  <1>4. ASSUME NEW p \in Callers, PopSelect(p) PROVE Inv'
    BY <1>4, InvPopSelect
  <1>5. ASSUME NEW p \in Callers, PopClaim(p) PROVE Inv'
    BY <1>5, InvPopClaim
  <1>6. ASSUME NEW p \in Callers, UpdateTaskStatus(p) PROVE Inv'
    BY <1>6, InvUpdateTask
  <1> QED BY <1>1, <1>2, <1>3, <1>4, <1>5, <1>6, InvTick, InvCrash, InvStutter DEF Next

LEMMA Invariance == Spec => []Inv
  BY InvInit, InvNext, PTL DEF Spec

-----------------------------------------------------------------------------
(* Every variable keeps its type, and the mutex of a handle is held by the *)
(* caller inside pop_task, for any number of callers and handles.          *)
THEOREM MemoryTyped == Spec => []TypeOK
  <1>1. Inv => TypeOK
    BY DEF Inv
  <1> QED BY <1>1, Invariance, PTL

(* A handle hands a task to one of its callers only, until it is pending   *)
(* again: pop_task keeps the mutex over its two statements, so that what   *)
(* another caller of the handle claims is no longer pending.               *)
THEOREM TasksHandedOnce == Spec => []HandedOnce
  <1>1. Inv => HandedOnce
    BY DEF Inv
  <1> QED BY <1>1, Invariance, PTL

(* The task a caller is about to get is the most urgent of those waiting   *)
(* for it that its own handle made pending: such a one can only come while *)
(* the mutex is free, and priorities and ages never change.                *)
THEOREM UrgentFirst == Spec => []MostUrgentFirst
  <1>1. Inv => MostUrgentFirst
    BY DEF Inv
  <1> QED BY <1>1, Invariance, PTL

(* The id of a deleted memory is never given to another one: store_memory  *)
(* alone adds a row, under an id above every id there has been.            *)
THEOREM IdsNotReused == Spec => MemoryIdsNotReused
  <1> DEFINE Fresh == \A m \in 1 .. lastMemory :
                          m \notin DOMAIN memories => m \notin DOMAIN memories'
  <1>1. Inv /\ [Next]_vars => [Fresh]_vars
    <2> SUFFICES ASSUME Inv, Next PROVE Fresh
      BY DEF vars
    <2>1. lastMemory \in Nat
      BY MemoryBoundsAssumption DEF Inv, TypeOK
    <2>2. ASSUME NEW p \in Callers, StoreMemory(p) PROVE Fresh
      <3>1. DOMAIN memories' = DOMAIN memories \cup {lastMemory + 1}
        BY <2>2, PutDomain DEF StoreMemory, NextMemory
      <3> QED BY <2>1, <3>1
    <2>3. ASSUME NEW p \in Callers, DeleteMemory(p) \/ DeleteAgentMemories(p) PROVE Fresh
      BY <2>3 DEF DeleteMemory, DeleteAgentMemories, Without
    <2>4. ASSUME NEW p \in Callers,
                 \/ PushTask(p) \/ PopSelect(p) \/ PopClaim(p) \/ UpdateTaskStatus(p)
                 \/ UpdateStatus(p) \/ CleanupStaleStatuses(p)
          PROVE  Fresh
      <3>1. memories' = memories
        BY <2>4 DEF PushTask, PopSelect, PopClaim, UpdateTaskStatus, UpdateStatus,
                    CleanupStaleStatuses
      <3> QED BY <3>1
    <2>5. ASSUME Tick \/ Crash PROVE Fresh
      BY <2>5 DEF Tick, Crash
    <2> QED BY <2>2, <2>3, <2>4, <2>5 DEF Next
  <1> QED BY <1>1, Invariance, PTL DEF Spec, MemoryIdsNotReused

-----------------------------------------------------------------------------
(* Similarity.  The order of the results rests on cosine_similarity being  *)
(* a quotient with a positive denominator.                                 *)

\* Induction, for sets: the library's theorem takes a predicate.
LEMMA NatInSet ==
    ASSUME NEW T, 0 \in T, \A n \in Nat : n \in T => n + 1 \in T
    PROVE  \A n \in Nat : n \in T
  <1> DEFINE R == Nat \ T
  <1> SUFFICES ASSUME R # {} PROVE FALSE
    OBVIOUS
  <1>1. IsWellFoundedOn(OpToRel(<, Nat), Nat)
    BY NatLessThanWellFounded
  <1>2. \E x \in R : \A y \in R : <<y, x>> \notin OpToRel(<, Nat)
    BY <1>1, WFMin
  <1>3. PICK x \in R : \A y \in R : <<y, x>> \notin OpToRel(<, Nat)
    BY <1>2
  <1>4. \A y \in R : ~(y < x)
    BY <1>3 DEF OpToRel
  <1>5. x # 0 /\ x - 1 \in Nat /\ x - 1 < x
    OBVIOUS
  <1>6. x - 1 \in T
    BY <1>4, <1>5
  <1>7. (x - 1) + 1 \in T
    BY <1>5, <1>6
  <1> QED BY <1>7

IsSum(f, x, y, n) == f = [i \in 0 .. n |-> IF i = 0 THEN 0 ELSE f[i - 1] + x[i] * y[i]]

LEMMA SumExists ==
    ASSUME NEW x, NEW y
    PROVE  \A n \in Nat : \E f : IsSum(f, x, y, n)
  <1> DEFINE T == {n \in Nat : \E f : IsSum(f, x, y, n)}
  <1>1. 0 \in T
    <2>1. PICK f : f = [i \in 0 .. 0 |-> 0]
      OBVIOUS
    <2>2. IsSum(f, x, y, 0)
      BY <2>1 DEF IsSum
    <2> QED BY <2>2
  <1>2. ASSUME NEW n \in Nat, n \in T
        PROVE  n + 1 \in T
    <2>1. PICK f : IsSum(f, x, y, n)
      BY <1>2
    <2>2. PICK g : g = [i \in 0 .. n + 1 |-> IF i = 0 THEN 0 ELSE f[i - 1] + x[i] * y[i]]
      OBVIOUS
    <2>3. ASSUME NEW i \in 0 .. n
          PROVE  g[i] = f[i]
      <3>1. g[i] = IF i = 0 THEN 0 ELSE f[i - 1] + x[i] * y[i]
        BY <2>2
      <3>2. f[i] = IF i = 0 THEN 0 ELSE f[i - 1] + x[i] * y[i]
        BY <2>1 DEF IsSum
      <3> QED BY <3>1, <3>2
    <2>4. \A i \in 0 .. n + 1 : i # 0 => i - 1 \in 0 .. n
      OBVIOUS
    <2>5. \A i \in 0 .. n + 1 : i # 0 => f[i - 1] = g[i - 1]
      BY <2>3, <2>4
    <2>6. g = [i \in 0 .. n + 1 |-> IF i = 0 THEN 0 ELSE g[i - 1] + x[i] * y[i]]
      BY <2>2, <2>5
    <2> QED BY <2>6 DEF IsSum
  <1> HIDE DEF T
  <1>3. \A n \in Nat : n \in T
    BY <1>1, <1>2, NatInSet
  <1> QED BY <1>3 DEF T

\* The dot product is an integer, and that of a vector with itself is not
\* negative.
LEMMA DotTyped ==
    ASSUME NEW x \in Seq(Int), NEW y \in Seq(Int), Len(x) = Len(y)
    PROVE  Dot(x, y) \in Int /\ (x = y => Dot(x, y) >= 0)
  <1>1. Len(x) \in Nat /\ DOMAIN x = 1 .. Len(x) /\ DOMAIN y = 1 .. Len(x)
        /\ (\A i \in 1 .. Len(x) : x[i] \in Int /\ y[i] \in Int)
    BY LenProperties, ElementOfSeq
  <1>2. PICK f : f = CHOOSE h : IsSum(h, x, y, Len(x))
    OBVIOUS
  <1>3. Dot(x, y) = f[Len(x)]
    BY <1>2 DEF Dot, IsSum
  <1>4. IsSum(f, x, y, Len(x))
    BY <1>1, <1>2, SumExists
  <1> DEFINE T == {n \in Nat : n <= Len(x) => f[n] \in Int /\ (x = y => f[n] >= 0)}
  <1>5. 0 \in T
    BY <1>1, <1>4 DEF IsSum
  <1>6. ASSUME NEW n \in Nat, n \in T
        PROVE  n + 1 \in T
    <2> SUFFICES ASSUME n + 1 <= Len(x)
                 PROVE  f[n + 1] \in Int /\ (x = y => f[n + 1] >= 0)
      OBVIOUS
    <2>1. PICK k : k = n + 1
      OBVIOUS
    <2>2. k \in 0 .. Len(x) /\ k # 0 /\ k - 1 = n /\ k \in 1 .. Len(x)
      BY <1>1, <2>1
    <2>3. f[k] = f[k - 1] + x[k] * y[k]
      BY <1>4, <2>2 DEF IsSum
    <2>4. f[n] \in Int /\ (x = y => f[n] >= 0)
      BY <1>1, <1>6
    <2>5. x[k] \in Int /\ y[k] \in Int
      BY <1>1, <2>2
    <2>6. \A a \in Int : a * a \in Int /\ a * a >= 0
      OBVIOUS
    <2>7. PICK p \in Int : p = x[k] * y[k]
      BY <2>5
    <2>8. x = y => p >= 0
      BY <2>5, <2>6, <2>7
    <2>9. f[k] = f[n] + p
      BY <2>2, <2>3, <2>7
    <2> QED BY <2>1, <2>4, <2>8, <2>9
  <1> HIDE DEF T
  <1>7. \A n \in Nat : n \in T
    BY <1>5, <1>6, NatInSet
  <1>8. Len(x) \in T
    BY <1>1, <1>7
  <1> QED BY <1>1, <1>3, <1>8 DEF T

LEMMA CosineTyped ==
    ASSUME NEW q \in Seq(Int), NEW e \in Seq(Int)
    PROVE  /\ Cosine(q, e).over \in Int
           /\ Cosine(q, e).under \in Int
           /\ Cosine(q, e).under > 0
  <1>1. CASE ~Comparable(q, e)
    BY <1>1 DEF Cosine
  <1>2. CASE Comparable(q, e)
    <2>1. PICK d : d = Dot(q, e)
      OBVIOUS
    <2>2. PICK a, b : a = Dot(q, q) /\ b = Dot(e, e)
      OBVIOUS
    <2>3. d \in Int /\ a \in Int /\ b \in Int /\ a > 0 /\ b > 0
      BY <1>2, <2>1, <2>2, DotTyped DEF Comparable
    <2>4. Cosine(q, e) = [over |-> IF d < 0 THEN -(d * d) ELSE d * d, under |-> a * b]
      BY <1>2, <2>1, <2>2 DEF Cosine
    <2>5. d * d \in Int /\ a * b \in Int /\ a * b > 0
      BY <2>3
    <2> QED BY <2>4, <2>5
  <1> QED BY <1>1, <1>2

LEMMA Scaled ==
    ASSUME NEW x \in Int, NEW y \in Int, NEW k \in Int, k > 0
    PROVE  x * k <= y * k <=> x <= y
  OBVIOUS

LEMMA QuotientsCompare ==
    ASSUME NEW a \in Int, NEW b \in Int, NEW c \in Int, NEW d \in Int, NEW e \in Int, NEW f \in Int,
           b > 0, d > 0, f > 0, a * d <= c * b, c * f <= e * d
    PROVE  a * f <= e * b
  <1>1. (a * d) * f <= (c * b) * f
    BY Scaled
  <1>2. (c * f) * b <= (e * d) * b
    BY Scaled
  <1>3. (a * d) * f = (a * f) * d /\ (c * b) * f = (c * f) * b /\ (e * d) * b = (e * b) * d
    OBVIOUS
  <1>4. (a * f) * d <= (e * b) * d
    BY <1>1, <1>2, <1>3
  <1> QED BY <1>4, Scaled

-----------------------------------------------------------------------------
(* The order of the results.                                               *)

\* Every memory has an embedding of the right kind, or none.
EmbeddingsShaped ==
    \A m \in DOMAIN memories : memories[m].embedding \in Embeddings \cup {Unembedded}

Nearer(q, m, n) == Closer(q, memories[m].embedding, memories[n].embedding)

\* S is a finite set of memories that can be compared with q.
Searchable(S, q) ==
    /\ S \subseteq Nat /\ IsFiniteSet(S) /\ q \in Seq(Int)
    /\ \A m \in S : memories[m].embedding \in Seq(Int)

\* "Not nearer" is transitive and total: similarity is a weak order.
LEMMA NearerOrders ==
    ASSUME NEW S, NEW q, Searchable(S, q)
    PROVE  /\ \A m, n \in S : ~(Nearer(q, m, n) /\ Nearer(q, n, m))
           /\ \A m, n, o \in S :
                 ~Nearer(q, m, n) /\ ~Nearer(q, n, o) => ~Nearer(q, m, o)
  <1> DEFINE C(m) == Cosine(q, memories[m].embedding)
  <1>1. \A m \in S : C(m).over \in Int /\ C(m).under \in Int /\ C(m).under > 0
    BY CosineTyped DEF Searchable
  <1>2. \A m, n \in S : Nearer(q, m, n) <=> C(m).over * C(n).under > C(n).over * C(m).under
    BY DEF Nearer, Closer
  <1> HIDE DEF C
  <1>3. ASSUME NEW m \in S, NEW n \in S
        PROVE  ~(Nearer(q, m, n) /\ Nearer(q, n, m))
    <2>1. C(m).over * C(n).under \in Int /\ C(n).over * C(m).under \in Int
      BY <1>1
    <2> QED BY <1>2, <2>1
  <1>4. ASSUME NEW m \in S, NEW n \in S, NEW o \in S,
               ~Nearer(q, m, n), ~Nearer(q, n, o)
        PROVE  ~Nearer(q, m, o)
    <2>1. /\ C(m).over * C(n).under \in Int /\ C(n).over * C(m).under \in Int
          /\ C(n).over * C(o).under \in Int /\ C(o).over * C(n).under \in Int
          /\ C(m).over * C(o).under \in Int /\ C(o).over * C(m).under \in Int
      BY <1>1
    <2>2. /\ C(m).over * C(n).under <= C(n).over * C(m).under
          /\ C(n).over * C(o).under <= C(o).over * C(n).under
      BY <1>2, <1>4, <2>1
    <2>3. C(m).over * C(o).under <= C(o).over * C(m).under
      BY <1>1, <2>2, QuotientsCompare
    <2> QED BY <1>2, <2>1, <2>3
  <1> QED BY <1>3, <1>4

\* Ties are broken by row: the order is strict and total.
LEMMA RanksOrders ==
    ASSUME NEW S, NEW q, Searchable(S, q)
    PROVE  /\ \A m \in S : ~Ranks(q, m, m)
           /\ \A m, n \in S : Ranks(q, m, n) => ~Nearer(q, n, m)
           /\ \A m, n \in S : m # n => Ranks(q, m, n) \/ Ranks(q, n, m)
           /\ \A m, n, o \in S : Ranks(q, m, n) /\ Ranks(q, n, o) => Ranks(q, m, o)
  <1>1. \A m, n : Ranks(q, m, n) <=> Nearer(q, m, n) \/ (~Nearer(q, n, m) /\ m < n)
    BY DEF Ranks, Nearer
  <1>2. \A m \in S : m \in Nat
    BY DEF Searchable
  <1>3. /\ \A m, n \in S : m # n => m < n \/ n < m
        /\ \A m \in S : ~(m < m)
        /\ \A m, n, o \in S : m < n /\ n < o => m < o
    BY <1>2
  <1> QED BY <1>1, <1>3, NearerOrders

\* A finite set has a last element in the order.
LEMMA LastExists ==
    ASSUME NEW U, NEW q, Searchable(U, q)
    PROVE  \A S \in SUBSET U : S # {} => \E x \in S : \A y \in S : y # x => Ranks(q, y, x)
  <1> DEFINE HasLast(S) == \E x \in S : \A y \in S : y # x => Ranks(q, y, x)
             T == {n \in Nat : \A S \in SUBSET U : Cardinality(S) = n /\ S # {} => HasLast(S)}
  <1>1. \A S \in SUBSET U : IsFiniteSet(S) /\ Cardinality(S) \in Nat
    BY FS_Subset, FS_CardinalityType DEF Searchable
  <1>2. 0 \in T
    BY <1>1, FS_EmptySet
  <1>3. ASSUME NEW n \in Nat, n \in T
        PROVE  n + 1 \in T
    <2> SUFFICES ASSUME NEW S \in SUBSET U, Cardinality(S) = n + 1, S # {}
                 PROVE  HasLast(S)
      OBVIOUS
    <2>1. PICK x \in S : TRUE
      OBVIOUS
    <2>2. PICK R : R = S \ {x}
      OBVIOUS
    <2>3. R \in SUBSET U /\ Cardinality(R) = n
      BY <1>1, <2>1, <2>2, FS_RemoveElement
    <2>4. CASE R = {}
      BY <2>1, <2>2, <2>4
    <2>5. CASE R # {}
      <3>1. PICK z \in R : \A y \in R : y # z => Ranks(q, y, z)
        BY <1>3, <2>3, <2>5
      <3>2. z # x /\ z \in S /\ \A y \in S : y = x \/ y \in R
        BY <2>2, <3>1
      <3>3. CASE Ranks(q, x, z)
        BY <3>1, <3>2, <3>3
      <3>4. CASE Ranks(q, z, x)
        <4>1. \A y \in S : y # x => Ranks(q, y, x)
          BY <3>1, <3>2, <3>4, RanksOrders
        <4> QED BY <2>1, <4>1
      <3> QED BY <2>1, <3>2, <3>3, <3>4, RanksOrders
    <2> QED BY <2>4, <2>5
  <1> HIDE DEF T
  <1>4. \A n \in Nat : n \in T
    BY <1>2, <1>3, NatInSet
  <1> QED BY <1>1, <1>4 DEF T

InOrder(s, S, q) ==
    /\ s \in [1 .. Cardinality(S) -> S]
    /\ \A i, j \in DOMAIN s : i < j => Ranks(q, s[i], s[j])

\* Every set of rows can be sorted.
LEMMA SortedExists ==
    ASSUME NEW U, NEW q, Searchable(U, q)
    PROVE  \A S \in SUBSET U : \E s : InOrder(s, S, q)
  <1> DEFINE T == {n \in Nat : \A S \in SUBSET U :
                                  Cardinality(S) = n => \E s : InOrder(s, S, q)}
  <1>1. \A S \in SUBSET U : IsFiniteSet(S) /\ Cardinality(S) \in Nat
    BY FS_Subset, FS_CardinalityType DEF Searchable
  <1>2. 0 \in T
    <2> SUFFICES ASSUME NEW S \in SUBSET U, Cardinality(S) = 0
                 PROVE  \E s : InOrder(s, S, q)
      OBVIOUS
    <2>1. PICK s : s = [i \in 1 .. 0 |-> i]
      OBVIOUS
    <2>2. InOrder(s, S, q)
      BY <2>1 DEF InOrder
    <2> QED BY <2>2
  <1>3. ASSUME NEW n \in Nat, n \in T
        PROVE  n + 1 \in T
    <2> SUFFICES ASSUME NEW S \in SUBSET U, Cardinality(S) = n + 1
                 PROVE  \E s : InOrder(s, S, q)
      OBVIOUS
    <2>1. S # {}
      BY FS_EmptySet
    <2>2. PICK x \in S : \A y \in S : y # x => Ranks(q, y, x)
      BY <2>1, LastExists
    <2>3. PICK R : R = S \ {x}
      OBVIOUS
    <2>4. R \in SUBSET U /\ Cardinality(R) = n
      BY <1>1, <2>2, <2>3, FS_RemoveElement
    <2>5. PICK r : InOrder(r, R, q)
      BY <1>3, <2>4
    <2>6. r \in [1 .. n -> R] /\ \A i, j \in 1 .. n : i < j => Ranks(q, r[i], r[j])
      BY <2>4, <2>5 DEF InOrder
    <2>7. PICK s : s = [i \in 1 .. n + 1 |-> IF i = n + 1 THEN x ELSE r[i]]
      OBVIOUS
    <2>8. \A i \in 1 .. n + 1 : i = n + 1 \/ i \in 1 .. n
      OBVIOUS
    <2>9. /\ \A i \in 1 .. n : s[i] = r[i] /\ s[i] \in S /\ s[i] # x
          /\ s[n + 1] = x
      BY <2>3, <2>6, <2>7
    <2>10. s \in [1 .. n + 1 -> S]
      BY <2>7, <2>8, <2>9
    <2>11. ASSUME NEW i \in 1 .. n + 1, NEW j \in 1 .. n + 1, i < j
           PROVE  Ranks(q, s[i], s[j])
      <3>1. i \in 1 .. n
        BY <2>11
      <3>2. CASE j = n + 1
        BY <2>2, <2>9, <3>1, <3>2
      <3>3. CASE j \in 1 .. n
        BY <2>6, <2>9, <2>11, <3>1, <3>3
      <3> QED BY <2>8, <3>2, <3>3
    <2>12. InOrder(s, S, q)
      BY <2>10, <2>11 DEF InOrder
    <2> QED BY <2>12
  <1> HIDE DEF T
  <1>4. \A n \in Nat : n \in T
    BY <1>2, <1>3, NatInSet
  <1> QED BY <1>1, <1>4 DEF T

\* The sorted rows are all the rows, each once.
LEMMA SortedIs ==
    ASSUME NEW U, NEW q, Searchable(U, q), NEW S \in SUBSET U
    PROVE  /\ InOrder(Sorted(S, q), S, q)
           /\ \A i, j \in DOMAIN Sorted(S, q) : i # j => Sorted(S, q)[i] # Sorted(S, q)[j]
           /\ \A m \in S : \E j \in DOMAIN Sorted(S, q) : Sorted(S, q)[j] = m
  <1> DEFINE n == Cardinality(S)
  <1>1. PICK s : s = Sorted(S, q)
    OBVIOUS
  <1>2. InOrder(s, S, q)
    BY <1>1, SortedExists DEF Sorted, InOrder
  <1>3. IsFiniteSet(S) /\ n \in Nat
    BY FS_Subset, FS_CardinalityType DEF Searchable
  <1>4. s \in [1 .. n -> S] /\ \A i, j \in 1 .. n : i < j => Ranks(q, s[i], s[j])
    BY <1>2 DEF InOrder
  <1> HIDE DEF n
  <1>5. ASSUME NEW i \in 1 .. n, NEW j \in 1 .. n, i # j
        PROVE  s[i] # s[j]
    <2>1. i < j \/ j < i
      BY <1>3, <1>5
    <2>2. s[i] \in U /\ s[j] \in U
      BY <1>4
    <2> QED BY <1>4, <2>1, <2>2, RanksOrders
  <1>6. ASSUME NEW m \in S
        PROVE  \E j \in 1 .. n : s[j] = m
    <2> SUFFICES ASSUME \A j \in 1 .. n : s[j] # m
                 PROVE  FALSE
      OBVIOUS
    <2>1. PICK R : R = S \ {m}
      OBVIOUS
    <2>2. s \in [1 .. n -> R]
      BY <1>4, <2>1
    <2>3. IsFiniteSet(R) /\ Cardinality(R) = n - 1
      BY <1>3, <2>1, FS_RemoveElement DEF n
    <2>4. IsFiniteSet(1 .. n) /\ Cardinality(1 .. n) = n
      BY <1>3, FS_Interval
    <2>5. Cardinality(R) < Cardinality(1 .. n)
      BY <1>3, <2>3, <2>4
    <2>6. \E i, j \in 1 .. n : i # j /\ s[i] = s[j]
      BY <2>2, <2>3, <2>4, <2>5, FS_PigeonHole
    <2> QED BY <1>5, <2>6
  <1>7. DOMAIN s = 1 .. n
    BY <1>4
  <1> QED BY <1>1, <1>2, <1>5, <1>6, <1>7

IsRowList(s) == \E S : s \in Seq(S)
Kept(s, limit) == IF limit < Len(s) THEN limit ELSE Len(s)

LEMMA TupleIsSeq ==
    ASSUME NEW S, NEW n \in Nat, NEW s \in [1 .. n -> S]
    PROVE  IsRowList(s) /\ Len(s) = n
  <1>1. s \in Seq(S) /\ Len(s) = n
    OBVIOUS
  <1> QED BY <1>1 DEF IsRowList

\* The first entries of the sorted rows, as many as asked for.
LEMMA TruncatedIs ==
    ASSUME NEW s, IsRowList(s), NEW limit \in Nat
    PROVE  /\ Len(Truncated(s, limit)) = Kept(s, limit)
           /\ DOMAIN Truncated(s, limit) = 1 .. Kept(s, limit)
           /\ \A i \in 1 .. Kept(s, limit) : Truncated(s, limit)[i] = s[i]
  <1> DEFINE k == Kept(s, limit)
  <1>1. PICK S : s \in Seq(S)
    BY DEF IsRowList
  <1>2. k \in Nat /\ k <= Len(s) /\ Len(s) \in Nat
    BY <1>1 DEF Kept
  <1>3. Truncated(s, limit) = SubSeq(s, 1, k)
    BY <1>1 DEF Truncated, Kept
  <1> HIDE DEF k
  <1>4. Len(SubSeq(s, 1, k)) = k /\ \A i \in 1 .. k : SubSeq(s, 1, k)[i] = s[i]
    BY <1>1, <1>2
  <1>5. DOMAIN SubSeq(s, 1, k) = 1 .. k
    BY <1>1, <1>2
  <1>6. /\ Len(Truncated(s, limit)) = k
        /\ DOMAIN Truncated(s, limit) = 1 .. k
        /\ \A i \in 1 .. k : Truncated(s, limit)[i] = s[i]
    BY <1>3, <1>4, <1>5
  <1> QED BY <1>6 DEF k

\* A memory the search leaves out is not nearer than one it returns.
LEMMA LeftOutNotNearer ==
    ASSUME NEW U, NEW q, Searchable(U, q), NEW S \in SUBSET U, NEW limit \in Nat
    PROVE  \A m \in S \ ToSet(Truncated(Sorted(S, q), limit)) :
              \A i \in 1 .. Len(Truncated(Sorted(S, q), limit)) :
                 ~Nearer(q, m, Truncated(Sorted(S, q), limit)[i])
  <1>1. PICK s : s = Sorted(S, q)
    OBVIOUS
  <1>2. PICK n \in Nat : n = Cardinality(S)
    BY FS_Subset, FS_CardinalityType DEF Searchable
  <1>3. /\ s \in [1 .. n -> S]
        /\ \A i, j \in 1 .. n : i < j => Ranks(q, s[i], s[j])
        /\ \A m \in S : \E j \in 1 .. n : s[j] = m
    BY <1>1, <1>2, SortedIs DEF InOrder
  <1>4. PICK t : t = Truncated(s, limit)
    OBVIOUS
  <1>5. PICK k \in Nat : k = Kept(s, limit)
    BY <1>3 DEF Kept
  <1>6. /\ k <= n
        /\ Len(t) = k /\ DOMAIN t = 1 .. k
        /\ \A i \in 1 .. k : t[i] = s[i]
    <2>1. IsRowList(s) /\ Len(s) = n
      BY <1>3, TupleIsSeq
    <2>2. k <= n
      BY <1>5, <2>1 DEF Kept
    <2> QED BY <1>4, <1>5, <2>1, <2>2, TruncatedIs
  <1>7. ASSUME NEW m \in S, m \notin ToSet(t), NEW i \in 1 .. k
        PROVE  ~Nearer(q, m, t[i])
    <2>1. PICK j \in 1 .. n : s[j] = m
      BY <1>3
    <2>2. j \notin 1 .. k
      BY <1>6, <1>7, <2>1 DEF ToSet
    <2>3. i < j /\ i \in 1 .. n
      BY <1>6, <2>2
    <2>4. Ranks(q, s[i], s[j]) /\ s[i] \in U /\ s[j] \in U
      BY <1>3, <2>3
    <2> QED BY <1>6, <2>1, <2>4, RanksOrders
  <1> QED BY <1>1, <1>4, <1>6, <1>7

\* With more to choose from, the i-th result is at least as near.
LEMMA WiderAtLeastAsNear ==
    ASSUME NEW U, NEW q, Searchable(U, q), NEW S \in SUBSET U, NEW limit \in Nat,
           NEW i \in 1 .. Len(Truncated(Sorted(S, q), limit))
    PROVE  /\ i <= Len(Truncated(Sorted(U, q), limit))
           /\ ~Nearer(q, Truncated(Sorted(S, q), limit)[i], Truncated(Sorted(U, q), limit)[i])
  <1>1. PICK s, u : s = Sorted(S, q) /\ u = Sorted(U, q)
    OBVIOUS
  <1>2. /\ IsFiniteSet(U) /\ IsFiniteSet(S) /\ Cardinality(S) <= Cardinality(U)
        /\ Cardinality(S) \in Nat /\ Cardinality(U) \in Nat
    BY FS_Subset, FS_CardinalityType DEF Searchable
  <1>3. PICK n \in Nat, o \in Nat : n = Cardinality(S) /\ o = Cardinality(U)
    BY <1>2
  <1>4. /\ s \in [1 .. n -> S]
        /\ \A j, k \in 1 .. n : j < k => Ranks(q, s[j], s[k])
        /\ \A j, k \in 1 .. n : j # k => s[j] # s[k]
    <2>1. InOrder(s, S, q) /\ \A j, k \in DOMAIN s : j # k => s[j] # s[k]
      BY <1>1, SortedIs
    <2> QED BY <1>3, <2>1 DEF InOrder
  <1>5. /\ u \in [1 .. o -> U]
        /\ \A j, k \in 1 .. o : j < k => Ranks(q, u[j], u[k])
        /\ \A m \in U : \E j \in 1 .. o : u[j] = m
    <2>1. U \in SUBSET U
      OBVIOUS
    <2>2. InOrder(u, U, q) /\ \A m \in U : \E j \in DOMAIN u : u[j] = m
      BY <1>1, <2>1, SortedIs
    <2> QED BY <1>3, <2>2 DEF InOrder
  <1>6. IsRowList(s) /\ IsRowList(u) /\ Len(s) = n /\ Len(u) = o
    <2>1. IsRowList(s) /\ Len(s) = n
      BY <1>4, TupleIsSeq
    <2>2. IsRowList(u) /\ Len(u) = o
      BY <1>5, TupleIsSeq
    <2> QED BY <2>1, <2>2
  <1>7. PICK k \in Nat, l \in Nat : k = Kept(s, limit) /\ l = Kept(u, limit)
    BY <1>6 DEF Kept
  <1>8. /\ Len(Truncated(s, limit)) = k
        /\ \A j \in 1 .. k : Truncated(s, limit)[j] = s[j]
    BY <1>6, <1>7, TruncatedIs
  <1>9. /\ Len(Truncated(u, limit)) = l
        /\ \A j \in 1 .. l : Truncated(u, limit)[j] = u[j]
    BY <1>6, <1>7, TruncatedIs
  <1>10. k <= l /\ k <= n /\ l <= o /\ i \in 1 .. k
    BY <1>1, <1>2, <1>3, <1>6, <1>8, <1>7 DEF Kept
  <1>11. i \in 1 .. l /\ i \in 1 .. n /\ i \in 1 .. o
    BY <1>10
  <1>12. ~Nearer(q, s[i], u[i])
    <2> SUFFICES ASSUME Nearer(q, s[i], u[i])
                 PROVE  FALSE
      OBVIOUS
    <2>1. /\ \A j \in 1 .. n : s[j] \in U
          /\ \A j \in 1 .. o : u[j] \in U
      BY <1>4, <1>5
    <2>2. Ranks(q, s[i], u[i])
      BY DEF Ranks, Nearer
    <2>3. ASSUME NEW j \in 1 .. i
          PROVE  \E m \in 1 .. i - 1 : u[m] = s[j]
      <3>1. j \in 1 .. n /\ (j = i \/ j < i)
        BY <1>11
      <3>2. Ranks(q, s[j], u[i])
        BY <1>4, <1>11, <2>1, <2>2, <3>1, RanksOrders
      <3>3. PICK m \in 1 .. o : u[m] = s[j]
        BY <1>5, <2>1, <3>1
      <3>4. m # i
        BY <1>11, <2>1, <3>2, <3>3, RanksOrders
      <3>5. ~(i < m)
        <4> SUFFICES ASSUME i < m
                     PROVE  FALSE
          OBVIOUS
        <4>1. Ranks(q, u[i], u[m])
          BY <1>5, <1>11
        <4>2. Ranks(q, u[i], u[i])
          BY <1>11, <2>1, <3>2, <3>3, <4>1, RanksOrders
        <4> QED BY <1>11, <2>1, <4>2, RanksOrders
      <3>6. m \in 1 .. i - 1
        BY <1>11, <3>4, <3>5
      <3> QED BY <3>3, <3>6
    <2>4. PICK g : g = [j \in 1 .. i |-> CHOOSE m \in 1 .. i - 1 : u[m] = s[j]]
      OBVIOUS
    <2>5. \A j \in 1 .. i : g[j] \in 1 .. i - 1 /\ u[g[j]] = s[j]
      BY <2>3, <2>4
    <2>6. g \in [1 .. i -> 1 .. i - 1]
      BY <2>4, <2>5
    <2>7. /\ IsFiniteSet(1 .. i) /\ Cardinality(1 .. i) = i
          /\ IsFiniteSet(1 .. i - 1) /\ Cardinality(1 .. i - 1) = i - 1
      BY <1>10, FS_Interval
    <2>8. Cardinality(1 .. i - 1) < Cardinality(1 .. i)
      BY <1>10, <2>7
    <2>9. \E x, y \in 1 .. i : x # y /\ g[x] = g[y]
      BY <2>6, <2>7, <2>8, FS_PigeonHole
    <2>10. PICK x, y \in 1 .. i : x # y /\ g[x] = g[y]
      BY <2>9
    <2>11. s[x] = s[y] /\ x \in 1 .. n /\ y \in 1 .. n
      BY <1>11, <2>5, <2>10
    <2> QED BY <1>4, <2>10, <2>11
  <1> QED BY <1>1, <1>8, <1>9, <1>10, <1>11, <1>12

-----------------------------------------------------------------------------
(* The search.                                                             *)

LEMMA EmbeddingsStep ==
    ASSUME EmbeddingsShaped, [Next]_vars
    PROVE  EmbeddingsShaped'
  <1>1. CASE UNCHANGED memories
    BY <1>1 DEF EmbeddingsShaped
  <1>2. ASSUME NEW p \in Callers, StoreMemory(p)
        PROVE  EmbeddingsShaped'
    <2>1. PICK o \in Orgs, a \in Agents, e \in Embeddings \cup {Unembedded} :
             memories' = Put(memories, NextMemory, [org |-> o, agent |-> a, embedding |-> e])
      BY <1>2 DEF StoreMemory
    <2>2. PICK k, new : k = NextMemory /\ new = [org |-> o, agent |-> a, embedding |-> e]
      OBVIOUS
    <2>3. memories' = Put(memories, k, new)
      BY <2>1, <2>2
    <2>4. /\ DOMAIN memories' = DOMAIN memories \cup {k}
          /\ memories'[k] = new
          /\ \A m \in DOMAIN memories : m # k => memories'[m] = memories[m]
      BY <2>3 DEF Put
    <2>5. new.embedding = e
      BY <2>2
    <2> QED BY <2>4, <2>5 DEF EmbeddingsShaped
  <1>3. ASSUME NEW p \in Callers, DeleteMemory(p) \/ DeleteAgentMemories(p)
        PROVE  EmbeddingsShaped'
    <2>1. PICK S : memories' = Without(memories, S)
      BY <1>3 DEF DeleteMemory, DeleteAgentMemories
    <2>2. \A m \in DOMAIN memories' : m \in DOMAIN memories /\ memories'[m] = memories[m]
      BY <2>1 DEF Without
    <2> QED BY <2>2 DEF EmbeddingsShaped
  <1>4. CASE Next
    <2>1. ASSUME NEW p \in Callers,
                 PushTask(p) \/ PopSelect(p) \/ PopClaim(p) \/ UpdateTaskStatus(p)
                 \/ UpdateStatus(p) \/ CleanupStaleStatuses(p)
          PROVE  UNCHANGED memories
      BY <2>1 DEF PushTask, PopSelect, PopClaim, UpdateTaskStatus, UpdateStatus,
                  CleanupStaleStatuses
    <2>2. Tick \/ Crash => UNCHANGED memories
      BY DEF Tick, Crash
    <2> QED BY <1>1, <1>2, <1>3, <1>4, <2>1, <2>2 DEF Next
  <1>5. CASE UNCHANGED vars
    BY <1>1, <1>5 DEF vars
  <1> QED BY <1>4, <1>5

\* The rows of a scope can be compared with a query and sorted.
LEMMA ScopeSearchable ==
    ASSUME Inv, EmbeddingsShaped, NEW q \in Embeddings, NEW o
    PROVE  Searchable(Embedded(InScope(o)), q)
  <1>1. lastMemory \in Nat /\ DOMAIN memories \subseteq 1 .. lastMemory
    BY MemoryBoundsAssumption DEF Inv, TypeOK
  <1>2. Embedded(InScope(o)) \subseteq 1 .. lastMemory
    BY <1>1 DEF Embedded, InScope
  <1>3. IsFiniteSet(1 .. lastMemory)
    BY <1>1, FS_Interval
  <1>4. IsFiniteSet(Embedded(InScope(o)))
    BY <1>2, <1>3, FS_Subset
  <1>5. q \in Seq(Int)
    BY MemoryBoundsAssumption
  <1>6. \A m \in Embedded(InScope(o)) : memories[m].embedding \in Seq(Int)
    BY MemoryBoundsAssumption DEF Embedded, InScope, EmbeddingsShaped
  <1>7. Embedded(InScope(o)) \subseteq Nat
    BY <1>1, <1>2
  <1> QED BY <1>4, <1>5, <1>6, <1>7 DEF Searchable

LEMMA NearestFound == Inv /\ EmbeddingsShaped => SearchFindsNearest
  <1> SUFFICES ASSUME Inv, EmbeddingsShaped,
                      NEW q \in Embeddings, NEW limit \in 1 .. MaxMemories, NEW o \in Orgs
               PROVE  LET E(m) == memories[m].embedding
                          hits == SearchMemories(o, q, limit)
                          everywhere == SearchMemories(AllOrgs, q, limit)
                      IN /\ \A m \in Embedded(InScope(o)) \ ToSet(hits) :
                               \A i \in 1 .. Len(hits) : ~Closer(q, E(m), E(hits[i]))
                         /\ \A i \in 1 .. Len(hits) :
                               /\ i <= Len(everywhere)
                               /\ ~Closer(q, E(hits[i]), E(everywhere[i]))
    BY DEF SearchFindsNearest
  <1>1. limit \in Nat
    BY MemoryBoundsAssumption
  <1>2. PICK S, U : S = Embedded(InScope(o)) /\ U = Embedded(InScope(AllOrgs))
    OBVIOUS
  <1>3. S \in SUBSET U
    BY <1>2 DEF Embedded, InScope
  <1>4. Searchable(U, q)
    BY <1>2, ScopeSearchable
  <1>5. PICK hits, everywhere : /\ hits = Truncated(Sorted(S, q), limit)
                                /\ everywhere = Truncated(Sorted(U, q), limit)
    OBVIOUS
  <1>6. hits = SearchMemories(o, q, limit) /\ everywhere = SearchMemories(AllOrgs, q, limit)
    BY <1>2, <1>5 DEF SearchMemories
  <1>7. \A m \in S \ ToSet(hits) : \A i \in 1 .. Len(hits) : ~Nearer(q, m, hits[i])
    BY <1>1, <1>3, <1>4, <1>5, LeftOutNotNearer
  <1>8. \A i \in 1 .. Len(hits) : i <= Len(everywhere) /\ ~Nearer(q, hits[i], everywhere[i])
    BY <1>1, <1>3, <1>4, <1>5, WiderAtLeastAsNear
  <1> QED BY <1>2, <1>6, <1>7, <1>8 DEF Nearer

\* A search of an organisation or of everything leaves out no memory closer
\* to the query than one it returns, and the wider search finds hits at
\* least as close: similarity is a weak order, the rows of a scope can be
\* sorted by it in one way, and cutting the sorted rows keeps the nearest.
THEOREM SearchNearest == Spec => []SearchFindsNearest
  <1>1. Init => EmbeddingsShaped
    BY DEF Init, EmbeddingsShaped
  <1>2. EmbeddingsShaped /\ [Next]_vars => EmbeddingsShaped'
    BY EmbeddingsStep
  <1>3. Spec => []EmbeddingsShaped
    BY <1>1, <1>2, PTL DEF Spec
  <1> QED BY <1>3, Invariance, NearestFound, PTL
=============================================================================
