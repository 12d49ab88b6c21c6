------------------------ MODULE AgentDurabilityProofs -----------------------
(***************************************************************************)
(* What AgentLifecycle keeps over a restart.  Two handlers that write      *)
(* agents.json at the same time lose one of the writes, so what follows is *)
(* about one handler at a time: with it run the reconciler, the runtimes,  *)
(* crashes, clients that hang up and errors of the file system.            *)
(***************************************************************************)
EXTENDS AgentLifecycleProofs

OneHandler == \A p, q \in Handlers : p = q

-----------------------------------------------------------------------------
(* Ids of the sequences the file is made of.                               *)

LEMMA IdsOne ==
    ASSUME NEW a
    PROVE  Ids(<<a>>) = {a.id} /\ Ids(<<>>) = {} /\ Len(<<a>>) = 1 /\ Head(<<a>>) = a
  BY DEF Ids

LEMMA IdsHeadTail ==
    ASSUME NEW s \in Seq(Agent), s # <<>>
    PROVE  /\ Ids(s) = {Head(s).id} \cup Ids(Tail(s))
           /\ Len(s) = 1 => Ids(Tail(s)) = {}
           /\ Head(s) \in Agent
  <1>1. /\ DOMAIN s = 1 .. Len(s) /\ Len(s) \in Nat \ {0}
        /\ Tail(s) \in Seq(Agent)
        /\ Len(Tail(s)) = Len(s) - 1
        /\ \A i \in 1 .. Len(Tail(s)) : Tail(s)[i] = s[i + 1]
        /\ Head(s) = s[1] /\ Head(s) \in Agent
    BY LenProperties, EmptySeq, HeadTailProperties
  <1>2. DOMAIN Tail(s) = 1 .. Len(s) - 1
    BY <1>1, LenProperties
  <1>3. \A i \in DOMAIN s : i = 1 \/ (i - 1 \in DOMAIN Tail(s) /\ Tail(s)[i - 1] = s[i])
    BY <1>1, <1>2
  <1>4. \A i \in DOMAIN Tail(s) : i + 1 \in DOMAIN s /\ Tail(s)[i] = s[i + 1]
    BY <1>1, <1>2
  <1>5. Ids(s) \subseteq {Head(s).id} \cup Ids(Tail(s))
    <2> SUFFICES ASSUME NEW i \in DOMAIN s
                 PROVE  s[i].id = Head(s).id \/ s[i].id \in Ids(Tail(s))
      BY DEF Ids
    <2> QED
      BY <1>1, <1>3 DEF Ids
  <1>6. {Head(s).id} \cup Ids(Tail(s)) \subseteq Ids(s)
    BY <1>1, <1>4 DEF Ids
  <1>7. Len(s) = 1 => Ids(Tail(s)) = {}
    BY <1>1, <1>2 DEF Ids
  <1> QED
    BY <1>1, <1>5, <1>6, <1>7

LEMMA UpsertIds ==
    ASSUME NEW s \in Seq(Agent), NEW a \in Agent
    PROVE  Ids(Upsert(s, a)) = Ids(s) \cup {a.id}
  <1> DEFINE u == Upsert(s, a)
  <1>1. /\ DOMAIN s \subseteq DOMAIN u
        /\ \A i \in DOMAIN s : u[i].id = s[i].id
        /\ \A i \in DOMAIN u \ DOMAIN s : u[i] = a
    BY UpsertIsSeq
  <1>2. Ids(s) \subseteq Ids(u) /\ Ids(u) \subseteq Ids(s) \cup {a.id}
    BY <1>1 DEF Ids
  <1>3. a.id \in Ids(u)
    <2>1. CASE a.id \in Ids(s)
      BY <1>2, <2>1
    <2>2. CASE a.id \notin Ids(s)
      <3>1. u = Append(s, a)
        BY <2>2 DEF Upsert
      <3>2. Len(s) + 1 \in DOMAIN u /\ u[Len(s) + 1] = a
        BY <3>1, LenProperties
      <3> QED
        BY <3>2 DEF Ids
    <2> QED
      BY <2>1, <2>2
  <1> QED
    BY <1>2, <1>3

LEMMA ConcatIds ==
    ASSUME NEW S, NEW T, NEW s \in Seq(S), NEW t \in Seq(T)
    PROVE  Ids(s \o t) = Ids(s) \cup Ids(t)
  <1>1. /\ DOMAIN s = 1 .. Len(s) /\ Len(s) \in Nat
        /\ DOMAIN t = 1 .. Len(t) /\ Len(t) \in Nat
        /\ s \in Seq(S \cup T) /\ t \in Seq(S \cup T)
    BY LenProperties
  <1>2. /\ Len(s \o t) = Len(s) + Len(t) /\ s \o t \in Seq(S \cup T)
        /\ \A i \in 1 .. Len(s) + Len(t) :
              (s \o t)[i] = IF i <= Len(s) THEN s[i] ELSE t[i - Len(s)]
    BY <1>1, ConcatProperties
  <1>3. DOMAIN (s \o t) = 1 .. Len(s) + Len(t)
    BY <1>2, LenProperties
  <1> DEFINE u == s \o t
  <1>4. \A i \in DOMAIN u : \/ i \in DOMAIN s /\ u[i] = s[i]
                            \/ i - Len(s) \in DOMAIN t /\ u[i] = t[i - Len(s)]
    BY <1>1, <1>2, <1>3
  <1>5. /\ \A i \in DOMAIN s : i \in DOMAIN u /\ u[i] = s[i]
        /\ \A i \in DOMAIN t : Len(s) + i \in DOMAIN u /\ u[Len(s) + i] = t[i]
    BY <1>1, <1>2, <1>3
  <1> HIDE DEF u
  <1>6. Ids(u) \subseteq Ids(s) \cup Ids(t)
    BY <1>4 DEF Ids
  <1>7. Ids(s) \cup Ids(t) \subseteq Ids(u)
    BY <1>5 DEF Ids
  <1> QED
    BY <1>6, <1>7 DEF u

(* An enumeration misses no element: of n elements, n - 1 others cannot    *)
(* fill n places without one of them twice.                                *)
LEMMA EnumerationCovers ==
    ASSUME NEW S \in SUBSET Nat, IsFiniteSet(S), NEW e \in Enumerations(S), NEW x \in S
    PROVE  \E k \in DOMAIN e : e[k] = x
  <1> DEFINE n == Cardinality(S)
             T == S \ {x}
  <1>1. /\ e \in [1 .. n -> S] /\ n \in Nat
        /\ \A i, j \in DOMAIN e : e[i] = e[j] => i = j
    BY EnumerationIsSeq DEF Enumerations
  <1>2. IsFiniteSet(T) /\ Cardinality(T) = n - 1
    BY FS_RemoveElement
  <1>3. IsFiniteSet(1 .. n) /\ Cardinality(1 .. n) = n
    BY <1>1, FS_Interval
  <1> SUFFICES ASSUME \A k \in DOMAIN e : e[k] # x
               PROVE  FALSE
    OBVIOUS
  <1>4. e \in [1 .. n -> T]
    BY <1>1
  <1>5. Cardinality(T) < Cardinality(1 .. n)
    BY <1>1, <1>2, <1>3
  <1> HIDE DEF n, T
  <1>6. \E i, j \in 1 .. n : i # j /\ e[i] = e[j]
    BY <1>2, <1>3, <1>4, <1>5, FS_PigeonHole
  <1> QED
    BY <1>1, <1>6

(* retain drops the id and nothing else.                                   *)
LEMMA RetainedIds ==
    ASSUME NEW s \in Seq(Agent), NEW id, NEW t \in Retained(s, id)
    PROVE  Ids(t) = Ids(s) \ {id}
  <1> DEFINE Kept == {i \in DOMAIN s : s[i].id # id}
  <1>1. PICK e \in Enumerations(Kept) : t = [k \in DOMAIN e |-> s[e[k]]]
    BY DEF Retained
  <1>2. IsFiniteSet(Kept) /\ Kept \in SUBSET Nat
    <2>1. DOMAIN s = 1 .. Len(s) /\ Len(s) \in Nat
      BY LenProperties
    <2>2. IsFiniteSet(DOMAIN s)
      BY <2>1, FS_Interval
    <2> QED
      BY <2>1, <2>2, FS_Subset
  <1>3. \A i \in Kept : \E k \in DOMAIN e : e[k] = i
    BY <1>2, EnumerationCovers
  <1>4. \A k \in DOMAIN e : e[k] \in Kept
    BY <1>2, EnumerationIsSeq, LenProperties, ElementOfSeq
  <1>5. DOMAIN t = DOMAIN e /\ \A k \in DOMAIN e : t[k] = s[e[k]]
    BY <1>1
  <1>6. Ids(t) \subseteq Ids(s) \ {id}
    BY <1>4, <1>5 DEF Ids
  <1>7. Ids(s) \ {id} \subseteq Ids(t)
    BY <1>3, <1>5 DEF Ids
  <1> QED
    BY <1>6, <1>7

-----------------------------------------------------------------------------
(* What a step of one task does to the vector, the file, the halves of     *)
(* writes under way and the unwritten, with the ids for the agents.        *)

Saving == {"save", "write"}
Writing == {"persist"} \cup Saving
FileSteps == Writing \cup {"remove"}

Same(q) == /\ pc'[q] = pc[q] /\ file'[q] = file[q] /\ todo'[q] = todo[q]
           /\ loc'[q] = loc[q]
           /\ writer' = q <=> writer = q

(* Nobody's write is touched, and nothing listed or stored changes; a      *)
(* client that hangs up may leave its agent unwritten.                     *)
Quiet == /\ UNCHANGED diskVars
         /\ Ids(containers') = Ids(containers)
         /\ unwritten \subseteq unwritten'
         /\ \A q \in Procs :
                \/ Same(q)
                \/ /\ pc[q] \notin FileSteps /\ pc'[q] \notin FileSteps \cup {"index"}
                   /\ q = Reconciler => pc'[q] \in {"idle", "apply"}
                   /\ pc[q] = "index" => loc[q].id \in unwritten'

(* Task p alone moves, and no write of its own was under way.              *)
Turn(p) == /\ UNCHANGED diskVars
           /\ \A q \in Procs : q # p => Same(q)
           /\ pc[p] \notin FileSteps

(* create_agent put its agent into the vector.                             *)
Pushes(p) == /\ Turn(p) /\ pc[p] # "index" /\ pc'[p] = "index" /\ writer' = p
             /\ pc[Reconciler] \notin Writing
             /\ UNCHANGED unwritten
             /\ Ids(containers') = Ids(containers) \cup {loc'[p].id}

(* A handler has one listed agent to persist; the reconciler is not in the *)
(* middle of its own writes.                                               *)
Enters(p) == /\ Turn(p) /\ pc'[p] = "persist"
             /\ pc[Reconciler] \notin Writing
             /\ UNCHANGED unwritten
             /\ Ids(containers') = Ids(containers)
             /\ \E a \in Agent : /\ todo'[p] = <<a>> /\ a.id \in Ids(containers)
                                 /\ pc[p] = "index" => a = loc[p]

(* It is about to write the whole vector.                                  *)
Rewrites(p) == /\ Turn(p) /\ pc[p] # "index" /\ pc'[p] = "save" /\ writer' = p
               /\ pc[Reconciler] \notin Writing
               /\ UNCHANGED <<containers, unwritten>>
               /\ file'[p] = containers
               /\ \E a \in Agent : todo'[p] = <<a>> /\ a.id \in Ids(containers)

(* It took an agent out of the vector.                                     *)
Deletes(p) == /\ Turn(p) /\ pc[p] # "index" /\ pc'[p] = "remove" /\ writer' = p
              /\ pc[Reconciler] \notin Writing
              /\ UNCHANGED unwritten
              /\ \E a \in Agent : /\ todo'[p] = <<a>>
                                  /\ Ids(containers') = Ids(containers) \ {a.id}

Imports(p) == /\ Turn(p) /\ pc[p] = "importPush" /\ pc'[p] = "idle"
              /\ \E id : /\ Ids(containers') = Ids(containers) \cup {id}
                         /\ unwritten' = unwritten \cup {id}

(* The reconciler changed statuses and persists every agent.               *)
Applies == /\ Turn(Reconciler) /\ pc'[Reconciler] = "persist" /\ writer' = Reconciler
           /\ UNCHANGED unwritten
           /\ Ids(containers') = Ids(containers)
           /\ Ids(todo'[Reconciler]) = Ids(containers)

(* The head of what a task had to write is dealt with.                     *)
Moves(p) ==
    /\ \/ /\ pc'[p] = "idle" /\ Ids(Tail(todo[p])) = {}
       \/ /\ pc'[p] = "persist" /\ (writer' = p <=> writer = p)
          /\ Len(todo[p]) # 1
    /\ todo'[p] = Tail(todo[p])

Writes(p) == /\ UNCHANGED containers
             /\ \A q \in Procs : q # p => Same(q)

Loads(p) == /\ Writes(p) /\ UNCHANGED <<diskVars, todo, writer, unwritten>>
            /\ readable
            /\ pc'[p] = "save"
            /\ \/ pc[p] = "persist" /\ Ids(file'[p]) = Ids(disk) \cup {Head(todo[p]).id}
               \/ pc[p] = "remove" /\ Ids(file'[p]) = Ids(disk) \ {Head(todo[p]).id}

Truncates(p) == /\ Writes(p) /\ UNCHANGED <<file, todo, writer, unwritten>>
                /\ pc[p] = "save" /\ pc'[p] = "write"
                /\ disk' = <<>> /\ ~readable'

(* The agent is unwritten no more, unless somebody else is about to write  *)
(* what it read before.                                                    *)
Saves(p) == /\ Writes(p) /\ Moves(p) /\ pc[p] = "write"
            /\ disk' = file[p] \/ (disk' = <<>> /\ ~readable')
            /\ unwritten' \subseteq unwritten
            /\ unwritten \subseteq unwritten' \cup {Head(todo[p]).id}
            /\ \A q \in Procs : q # p /\ pc[q] \in Saving => unwritten' = unwritten

(* A file that does not parse is left alone, and so may be one that cannot *)
(* be read or written.                                                     *)
Fails(p) == /\ Writes(p) /\ Moves(p) /\ pc[p] \in FileSteps
            /\ UNCHANGED diskVars \/ (disk' = <<>> /\ ~readable')
            /\ unwritten' = unwritten \cup {Head(todo[p]).id}

(* A restart: what is listed was stored, or is unwritten.                  *)
Restarts == /\ pc' = [q \in Procs |-> "idle"]
            /\ UNCHANGED diskVars
            /\ Ids(disk) \subseteq Ids(containers')
            /\ unwritten' = Ids(containers') \ Ids(disk)

Step ==
    \/ Quiet
    \/ \E p \in Handlers : \/ Pushes(p) \/ Enters(p) \/ Rewrites(p) \/ Deletes(p)
                          \/ Imports(p)
    \/ Applies
    \/ \E p \in Procs : Loads(p) \/ Truncates(p) \/ Saves(p) \/ Fails(p)
    \/ Restarts

(* The turns the write lock gives: the reconciler holds it while it        *)
(* writes, a creation from the vector to the index, a deletion from the    *)
(* vector to its read of the file; and a handler has one agent to write.   *)
Turns ==
    /\ pc[Reconciler] \in {"idle", "apply"} \cup Writing
    /\ pc[Reconciler] \in Writing => writer = Reconciler
    /\ \A p \in Handlers : pc[p] \in {"index", "remove"} => writer = p
    /\ \A p \in Handlers : pc[p] \in FileSteps => Len(todo[p]) = 1

LEMMA TurnsInductive ==
    ASSUME Turns, Step
    PROVE  Turns'
  <1>1. /\ Reconciler \in Procs /\ Reconciler \notin Handlers
        /\ \A p \in Handlers : p \in Procs /\ p # Reconciler
        /\ \A p \in Procs : p \in Handlers \/ p = Reconciler
    BY ProcAssumption DEF Procs
  <1>2. CASE Quiet
    BY <1>1, <1>2 DEF Quiet, Same, Turns, FileSteps, Writing, Saving
  <1>3. ASSUME NEW p \in Handlers,
               Enters(p) \/ Rewrites(p) \/ Deletes(p)
        PROVE  Turns'
    <2>1. /\ \A q \in Procs : q # p => Same(q)
          /\ pc'[p] \in {"persist", "save", "remove"}
          /\ pc'[p] = "remove" => writer' = p
          /\ Len(todo'[p]) = 1
      BY <1>3, IdsOne DEF Enters, Rewrites, Deletes, Turn
    <2> QED
      BY <1>1, <2>1 DEF Same, Turns
  <1>4. ASSUME NEW p \in Handlers, Imports(p) \/ Pushes(p)
        PROVE  Turns'
    BY <1>1, <1>4 DEF Imports, Pushes, Turn, Same, Turns, FileSteps, Writing, Saving
  <1>5. CASE Applies
    BY <1>1, <1>5 DEF Applies, Turn, Same, Turns, FileSteps, Writing, Saving
  <1>6. ASSUME NEW p \in Procs, Loads(p) \/ Truncates(p)
        PROVE  Turns'
    BY <1>1, <1>6 DEF Loads, Truncates, Writes, Same, Turns, FileSteps, Writing, Saving
  <1>7. ASSUME NEW p \in Procs, Saves(p) \/ Fails(p)
        PROVE  Turns'
    <2>1. /\ \A q \in Procs : q # p => Same(q)
          /\ Moves(p) /\ pc[p] \in FileSteps
      BY <1>7 DEF Saves, Fails, Writes, FileSteps, Writing, Saving
    <2> QED
      BY <1>1, <2>1 DEF Moves, Same, Turns, FileSteps, Writing, Saving
  <1>8. CASE Restarts
    BY <1>1, <1>8 DEF Restarts, Turns, FileSteps, Writing, Saving
  <1> QED
    BY <1>2, <1>3, <1>4, <1>5, <1>6, <1>7, <1>8 DEF Step

-----------------------------------------------------------------------------
(* Every step of the system is one of these.                               *)

(* Who has the write lock, or finds it free, is not in the middle of the   *)
(* reconciler's writes.                                                    *)
LEMMA LockExcludes ==
    ASSUME Turns, writer # Reconciler
    PROVE  pc[Reconciler] \notin Writing
  BY DEF Turns

(* A handler has only its own copy of an agent to change.                  *)
LEMMA OthersKeepLoc ==
    ASSUME TypeInv, NEW p \in Handlers, Request(p) \/ Continue(p)
    PROVE  \A q \in Procs : q # p => loc'[q] = loc[q]
  <1>1. CASE CreateAllocate(p) \/ ImportContainer(p) \/ DeleteCheck(p)
    BY <1>1 DEF CreateAllocate, ImportContainer, DeleteCheck, TypeInv, TypeOK
  <1>2. CASE UpdateAgent(p) \/ UpdateTailscaleIp(p) \/ StartAll(p) \/ StopAll(p)
    BY <1>2 DEF UpdateAgent, UpdateTailscaleIp, StartAll, StopAll
  <1>3. CASE StartAgent(p) \/ StopAgent(p)
    BY <1>3 DEF StartAgent, StopAgent, TypeInv, TypeOK
  <1>4. CASE CreateContainer(p) \/ CreatePush(p) \/ CreateIndex(p) \/ ImportPush(p)
    BY <1>4 DEF CreateContainer, CreatePush, CreateIndex, ImportPush, Fail, Drop, TypeInv, TypeOK
  <1>5. CASE DeleteContainer(p) \/ DeleteState(p)
    BY <1>5 DEF DeleteContainer, DeleteState, Drop, TypeInv, TypeOK
  <1>6. CASE StartEnsure(p) \/ StartRun(p) \/ StartProbe(p) \/ StopState(p)
    BY <1>6 DEF StartEnsure, StartRun, StartProbe, StopState, SetStatus, Fail, Drop, TypeInv, TypeOK
  <1> QED
    BY <1>1, <1>2, <1>3, <1>4, <1>5, <1>6 DEF Request, Continue

LEMMA SetStatusEnters ==
    ASSUME TypeInv, Turns, NEW p \in Handlers, NEW st \in Statuses,
           pc[p] \notin FileSteps, pc[p] # "index", writer = p, SetStatus(p, st),
           UNCHANGED <<diskVars, file, unwritten>>
    PROVE  Enters(p)
  <1>1. p \in Procs /\ p # Reconciler
    BY ProcAssumption DEF Procs
  <1>2. PICK a \in Agent : a.id \in Ids(containers) /\ todo' = [todo EXCEPT ![p] = <<a>>]
    BY <1>1, SetStatusKeepsIds
  <1>3. Ids(containers') = Ids(containers)
    BY <1>1, SetStatusKeepsIds, SameIds
  <1>4. /\ pc' = [pc EXCEPT ![p] = "persist"] /\ writer' = p
        /\ loc' = [loc EXCEPT ![p] = <<>>]
    BY <1>1, SetStatusTyped
  <1>5. \A q \in Procs : q # p => Same(q)
    BY <1>2, <1>4 DEF Same, TypeInv, TypeOK
  <1>6. pc'[p] = "persist" /\ todo'[p] = <<a>>
    BY <1>1, <1>2, <1>4 DEF TypeInv, TypeOK
  <1> QED
    BY <1>1, <1>2, <1>3, <1>5, <1>6, LockExcludes DEF Enters, Turn

(* A request up to its first await.                                        *)
LEMMA RequestSteps ==
    ASSUME TypeInv, Turns, NEW p \in Handlers, Request(p)
    PROVE  Quiet \/ Enters(p) \/ Rewrites(p)
  <1>1. /\ p \in Procs /\ p # Reconciler /\ p # NoProc /\ Reconciler # NoProc
        /\ NoProc \notin Procs
    BY ProcAssumption DEF Procs
  <1>2. pc[p] = "idle" /\ pc[p] \notin FileSteps
    BY DEF Request, CreateAllocate, ImportContainer, UpdateAgent, UpdateTailscaleIp, DeleteCheck,
           StartAgent, StopAgent, StartAll, StopAll, Begin, FileSteps, Writing, Saving
  <1>0. \A q \in Procs : q # p => loc'[q] = loc[q]
    BY OthersKeepLoc
  <1>3. CASE CreateAllocate(p) \/ DeleteCheck(p) \/ ImportContainer(p)
    <2>1. /\ UNCHANGED <<containers, diskVars, writer, file, todo, unwritten>>
          /\ \/ pc' = [pc EXCEPT ![p] = "create"]
             \/ pc' = [pc EXCEPT ![p] = "delRuntime"]
             \/ pc' = [pc EXCEPT ![p] = "importPush"]
      BY <1>3 DEF CreateAllocate, DeleteCheck, ImportContainer, Begin, Goto, agentVars, ioVars
    <2> QED
      BY <1>0, <1>1, <1>2, <2>1 DEF Quiet, Same, FileSteps, Writing, Saving, TypeInv, TypeOK
  <1>4. CASE UpdateAgent(p)
    <2>1. PICK i \in DOMAIN containers, n \in Names :
             /\ containers' = [containers EXCEPT ![i].name = n]
             /\ PersistLocked(p, <<[containers[i] EXCEPT !.name = n]>>)
      BY <1>4 DEF UpdateAgent
    <2>2. PICK a : a = [containers[i] EXCEPT !.name = n]
      OBVIOUS
    <2>3. a \in Agent /\ a.id = containers[i].id
      BY <2>2, ElementsTyped DEF TypeInv, Agent
    <2>4. /\ DOMAIN containers' = DOMAIN containers
          /\ \A j \in DOMAIN containers : containers'[j].id = containers[j].id
      BY <2>1, ElementsTyped DEF TypeInv, Agent
    <2>5. Ids(containers') = Ids(containers) /\ a.id \in Ids(containers)
      BY <2>3, <2>4, SameIds DEF Ids
    <2>6. /\ pc' = [pc EXCEPT ![p] = "persist"] /\ todo' = [todo EXCEPT ![p] = <<a>>]
          /\ writer' = p /\ writer = NoProc
          /\ UNCHANGED <<diskVars, file, unwritten>>
      BY <1>4, <2>1, <2>2 DEF UpdateAgent, PersistLocked, Goto
    <2>7. Turn(p) /\ pc'[p] = "persist" /\ todo'[p] = <<a>>
      BY <1>0, <1>1, <1>2, <2>6 DEF Turn, Same, TypeInv, TypeOK
    <2> QED
      BY <1>1, <1>2, <2>3, <2>5, <2>6, <2>7, LockExcludes DEF Enters
  <1>5. CASE UpdateTailscaleIp(p)
    <2>1. PICK i \in DOMAIN containers : todo' = [todo EXCEPT ![p] = <<containers[i]>>]
      BY <1>5 DEF UpdateTailscaleIp
    <2>2. containers[i] \in Agent /\ containers[i].id \in Ids(containers)
      BY ElementsTyped DEF TypeInv, Ids
    <2>3. /\ pc' = [pc EXCEPT ![p] = "save"] /\ writer' = p /\ writer = NoProc
          /\ file' = [file EXCEPT ![p] = containers]
          /\ UNCHANGED <<diskVars, containers, unwritten>>
      BY <1>5 DEF UpdateTailscaleIp, LockAgents, Goto, agentVars
    <2>4. /\ Turn(p) /\ pc'[p] = "save" /\ file'[p] = containers
          /\ todo'[p] = <<containers[i]>>
      BY <1>0, <1>1, <1>2, <2>1, <2>3 DEF Turn, Same, TypeInv, TypeOK
    <2> QED
      BY <1>1, <1>2, <2>2, <2>3, <2>4, LockExcludes DEF Rewrites
  <1>6. CASE StartAgent(p)
    <2>1. PICK i \in DOMAIN containers :
             \/ /\ containers' = [containers EXCEPT ![i].status = "Running"]
                /\ PersistLocked(p, <<containers'[i]>>)
             \/ /\ LockAgents(p)
                /\ Goto(p, "startEnsure")
                /\ UNCHANGED <<containers, todo>>
      BY <1>6 DEF StartAgent
    <2>2. writer = NoProc /\ UNCHANGED <<diskVars, file, unwritten>>
      BY <1>6 DEF StartAgent
    <2>3. CASE /\ containers' = [containers EXCEPT ![i].status = "Running"]
               /\ PersistLocked(p, <<containers'[i]>>)
      <3>1. /\ DOMAIN containers' = DOMAIN containers
            /\ \A j \in DOMAIN containers : containers'[j].id = containers[j].id
        BY <2>3, ElementsTyped DEF TypeInv, Agent
      <3>2. PICK a : a = containers'[i]
        OBVIOUS
      <3>3. a \in Agent
        BY <2>3, <3>2, ElementsTyped DEF TypeInv, Agent, Statuses
      <3>4. Ids(containers') = Ids(containers) /\ a.id \in Ids(containers)
        BY <3>1, <3>2, SameIds DEF Ids
      <3>5. /\ pc' = [pc EXCEPT ![p] = "persist"] /\ todo' = [todo EXCEPT ![p] = <<a>>]
            /\ writer' = p
        BY <2>3, <3>2 DEF PersistLocked, Goto
      <3>6. Turn(p) /\ pc'[p] = "persist" /\ todo'[p] = <<a>>
        BY <1>0, <1>1, <1>2, <2>2, <3>5 DEF Turn, Same, TypeInv, TypeOK
      <3> QED
        BY <1>1, <1>2, <2>2, <3>3, <3>4, <3>6, LockExcludes DEF Enters
    <2>4. CASE /\ LockAgents(p)
               /\ Goto(p, "startEnsure")
               /\ UNCHANGED <<containers, todo>>
      BY <1>0, <1>1, <1>2, <2>2, <2>4
         DEF LockAgents, Goto, Quiet, Same, FileSteps, Writing, Saving, TypeInv, TypeOK
    <2> QED
      BY <2>1, <2>3, <2>4
  <1>7. CASE StopAgent(p)
    <2>1. /\ UNCHANGED <<containers, diskVars, file, todo, unwritten>>
          /\ \/ UNCHANGED <<writer, pc>>
             \/ /\ pc' = [pc EXCEPT ![p] = "stopState"]
                /\ writer = NoProc /\ writer' = p
      BY <1>7 DEF StopAgent, LockAgents, Goto, agentVars, ioVars
    <2> QED
      BY <1>0, <1>1, <1>2, <2>1 DEF Quiet, Same, FileSteps, Writing, Saving, TypeInv, TypeOK
  <1>8. CASE StartAll(p) \/ StopAll(p)
    BY <1>8 DEF StartAll, StopAll, agentVars, ioVars, Quiet, Same
  <1> QED
    BY <1>3, <1>4, <1>5, <1>6, <1>7, <1>8 DEF Request

(* A handler that goes on after an await.                                  *)
LEMMA ContinueSteps ==
    ASSUME TypeInv, LockInv, Turns, NEW p \in Handlers, Continue(p)
    PROVE  Quiet \/ Pushes(p) \/ Enters(p) \/ Deletes(p) \/ Imports(p)
  <1>1. /\ p \in Procs /\ p # Reconciler /\ p # NoProc /\ Reconciler # NoProc
        /\ NoProc \notin Procs
    BY ProcAssumption DEF Procs
  <1>2. pc[p] \in AgentSteps /\ pc[p] \notin FileSteps
    BY DEF Continue, CreateContainer, CreatePush, CreateIndex, ImportPush, DeleteContainer,
           DeleteState, StartEnsure, StartRun, StartProbe, StopState, AgentSteps, FileSteps, Writing, Saving
  <1>3. loc[p] \in Agent /\ \A q \in Procs : q # p => loc'[q] = loc[q]
    BY <1>1, <1>2, OthersKeepLoc DEF TypeInv, LocTyped
  <1>4. CASE CreateContainer(p) \/ DeleteContainer(p) \/ StartEnsure(p) \/ StartRun(p)
    <2>1. /\ UNCHANGED <<containers, diskVars, file, todo, unwritten>>
          /\ pc[p] # "index"
      BY <1>4 DEF CreateContainer, DeleteContainer, StartEnsure, StartRun, agentVars, ioVars
    <2>2. /\ writer' = writer \/ (writer = p /\ writer' = NoProc)
          /\ \E step \in {"push", "idle", "delState", "startRun", "startProbe"} :
                pc' = [pc EXCEPT ![p] = step]
      BY <1>4 DEF CreateContainer, DeleteContainer, StartEnsure, StartRun, Goto, Fail, Release
    <2> QED
      BY <1>1, <1>2, <1>3, <2>1, <2>2 DEF Quiet, Same, FileSteps, Writing, Saving, TypeInv, TypeOK
  <1>5. CASE CreatePush(p) \/ CreateIndex(p)
    <2>1. CASE CreatePush(p)
      <3>1. /\ containers' = Append(containers, loc[p])
            /\ pc[p] = "push" /\ pc' = [pc EXCEPT ![p] = "index"]
            /\ writer = NoProc /\ writer' = p
            /\ UNCHANGED <<diskVars, loc, file, todo, unwritten>>
        BY <2>1 DEF CreatePush, LockAgents, Goto, ioVars
      <3>2. Ids(containers') = Ids(containers) \cup {loc'[p].id}
        BY <1>3, <3>1, AppendIds DEF TypeInv, TypeOK
      <3>3. Turn(p) /\ pc'[p] = "index"
        BY <1>1, <1>2, <3>1 DEF Turn, Same, TypeInv, TypeOK
      <3> QED
        BY <1>1, <3>1, <3>2, <3>3, LockExcludes DEF Pushes
    <2>2. CASE CreateIndex(p)
      <3>1. /\ pc[p] = "index" /\ pc' = [pc EXCEPT ![p] = "persist"]
            /\ todo' = [todo EXCEPT ![p] = <<loc[p]>>]
            /\ UNCHANGED <<containers, diskVars, file, unwritten>>
        BY <2>2 DEF CreateIndex, Goto
      <3>2. writer = p /\ writer' = NoProc /\ loc[p].id \in Ids(containers)
        BY <2>2, <3>1 DEF CreateIndex, Release, LockInv, LockSteps
      <3>3. Turn(p) /\ pc'[p] = "persist" /\ todo'[p] = <<loc[p]>>
        BY <1>1, <1>2, <1>3, <3>1, <3>2 DEF Turn, Same, TypeInv, TypeOK
      <3> QED
        BY <1>1, <1>3, <3>1, <3>2, <3>3, LockExcludes DEF Enters
    <2> QED
      BY <1>5, <2>1, <2>2
  <1>6. CASE ImportPush(p)
    <2>1. /\ containers' = Append(containers, loc[p])
          /\ pc[p] = "importPush" /\ pc' = [pc EXCEPT ![p] = "idle"]
          /\ UNCHANGED <<diskVars, file, todo, writer>>
          /\ unwritten' = unwritten \cup {loc[p].id}
      BY <1>6 DEF ImportPush, Goto
    <2>2. Ids(containers') = Ids(containers) \cup {loc[p].id}
      BY <1>3, <2>1, AppendIds DEF TypeInv, TypeOK
    <2> QED
      BY <1>1, <1>2, <1>3, <2>1, <2>2 DEF Imports, Turn, Same, TypeInv, TypeOK
  <1>7. CASE DeleteState(p)
    <2>1. /\ containers' \in Retained(containers, loc[p].id)
          /\ todo' = [todo EXCEPT ![p] = <<loc[p]>>]
          /\ pc[p] = "delState" /\ pc' = [pc EXCEPT ![p] = "remove"]
          /\ writer = NoProc /\ writer' = p /\ UNCHANGED <<diskVars, file, unwritten>>
      BY <1>7 DEF DeleteState, LockAgents, Goto
    <2>2. Ids(containers') = Ids(containers) \ {loc[p].id}
      BY <2>1, RetainedIds DEF TypeInv, TypeOK
    <2>3. Turn(p) /\ pc'[p] = "remove" /\ todo'[p] = <<loc[p]>>
      BY <1>1, <1>2, <1>3, <2>1 DEF Turn, Same, TypeInv, TypeOK
    <2> QED
      BY <1>1, <1>3, <2>1, <2>2, <2>3, LockExcludes DEF Deletes
  <1>8. CASE StartProbe(p)
    <2>1. /\ writer = p /\ UNCHANGED <<diskVars, file, unwritten>>
          /\ pc[p] # "index"
      BY <1>8 DEF StartProbe, LockInv, LockSteps
    <2>2. CASE SetStatus(p, "Running")
      BY <1>2, <2>1, <2>2, SetStatusEnters DEF Statuses
    <2>3. CASE Fail(p) /\ UNCHANGED <<containers, todo>>
      BY <1>1, <1>2, <1>3, <2>1, <2>3
         DEF Fail, Goto, Release, Quiet, Same, FileSteps, Writing, Saving, TypeInv, TypeOK
    <2> QED
      BY <1>8, <2>2, <2>3 DEF StartProbe
  <1>9. CASE StopState(p)
    <2>1. /\ writer = p /\ SetStatus(p, "Stopped") /\ UNCHANGED <<diskVars, file, unwritten>>
          /\ pc[p] # "index"
      BY <1>9 DEF StopState, LockInv, LockSteps
    <2> QED
      BY <1>2, <2>1, SetStatusEnters DEF Statuses
  <1> QED
    BY <1>4, <1>5, <1>6, <1>7, <1>8, <1>9 DEF Continue

LEMMA AdvanceMoves ==
    ASSUME TypeInv, NEW p \in Procs, pc[p] \in FileSteps, Advance(p)
    PROVE  Moves(p) /\ \A q \in Procs : q # p =>
              pc'[q] = pc[q] /\ todo'[q] = todo[q] /\ (writer' = q <=> writer = q)
  <1>1. todo[p] \in Seq(Agent) /\ todo[p] # <<>>
    BY DEF TypeInv, TypeOK, TodoTyped, FileSteps, Writing, Saving
  <1>2. Len(todo[p]) = 1 => Ids(Tail(todo[p])) = {}
    BY <1>1, IdsHeadTail
  <1>3. NoProc \notin Procs
    BY ProcAssumption DEF Procs
  <1> QED
    BY <1>2, <1>3 DEF Advance, Goto, Release, Moves, TypeInv, TypeOK

(* The parts of an update of agents.json.                                  *)
LEMMA FileStepSteps ==
    ASSUME TypeInv, NEW p \in Procs, FileStep(p) \/ FileFails(p)
    PROVE  Loads(p) \/ Truncates(p) \/ Saves(p) \/ Fails(p)
  <1>1. pc[p] \in FileSteps
    BY DEF FileStep, LoadForUpsert, LoadForRemove, TruncateFile, WriteFile, FileFails,
           FileSteps, Writing, Saving
  <1>2. todo[p] \in Seq(Agent) /\ todo[p] # <<>> /\ Head(todo[p]) \in Agent
    BY <1>1, IdsHeadTail DEF TypeInv, TypeOK, TodoTyped, FileSteps, Writing, Saving
  <1>3. disk \in Seq(Agent)
    BY DEF TypeInv, TypeOK
  <1>4. CASE LoadForUpsert(p)
    <2>1. UNCHANGED <<containers, loc>> /\ UNCHANGED diskVars /\ pc[p] = "persist"
      BY <1>4 DEF LoadForUpsert, agentVars
    <2>2. CASE readable
      <3>1. /\ file' = [file EXCEPT ![p] = Upsert(disk, Head(todo[p]))]
            /\ pc' = [pc EXCEPT ![p] = "save"] /\ UNCHANGED <<todo, writer, unwritten>>
        BY <1>4, <2>2 DEF LoadForUpsert, Goto
      <3>2. /\ file'[p] = Upsert(disk, Head(todo[p])) /\ pc'[p] = "save"
            /\ \A q \in Procs : q # p => Same(q)
        BY <2>1, <3>1 DEF Same, TypeInv, TypeOK
      <3>3. Ids(file'[p]) = Ids(disk) \cup {Head(todo[p]).id}
        BY <1>2, <1>3, <3>2, UpsertIds
      <3> QED
        BY <2>1, <2>2, <3>1, <3>2, <3>3 DEF Loads, Writes
    <2>3. CASE ~readable
      <3>1. Advance(p) /\ Failed(p) /\ UNCHANGED file
        BY <1>4, <2>3 DEF LoadForUpsert
      <3> QED
        BY <1>1, <2>1, <3>1, AdvanceMoves DEF Fails, Failed, Writes, Same
    <2> QED
      BY <2>2, <2>3
  <1>5. CASE LoadForRemove(p)
    <2>1. UNCHANGED <<containers, loc>> /\ UNCHANGED diskVars /\ pc[p] = "remove"
      BY <1>5 DEF LoadForRemove, agentVars
    <2>2. CASE readable
      <3>1. PICK t \in Retained(disk, Head(todo[p]).id) : file' = [file EXCEPT ![p] = t]
        BY <1>5, <2>2 DEF LoadForRemove
      <3>2. pc' = [pc EXCEPT ![p] = "save"] /\ UNCHANGED <<todo, writer, unwritten>>
        BY <1>5, <2>2 DEF LoadForRemove, Goto
      <3>3. /\ file'[p] = t /\ pc'[p] = "save"
            /\ \A q \in Procs : q # p => Same(q)
        BY <2>1, <3>1, <3>2 DEF Same, TypeInv, TypeOK
      <3>4. Ids(file'[p]) = Ids(disk) \ {Head(todo[p]).id}
        BY <1>3, <3>1, <3>3, RetainedIds
      <3> QED
        BY <2>1, <2>2, <3>2, <3>3, <3>4 DEF Loads, Writes
    <2>3. CASE ~readable
      <3>1. Advance(p) /\ Failed(p) /\ UNCHANGED file
        BY <1>5, <2>3 DEF LoadForRemove
      <3> QED
        BY <1>1, <2>1, <3>1, AdvanceMoves DEF Fails, Failed, Writes, Same
    <2> QED
      BY <2>2, <2>3
  <1>6. CASE TruncateFile(p)
    <2>1. /\ UNCHANGED <<containers, loc, writer, file, todo, unwritten>>
          /\ pc[p] = "save" /\ pc' = [pc EXCEPT ![p] = "write"]
          /\ disk' = <<>> /\ form' = "empty"
      BY <1>6 DEF TruncateFile, Goto, agentVars, ioVars
    <2>2. pc'[p] = "write" /\ \A q \in Procs : q # p => Same(q)
      BY <2>1 DEF Same, TypeInv, TypeOK
    <2> QED
      BY <2>1, <2>2 DEF Truncates, Writes, readable
  <1>7. CASE WriteFile(p)
    <2>1. /\ UNCHANGED <<containers, loc>> /\ pc[p] = "write" /\ Advance(p)
          /\ file' = [file EXCEPT ![p] = <<>>] /\ Written(p)
          /\ disk' = file[p] \/ (disk' = <<>> /\ form' = "garbled")
      BY <1>7 DEF WriteFile, agentVars
    <2>2. \A q \in Procs : q # p => file'[q] = file[q]
      BY <2>1 DEF TypeInv, TypeOK
    <2>3. /\ unwritten' \subseteq unwritten
          /\ unwritten \subseteq unwritten' \cup {Head(todo[p]).id}
          /\ \A q \in Procs : q # p /\ pc[q] \in Saving => unwritten' = unwritten
      BY <2>1 DEF Written, Saving
    <2> QED
      BY <1>1, <2>1, <2>2, <2>3, AdvanceMoves DEF Saves, Writes, Same, readable
  <1>8. CASE FileFails(p)
    <2>1. /\ UNCHANGED <<containers, loc>> /\ Advance(p)
          /\ file' = [file EXCEPT ![p] = <<>>] /\ Failed(p)
          /\ UNCHANGED diskVars \/ (disk' = <<>> /\ form' = "garbled")
      BY <1>8 DEF FileFails, agentVars
    <2>2. \A q \in Procs : q # p => file'[q] = file[q]
      BY <2>1 DEF TypeInv, TypeOK
    <2> QED
      BY <1>1, <2>1, <2>2, AdvanceMoves DEF Fails, Failed, Writes, Same, readable
  <1> QED
    BY <1>4, <1>5, <1>6, <1>7, <1>8 DEF FileStep

LEMMA ReconciledKeepsId ==
    ASSUME TypeInv, NEW i \in DOMAIN containers
    PROVE  Reconciled(containers[i]).id = containers[i].id
  <1>1. containers[i] \in Agent /\ listing[containers[i].name] \in Statuses \cup {"absent"}
    BY ElementsTyped DEF TypeInv, TypeOK, Agent
  <1>2. \A st \in Statuses : [containers[i] EXCEPT !.status = st].id = containers[i].id
    BY <1>1 DEF Agent
  <1> QED
    BY <1>1, <1>2 DEF Reconciled, Statuses

LEMMA SyncSteps ==
    ASSUME TypeInv, SyncList \/ SyncApply
    PROVE  Quiet \/ Applies
  <1>1. Reconciler \in Procs /\ NoProc \notin Procs /\ Reconciler # NoProc
    BY ProcAssumption DEF Procs
  <1>2. CASE SyncList
    <2>1. /\ UNCHANGED <<containers, diskVars, writer, loc, file, todo, unwritten>>
          /\ pc[Reconciler] = "idle" /\ pc' = [pc EXCEPT ![Reconciler] = "apply"]
      BY <1>2 DEF SyncList, Goto, agentVars, ioVars
    <2> QED
      BY <1>1, <2>1 DEF Quiet, Same, FileSteps, Writing, Saving, TypeInv, TypeOK
  <1>3. CASE SyncApply
    <2> DEFINE new == [i \in DOMAIN containers |-> Reconciled(containers[i])]
    <2>1. Ids(new) = Ids(containers)
      <3>1. DOMAIN new = DOMAIN containers
        OBVIOUS
      <3>2. \A i \in DOMAIN containers : new[i].id = containers[i].id
        BY ReconciledKeepsId
      <3> HIDE DEF new
      <3> QED
        BY <3>1, <3>2, SameIds
    <2>2. /\ UNCHANGED <<diskVars, loc, file, unwritten>> /\ pc[Reconciler] = "apply"
          /\ writer = NoProc
          /\ \/ /\ UNCHANGED <<containers, writer, todo>>
                /\ pc' = [pc EXCEPT ![Reconciler] = "idle"]
             \/ /\ containers' = new
                /\ todo' = [todo EXCEPT ![Reconciler] = new]
                /\ pc' = [pc EXCEPT ![Reconciler] = "persist"]
                /\ writer' = Reconciler
      BY <1>3 DEF SyncApply, PersistLocked, Goto, agentVars
    <2> HIDE DEF new
    <2>3. CASE /\ UNCHANGED <<containers, writer, todo>>
               /\ pc' = [pc EXCEPT ![Reconciler] = "idle"]
      BY <1>1, <2>2, <2>3 DEF Quiet, Same, FileSteps, Writing, Saving, TypeInv, TypeOK
    <2>4. CASE /\ containers' = new
               /\ todo' = [todo EXCEPT ![Reconciler] = new]
               /\ pc' = [pc EXCEPT ![Reconciler] = "persist"]
               /\ writer' = Reconciler
      <3>1. Turn(Reconciler) /\ pc'[Reconciler] = "persist" /\ todo'[Reconciler] = new
        BY <1>1, <2>2, <2>4 DEF Turn, Same, FileSteps, Writing, Saving, TypeInv, TypeOK
      <3> QED
        BY <2>1, <2>2, <2>4, <3>1 DEF Applies
    <2> QED
      BY <2>2, <2>3, <2>4
  <1> QED
    BY <1>2, <1>3

LEMMA RestartSteps ==
    ASSUME TypeInv, CrashRestart
    PROVE  Restarts
  <1>1. PICK docker \in {{}, {c \in DOMAIN world : /\ world[c].client = "docker"
                                                /\ world[c].state # "gone"}} :
           \E new \in Strangers(disk, docker) : containers' = Merged(disk, docker) \o new
    BY DEF CrashRestart
  <1>2. PICK new \in Strangers(disk, docker) : containers' = Merged(disk, docker) \o new
    BY <1>1
  <1>3. disk \in Seq(Agent)
    BY DEF TypeInv, TypeOK
  <1>4. docker \in SUBSET Nat /\ IsFiniteSet(docker)
    <2>1. DOMAIN world = 1 .. Len(world) /\ Len(world) \in Nat /\ docker \subseteq DOMAIN world
      BY ElementsTyped DEF TypeInv
    <2>2. IsFiniteSet(1 .. Len(world))
      BY <2>1, FS_Interval
    <2> QED
      BY <2>1, <2>2, FS_Subset
  <1>5. new \in Seq({Adopted(c) : c \in docker})
    BY <1>2, <1>4, StrangersUnique
  <1> DEFINE old == Merged(disk, docker)
  <1>6. DOMAIN old = DOMAIN disk /\ old \in Seq(Agent) /\ \A i \in DOMAIN disk : old[i].id = disk[i].id
    <2>1. \A i \in DOMAIN disk : disk[i] \in Agent
      BY <1>3, LenProperties, ElementOfSeq
    <2>2. old \in [DOMAIN disk -> Agent]
      BY <2>1, StatusTyped DEF Merged, Agent, Statuses
    <2>3. \A i \in DOMAIN disk : old[i].id = disk[i].id
      BY <2>1 DEF Merged, Agent
    <2> QED
      BY <1>3, <2>2, <2>3, MapIsSeq
  <1> HIDE DEF old
  <1>7. Ids(containers') = Ids(old) \cup Ids(new)
    BY <1>2, <1>5, <1>6, ConcatIds DEF old
  <1>8. Ids(old) = Ids(disk)
    BY <1>6, SameIds
  <1>9. /\ pc' = [q \in Procs |-> "idle"] /\ UNCHANGED diskVars
        /\ unwritten' = Ids(containers') \ Ids(disk)
    BY DEF CrashRestart
  <1> QED
    BY <1>7, <1>8, <1>9 DEF Restarts

LEMMA Steps ==
    ASSUME TypeInv, LockInv, Turns, [Next]_vars
    PROVE  Step
  <1>1. CASE \E p \in Handlers : Request(p)
    BY <1>1, RequestSteps DEF Step
  <1>2. CASE \E p \in Handlers : Continue(p)
    BY <1>2, ContinueSteps DEF Step
  <1>3. CASE \E p \in Procs : FileStep(p) \/ FileFails(p)
    BY <1>3, FileStepSteps DEF Step
  <1>4. CASE SyncList \/ SyncApply
    BY <1>4, SyncSteps DEF Step
  <1>5. CASE ContainerExit \/ ContainerPruned
    BY <1>5 DEF ContainerExit, ContainerPruned, agentVars, ioVars, Quiet, Same, Step
  <1>6. CASE ClientHangsUp
    <2>1. PICK p \in Handlers :
             /\ pc[p] \notin {"idle", "persist", "remove", "save", "write"}
             /\ unwritten' = IF pc[p] = "index" THEN unwritten \cup {loc[p].id} ELSE unwritten
             /\ Fail(p)
      BY <1>6 DEF ClientHangsUp
    <2>2. /\ UNCHANGED <<containers, file, todo>> /\ UNCHANGED diskVars
          /\ pc' = [pc EXCEPT ![p] = "idle"] /\ loc' = [loc EXCEPT ![p] = <<>>]
          /\ writer' = IF writer = p THEN NoProc ELSE writer
      BY <1>6, <2>1 DEF ClientHangsUp, Fail, Goto, Release, Drop, agentVars
    <2>3. p \in Procs /\ p # Reconciler /\ NoProc \notin Procs
      BY ProcAssumption DEF Procs
    <2>4. /\ \A q \in Procs : q # p => Same(q)
          /\ pc[p] \notin FileSteps /\ pc'[p] = "idle"
      BY <2>1, <2>2, <2>3 DEF Same, FileSteps, Writing, Saving, TypeInv, TypeOK
    <2>5. unwritten \subseteq unwritten' /\ (pc[p] = "index" => loc[p].id \in unwritten')
      BY <2>1
    <2> QED
      BY <2>2, <2>3, <2>4, <2>5 DEF Quiet, Step, FileSteps, Writing, Saving
  <1>7. CASE CrashRestart
    BY <1>7, RestartSteps DEF Step
  <1>8. CASE UNCHANGED vars
    BY <1>8 DEF vars, diskVars, Quiet, Same, Step
  <1> QED
    BY <1>1, <1>2, <1>3, <1>4, <1>5, <1>6, <1>7, <1>8 DEF Next, Environment

-----------------------------------------------------------------------------
(* Nothing stored that is not listed: the file holds the ids of the        *)
(* vector, of the unwritten and perhaps that of the agent being deleted,   *)
(* whose turn excludes every other writer.  A half-done write holds ids of *)
(* the first two only, or it would bring a deleted agent back; and that of *)
(* the agent it is for only if that is listed, as it will be unwritten no  *)
(* more.                                                                   *)

Deleting(id) == \E p \in Handlers : /\ pc[p] \in {"remove", "save", "write"}
                                    /\ id \in Ids(todo[p])

StoredInv ==
    /\ \A id \in Ids(disk) : id \in Ids(containers) \/ Deleting(id) \/ id \in unwritten
    /\ \A p \in Procs : pc[p] \in Saving =>
          /\ Ids(file[p]) \subseteq Ids(containers) \cup unwritten
          /\ Head(todo[p]).id \in Ids(file[p]) => Head(todo[p]).id \in Ids(containers)
    /\ \A p \in Procs : \/ pc[p] = "persist"
                        \/ pc[p] \in Saving /\ writer # p
                        \/ p = Reconciler /\ pc[p] \in Writing
          => Ids(todo[p]) \subseteq Ids(containers)

LEMMA StoredInductive ==
    ASSUME OneHandler, TypeInv, Turns, StoredInv, Step
    PROVE  StoredInv'
  <1>1. /\ Reconciler \in Procs /\ Reconciler \notin Handlers
        /\ \A p \in Handlers : p \in Procs /\ p # Reconciler
        /\ \A p \in Procs : p \in Handlers \/ p = Reconciler
        /\ \A p, q \in Handlers : p = q
    BY ProcAssumption DEF Procs, OneHandler
  <1>2. \A p \in Procs : pc[p] \in FileSteps =>
           /\ Ids(todo[p]) = {Head(todo[p]).id} \cup Ids(Tail(todo[p]))
           /\ Len(todo[p]) = 1 => Ids(Tail(todo[p])) = {}
    BY IdsHeadTail DEF TypeInv, TypeOK, TodoTyped, FileSteps, Writing, Saving
  <1> USE DEF FileSteps, Writing, Saving
  <1>3. CASE Quiet
    BY <1>1, <1>3 DEF Quiet, diskVars, Same, StoredInv, Deleting
  <1>4. ASSUME NEW p \in Handlers, Pushes(p)
        PROVE  StoredInv'
    BY <1>1, <1>4 DEF Pushes, Turn, diskVars, Same, StoredInv, Deleting
  <1>5. ASSUME NEW p \in Handlers, Enters(p)
        PROVE  StoredInv'
    <2>1. PICK a \in Agent : todo'[p] = <<a>> /\ a.id \in Ids(containers)
      BY <1>5 DEF Enters
    <2>2. Ids(todo'[p]) = {a.id}
      BY <2>1, IdsOne
    <2> QED
      BY <1>1, <1>5, <2>1, <2>2 DEF Enters, Turn, diskVars, Same, StoredInv, Deleting
  <1>6. ASSUME NEW p \in Handlers, Rewrites(p)
        PROVE  StoredInv'
    <2>1. PICK a \in Agent : todo'[p] = <<a>> /\ a.id \in Ids(containers)
      BY <1>6 DEF Rewrites
    <2>2. Head(todo'[p]).id \in Ids(containers)
      BY <2>1, IdsOne
    <2> QED
      BY <1>1, <1>6, <2>2 DEF Rewrites, Turn, diskVars, Same, StoredInv, Deleting
  <1>7. ASSUME NEW p \in Handlers, Deletes(p)
        PROVE  StoredInv'
    <2>1. PICK a \in Agent : /\ todo'[p] = <<a>>
                             /\ Ids(containers') = Ids(containers) \ {a.id}
      BY <1>7 DEF Deletes
    <2>2. Ids(todo'[p]) = {a.id}
      BY <2>1, IdsOne
    <2> QED
      BY <1>1, <1>7, <2>1, <2>2 DEF Deletes, Turn, diskVars, Same, StoredInv, Deleting
  <1>8. ASSUME NEW p \in Handlers, Imports(p)
        PROVE  StoredInv'
    BY <1>1, <1>8 DEF Imports, Turn, diskVars, Same, StoredInv, Deleting
  <1>9. CASE Applies
    BY <1>1, <1>9 DEF Applies, Turn, diskVars, Same, StoredInv, Deleting
  <1>10. ASSUME NEW p \in Procs, Loads(p)
         PROVE  StoredInv'
    <2>1. /\ Ids(file'[p]) \subseteq Ids(containers) \cup unwritten
          /\ Head(todo[p]).id \in Ids(file'[p]) => Head(todo[p]).id \in Ids(containers)
      <3>1. CASE pc[p] = "persist" /\ Ids(file'[p]) = Ids(disk) \cup {Head(todo[p]).id}
        <4>1. Head(todo[p]).id \in Ids(containers)
          BY <1>2, <3>1 DEF StoredInv
        <4>2. \A id \in Ids(disk) : id \in Ids(containers) \/ id \in unwritten
          BY <1>1, <3>1 DEF StoredInv, Deleting, Turns
        <4> QED
          BY <3>1, <4>1, <4>2
      <3>2. CASE pc[p] = "remove" /\ Ids(file'[p]) = Ids(disk) \ {Head(todo[p]).id}
        <4>1. p \in Handlers /\ Ids(todo[p]) = {Head(todo[p]).id}
          BY <1>1, <1>2, <3>2 DEF Turns
        <4> QED
          BY <1>1, <3>2, <4>1 DEF StoredInv, Deleting
      <3> QED
        BY <1>10, <3>1, <3>2 DEF Loads
    <2> QED
      BY <1>1, <1>10, <2>1 DEF Loads, Writes, diskVars, Same, Turns, StoredInv, Deleting
  <1>11. ASSUME NEW p \in Procs, Truncates(p)
         PROVE  StoredInv'
    <2>1. Ids(disk') = {}
      BY <1>11, IdsOne DEF Truncates
    <2> QED
      BY <1>1, <1>11, <2>1 DEF Truncates, Writes, Same, StoredInv, Deleting
  <1>12. ASSUME NEW p \in Procs, Saves(p)
         PROVE  StoredInv'
    <2>1. Ids(todo'[p]) \subseteq Ids(todo[p])
      BY <1>2, <1>12 DEF Saves, Moves
    <2>2. Ids(disk') = Ids(file[p]) \/ Ids(disk') = {}
      BY <1>12, IdsOne DEF Saves
    <2>3. \A id \in Ids(disk') : id \in Ids(containers) \/ id \in unwritten'
      BY <1>12, <2>2 DEF Saves, StoredInv
    <2>4. \A q \in Procs : q # p /\ pc[q] \in Saving => unwritten' = unwritten
      BY <1>12 DEF Saves
    <2>5. /\ UNCHANGED containers /\ \A q \in Procs : q # p => Same(q)
          /\ Moves(p) /\ pc[p] = "write"
      BY <1>12 DEF Saves, Writes
    <2> QED
      BY <1>1, <2>1, <2>3, <2>4, <2>5 DEF Moves, Same, Turns, StoredInv, Deleting
  <1>13. ASSUME NEW p \in Procs, Fails(p)
         PROVE  StoredInv'
    <2>1. Ids(todo'[p]) \subseteq Ids(todo[p])
      BY <1>2, <1>13 DEF Fails, Moves
    <2>2. Ids(disk') = Ids(disk) \/ Ids(disk') = {}
      BY <1>13, IdsOne DEF Fails, diskVars
    <2>3. \A id \in Ids(todo[p]) : p \in Handlers => id \in unwritten'
      BY <1>1, <1>2, <1>13 DEF Fails, Turns
    <2>4. /\ UNCHANGED containers /\ \A q \in Procs : q # p => Same(q)
          /\ Moves(p) /\ pc[p] \in FileSteps /\ unwritten \subseteq unwritten'
      BY <1>13 DEF Fails, Writes
    <2>5. \A id \in Ids(disk') : id \in Ids(containers') \/ Deleting(id)' \/ id \in unwritten'
      BY <1>1, <2>2, <2>3, <2>4 DEF Same, StoredInv, Deleting
    <2> QED
      BY <1>1, <2>1, <2>4, <2>5 DEF Moves, Same, Turns, StoredInv
  <1>14. CASE Restarts
    BY <1>14 DEF Restarts, diskVars, StoredInv
  <1> QED
    BY <1>3, <1>4, <1>5, <1>6, <1>7, <1>8, <1>9, <1>10, <1>11, <1>12, <1>13, <1>14 DEF Step

-----------------------------------------------------------------------------
(* Nothing listed that a restart would forget, but for the unwritten.  A   *)
(* write under way replaces the file, so what it will leave has to cover   *)
(* the vector as well as what the file holds now; and as the reconciler's  *)
(* writes and those of create_agent may overlap, each has to cover it      *)
(* after the other.  A write that succeeds makes its agent due again, so   *)
(* it has to hold that one although it was unwritten.                      *)

Covered(X) == Ids(containers) \ unwritten \subseteq X

ListedInv ==
    /\ readable => \A id \in Ids(containers) \ unwritten : id \in Ids(disk) \/ Persisting(id)
    /\ \A p \in Handlers :
          /\ pc[p] \in Saving =>
                \A id \in Ids(containers) :
                    id \in Ids(file[p]) \/ (id \in unwritten /\ id \notin Ids(todo[p]))
          /\ readable /\ pc[p] = "index" => Covered(Ids(disk) \cup {loc[p].id})
          /\ readable /\ pc[p] = "persist" => Covered(Ids(disk) \cup Ids(todo[p]))
          /\ pc[p] = "remove" => Head(todo[p]).id \notin Ids(containers)
          /\ pc[p] = "persist" /\ pc[Reconciler] \in Saving =>
                Covered(Ids(file[Reconciler]) \cup Ids(todo[p]))
    /\ readable /\ pc[Reconciler] \in Writing => Covered(Ids(disk) \cup Ids(todo[Reconciler]))
    /\ pc[Reconciler] \in Saving =>
          /\ Covered(Ids(file[Reconciler]) \cup Ids(Tail(todo[Reconciler])))
          /\ Head(todo[Reconciler]).id \in Ids(file[Reconciler])

LEMMA ListedInductive ==
    ASSUME OneHandler, TypeInv, Turns, ListedInv, Step
    PROVE  ListedInv'
  <1>1. /\ Reconciler \in Procs /\ Reconciler \notin Handlers
        /\ \A p \in Handlers : p \in Procs /\ p # Reconciler
        /\ \A p \in Procs : p \in Handlers \/ p = Reconciler
        /\ \A p, q \in Handlers : p = q
    BY ProcAssumption DEF Procs, OneHandler
  <1>2. \A p \in Procs : pc[p] \in FileSteps =>
           /\ Ids(todo[p]) = {Head(todo[p]).id} \cup Ids(Tail(todo[p]))
           /\ Len(todo[p]) = 1 => Ids(Tail(todo[p])) = {}
    BY IdsHeadTail DEF TypeInv, TypeOK, TodoTyped, FileSteps, Writing, Saving
  <1> USE DEF FileSteps, Writing, Saving
  <1>3. CASE Quiet
    BY <1>1, <1>3 DEF Quiet, diskVars, readable, Same, ListedInv, Persisting, Covered
  <1>4. ASSUME NEW p \in Handlers, Pushes(p)
        PROVE  ListedInv'
    BY <1>1, <1>4 DEF Pushes, Turn, diskVars, readable, Same, Turns, ListedInv, Persisting, Covered
  <1>5. ASSUME NEW p \in Handlers, Enters(p)
        PROVE  ListedInv'
    <2>1. PICK a \in Agent : /\ todo'[p] = <<a>> /\ a.id \in Ids(containers)
                             /\ pc[p] = "index" => a = loc[p]
      BY <1>5 DEF Enters
    <2>2. Ids(todo'[p]) = {a.id}
      BY <2>1, IdsOne
    <2> QED
      BY <1>1, <1>5, <2>1, <2>2
         DEF Enters, Turn, diskVars, readable, Same, Turns, ListedInv, Persisting, Covered
  <1>6. ASSUME NEW p \in Handlers, Rewrites(p)
        PROVE  ListedInv'
    BY <1>1, <1>6
       DEF Rewrites, Turn, diskVars, readable, Same, Turns, ListedInv, Persisting, Covered
  <1>7. ASSUME NEW p \in Handlers, Deletes(p)
        PROVE  ListedInv'
    <2>1. PICK a \in Agent : /\ todo'[p] = <<a>>
                             /\ Ids(containers') = Ids(containers) \ {a.id}
      BY <1>7 DEF Deletes
    <2>2. Head(todo'[p]) = a
      BY <2>1, IdsOne
    <2> QED
      BY <1>1, <1>7, <2>1, <2>2
         DEF Deletes, Turn, diskVars, readable, Same, Turns, ListedInv, Persisting, Covered
  <1>8. ASSUME NEW p \in Handlers, Imports(p)
        PROVE  ListedInv'
    BY <1>1, <1>8
       DEF Imports, Turn, diskVars, readable, Same, Turns, ListedInv, Persisting, Covered
  <1>9. CASE Applies
    BY <1>1, <1>9
       DEF Applies, Turn, diskVars, readable, Same, Turns, ListedInv, Persisting, Covered
  <1>10. ASSUME NEW p \in Procs, Loads(p)
         PROVE  ListedInv'
    BY <1>1, <1>2, <1>10
       DEF Loads, Writes, diskVars, readable, Same, Turns, ListedInv, Persisting, Covered
  <1>11. ASSUME NEW p \in Procs, Truncates(p)
         PROVE  ListedInv'
    BY <1>1, <1>11 DEF Truncates, Writes, readable, Same, Turns, ListedInv, Persisting, Covered
  <1>12. ASSUME NEW p \in Procs, Saves(p)
         PROVE  ListedInv'
    BY <1>1, <1>2, <1>12
       DEF Saves, Moves, Writes, readable, Same, Turns, ListedInv, Persisting, Covered
  <1>13. ASSUME NEW p \in Procs, Fails(p)
         PROVE  ListedInv'
    BY <1>1, <1>2, <1>13
       DEF Fails, Moves, Writes, diskVars, readable, Same, Turns, ListedInv, Persisting, Covered
  <1>14. CASE Restarts
    BY <1>1, <1>14 DEF Restarts, diskVars, readable, ListedInv, Covered
  <1> QED
    BY <1>3, <1>4, <1>5, <1>6, <1>7, <1>8, <1>9, <1>10, <1>11, <1>12, <1>13, <1>14 DEF Step

-----------------------------------------------------------------------------
(* The theorems.                                                           *)

LEMMA TurnsAlways == Spec => []Turns
  <1>1. Init => Turns
    BY DEF Init, Turns, FileSteps, Writing, Saving, Procs
  <1>2. TypeInv /\ LockInv /\ Turns /\ [Next]_vars => Turns'
    BY Steps, TurnsInductive
  <1> QED
    BY <1>1, <1>2, TypeInvAlways, LockInvAlways, PTL DEF Spec

(* With one handler at a time, agents.json never holds an agent the API    *)
(* does not list, but for the one delete_agent is about to remove from it  *)
(* and those whose removal failed: whatever the reconciler writes, where   *)
(* its writes and the handler's cut each other short, and wherever the     *)
(* orchestrator dies, no other deleted agent comes back.                   *)
THEOREM StoredListed ==
    ASSUME OneHandler
    PROVE  Spec => []StoredAgentsAreListed
  <1>1. Init => StoredInv
    <2>1. Ids(<<>>) = {}
      BY IdsOne
    <2> QED
      BY <2>1 DEF Init, StoredInv, Procs, Writing, Saving
  <1>2. TypeInv /\ LockInv /\ Turns /\ StoredInv /\ [Next]_vars => StoredInv'
    BY Steps, StoredInductive
  <1>3. StoredInv => StoredAgentsAreListed
    BY DEF StoredInv, StoredAgentsAreListed, Deleting, Ids
  <1> QED
    BY <1>1, <1>2, <1>3, TypeInvAlways, LockInvAlways, TurnsAlways, PTL DEF Spec

(* With one handler at a time, every agent the API lists is in agents.json *)
(* or about to be written there whenever the file parses, but for one no   *)
(* write was made for (import_agent, a client that hung up, a container    *)
(* adopted at startup) or of which a write failed: for any interleaving    *)
(* with the reconciler's reads, truncations and writes, and with crashes.  *)
THEOREM ListedSurvive ==
    ASSUME OneHandler
    PROVE  Spec => []ListedAgentsSurviveRestart
  <1>1. Init => ListedInv
    <2>1. Ids(<<>>) = {}
      BY IdsOne
    <2>2. Reconciler \in Procs /\ Handlers \subseteq Procs
      BY DEF Procs
    <2> QED
      BY <2>1, <2>2 DEF Init, ListedInv, Writing, Saving
  <1>2. TypeInv /\ LockInv /\ Turns /\ ListedInv /\ [Next]_vars => ListedInv'
    BY Steps, ListedInductive
  <1>3. ListedInv => ListedAgentsSurviveRestart
    BY DEF ListedInv, ListedAgentsSurviveRestart, Ids
  <1> QED
    BY <1>1, <1>2, <1>3, TypeInvAlways, LockInvAlways, TurnsAlways, PTL DEF Spec
=============================================================================
