------------------------ MODULE AgentLifecycleProofs ------------------------
(***************************************************************************)
(* What AgentLifecycle promises for every set of names, runtimes and       *)
(* handlers and every bound.                                               *)
(***************************************************************************)
EXTENDS AgentLifecycle, FiniteSetTheorems, SequenceTheorems, WellFoundedInduction, TLAPS

-----------------------------------------------------------------------------
(* Lemmas about sequences of agents.                                       *)

(* A function on an initial segment of the naturals is a sequence.         *)
LEMMA FunIsSeq ==
    ASSUME NEW S, NEW n \in Nat, NEW f \in [1 .. n -> S]
    PROVE  f \in Seq(S) /\ Len(f) = n /\ DOMAIN f = 1 .. n
  OBVIOUS

(* A function on the positions of a sequence is a sequence of its length.  *)
LEMMA MapIsSeq ==
    ASSUME NEW S, NEW T, NEW s \in Seq(S), NEW f \in [DOMAIN s -> T]
    PROVE  f \in Seq(T) /\ Len(f) = Len(s) /\ DOMAIN f = 1 .. Len(s)
  BY LenProperties, FunIsSeq

(* The enumerations of a finite set are injective sequences of it.         *)
LEMMA EnumerationIsSeq ==
    ASSUME NEW S \in SUBSET Nat, IsFiniteSet(S), NEW e \in Enumerations(S)
    PROVE  /\ e \in Seq(S)
           /\ DOMAIN e = 1 .. Cardinality(S)
           /\ Cardinality(S) \in Nat
           /\ \A i, j \in DOMAIN e : e[i] = e[j] => i = j
  <1>1. Cardinality(S) \in Nat
    BY FS_CardinalityType
  <1>2. /\ e \in [1 .. Cardinality(S) -> S]
        /\ \A i, j \in 1 .. Cardinality(S) : i < j => e[i] < e[j]
    BY DEF Enumerations
  <1>3. e \in Seq(S) /\ DOMAIN e = 1 .. Cardinality(S)
    BY <1>1, <1>2, FunIsSeq
  <1>4. \A i, j \in 1 .. Cardinality(S) : e[i] = e[j] => i = j
    <2> SUFFICES ASSUME NEW i \in 1 .. Cardinality(S), NEW j \in 1 .. Cardinality(S),
                        e[i] = e[j]
                 PROVE  i = j
      OBVIOUS
    <2>1. i \in Nat /\ j \in Nat
      BY <1>1
    <2>2. e[i] \in S
      BY <1>2
    <2>3. e[i] \in Nat
      BY <2>2
    <2>4. ~(i < j) /\ ~(j < i)
      BY <1>2, <2>3
    <2> QED
      BY <2>1, <2>4
  <1> QED
    BY <1>1, <1>3, <1>4

(* t is s read at the positions e, none of them twice and none with id.    *)
ReadAt(t, s, e, id) ==
    /\ e \in Seq(DOMAIN s)
    /\ DOMAIN t = DOMAIN e
    /\ \A k \in DOMAIN t : t[k] = s[e[k]] /\ t[k].id # id
    /\ \A i, j \in DOMAIN e : e[i] = e[j] => i = j

(* retain keeps agents of the sequence, other than the one removed, and no *)
(* position twice.                                                         *)
LEMMA RetainedIsSeq ==
    ASSUME NEW s \in Seq(Agent), NEW id, NEW t \in Retained(s, id)
    PROVE  t \in Seq(Agent) /\ \E e : ReadAt(t, s, e, id)
  <1> DEFINE Kept == {i \in DOMAIN s : s[i].id # id}
  <1>1. PICK e \in Enumerations(Kept) : t = [k \in DOMAIN e |-> s[e[k]]]
    BY DEF Retained
  <1>2. IsFiniteSet(Kept) /\ Kept \in SUBSET Nat
    <2>1. DOMAIN s = 1 .. Len(s) /\ Len(s) \in Nat
      BY LenProperties
    <2>2. IsFiniteSet(DOMAIN s)
      BY <2>1, FS_Interval
    <2>3. Kept \in SUBSET DOMAIN s
      OBVIOUS
    <2> QED
      BY <2>1, <2>2, <2>3, FS_Subset
  <1>3. /\ e \in Seq(Kept)
        /\ \A i, j \in DOMAIN e : e[i] = e[j] => i = j
    BY <1>2, EnumerationIsSeq
  <1>4. /\ e \in Seq(DOMAIN s)
        /\ e \in [DOMAIN e -> Kept]
    BY <1>3
  <1>5. t \in [DOMAIN e -> Agent]
    BY <1>1, <1>4, ElementOfSeq, LenProperties
  <1>6. t \in Seq(Agent)
    BY <1>3, <1>5, MapIsSeq
  <1>7. ReadAt(t, s, e, id)
    BY <1>1, <1>3, <1>4, <1>5 DEF ReadAt
  <1> QED
    BY <1>6, <1>7

(* upsert_agent keeps a sequence of agents one, and adds no other id.      *)
LEMMA UpsertIsSeq ==
    ASSUME NEW s \in Seq(Agent), NEW a \in Agent
    PROVE  /\ Upsert(s, a) \in Seq(Agent)
           /\ DOMAIN s \subseteq DOMAIN Upsert(s, a)
           /\ \A i \in DOMAIN s : Upsert(s, a)[i].id = s[i].id
           /\ \A i \in DOMAIN Upsert(s, a) \ DOMAIN s :
                 /\ a.id \notin Ids(s)
                 /\ i = Len(s) + 1
                 /\ Upsert(s, a)[i] = a
  <1>1. DOMAIN s = 1 .. Len(s) /\ Len(s) \in Nat /\ \A i \in DOMAIN s : s[i] \in Agent
    BY LenProperties, ElementOfSeq
  <1>2. CASE a.id \in Ids(s)
    <2>1. Upsert(s, a) = [i \in DOMAIN s |-> IF s[i].id = a.id /\ IsFirst(s, i) THEN a ELSE s[i]]
      BY <1>2 DEF Upsert
    <2>2. Upsert(s, a) \in [DOMAIN s -> Agent]
      BY <1>1, <2>1
    <2>3. Upsert(s, a) \in Seq(Agent) /\ DOMAIN Upsert(s, a) = DOMAIN s
      BY <1>1, <2>2, MapIsSeq
    <2> QED
      BY <2>1, <2>3
  <1>3. CASE a.id \notin Ids(s)
    <2>1. Upsert(s, a) = Append(s, a)
      BY <1>3 DEF Upsert
    <2>2. /\ Append(s, a) \in Seq(Agent)
          /\ DOMAIN Append(s, a) = 1 .. Len(s) + 1
          /\ \A i \in 1 .. Len(s) : Append(s, a)[i] = s[i]
          /\ Append(s, a)[Len(s) + 1] = a
      BY <1>1
    <2> QED
      BY <1>1, <1>3, <2>1, <2>2
  <1> QED
    BY <1>2, <1>3

(* The index built for a sequence points into it.                          *)
LEMMA IndexesPoint ==
    ASSUME NEW s \in Seq(Agent), NEW f \in Indexes(s)
    PROVE  DOMAIN f \subseteq AgentIds /\ f \in [DOMAIN f -> Nat]
  <1>1. DOMAIN s = 1 .. Len(s) /\ \A i \in DOMAIN s : s[i] \in Agent
    BY LenProperties, ElementOfSeq
  <1>2. f \in [Ids(s) -> DOMAIN s]
    BY DEF Indexes
  <1>3. Ids(s) \subseteq AgentIds
    BY <1>1 DEF Ids, Agent
  <1> QED
    BY <1>1, <1>2, <1>3

(* Some natural of a set is the least.                                     *)
LEMMA NatLeast ==
    ASSUME NEW T \in SUBSET Nat, T # {}
    PROVE  \E x \in T : \A y \in T : x <= y
  <1>1. PICK x \in T : \A y \in T : ~(<<y, x>> \in OpToRel(<, Nat))
    BY NatLessThanWellFounded, WFMin, Zenon
  <1>2. \A y \in T : ~(y < x)
    BY <1>1 DEF OpToRel
  <1> QED
    BY <1>2

(* allocate_port answers a port of its range, and one no agent has unless  *)
(* every port is taken.                                                    *)
THEOREM PortAllocated ==
    ASSUME NEW s \in Seq(Agent)
    PROVE  \E q \in Ports :
              /\ AllocatePort(s) = {q}
              /\ (\E r \in Ports : \A i \in DOMAIN s : s[i].port # r)
                    => \A i \in DOMAIN s : s[i].port # q
  <1> DEFINE free == Ports \ {s[i].port : i \in DOMAIN s}
  <1>1. free \in SUBSET Nat
    BY PortAssumption DEF Ports
  <1>2. CASE free = {}
    BY <1>2, PortAssumption DEF AllocatePort
  <1>3. CASE free # {}
    <2>1. PICK q \in free : \A r \in free : q <= r
      BY <1>1, <1>3, NatLeast
    <2>2. \A r \in free : r <= q => r = q
      BY <1>1, <2>1
    <2>3. AllocatePort(s) = {q}
      BY <1>3, <2>1, <2>2 DEF AllocatePort
    <2> QED
      BY <2>1, <2>3
  <1> QED
    BY <1>2, <1>3

-----------------------------------------------------------------------------
(* Type correctness.  An action reads the agent its handler works on and   *)
(* the agents it still has to persist: that they are there is part of the  *)
(* inductive invariant.                                                    *)

AgentSteps == {"create", "push", "index", "importPush", "delRuntime", "delState",
               "startEnsure", "startRun", "startProbe", "stopState"}

LocTyped == \A p \in Procs : pc[p] \in AgentSteps => loc[p] \in Agent

TodoTyped == \A p \in Procs :
    pc[p] \in {"persist", "remove", "save", "write"} => todo[p] # <<>>

TypeInv == TypeOK /\ LocTyped /\ TodoTyped

LEMMA ElementsTyped ==
    ASSUME TypeOK
    PROVE  /\ DOMAIN containers = 1 .. Len(containers) /\ Len(containers) \in Nat
           /\ \A i \in DOMAIN containers : containers[i] \in Agent
           /\ DOMAIN disk = 1 .. Len(disk) /\ Len(disk) \in Nat
           /\ \A i \in DOMAIN disk : disk[i] \in Agent
           /\ DOMAIN world = 1 .. Len(world) /\ Len(world) \in Nat
           /\ \A c \in DOMAIN world : world[c] \in Container
  BY LenProperties, ElementOfSeq DEF TypeOK

LEMMA MovedTyped ==
    ASSUME TypeOK, NEW cs, NEW from, NEW to \in ContainerStates
    PROVE  Moved(cs, from, to) \in Seq(Container) /\ Len(Moved(cs, from, to)) = Len(world)
  <1>1. \A c \in DOMAIN world : [world[c] EXCEPT !.state = to] \in Container
    BY ElementsTyped DEF Container
  <1>2. Moved(cs, from, to) \in [DOMAIN world -> Container]
    BY <1>1, ElementsTyped DEF Moved
  <1> QED
    BY <1>2, MapIsSeq DEF TypeOK

LEMMA NewContainerTyped ==
    ASSUME NEW a \in Agent
    PROVE  NewContainer(a) \in Container
  BY DEF NewContainer, Client, Container, Agent, ContainerStates

LEMMA StatusTyped ==
    ASSUME NEW c, NEW lies
    PROVE  ListedStatus(c, lies) \in Statuses
  BY DEF ListedStatus, Statuses

LEMMA AdvanceTyped ==
    ASSUME TypeInv, NEW p \in Procs, todo[p] # <<>>, Advance(p)
    PROVE  /\ todo' \in [Procs -> Seq(Agent)]
           /\ \A q \in Procs : q # p => todo'[q] = todo[q] /\ pc'[q] = pc[q]
           /\ pc' \in [Procs -> PCs]
           /\ pc'[p] \in {"idle", "persist"}
           /\ pc'[p] = "persist" => todo'[p] # <<>>
           /\ writer' \in Procs \cup {NoProc}
  <1>1. Tail(todo[p]) \in Seq(Agent) /\ Len(Tail(todo[p])) = Len(todo[p]) - 1
    BY HeadTailProperties DEF TypeInv, TypeOK
  <1>2. Len(todo[p]) \in Nat \ {0}
    BY EmptySeq DEF TypeInv, TypeOK
  <1>3. Len(todo[p]) # 1 => Tail(todo[p]) # <<>>
    <2>1. Len(todo[p]) # 1 => Len(Tail(todo[p])) # 0
      BY <1>1, <1>2
    <2> QED
      BY <2>1, EmptySeq
  <1> QED
    BY <1>1, <1>3 DEF Advance, Goto, Release, TypeInv, TypeOK, PCs

LEMMA InitTyped == Init => TypeInv
  <1> SUFFICES ASSUME Init PROVE TypeInv
    OBVIOUS
  <1>1. <<>> \in Seq(Agent) /\ <<>> \in Seq(Container)
    BY EmptySeq
  <1>2. DOMAIN <<>> = {}
    OBVIOUS
  <1> QED
    BY <1>1, <1>2, BoundAssumption
       DEF Init, TypeInv, TypeOK, LocTyped, TodoTyped, AgentSteps, PCs

(* The steps that only touch agents.json.                                  *)
LEMMA FileStepTyped ==
    ASSUME TypeInv, NEW p \in Procs, FileStep(p) \/ FileFails(p)
    PROVE  TypeInv'
  <1>1. todo[p] # <<>>
    BY DEF FileStep, LoadForUpsert, LoadForRemove, TruncateFile, WriteFile, FileFails,
           TypeInv, TodoTyped
  <1>2. Head(todo[p]) \in Agent /\ Head(todo[p]).id \in AgentIds
    <2>1. Head(todo[p]) \in Agent
      BY <1>1, HeadTailProperties DEF TypeInv, TypeOK
    <2> QED
      BY <2>1 DEF Agent
  <1>3. <<>> \in Seq(Agent)
    BY EmptySeq
  <1>4. unwritten \cup {Head(todo[p]).id} \subseteq AgentIds
    BY <1>2 DEF TypeInv, TypeOK
  <1>5. Failed(p) \/ Written(p) => unwritten' \subseteq AgentIds
    BY <1>2, <1>4 DEF Failed, Written, TypeInv, TypeOK
  <1>6. CASE LoadForUpsert(p)
    <2>1. CASE form = "json"
      <3>1. Upsert(disk, Head(todo[p])) \in Seq(Agent)
        BY <1>2, UpsertIsSeq DEF TypeInv, TypeOK
      <3> QED
        BY <1>6, <2>1, <3>1
           DEF LoadForUpsert, Goto, agentVars, diskVars, readable, TypeInv, TypeOK, LocTyped,
               TodoTyped, AgentSteps, PCs
    <2>2. CASE form # "json"
      BY <1>1, <1>5, <1>6, <2>2, AdvanceTyped
         DEF LoadForUpsert, agentVars, diskVars, readable, TypeInv, TypeOK, LocTyped,
             TodoTyped, AgentSteps
    <2> QED
      BY <2>1, <2>2
  <1>7. CASE LoadForRemove(p)
    <2>1. CASE form = "json"
      <3>1. \A t \in Retained(disk, Head(todo[p]).id) : t \in Seq(Agent)
        BY RetainedIsSeq DEF TypeInv, TypeOK
      <3> QED
        BY <1>7, <2>1, <3>1
           DEF LoadForRemove, Goto, agentVars, diskVars, readable, TypeInv, TypeOK, LocTyped,
               TodoTyped, AgentSteps, PCs
    <2>2. CASE form # "json"
      BY <1>1, <1>5, <1>7, <2>2, AdvanceTyped
         DEF LoadForRemove, agentVars, diskVars, readable, TypeInv, TypeOK, LocTyped,
             TodoTyped, AgentSteps
    <2> QED
      BY <2>1, <2>2
  <1>8. CASE TruncateFile(p)
    BY <1>1, <1>3, <1>8
       DEF TruncateFile, Goto, agentVars, ioVars, TypeInv, TypeOK, LocTyped, TodoTyped,
           AgentSteps, PCs
  <1>9. CASE WriteFile(p)
    <2>1. disk' \in Seq(Agent) /\ form' \in {"json", "garbled"} /\ (form' = "json" \/ disk' = <<>>)
      BY <1>3, <1>9 DEF WriteFile, TypeInv, TypeOK
    <2>2. Advance(p) /\ Written(p)
      BY <1>9 DEF WriteFile
    <2> QED
      BY <1>1, <1>3, <1>5, <1>9, <2>1, <2>2, AdvanceTyped
         DEF WriteFile, agentVars, TypeInv, TypeOK, LocTyped, TodoTyped, AgentSteps
  <1>10. CASE FileFails(p)
    <2>1. /\ disk' \in Seq(Agent) /\ form' \in {"json", "empty", "garbled"}
          /\ form' = "json" \/ disk' = <<>>
      BY <1>3, <1>10 DEF FileFails, diskVars, TypeInv, TypeOK
    <2>2. Advance(p) /\ Failed(p) /\ faults' \in Nat
      BY <1>10 DEF FileFails, Strike, TypeInv, TypeOK
    <2> QED
      BY <1>1, <1>3, <1>5, <1>10, <2>1, <2>2, AdvanceTyped
         DEF FileFails, agentVars, TypeInv, TypeOK, LocTyped, TodoTyped, AgentSteps
  <1> QED
    BY <1>6, <1>7, <1>8, <1>9, <1>10 DEF FileStep

(* What the end of start_agent and stop_agent does to the vector.          *)
LEMMA SetStatusTyped ==
    ASSUME TypeInv, NEW p \in Procs, NEW st \in Statuses, SetStatus(p, st)
    PROVE  /\ containers' \in Seq(Agent)
           /\ todo' \in [Procs -> Seq(Agent)] /\ todo'[p] # <<>>
           /\ \A q \in Procs : q # p => todo'[q] = todo[q]
           /\ pc' = [pc EXCEPT ![p] = "persist"]
           /\ loc' = [loc EXCEPT ![p] = <<>>]
           /\ writer' = p
  <1>1. PICK i \in DOMAIN containers :
           /\ containers' = [containers EXCEPT ![i].status = st]
           /\ PersistLocked(p, <<containers'[i]>>)
    BY DEF SetStatus
  <1>2. [containers[i] EXCEPT !.status = st] \in Agent
    BY <1>1, ElementsTyped DEF TypeInv, Agent
  <1>3. containers' \in Seq(Agent) /\ containers'[i] \in Agent
    BY <1>1, <1>2, ElementsTyped, ExceptSeq DEF TypeInv, TypeOK
  <1>4. <<containers'[i]>> \in Seq(Agent) /\ <<containers'[i]>> # <<>>
    BY <1>3
  <1> QED
    BY <1>1, <1>3, <1>4 DEF SetStatus, PersistLocked, Goto, Drop, TypeInv, TypeOK

LEMMA CreateTyped ==
    ASSUME TypeInv, NEW p \in Handlers,
           CreateAllocate(p) \/ CreateContainer(p) \/ CreatePush(p) \/ CreateIndex(p)
    PROVE  TypeInv'
  <1>1. p \in Procs
    BY DEF Procs
  <1>2. CASE CreateAllocate(p)
    <2>1. PICK n \in Names, rt \in Runtimes, q \in AllocatePort(containers) :
             loc' = [loc EXCEPT ![p] = [id |-> n, name |-> n, runtime |-> rt,
                                        status |-> "Stopped", port |-> q]]
      BY <1>2 DEF CreateAllocate
    <2>2. q \in Ports
      BY PortAllocated DEF TypeInv, TypeOK
    <2>3. [id |-> n, name |-> n, runtime |-> rt, status |-> "Stopped", port |-> q] \in Agent
      BY <2>2 DEF Agent, AgentIds, Statuses
    <2> QED
      BY <1>1, <1>2, <2>1, <2>3
         DEF CreateAllocate, Begin, Goto, agentVars, diskVars, ioVars,
             TypeInv, TypeOK, LocTyped, TodoTyped, AgentSteps, PCs
  <1>3. CASE CreateContainer(p)
    <2>1. loc[p] \in Agent
      BY <1>1, <1>3 DEF CreateContainer, TypeInv, LocTyped, AgentSteps
    <2>2. Append(world, NewContainer(loc[p])) \in Seq(Container)
      BY <2>1, NewContainerTyped DEF TypeInv, TypeOK
    <2>3. [loc[p] EXCEPT !.id = Len(world) + 1] \in Agent
      BY <2>1, ElementsTyped DEF TypeInv, Agent, AgentIds
    <2> QED
      BY <1>1, <1>3, <2>1, <2>2, <2>3
         DEF CreateContainer, Goto, Fail, Release, Drop, agentVars, diskVars, ioVars,
             TypeInv, TypeOK, LocTyped, TodoTyped, AgentSteps, PCs
  <1>4. CASE CreatePush(p)
    <2>1. loc[p] \in Agent
      BY <1>1, <1>4 DEF CreatePush, TypeInv, LocTyped, AgentSteps
    <2>2. containers' \in Seq(Agent)
      BY <1>4, <2>1 DEF CreatePush, TypeInv, TypeOK
    <2> QED
      BY <1>1, <1>4, <2>1, <2>2
         DEF CreatePush, LockAgents, Goto, diskVars, ioVars,
             TypeInv, TypeOK, LocTyped, TodoTyped, AgentSteps, PCs
  <1>5. CASE CreateIndex(p)
    <2>1. loc[p] \in Agent
      BY <1>1, <1>5 DEF CreateIndex, TypeInv, LocTyped, AgentSteps
    <2>2. DOMAIN index' \subseteq AgentIds /\ index' \in [DOMAIN index' -> Nat]
      BY <1>5, <2>1, ElementsTyped DEF CreateIndex, TypeInv, TypeOK, Agent
    <2>3. <<loc[p]>> \in Seq(Agent) /\ <<loc[p]>> # <<>>
      BY <2>1
    <2> QED
      BY <1>1, <1>5, <2>2, <2>3
         DEF CreateIndex, Goto, Drop, Release, diskVars,
             TypeInv, TypeOK, LocTyped, TodoTyped, AgentSteps, PCs
  <1> QED
    BY <1>2, <1>3, <1>4, <1>5

LEMMA ImportTyped ==
    ASSUME TypeInv, NEW p \in Handlers, ImportContainer(p) \/ ImportPush(p)
    PROVE  TypeInv'
  <1>1. p \in Procs
    BY DEF Procs
  <1>2. CASE ImportContainer(p)
    <2>1. PICK n \in Names, rt \in Runtimes, st \in {"Running", "Stopped"}, q \in Ports :
             LET a == [id |-> Len(world) + 1, name |-> n, runtime |-> rt,
                       status |-> st, port |-> q]
             IN /\ world' = Append(world, NewContainer(a))
                /\ loc' = [loc EXCEPT ![p] = a]
      BY <1>2 DEF ImportContainer
    <2> DEFINE a == [id |-> Len(world) + 1, name |-> n, runtime |-> rt,
                     status |-> st, port |-> q]
    <2>2. a \in Agent
      BY ElementsTyped DEF TypeInv, Agent, AgentIds, Statuses
    <2>3. world' \in Seq(Container)
      BY <2>1, <2>2, NewContainerTyped DEF TypeInv, TypeOK
    <2> QED
      BY <1>1, <1>2, <2>1, <2>2, <2>3
         DEF ImportContainer, Begin, Goto, agentVars, diskVars, ioVars,
             TypeInv, TypeOK, LocTyped, TodoTyped, AgentSteps, PCs
  <1>3. CASE ImportPush(p)
    <2>1. loc[p] \in Agent
      BY <1>1, <1>3 DEF ImportPush, TypeInv, LocTyped, AgentSteps
    <2>2. containers' \in Seq(Agent) /\ unwritten' \subseteq AgentIds
      BY <1>3, <2>1 DEF ImportPush, TypeInv, TypeOK, Agent
    <2> QED
      BY <1>1, <1>3, <2>2
         DEF ImportPush, Goto, Drop, diskVars, ioVars,
             TypeInv, TypeOK, LocTyped, TodoTyped, AgentSteps, PCs
  <1> QED
    BY <1>2, <1>3

LEMMA UpdateTyped ==
    ASSUME TypeInv, NEW p \in Handlers, UpdateAgent(p) \/ UpdateTailscaleIp(p)
    PROVE  TypeInv'
  <1>1. p \in Procs
    BY DEF Procs
  <1>2. CASE UpdateAgent(p)
    <2>1. PICK i \in DOMAIN containers, n \in Names :
             /\ containers' = [containers EXCEPT ![i].name = n]
             /\ PersistLocked(p, <<[containers[i] EXCEPT !.name = n]>>)
      BY <1>2 DEF UpdateAgent
    <2>2. [containers[i] EXCEPT !.name = n] \in Agent
      BY ElementsTyped DEF TypeInv, Agent
    <2>3. containers' \in Seq(Agent)
      BY <2>1, <2>2, ElementsTyped, ExceptSeq DEF TypeInv, TypeOK
    <2>4. /\ <<[containers[i] EXCEPT !.name = n]>> \in Seq(Agent)
          /\ <<[containers[i] EXCEPT !.name = n]>> # <<>>
      BY <2>2
    <2> QED
      BY <1>1, <1>2, <2>1, <2>3, <2>4
         DEF UpdateAgent, Begin, PersistLocked, Goto, diskVars,
             TypeInv, TypeOK, LocTyped, TodoTyped, AgentSteps, PCs
  <1>3. CASE UpdateTailscaleIp(p)
    <2>1. PICK i \in DOMAIN containers : todo' = [todo EXCEPT ![p] = <<containers[i]>>]
      BY <1>3 DEF UpdateTailscaleIp
    <2>2. <<containers[i]>> \in Seq(Agent) /\ <<containers[i]>> # <<>>
      BY ElementsTyped DEF TypeInv
    <2> QED
      BY <1>1, <1>3, <2>1, <2>2
         DEF UpdateTailscaleIp, Begin, LockAgents, Goto, agentVars, diskVars,
             TypeInv, TypeOK, LocTyped, TodoTyped, AgentSteps, PCs
  <1> QED
    BY <1>2, <1>3

LEMMA DeleteTyped ==
    ASSUME TypeInv, NEW p \in Handlers,
           DeleteCheck(p) \/ DeleteContainer(p) \/ DeleteState(p)
    PROVE  TypeInv'
  <1>1. p \in Procs
    BY DEF Procs
  <1>2. CASE DeleteCheck(p)
    BY <1>1, <1>2, ElementsTyped
       DEF DeleteCheck, Begin, Goto, agentVars, diskVars, ioVars,
           TypeInv, TypeOK, LocTyped, TodoTyped, AgentSteps, PCs
  <1>3. CASE DeleteContainer(p)
    <2>1. world' \in Seq(Container)
      BY <1>3, MovedTyped DEF DeleteContainer, TypeInv, TypeOK, ContainerStates
    <2>2. loc[p] \in Agent
      BY <1>1, <1>3 DEF DeleteContainer, TypeInv, LocTyped, AgentSteps
    <2> QED
      BY <1>1, <1>3, <2>1, <2>2
         DEF DeleteContainer, Goto, agentVars, diskVars, ioVars,
             TypeInv, TypeOK, LocTyped, TodoTyped, AgentSteps, PCs
  <1>4. CASE DeleteState(p)
    <2>1. loc[p] \in Agent
      BY <1>1, <1>4 DEF DeleteState, TypeInv, LocTyped, AgentSteps
    <2>2. containers' \in Seq(Agent)
      BY <1>4, RetainedIsSeq DEF DeleteState, TypeInv, TypeOK
    <2>3. <<loc[p]>> \in Seq(Agent) /\ <<loc[p]>> # <<>>
      BY <2>1
    <2> QED
      BY <1>1, <1>4, <2>2, <2>3
         DEF DeleteState, LockAgents, Goto, Drop, diskVars,
             TypeInv, TypeOK, LocTyped, TodoTyped, AgentSteps, PCs
  <1> QED
    BY <1>2, <1>3, <1>4

LEMMA StartTyped ==
    ASSUME TypeInv, NEW p \in Handlers,
           StartAgent(p) \/ StartEnsure(p) \/ StartRun(p) \/ StartProbe(p)
    PROVE  TypeInv'
  <1>1. p \in Procs
    BY DEF Procs
  <1>2. CASE StartAgent(p)
    <2>1. PICK i \in DOMAIN containers :
             IF containers[i].runtime = "direct"
             THEN /\ containers' = [containers EXCEPT ![i].status = "Running"]
                  /\ PersistLocked(p, <<containers'[i]>>)
                  /\ UNCHANGED loc
             ELSE /\ loc' = [loc EXCEPT ![p] = containers[i]]
                  /\ LockAgents(p)
                  /\ Goto(p, "startEnsure")
                  /\ UNCHANGED <<containers, todo>>
      BY <1>2 DEF StartAgent
    <2>2. containers[i] \in Agent /\ [containers[i] EXCEPT !.status = "Running"] \in Agent
      BY ElementsTyped DEF TypeInv, Agent, Statuses
    <2>3. CASE containers[i].runtime = "direct"
      <3>1. /\ containers' = [containers EXCEPT ![i].status = "Running"]
            /\ todo' = [todo EXCEPT ![p] = <<containers'[i]>>]
            /\ pc' = [pc EXCEPT ![p] = "persist"]
            /\ writer' = p
            /\ UNCHANGED loc
        BY <2>1, <2>3 DEF PersistLocked, Goto
      <3>2. containers' \in Seq(Agent) /\ containers'[i] \in Agent
        BY <2>2, <3>1, ElementsTyped, ExceptSeq DEF TypeInv, TypeOK
      <3>3. <<containers'[i]>> \in Seq(Agent) /\ <<containers'[i]>> # <<>>
        BY <3>2
      <3>4. requests' \in Nat /\ UNCHANGED <<index, disk, form, world, file, unwritten, listing, faults>>
        BY <1>2 DEF StartAgent, Begin, diskVars, TypeInv, TypeOK
      <3> QED
        BY <1>1, <3>1, <3>2, <3>3, <3>4
           DEF TypeInv, TypeOK, LocTyped, TodoTyped, AgentSteps, PCs
    <2>4. CASE containers[i].runtime # "direct"
      <3>1. /\ loc' = [loc EXCEPT ![p] = containers[i]]
            /\ pc' = [pc EXCEPT ![p] = "startEnsure"]
            /\ writer' = p
            /\ UNCHANGED <<containers, todo>>
        BY <2>1, <2>4 DEF LockAgents, Goto
      <3>2. requests' \in Nat /\ UNCHANGED <<index, disk, form, world, file, unwritten, listing, faults>>
        BY <1>2 DEF StartAgent, Begin, diskVars, TypeInv, TypeOK
      <3> QED
        BY <1>1, <2>2, <3>1, <3>2
           DEF TypeInv, TypeOK, LocTyped, TodoTyped, AgentSteps, PCs
    <2> QED
      BY <2>3, <2>4
  <1>3. CASE StartEnsure(p)
    <2>1. loc[p] \in Agent
      BY <1>1, <1>3 DEF StartEnsure, TypeInv, LocTyped, AgentSteps
    <2>2. Append(world, NewContainer(loc[p])) \in Seq(Container)
      BY <2>1, NewContainerTyped DEF TypeInv, TypeOK
    <2> QED
      BY <1>1, <1>3, <2>1, <2>2
         DEF StartEnsure, Goto, Fail, Release, Drop, agentVars, diskVars, ioVars,
             TypeInv, TypeOK, LocTyped, TodoTyped, AgentSteps, PCs
  <1>4. CASE StartRun(p)
    <2>1. loc[p] \in Agent
      BY <1>1, <1>4 DEF StartRun, TypeInv, LocTyped, AgentSteps
    <2>2. world' \in Seq(Container)
      BY <1>4, MovedTyped DEF StartRun, TypeInv, TypeOK, ContainerStates
    <2> QED
      BY <1>1, <1>4, <2>1, <2>2
         DEF StartRun, Goto, Fail, Release, Drop, agentVars, diskVars, ioVars,
             TypeInv, TypeOK, LocTyped, TodoTyped, AgentSteps, PCs
  <1>5. CASE StartProbe(p)
    <2>1. CASE SetStatus(p, "Running")
      <3>1. "Running" \in Statuses
        BY DEF Statuses
      <3> QED
        BY <1>1, <1>5, <2>1, <3>1, SetStatusTyped
           DEF StartProbe, diskVars,
               TypeInv, TypeOK, LocTyped, TodoTyped, AgentSteps, PCs
    <2>2. CASE Fail(p) /\ UNCHANGED <<containers, todo>>
      BY <1>1, <1>5, <2>2
         DEF StartProbe, Goto, Fail, Release, Drop, diskVars,
             TypeInv, TypeOK, LocTyped, TodoTyped, AgentSteps, PCs
    <2> QED
      BY <1>5, <2>1, <2>2 DEF StartProbe
  <1> QED
    BY <1>2, <1>3, <1>4, <1>5

LEMMA StopTyped ==
    ASSUME TypeInv, NEW p \in Handlers, StopAgent(p) \/ StopState(p)
    PROVE  TypeInv'
  <1>1. p \in Procs
    BY DEF Procs
  <1>2. CASE StopAgent(p)
    <2>1. PICK i \in DOMAIN containers :
             \/ /\ LockAgents(p)
                /\ world' = Moved(Resolve(containers[i].runtime, containers[i].name),
                                  {"running"}, "exited")
                /\ loc' = [loc EXCEPT ![p] = containers[i]]
                /\ Goto(p, "stopState")
             \/ UNCHANGED <<world, writer, pc, loc>>
      BY <1>2 DEF StopAgent
    <2>2. world' \in Seq(Container)
      BY <2>1, MovedTyped DEF TypeInv, TypeOK, ContainerStates
    <2>3. containers[i] \in Agent
      BY ElementsTyped DEF TypeInv
    <2>4. requests' \in Nat /\ UNCHANGED <<agentVars, diskVars, ioVars, listing, faults>>
      BY <1>2 DEF StopAgent, Begin, TypeInv, TypeOK
    <2>5. CASE UNCHANGED <<world, writer, pc, loc>>
      BY <1>1, <2>4, <2>5
         DEF agentVars, diskVars, ioVars,
             TypeInv, TypeOK, LocTyped, TodoTyped, AgentSteps, PCs
    <2>6. CASE /\ LockAgents(p)
               /\ loc' = [loc EXCEPT ![p] = containers[i]]
               /\ Goto(p, "stopState")
      BY <1>1, <2>2, <2>3, <2>4, <2>6
         DEF LockAgents, Goto, agentVars, diskVars, ioVars,
             TypeInv, TypeOK, LocTyped, TodoTyped, AgentSteps, PCs
    <2> QED
      BY <2>1, <2>5, <2>6
  <1>3. CASE StopState(p)
    <2>1. "Stopped" \in Statuses /\ SetStatus(p, "Stopped")
      BY <1>3 DEF StopState, Statuses
    <2> QED
      BY <1>1, <1>3, <2>1, SetStatusTyped
         DEF StopState, diskVars,
             TypeInv, TypeOK, LocTyped, TodoTyped, AgentSteps, PCs
  <1> QED
    BY <1>2, <1>3

LEMMA BatchTyped ==
    ASSUME TypeInv, NEW p \in Handlers, StartAll(p) \/ StopAll(p)
    PROVE  TypeInv'
  <1>1. world' \in Seq(Container)
    BY MovedTyped DEF StartAll, StopAll, TypeInv, TypeOK, ContainerStates
  <1> QED
    BY <1>1
       DEF StartAll, StopAll, Begin, agentVars, diskVars, ioVars,
           TypeInv, TypeOK, LocTyped, TodoTyped, AgentSteps, PCs

LEMMA SyncTyped ==
    ASSUME TypeInv, SyncList \/ SyncApply
    PROVE  TypeInv'
  <1>1. Reconciler \in Procs
    BY DEF Procs
  <1>2. CASE SyncList
    <2>1. listing' \in [Names -> Statuses \cup {"absent"}]
      BY <1>2, StatusTyped DEF SyncList
    <2>2. faults' \in Nat
      BY <1>2 DEF SyncList, Strike, TypeInv, TypeOK
    <2>3. /\ pc' = [pc EXCEPT ![Reconciler] = "apply"]
          /\ UNCHANGED <<agentVars, diskVars, world, writer, loc, ioVars, requests>>
      BY <1>2 DEF SyncList, Goto
    <2> QED
      BY <1>1, <2>1, <2>2, <2>3
         DEF agentVars, diskVars, ioVars,
             TypeInv, TypeOK, LocTyped, TodoTyped, AgentSteps, PCs
  <1>3. CASE SyncApply
    <2> DEFINE new == [i \in DOMAIN containers |-> Reconciled(containers[i])]
    <2>1. \A i \in DOMAIN containers : Reconciled(containers[i]) \in Agent
      <3> SUFFICES ASSUME NEW i \in DOMAIN containers
                   PROVE  Reconciled(containers[i]) \in Agent
        OBVIOUS
      <3>1. containers[i] \in Agent /\ listing[containers[i].name] \in Statuses \cup {"absent"}
        BY ElementsTyped DEF TypeInv, TypeOK, Agent
      <3>2. \A st \in Statuses : [containers[i] EXCEPT !.status = st] \in Agent
        BY <3>1 DEF Agent
      <3> QED
        BY <3>1, <3>2 DEF Reconciled, Statuses
    <2>2. new \in Seq(Agent) /\ DOMAIN new = DOMAIN containers
      BY <2>1, ElementsTyped, MapIsSeq DEF TypeInv, TypeOK
    <2>3. new # containers => new # <<>>
      BY <2>2, ElementsTyped, EmptySeq, SeqEqual DEF TypeInv, TypeOK
    <2>4. "absent" \in Statuses \cup {"absent"}
      OBVIOUS
    <2>5. CASE new = containers
      BY <1>1, <1>3, <2>4, <2>5
         DEF SyncApply, Goto, agentVars, diskVars,
             TypeInv, TypeOK, LocTyped, TodoTyped, AgentSteps, PCs
    <2>6. CASE new # containers
      <3>1. containers' = new /\ index' \in Indexes(new) /\ PersistLocked(Reconciler, new)
        BY <1>3, <2>6 DEF SyncApply
      <3>2. DOMAIN index' \subseteq AgentIds /\ index' \in [DOMAIN index' -> Nat]
        BY <2>2, <3>1, IndexesPoint
      <3> HIDE DEF new
      <3> QED
        BY <1>1, <1>3, <2>2, <2>3, <2>4, <2>6, <3>1, <3>2
           DEF SyncApply, PersistLocked, Goto, diskVars,
               TypeInv, TypeOK, LocTyped, TodoTyped, AgentSteps, PCs
    <2> QED
      BY <2>5, <2>6
  <1> QED
    BY <1>2, <1>3

LEMMA RestartTyped ==
    ASSUME TypeInv, CrashRestart
    PROVE  TypeInv'
  <1>1. PICK docker \in {{}, {c \in DOMAIN world : /\ world[c].client = "docker"
                                                /\ world[c].state # "gone"}} :
           \E new \in Strangers(disk, docker) : containers' = Merged(disk, docker) \o new
    BY DEF CrashRestart
  <1>2. disk \in Seq(Agent)
    BY DEF TypeInv, TypeOK
  <1>3. Merged(disk, docker) \in Seq(Agent)
    <2>1. \A i \in DOMAIN disk : disk[i] \in Agent
      BY <1>2, LenProperties, ElementOfSeq
    <2>2. Merged(disk, docker) \in [DOMAIN disk -> Agent]
      BY <2>1, StatusTyped DEF Merged, Agent, Statuses
    <2> QED
      BY <1>2, <2>2, MapIsSeq
  <1>4. \A new \in Strangers(disk, docker) : new \in Seq(Agent)
    <2> DEFINE S == docker \ Ids(disk)
    <2>1. docker \subseteq DOMAIN world /\ S \in SUBSET DOMAIN world
      OBVIOUS
    <2>2. IsFiniteSet(DOMAIN world) /\ DOMAIN world \subseteq Nat
      BY ElementsTyped, FS_Interval DEF TypeInv
    <2>3. IsFiniteSet(S) /\ S \in SUBSET Nat
      BY <2>1, <2>2, FS_Subset
    <2>4. \A c \in S : Adopted(c) \in Agent
      <3>1. BasePort \in Ports
        BY PortAssumption DEF Ports
      <3>2. \A c \in S : c \in Nat /\ world[c] \in Container
        BY <2>1, <2>3, ElementsTyped DEF TypeInv
      <3> QED
        BY <3>1, <3>2, StatusTyped DEF Adopted, Agent, AgentIds, Container
    <2>5. \A e \in Enumerations(S) : [k \in DOMAIN e |-> Adopted(e[k])] \in Seq(Agent)
      <3> SUFFICES ASSUME NEW e \in Enumerations(S)
                   PROVE  [k \in DOMAIN e |-> Adopted(e[k])] \in Seq(Agent)
        OBVIOUS
      <3> HIDE DEF S
      <3>1. e \in Seq(S)
        BY <2>3, EnumerationIsSeq
      <3>2. [k \in DOMAIN e |-> Adopted(e[k])] \in [DOMAIN e -> Agent]
        BY <2>4, <3>1, LenProperties, ElementOfSeq
      <3> QED
        BY <3>1, <3>2, MapIsSeq
    <2> QED
      BY <2>5 DEF Strangers
  <1>5. containers' \in Seq(Agent)
    BY <1>1, <1>3, <1>4, ConcatProperties
  <1>6. DOMAIN index' \subseteq AgentIds /\ index' \in [DOMAIN index' -> Nat]
    BY <1>5, IndexesPoint DEF CrashRestart
  <1>7. <<>> \in Seq(Agent) /\ "absent" \in Statuses \cup {"absent"}
    BY EmptySeq
  <1>8. /\ writer' = NoProc
        /\ pc' = [p \in Procs |-> "idle"]
        /\ file' = [p \in Procs |-> <<>>]
        /\ todo' = [p \in Procs |-> <<>>]
        /\ loc' = [p \in Procs |-> <<>>]
        /\ listing' = [n \in Names |-> "absent"]
        /\ UNCHANGED <<disk, form, world, requests>>
    BY DEF CrashRestart, diskVars
  <1>9. faults' \in Nat
    BY DEF CrashRestart, Strike, TypeInv, TypeOK
  <1>10. unwritten' \subseteq AgentIds
    <2>1. \A i \in DOMAIN containers' : containers'[i] \in Agent
      BY <1>5, LenProperties, ElementOfSeq
    <2>2. unwritten' = Ids(containers') \ Ids(disk)
      BY DEF CrashRestart
    <2> QED
      BY <2>1, <2>2 DEF Ids, Agent
  <1> QED
    BY <1>2, <1>5, <1>6, <1>7, <1>8, <1>9, <1>10
       DEF TypeInv, TypeOK, LocTyped, TodoTyped, AgentSteps, PCs

LEMMA EnvironmentTyped ==
    ASSUME TypeInv, ContainerExit \/ ContainerPruned \/ ClientHangsUp
    PROVE  TypeInv'
  <1>1. CASE ContainerExit \/ ContainerPruned
    <2>1. world' \in Seq(Container)
      BY <1>1, MovedTyped DEF ContainerExit, ContainerPruned, TypeInv, TypeOK, ContainerStates
    <2> QED
      BY <1>1, <2>1
         DEF ContainerExit, ContainerPruned, Strike, agentVars, diskVars, ioVars,
             TypeInv, TypeOK, LocTyped, TodoTyped, AgentSteps, PCs
  <1>2. CASE ClientHangsUp
    <2>1. PICK p \in Handlers :
             /\ unwritten' = IF pc[p] = "index" THEN unwritten \cup {loc[p].id} ELSE unwritten
             /\ Fail(p)
      BY <1>2 DEF ClientHangsUp
    <2>2. p \in Procs
      BY DEF Procs
    <2>3. pc[p] = "index" => loc[p].id \in AgentIds
      BY <2>2 DEF TypeInv, LocTyped, AgentSteps, Agent
    <2>4. unwritten' \subseteq AgentIds
      BY <2>1, <2>3 DEF TypeInv, TypeOK
    <2>5. /\ pc' = [pc EXCEPT ![p] = "idle"] /\ loc' = [loc EXCEPT ![p] = <<>>]
          /\ writer' = NoProc \/ writer' = writer
      BY <2>1 DEF Fail, Goto, Release, Drop
    <2>6. faults' \in Nat
      BY <1>2 DEF ClientHangsUp, Strike, TypeInv, TypeOK
    <2>7. UNCHANGED <<containers, index, disk, form, world, file, todo, listing, requests>>
      BY <1>2 DEF ClientHangsUp, agentVars, diskVars
    <2> QED
      BY <2>2, <2>4, <2>5, <2>6, <2>7
         DEF TypeInv, TypeOK, LocTyped, TodoTyped, AgentSteps, PCs
  <1> QED
    BY <1>1, <1>2

(* The types and what they rest on are inductive.                          *)
LEMMA TypeInvInductive == TypeInv /\ [Next]_vars => TypeInv'
  <1> SUFFICES ASSUME TypeInv, [Next]_vars
               PROVE  TypeInv'
    OBVIOUS
  <1>1. CASE \E p \in Handlers : Request(p)
    BY <1>1, CreateTyped, ImportTyped, UpdateTyped, DeleteTyped, StartTyped, StopTyped,
       BatchTyped DEF Request
  <1>2. CASE \E p \in Handlers : Continue(p)
    BY <1>2, CreateTyped, ImportTyped, DeleteTyped, StartTyped, StopTyped DEF Continue
  <1>3. CASE \E p \in Procs : FileStep(p) \/ FileFails(p)
    BY <1>3, FileStepTyped
  <1>4. CASE SyncList \/ SyncApply
    BY <1>4, SyncTyped
  <1>5. CASE Environment
    BY <1>5, EnvironmentTyped, RestartTyped DEF Environment
  <1>6. CASE UNCHANGED vars
    BY <1>6
       DEF vars,
           TypeInv, TypeOK, LocTyped, TodoTyped, AgentSteps, PCs
  <1> QED
    BY <1>1, <1>2, <1>3, <1>4, <1>5, <1>6 DEF Next

LEMMA TypeInvAlways == Spec => []TypeInv
  BY InitTyped, TypeInvInductive, PTL DEF Spec

(* Every variable keeps its type in every reachable state.                 *)
THEOREM TypeCorrect == Spec => []TypeOK
  <1>1. TypeInv => TypeOK
    BY DEF TypeInv
  <1> QED
    BY <1>1, TypeInvAlways, PTL

-----------------------------------------------------------------------------
(* The write lock.  start_agent and stop_agent hold it from the lookup on, *)
(* create_agent while it waits for the index, and whoever moves the vector *)
(* needs it free or holds it.                                              *)

LockSteps == {"index", "startEnsure", "startRun", "startProbe", "stopState"}

LockInv ==
    \A p \in Handlers :
        pc[p] \in LockSteps => writer = p /\ loc[p].id \in Ids(containers)

(* A step of task p leaves the other handlers where they are, and takes    *)
(* nothing from the one that holds the lock.                               *)
LEMMA LockFrame ==
    ASSUME TypeInv, LockInv, NEW p \in Procs,
           \A q \in Handlers : q # p => pc'[q] = pc[q] /\ loc'[q] = loc[q],
           \A q \in Handlers :
               q # p /\ writer = q => writer' = q /\ Ids(containers) \subseteq Ids(containers)',
           p \in Handlers /\ pc'[p] \in LockSteps =>
               writer' = p /\ loc'[p].id \in Ids(containers)'
    PROVE  LockInv'
  BY DEF LockInv

(* What keeps the ids of a sequence keeps the set of them.                 *)
LEMMA SameIds ==
    ASSUME NEW s, NEW t, DOMAIN t = DOMAIN s, \A i \in DOMAIN s : t[i].id = s[i].id
    PROVE  Ids(t) = Ids(s)
  BY DEF Ids

LEMMA AppendIds ==
    ASSUME NEW s \in Seq(Agent), NEW a \in Agent
    PROVE  Ids(Append(s, a)) = Ids(s) \cup {a.id}
  <1>1. /\ DOMAIN s = 1 .. Len(s) /\ Len(s) \in Nat
        /\ DOMAIN Append(s, a) = 1 .. Len(s) + 1
        /\ \A i \in 1 .. Len(s) : Append(s, a)[i] = s[i]
        /\ Append(s, a)[Len(s) + 1] = a
    BY LenProperties
  <1>2. \A i \in DOMAIN Append(s, a) : i \in DOMAIN s \/ i = Len(s) + 1
    BY <1>1
  <1> QED
    BY <1>1, <1>2 DEF Ids

LEMMA SetStatusKeepsIds ==
    ASSUME TypeInv, NEW p \in Procs, NEW st \in Statuses, SetStatus(p, st)
    PROVE  /\ DOMAIN containers' = DOMAIN containers
           /\ \A i \in DOMAIN containers : containers'[i].id = containers[i].id
           /\ \E a \in Agent : a.id \in Ids(containers) /\ todo' = [todo EXCEPT ![p] = <<a>>]
  <1>1. PICK i \in DOMAIN containers :
           /\ containers' = [containers EXCEPT ![i].status = st]
           /\ PersistLocked(p, <<containers'[i]>>)
    BY DEF SetStatus
  <1>2. \A j \in DOMAIN containers : containers[j] \in Agent
    BY ElementsTyped DEF TypeInv
  <1>3. /\ DOMAIN containers' = DOMAIN containers
        /\ \A j \in DOMAIN containers : containers'[j].id = containers[j].id
    BY <1>1, <1>2 DEF Agent
  <1>4. todo' = [todo EXCEPT ![p] = <<containers'[i]>>]
    BY <1>1 DEF PersistLocked
  <1>5. containers'[i] \in Agent
    BY <1>1, <1>2, ElementsTyped DEF TypeInv, Agent
  <1>6. containers'[i].id \in Ids(containers)
    BY <1>1, <1>3 DEF Ids
  <1> QED
    BY <1>3, <1>4, <1>5, <1>6

LEMMA LockInvInductive == TypeInv /\ LockInv /\ [Next]_vars => LockInv'
  <1> SUFFICES ASSUME TypeInv, LockInv, [Next]_vars
               PROVE  LockInv'
    OBVIOUS
  <1> USE ProcAssumption DEF Procs
  <1>1. ASSUME NEW p \in Handlers, CreateAllocate(p) PROVE LockInv'
    BY <1>1, LockFrame
       DEF CreateAllocate, Begin, Goto, agentVars, LockSteps, TypeInv, TypeOK
  <1>2. ASSUME NEW p \in Handlers, CreateContainer(p) PROVE LockInv'
    <2>1. /\ \A q \in Handlers : q # p => pc'[q] = pc[q] /\ loc'[q] = loc[q]
          /\ pc'[p] \in {"push", "idle"}
      BY <1>2 DEF CreateContainer, Goto, Fail, Drop, TypeInv, TypeOK
    <2>2. writer' = writer \/ writer = p
      BY <1>2 DEF CreateContainer, Fail, Release
    <2>3. UNCHANGED containers
      BY <1>2 DEF CreateContainer, agentVars
    <2> QED
      BY <2>1, <2>2, <2>3, LockFrame DEF LockSteps
  <1>3. ASSUME NEW p \in Handlers, CreatePush(p) \/ CreateIndex(p) PROVE LockInv'
    <2>1. CASE CreatePush(p)
      <3>1. loc[p] \in Agent
        BY <2>1 DEF CreatePush, TypeInv, LocTyped, AgentSteps
      <3>2. Ids(containers') = Ids(containers) \cup {loc[p].id}
        BY <2>1, <3>1, AppendIds DEF CreatePush, TypeInv, TypeOK
      <3>3. /\ \A q \in Handlers : q # p => pc'[q] = pc[q] /\ loc'[q] = loc[q]
            /\ loc'[p] = loc[p] /\ writer = NoProc /\ writer' = p
        BY <2>1 DEF CreatePush, LockAgents, Goto, TypeInv, TypeOK
      <3> QED
        BY <3>2, <3>3, LockFrame
    <2>2. CASE CreateIndex(p)
      BY <2>2, LockFrame
         DEF CreateIndex, Goto, Drop, Release, LockSteps, TypeInv, TypeOK
    <2> QED
      BY <1>3, <2>1, <2>2
  <1>4. ASSUME NEW p \in Handlers, ImportContainer(p) PROVE LockInv'
    BY <1>4, LockFrame
       DEF ImportContainer, Begin, Goto, agentVars, LockSteps, TypeInv, TypeOK
  <1>5. ASSUME NEW p \in Handlers, ImportPush(p) PROVE LockInv'
    BY <1>5, LockFrame
       DEF ImportPush, Goto, Drop, LockSteps, TypeInv, TypeOK
  <1>6. ASSUME NEW p \in Handlers, UpdateAgent(p) PROVE LockInv'
    BY <1>6, LockFrame
       DEF UpdateAgent, Begin, PersistLocked, Goto, LockSteps, TypeInv, TypeOK
  <1>7. ASSUME NEW p \in Handlers, UpdateTailscaleIp(p) PROVE LockInv'
    BY <1>7, LockFrame
       DEF UpdateTailscaleIp, Begin, LockAgents, Goto, agentVars, LockSteps, TypeInv, TypeOK
  <1>8. ASSUME NEW p \in Handlers, DeleteCheck(p) PROVE LockInv'
    BY <1>8, LockFrame
       DEF DeleteCheck, Begin, Goto, agentVars, LockSteps, TypeInv, TypeOK
  <1>9. ASSUME NEW p \in Handlers, DeleteContainer(p) PROVE LockInv'
    BY <1>9, LockFrame
       DEF DeleteContainer, Goto, agentVars, LockSteps, TypeInv, TypeOK
  <1>10. ASSUME NEW p \in Handlers, DeleteState(p) PROVE LockInv'
    BY <1>10, LockFrame
       DEF DeleteState, LockAgents, Goto, Drop, LockSteps, TypeInv, TypeOK
  <1>11. ASSUME NEW p \in Handlers, StartAgent(p) PROVE LockInv'
    <2>1. PICK i \in DOMAIN containers :
             \/ /\ PersistLocked(p, <<containers'[i]>>)
                /\ UNCHANGED loc
             \/ /\ loc' = [loc EXCEPT ![p] = containers[i]]
                /\ LockAgents(p)
                /\ Goto(p, "startEnsure")
                /\ UNCHANGED containers
      BY <1>11 DEF StartAgent
    <2>2. writer = NoProc
      BY <1>11 DEF StartAgent
    <2>3. /\ \A q \in Handlers : q # p => pc'[q] = pc[q] /\ loc'[q] = loc[q]
          /\ \/ pc'[p] = "persist"
             \/ /\ pc'[p] = "startEnsure" /\ writer' = p
                /\ loc'[p] = containers[i] /\ UNCHANGED containers
      BY <2>1 DEF PersistLocked, LockAgents, Goto, TypeInv, TypeOK
    <2>4. containers[i].id \in Ids(containers)
      BY DEF Ids
    <2> QED
      BY <2>2, <2>3, <2>4, LockFrame DEF LockSteps
  <1>12. ASSUME NEW p \in Handlers, StartEnsure(p) PROVE LockInv'
    BY <1>12, LockFrame
       DEF StartEnsure, Goto, Fail, Release, Drop, agentVars, LockSteps, TypeInv, TypeOK, LockInv
  <1>13. ASSUME NEW p \in Handlers, StartRun(p) PROVE LockInv'
    BY <1>13, LockFrame
       DEF StartRun, Goto, Fail, Release, Drop, agentVars, LockSteps, TypeInv, TypeOK, LockInv
  <1>14. ASSUME NEW p \in Handlers, StartProbe(p) PROVE LockInv'
    <2>1. writer = p
      BY <1>14 DEF StartProbe, LockInv, LockSteps
    <2>2. CASE SetStatus(p, "Running")
      BY <2>1, <2>2, LockFrame
         DEF SetStatus, PersistLocked, Goto, Drop, LockSteps, TypeInv, TypeOK
    <2>3. CASE Fail(p) /\ UNCHANGED containers
      BY <2>1, <2>3, LockFrame
         DEF Fail, Goto, Release, Drop, LockSteps, TypeInv, TypeOK
    <2> QED
      BY <1>14, <2>2, <2>3 DEF StartProbe
  <1>15. ASSUME NEW p \in Handlers, StopAgent(p) PROVE LockInv'
    <2>1. PICK i \in DOMAIN containers :
             \/ /\ LockAgents(p)
                /\ loc' = [loc EXCEPT ![p] = containers[i]]
                /\ Goto(p, "stopState")
             \/ UNCHANGED <<writer, pc, loc>>
      BY <1>15 DEF StopAgent
    <2>2. UNCHANGED containers
      BY <1>15 DEF StopAgent, agentVars
    <2>3. CASE UNCHANGED <<writer, pc, loc>>
      BY <2>2, <2>3 DEF LockInv
    <2>4. CASE /\ LockAgents(p)
               /\ loc' = [loc EXCEPT ![p] = containers[i]]
               /\ Goto(p, "stopState")
      <3>1. containers[i].id \in Ids(containers)
        BY DEF Ids
      <3>2. /\ \A q \in Handlers : q # p => pc'[q] = pc[q] /\ loc'[q] = loc[q]
            /\ loc'[p] = containers[i] /\ writer = NoProc /\ writer' = p
        BY <2>4 DEF LockAgents, Goto, TypeInv, TypeOK
      <3> QED
        BY <2>2, <3>1, <3>2, LockFrame
    <2> QED
      BY <2>1, <2>3, <2>4
  <1>16. ASSUME NEW p \in Handlers, StopState(p) PROVE LockInv'
    <2>1. writer = p /\ SetStatus(p, "Stopped")
      BY <1>16 DEF StopState, LockInv, LockSteps
    <2> QED
      BY <2>1, LockFrame
         DEF SetStatus, PersistLocked, Goto, Drop, LockSteps, TypeInv, TypeOK
  <1>17. ASSUME NEW p \in Handlers, StartAll(p) \/ StopAll(p) PROVE LockInv'
    BY <1>17 DEF StartAll, StopAll, agentVars, LockInv
  <1>18. ASSUME NEW p \in Procs, FileStep(p) \/ FileFails(p) PROVE LockInv'
    <2>1. UNCHANGED <<containers, loc>>
      BY <1>18 DEF FileStep, LoadForUpsert, LoadForRemove, TruncateFile, WriteFile, FileFails,
                   agentVars
    <2>2. /\ \A q \in Procs : q # p => pc'[q] = pc[q]
          /\ pc'[p] \in {"idle", "persist", "save", "write"}
          /\ writer' = writer \/ writer = p
      BY <1>18
         DEF FileStep, LoadForUpsert, LoadForRemove, TruncateFile, WriteFile, FileFails,
             Advance, Goto, Release, TypeInv, TypeOK
    <2> QED
      BY <2>1, <2>2, LockFrame DEF LockSteps
  <1>19. CASE SyncList
    BY <1>19, LockFrame
       DEF SyncList, Goto, agentVars, LockSteps, TypeInv, TypeOK
  <1>20. CASE SyncApply
    <2>1. /\ writer = NoProc
          /\ UNCHANGED loc
          /\ \A q \in Handlers : pc'[q] = pc[q]
      BY <1>20 DEF SyncApply, PersistLocked, Goto, TypeInv, TypeOK
    <2> QED
      BY <2>1, LockFrame
  <1>21. CASE ContainerExit \/ ContainerPruned
    BY <1>21 DEF ContainerExit, ContainerPruned, agentVars, LockInv
  <1>22. CASE ClientHangsUp
    <2>1. PICK p \in Handlers : Fail(p)
      BY <1>22 DEF ClientHangsUp
    <2>2. UNCHANGED containers
      BY <1>22 DEF ClientHangsUp, agentVars
    <2> QED
      BY <2>1, <2>2, LockFrame
         DEF Fail, Goto, Release, Drop, LockSteps, TypeInv, TypeOK
  <1>23. CASE CrashRestart
    <2>1. pc' = [p \in Procs |-> "idle"]
      BY <1>23 DEF CrashRestart
    <2> QED
      BY <2>1 DEF LockInv, LockSteps
  <1>24. CASE UNCHANGED vars
    BY <1>24 DEF vars, LockInv
  <1> QED
    BY <1>1, <1>2, <1>3, <1>4, <1>5, <1>6, <1>7, <1>8, <1>9, <1>10, <1>11, <1>12, <1>13,
       <1>14, <1>15, <1>16, <1>17, <1>18, <1>19, <1>20, <1>21, <1>22, <1>23, <1>24
       DEF Next, Request, Continue, Environment

LEMMA LockInvAlways == Spec => []LockInv
  <1>1. Init => LockInv
    BY DEF Init, LockInv, LockSteps, Procs
  <1> QED
    BY <1>1, TypeInvAlways, LockInvInductive, PTL DEF Spec

(* start_agent and stop_agent find their agent in the vector when they set *)
(* its status, whatever ran during their awaits.                           *)
THEOREM TargetsStay == Spec => []TargetStays
  <1>1. LockInv => TargetStays
    BY DEF LockInv, TargetStays, LockSteps
  <1> QED
    BY <1>1, LockInvAlways, PTL

-----------------------------------------------------------------------------
(* Unique ids.  A container's id is a position of world, so a new one is   *)
(* fresh: every id that is held anywhere, in the vector, the file, a       *)
(* half-done write or a handler, is one world already has; and the agent a *)
(* creation has still to push has an id nobody else will push.             *)

Known(s, W) == \A i \in DOMAIN s : s[i].id \in Nat => s[i].id \in W

Pending(p) == pc[p] \in {"push", "importPush"} /\ loc[p].id \in Nat

VectorIds == UniqueContainers(containers) /\ Known(containers, DOMAIN world)
StoreIds == UniqueContainers(disk) /\ Known(disk, DOMAIN world)
BufferIds == \A p \in Procs : /\ UniqueContainers(file[p])
                              /\ Known(file[p], DOMAIN world)
                              /\ Known(todo[p], DOMAIN world)
HandlerIds == \A p \in Handlers :
    pc[p] \in AgentSteps /\ loc[p].id \in Nat =>
        pc[p] # "create" /\ loc[p].id \in DOMAIN world
PendingIds == \A p \in Handlers :
    Pending(p) => /\ loc[p].id \notin Ids(containers)
                  /\ \A q \in Handlers : Pending(q) /\ loc[q].id = loc[p].id => q = p

IdInv == VectorIds /\ StoreIds /\ BufferIds /\ HandlerIds /\ PendingIds

Grows == DOMAIN world \subseteq DOMAIN world'

(* Operators on sequences of agents and their ids.                         *)

LEMMA SameIdsUnique ==
    ASSUME NEW s, NEW t, NEW W, UniqueContainers(s), Known(s, W),
           DOMAIN t = DOMAIN s, \A i \in DOMAIN s : t[i].id = s[i].id
    PROVE  UniqueContainers(t) /\ Known(t, W)
  BY DEF UniqueContainers, Known

LEMMA SingletonKnown ==
    ASSUME NEW a, NEW W, a.id \in Nat => a.id \in W
    PROVE  Known(<<a>>, W) /\ Known(<<>>, W) /\ UniqueContainers(<<>>)
  BY DEF Known, UniqueContainers

LEMMA UpsertUnique ==
    ASSUME NEW s \in Seq(Agent), NEW a \in Agent, NEW W,
           UniqueContainers(s), Known(s, W), a.id \in Nat => a.id \in W
    PROVE  UniqueContainers(Upsert(s, a)) /\ Known(Upsert(s, a), W)
  <1> DEFINE u == Upsert(s, a)
  <1>1. /\ \A i \in DOMAIN s : u[i].id = s[i].id
        /\ \A i \in DOMAIN u \ DOMAIN s : /\ a.id \notin Ids(s)
                                         /\ i = Len(s) + 1
                                         /\ u[i] = a
    BY UpsertIsSeq
  <1>2. \A i \in DOMAIN s : s[i].id \in Ids(s)
    BY DEF Ids
  <1> HIDE DEF u
  <1>3. UniqueContainers(u) /\ Known(u, W)
    BY <1>1, <1>2 DEF UniqueContainers, Known
  <1> QED
    BY <1>3 DEF u

LEMMA RetainedUnique ==
    ASSUME NEW s \in Seq(Agent), NEW id, NEW t \in Retained(s, id), NEW W,
           UniqueContainers(s), Known(s, W)
    PROVE  UniqueContainers(t) /\ Known(t, W) /\ Ids(t) \subseteq Ids(s)
  <1>1. PICK e : ReadAt(t, s, e, id)
    BY RetainedIsSeq
  <1>2. \A k \in DOMAIN e : e[k] \in DOMAIN s
    BY <1>1, LenProperties, ElementOfSeq DEF ReadAt
  <1> QED
    BY <1>1, <1>2 DEF ReadAt, UniqueContainers, Known, Ids

LEMMA AppendUnique ==
    ASSUME NEW s \in Seq(Agent), NEW a \in Agent, NEW W,
           UniqueContainers(s), Known(s, W),
           a.id \in Nat => a.id \in W /\ a.id \notin Ids(s)
    PROVE  /\ UniqueContainers(Append(s, a)) /\ Known(Append(s, a), W)
           /\ Ids(Append(s, a)) = Ids(s) \cup {a.id}
  <1>1. /\ DOMAIN s = 1 .. Len(s) /\ Len(s) \in Nat
        /\ DOMAIN Append(s, a) = 1 .. Len(s) + 1
        /\ \A i \in 1 .. Len(s) : Append(s, a)[i] = s[i]
        /\ Append(s, a)[Len(s) + 1] = a
    BY LenProperties
  <1>2. \A i \in DOMAIN Append(s, a) : i \in DOMAIN s \/ i = Len(s) + 1
    BY <1>1
  <1>3. \A i \in DOMAIN s : Append(s, a)[i].id \in Ids(s) /\ s[i].id \in Ids(s)
    BY <1>1 DEF Ids
  <1>4. UniqueContainers(Append(s, a))
    BY <1>1, <1>2, <1>3 DEF UniqueContainers
  <1>5. Known(Append(s, a), W)
    BY <1>1, <1>2 DEF Known
  <1>6. Ids(Append(s, a)) = Ids(s) \cup {a.id}
    BY <1>1, <1>2 DEF Ids
  <1> QED
    BY <1>4, <1>5, <1>6

LEMMA TailKnown ==
    ASSUME NEW s \in Seq(Agent), s # <<>>, NEW W, Known(s, W)
    PROVE  Known(Tail(s), W) /\ (Head(s).id \in Nat => Head(s).id \in W)
  <1>1. /\ DOMAIN s = 1 .. Len(s) /\ Len(s) \in Nat \ {0}
        /\ Tail(s) \in Seq(Agent)
        /\ Len(Tail(s)) = Len(s) - 1
        /\ \A i \in 1 .. Len(Tail(s)) : Tail(s)[i] = s[i + 1]
        /\ Head(s) = s[1]
    BY LenProperties, EmptySeq, HeadTailProperties
  <1>2. DOMAIN Tail(s) = 1 .. Len(Tail(s))
    BY <1>1, LenProperties
  <1> QED
    BY <1>1, <1>2 DEF Known

(* What a step leaves alone stays as it was: world only grows.             *)

LEMMA WorldSteps ==
    ASSUME [Next]_vars
    PROVE  \/ UNCHANGED world
           \/ \E cs, from, to : world' = Moved(cs, from, to)
           \/ \E c : world' = Append(world, c)
  <1>1. ASSUME NEW p \in Handlers, Request(p)
        PROVE  \/ UNCHANGED world
               \/ \E cs, from, to : world' = Moved(cs, from, to)
               \/ \E c : world' = Append(world, c)
    BY <1>1
       DEF Request, CreateAllocate, ImportContainer, UpdateAgent, UpdateTailscaleIp,
           DeleteCheck, StartAgent, StopAgent, StartAll, StopAll
  <1>2. ASSUME NEW p \in Handlers, Continue(p)
        PROVE  \/ UNCHANGED world
               \/ \E cs, from, to : world' = Moved(cs, from, to)
               \/ \E c : world' = Append(world, c)
    BY <1>2
       DEF Continue, CreateContainer, CreatePush, CreateIndex, ImportPush,
           DeleteContainer, DeleteState, StartEnsure, StartRun, StartProbe, StopState
  <1>3. ASSUME NEW p \in Procs, FileStep(p) \/ FileFails(p)
        PROVE  UNCHANGED world
    BY <1>3 DEF FileStep, LoadForUpsert, LoadForRemove, TruncateFile, WriteFile, FileFails
  <1>4. CASE SyncList \/ SyncApply \/ UNCHANGED vars
    BY <1>4 DEF SyncList, SyncApply, vars
  <1>5. CASE Environment
    BY <1>5 DEF Environment, ContainerExit, ContainerPruned, ClientHangsUp, CrashRestart
  <1> QED
    BY <1>1, <1>2, <1>3, <1>4, <1>5 DEF Next

LEMMA WorldGrows ==
    ASSUME TypeInv, [Next]_vars
    PROVE  Grows
  <1>1. \A cs, from : \A to : DOMAIN Moved(cs, from, to) = DOMAIN world
    BY DEF Moved
  <1>2. \A c : DOMAIN world \subseteq DOMAIN Append(world, c)
    BY ElementsTyped DEF TypeInv, TypeOK
  <1> QED
    BY <1>1, <1>2, WorldSteps DEF Grows

LEMMA VectorFrame ==
    ASSUME VectorIds, Grows, UNCHANGED containers
    PROVE  VectorIds'
  BY DEF VectorIds, Grows, Known, UniqueContainers

LEMMA StoreFrame ==
    ASSUME StoreIds, Grows, UNCHANGED disk
    PROVE  StoreIds'
  BY DEF StoreIds, Grows, Known, UniqueContainers

LEMMA BufferFrame ==
    ASSUME BufferIds, Grows, NEW p \in Procs,
           \A q \in Procs : q # p => file'[q] = file[q] /\ todo'[q] = todo[q],
           \/ file'[p] = file[p]
           \/ UniqueContainers(file'[p]) /\ Known(file'[p], DOMAIN world'),
           todo'[p] = todo[p] \/ Known(todo'[p], DOMAIN world')
    PROVE  BufferIds'
  BY DEF BufferIds, Grows, Known, UniqueContainers

LEMMA HandlerFrame ==
    ASSUME HandlerIds, Grows, NEW p \in Procs,
           \A q \in Handlers : q # p => pc'[q] = pc[q] /\ loc'[q] = loc[q],
           p \in Handlers /\ pc'[p] \in AgentSteps /\ loc'[p].id \in Nat =>
               pc'[p] # "create" /\ loc'[p].id \in DOMAIN world'
    PROVE  HandlerIds'
  BY DEF HandlerIds, Grows

LEMMA PendingFrame ==
    ASSUME PendingIds,
           \A q \in Handlers : pc'[q] \in {"push", "importPush"} =>
               pc'[q] = pc[q] /\ loc'[q] = loc[q],
           \A id \in Ids(containers') : id \in Nat => id \in Ids(containers)
    PROVE  PendingIds'
  BY DEF PendingIds, Pending

(* The steps, each with the conjuncts it disturbs.                         *)

LEMMA CreateIds ==
    ASSUME TypeInv, IdInv, Grows, NEW p \in Handlers,
           CreateAllocate(p) \/ CreateContainer(p) \/ CreatePush(p) \/ CreateIndex(p)
    PROVE  IdInv'
  <1> USE DEF Procs
  <1>1. p \in Procs /\ VectorIds /\ StoreIds /\ BufferIds /\ HandlerIds /\ PendingIds
    BY DEF IdInv
  <1>2. StoreIds'
    BY <1>1, StoreFrame DEF CreateAllocate, CreateContainer, CreatePush, CreateIndex, diskVars
  <1>3. CASE CreateAllocate(p)
    <2>1. /\ UNCHANGED <<containers, file, todo>>
          /\ \A q \in Handlers : q # p => pc'[q] = pc[q] /\ loc'[q] = loc[q]
          /\ pc'[p] = "create" /\ loc'[p].id \in Names
      BY <1>3 DEF CreateAllocate, Goto, agentVars, ioVars, TypeInv, TypeOK
    <2>2. HandlerIds'
      BY <1>1, <2>1, HandlerFrame, NamesAssumption
    <2>3. PendingIds'
      BY <1>1, <2>1, PendingFrame
    <2> QED
      BY <1>1, <1>2, <2>1, <2>2, <2>3, VectorFrame, BufferFrame DEF IdInv
  <1>4. CASE CreateContainer(p)
    <2>1. /\ UNCHANGED <<containers, file, todo>>
          /\ \A q \in Handlers : q # p => pc'[q] = pc[q] /\ loc'[q] = loc[q]
          /\ pc[p] = "create" /\ loc[p] \in Agent
      BY <1>1, <1>4
         DEF CreateContainer, Goto, Fail, Drop, agentVars, ioVars, TypeInv, TypeOK,
             LocTyped, AgentSteps
    <2>2. loc[p].id \notin Nat
      BY <1>1, <2>1 DEF HandlerIds, AgentSteps
    <2>3. \/ pc'[p] = "push" /\ loc'[p] = loc[p]
          \/ /\ pc'[p] = "push" /\ loc'[p].id = Len(world) + 1
             /\ world' = Append(world, NewContainer(loc[p]))
          \/ pc'[p] = "idle"
      BY <1>1, <1>4, <2>1 DEF CreateContainer, Goto, Fail, Drop, TypeInv, TypeOK, Agent
    <2>4. CASE (pc'[p] = "push" /\ loc'[p] = loc[p]) \/ pc'[p] = "idle"
      <3>1. HandlerIds'
        BY <1>1, <2>1, <2>2, <2>4, HandlerFrame DEF AgentSteps
      <3>2. PendingIds'
        BY <1>1, <2>1, <2>2, <2>4 DEF PendingIds, Pending
      <3> QED
        BY <1>1, <1>2, <2>1, <3>1, <3>2, VectorFrame, BufferFrame DEF IdInv
    <2>5. CASE /\ pc'[p] = "push" /\ loc'[p].id = Len(world) + 1
               /\ world' = Append(world, NewContainer(loc[p]))
      <3>1. /\ Len(world) + 1 \in DOMAIN world' /\ Len(world) + 1 \notin DOMAIN world
            /\ Len(world) + 1 \in Nat
        BY <2>5, ElementsTyped DEF TypeInv, TypeOK
      <3>2. HandlerIds'
        BY <1>1, <2>1, <2>5, <3>1, HandlerFrame
      <3>3. Len(world) + 1 \notin Ids(containers)
        BY <1>1, <3>1 DEF VectorIds, Known, Ids
      <3>4. \A q \in Handlers : q # p /\ Pending(q) => loc[q].id # Len(world) + 1
        BY <1>1, <3>1 DEF HandlerIds, Pending, AgentSteps
      <3>5. PendingIds'
        BY <1>1, <2>1, <2>5, <3>3, <3>4 DEF PendingIds, Pending
      <3> QED
        BY <1>1, <1>2, <2>1, <3>2, <3>5, VectorFrame, BufferFrame DEF IdInv
    <2> QED
      BY <2>3, <2>4, <2>5
  <1>5. CASE CreatePush(p)
    <2>1. /\ containers' = Append(containers, loc[p])
          /\ UNCHANGED <<file, todo, loc>>
          /\ pc[p] = "push" /\ pc' = [pc EXCEPT ![p] = "index"]
          /\ loc[p] \in Agent
      BY <1>1, <1>5 DEF CreatePush, Goto, ioVars, TypeInv, LocTyped, AgentSteps
    <2>2. loc[p].id \in Nat => loc[p].id \in DOMAIN world /\ loc[p].id \notin Ids(containers)
      BY <1>1, <2>1 DEF HandlerIds, PendingIds, Pending, AgentSteps
    <2>3. /\ UniqueContainers(containers') /\ Known(containers', DOMAIN world)
          /\ Ids(containers') = Ids(containers) \cup {loc[p].id}
      BY <1>1, <2>1, <2>2, AppendUnique DEF VectorIds, TypeInv, TypeOK
    <2>4. VectorIds'
      BY <2>3 DEF VectorIds, Known, Grows
    <2>5. /\ \A q \in Handlers : q # p => pc'[q] = pc[q] /\ loc'[q] = loc[q]
          /\ pc'[p] = "index" /\ loc'[p] = loc[p]
      BY <2>1 DEF TypeInv, TypeOK
    <2>6. BufferIds'
      BY <1>1, <2>1, BufferFrame
    <2>7. HandlerIds'
      BY <1>1, <2>2, <2>5, HandlerFrame DEF Grows
    <2>8. PendingIds'
      <3>1. \A q \in Handlers : Pending(q)' =>
               q # p /\ Pending(q) /\ loc'[q] = loc[q]
        BY <2>5 DEF Pending
      <3>2. \A q \in Handlers : q # p /\ Pending(q) => loc[q].id # loc[p].id
        BY <1>1, <2>1 DEF PendingIds, Pending
      <3> QED
        BY <1>1, <2>3, <3>1, <3>2 DEF PendingIds
    <2> QED
      BY <1>2, <2>4, <2>6, <2>7, <2>8 DEF IdInv
  <1>6. CASE CreateIndex(p)
    <2>1. /\ UNCHANGED <<containers, file>>
          /\ todo' = [todo EXCEPT ![p] = <<loc[p]>>]
          /\ pc[p] = "index" /\ pc' = [pc EXCEPT ![p] = "persist"]
          /\ loc' = [loc EXCEPT ![p] = <<>>]
      BY <1>6 DEF CreateIndex, Goto, Drop
    <2>2. loc[p].id \in Nat => loc[p].id \in DOMAIN world
      BY <1>1, <2>1 DEF HandlerIds, AgentSteps
    <2>3. Known(<<loc[p]>>, DOMAIN world')
      BY <2>2, SingletonKnown DEF Grows
    <2>4. BufferIds'
      BY <1>1, <2>1, <2>3, BufferFrame DEF TypeInv, TypeOK
    <2>5. HandlerIds'
      BY <1>1, <2>1, HandlerFrame DEF AgentSteps, TypeInv, TypeOK
    <2>6. PendingIds'
      BY <1>1, <2>1, PendingFrame DEF TypeInv, TypeOK
    <2> QED
      BY <1>1, <1>2, <2>1, <2>4, <2>5, <2>6, VectorFrame DEF IdInv
  <1> QED
    BY <1>3, <1>4, <1>5, <1>6

LEMMA ImportIds ==
    ASSUME TypeInv, IdInv, Grows, NEW p \in Handlers, ImportContainer(p) \/ ImportPush(p)
    PROVE  IdInv'
  <1> USE DEF Procs
  <1>1. p \in Procs /\ VectorIds /\ StoreIds /\ BufferIds /\ HandlerIds /\ PendingIds
    BY DEF IdInv
  <1>2. StoreIds' /\ BufferIds'
    BY <1>1, StoreFrame, BufferFrame DEF ImportContainer, ImportPush, diskVars, ioVars
  <1>3. CASE ImportContainer(p)
    <2>1. /\ UNCHANGED containers
          /\ \A q \in Handlers : q # p => pc'[q] = pc[q] /\ loc'[q] = loc[q]
          /\ pc'[p] = "importPush" /\ loc'[p].id = Len(world) + 1
          /\ \E c : world' = Append(world, c)
      BY <1>1, <1>3 DEF ImportContainer, Goto, agentVars, TypeInv, TypeOK
    <2>2. /\ Len(world) + 1 \in DOMAIN world' /\ Len(world) + 1 \notin DOMAIN world
          /\ Len(world) + 1 \in Nat
      BY <2>1, ElementsTyped DEF TypeInv, TypeOK
    <2>3. HandlerIds'
      BY <1>1, <2>1, <2>2, HandlerFrame
    <2>4. Len(world) + 1 \notin Ids(containers)
      BY <1>1, <2>2 DEF VectorIds, Known, Ids
    <2>5. \A q \in Handlers : q # p /\ Pending(q) => loc[q].id # Len(world) + 1
      BY <1>1, <2>2 DEF HandlerIds, Pending, AgentSteps
    <2>6. PendingIds'
      BY <1>1, <2>1, <2>4, <2>5 DEF PendingIds, Pending
    <2> QED
      BY <1>1, <1>2, <2>1, <2>3, <2>6, VectorFrame DEF IdInv
  <1>4. CASE ImportPush(p)
    <2>1. /\ containers' = Append(containers, loc[p])
          /\ pc[p] = "importPush" /\ pc' = [pc EXCEPT ![p] = "idle"]
          /\ loc' = [loc EXCEPT ![p] = <<>>]
          /\ loc[p] \in Agent
      BY <1>1, <1>4 DEF ImportPush, Goto, Drop, TypeInv, LocTyped, AgentSteps
    <2>2. loc[p].id \in Nat => loc[p].id \in DOMAIN world /\ loc[p].id \notin Ids(containers)
      BY <1>1, <2>1 DEF HandlerIds, PendingIds, Pending, AgentSteps
    <2>3. /\ UniqueContainers(containers') /\ Known(containers', DOMAIN world)
          /\ Ids(containers') = Ids(containers) \cup {loc[p].id}
      BY <1>1, <2>1, <2>2, AppendUnique DEF VectorIds, TypeInv, TypeOK
    <2>4. VectorIds'
      BY <2>3 DEF VectorIds, Known, Grows
    <2>5. HandlerIds'
      BY <1>1, <2>1, HandlerFrame DEF AgentSteps, TypeInv, TypeOK
    <2>6. PendingIds'
      <3>1. \A q \in Handlers : Pending(q)' =>
               q # p /\ Pending(q) /\ loc'[q] = loc[q]
        BY <2>1 DEF Pending, TypeInv, TypeOK
      <3>2. \A q \in Handlers : q # p /\ Pending(q) => loc[q].id # loc[p].id
        BY <1>1, <2>1 DEF PendingIds, Pending
      <3> QED
        BY <1>1, <2>3, <3>1, <3>2 DEF PendingIds
    <2> QED
      BY <1>2, <2>4, <2>5, <2>6 DEF IdInv
  <1> QED
    BY <1>3, <1>4

(* A step that keeps the ids of the vector, and whose handler is not about *)
(* to push.                                                                *)
LEMMA StillFrame ==
    ASSUME TypeInv, IdInv, Grows, NEW p \in Procs,
           DOMAIN containers' = DOMAIN containers,
           \A i \in DOMAIN containers : containers'[i].id = containers[i].id,
           UNCHANGED disk,
           \A q \in Procs : q # p => file'[q] = file[q] /\ todo'[q] = todo[q],
           \A q \in Handlers : q # p => pc'[q] = pc[q] /\ loc'[q] = loc[q],
           file'[p] = file[p],
           todo'[p] = todo[p] \/ Known(todo'[p], DOMAIN world'),
           pc'[p] \notin {"create", "push", "importPush"},
           \/ p \notin Handlers
           \/ pc'[p] \notin AgentSteps
           \/ loc'[p] = loc[p] /\ pc[p] \in AgentSteps
           \/ loc'[p].id \in Ids(containers)
    PROVE  IdInv'
  <1>1. VectorIds /\ StoreIds /\ BufferIds /\ HandlerIds /\ PendingIds
    BY DEF IdInv
  <1>2. UniqueContainers(containers') /\ Known(containers', DOMAIN world)
    BY <1>1, SameIdsUnique DEF VectorIds
  <1>3. VectorIds'
    BY <1>2 DEF VectorIds, Known, Grows
  <1>4. Ids(containers') = Ids(containers)
    BY SameIds
  <1>5. PendingIds'
    BY <1>1, <1>4, PendingFrame
  <1>6. \A id \in Ids(containers) : id \in Nat => id \in DOMAIN world
    BY <1>1 DEF VectorIds, Known, Ids
  <1>7. p \in Handlers /\ pc'[p] \in AgentSteps /\ loc'[p].id \in Nat =>
           loc'[p].id \in DOMAIN world
    BY <1>1, <1>6 DEF HandlerIds
  <1>8. HandlerIds'
    BY <1>1, <1>7, HandlerFrame DEF Grows
  <1> QED
    BY <1>1, <1>3, <1>5, <1>8, StoreFrame, BufferFrame DEF IdInv

LEMMA UpdateIds ==
    ASSUME TypeInv, IdInv, Grows, NEW p \in Handlers, UpdateAgent(p) \/ UpdateTailscaleIp(p)
    PROVE  IdInv'
  <1> USE DEF Procs
  <1>1. /\ p \in Procs /\ VectorIds /\ StoreIds /\ BufferIds /\ HandlerIds /\ PendingIds
        /\ \A i \in DOMAIN containers : containers[i] \in Agent
    BY ElementsTyped DEF IdInv, TypeInv
  <1>2. CASE UpdateAgent(p)
    <2>1. PICK i \in DOMAIN containers, n \in Names :
             /\ containers' = [containers EXCEPT ![i].name = n]
             /\ PersistLocked(p, <<[containers[i] EXCEPT !.name = n]>>)
      BY <1>2 DEF UpdateAgent
    <2>2. /\ DOMAIN containers' = DOMAIN containers
          /\ \A j \in DOMAIN containers : containers'[j].id = containers[j].id
      BY <1>1, <2>1 DEF Agent
    <2>3. [containers[i] EXCEPT !.name = n].id = containers[i].id
      BY <1>1 DEF Agent
    <2>4. Known(<<[containers[i] EXCEPT !.name = n]>>, DOMAIN world')
      BY <1>1, <2>3, SingletonKnown DEF VectorIds, Known, Grows
    <2>5. /\ UNCHANGED <<disk, file, loc>>
          /\ todo'[p] = <<[containers[i] EXCEPT !.name = n]>>
          /\ \A q \in Procs : q # p => todo'[q] = todo[q] /\ pc'[q] = pc[q]
          /\ pc'[p] = "persist"
      BY <1>1, <1>2, <2>1 DEF UpdateAgent, PersistLocked, Goto, diskVars, TypeInv, TypeOK
    <2> QED
      BY <1>1, <2>2, <2>4, <2>5, StillFrame DEF AgentSteps
  <1>3. CASE UpdateTailscaleIp(p)
    <2>1. PICK i \in DOMAIN containers : todo' = [todo EXCEPT ![p] = <<containers[i]>>]
      BY <1>3 DEF UpdateTailscaleIp
    <2>2. Known(<<containers[i]>>, DOMAIN world')
      BY <1>1, SingletonKnown DEF VectorIds, Known, Grows
    <2>3. /\ UNCHANGED <<containers, disk, loc>>
          /\ todo'[p] = <<containers[i]>> /\ file'[p] = containers
          /\ \A q \in Procs : q # p => /\ todo'[q] = todo[q] /\ file'[q] = file[q]
                                     /\ pc'[q] = pc[q]
          /\ pc'[p] = "save"
      BY <1>1, <1>3, <2>1
         DEF UpdateTailscaleIp, Goto, agentVars, diskVars, TypeInv, TypeOK
    <2>4. UniqueContainers(containers) /\ Known(containers, DOMAIN world')
      BY <1>1 DEF VectorIds, Known, Grows
    <2>5. HandlerIds' /\ PendingIds'
      BY <1>1, <2>3, HandlerFrame, PendingFrame DEF AgentSteps
    <2> QED
      BY <1>1, <2>2, <2>3, <2>4, <2>5, VectorFrame, StoreFrame, BufferFrame DEF IdInv
  <1> QED
    BY <1>2, <1>3

LEMMA DeleteIds ==
    ASSUME TypeInv, IdInv, Grows, NEW p \in Handlers,
           DeleteCheck(p) \/ DeleteContainer(p) \/ DeleteState(p)
    PROVE  IdInv'
  <1> USE DEF Procs
  <1>1. p \in Procs /\ VectorIds /\ StoreIds /\ BufferIds /\ HandlerIds /\ PendingIds
    BY DEF IdInv
  <1>2. CASE DeleteCheck(p)
    <2>1. PICK i \in DOMAIN containers : loc' = [loc EXCEPT ![p] = containers[i]]
      BY <1>2 DEF DeleteCheck
    <2>2. containers[i].id \in Ids(containers)
      BY DEF Ids
    <2> QED
      BY <1>1, <1>2, <2>1, <2>2, StillFrame
         DEF DeleteCheck, Goto, agentVars, diskVars, ioVars, TypeInv, TypeOK
  <1>3. CASE DeleteContainer(p)
    BY <1>1, <1>3, StillFrame
       DEF DeleteContainer, Goto, agentVars, diskVars, ioVars, TypeInv, TypeOK, AgentSteps
  <1>4. CASE DeleteState(p)
    <2>1. /\ containers' \in Retained(containers, loc[p].id)
          /\ UNCHANGED <<disk, file>>
          /\ todo' = [todo EXCEPT ![p] = <<loc[p]>>]
          /\ pc[p] = "delState" /\ pc' = [pc EXCEPT ![p] = "remove"]
          /\ loc' = [loc EXCEPT ![p] = <<>>]
      BY <1>4 DEF DeleteState, Goto, Drop, diskVars
    <2>2. /\ UniqueContainers(containers') /\ Known(containers', DOMAIN world)
          /\ Ids(containers') \subseteq Ids(containers)
      BY <1>1, <2>1, RetainedUnique DEF VectorIds, TypeInv, TypeOK
    <2>3. VectorIds'
      BY <2>2 DEF VectorIds, Known, Grows
    <2>4. loc[p].id \in Nat => loc[p].id \in DOMAIN world'
      BY <1>1, <2>1 DEF HandlerIds, AgentSteps, Grows
    <2>5. BufferIds'
      <3>1. Known(<<loc[p]>>, DOMAIN world')
        BY <2>4, SingletonKnown
      <3> QED
        BY <1>1, <2>1, <3>1, BufferFrame DEF TypeInv, TypeOK
    <2>6. HandlerIds'
      BY <1>1, <2>1, HandlerFrame DEF AgentSteps, TypeInv, TypeOK
    <2>7. PendingIds'
      BY <1>1, <2>1, <2>2, PendingFrame DEF TypeInv, TypeOK
    <2> QED
      BY <1>1, <2>1, <2>3, <2>5, <2>6, <2>7, StoreFrame DEF IdInv
  <1> QED
    BY <1>2, <1>3, <1>4

LEMMA SetStatusIds ==
    ASSUME TypeInv, IdInv, Grows, NEW p \in Handlers, NEW st \in Statuses,
           SetStatus(p, st), UNCHANGED <<disk, file>>
    PROVE  IdInv'
  <1> USE DEF Procs
  <1>1. PICK a \in Agent : a.id \in Ids(containers) /\ todo' = [todo EXCEPT ![p] = <<a>>]
    BY SetStatusKeepsIds
  <1>2. a.id \in Nat => a.id \in DOMAIN world
    BY <1>1 DEF IdInv, VectorIds, Known, Ids
  <1>3. Known(<<a>>, DOMAIN world')
    BY <1>2, SingletonKnown DEF Grows
  <1>4. /\ DOMAIN containers' = DOMAIN containers
        /\ \A i \in DOMAIN containers : containers'[i].id = containers[i].id
    BY SetStatusKeepsIds
  <1>5. pc' = [pc EXCEPT ![p] = "persist"] /\ loc' = [loc EXCEPT ![p] = <<>>]
    BY SetStatusTyped
  <1> QED
    BY <1>1, <1>3, <1>4, <1>5, StillFrame DEF AgentSteps, TypeInv, TypeOK

LEMMA StartIds ==
    ASSUME TypeInv, IdInv, Grows, NEW p \in Handlers,
           StartAgent(p) \/ StartEnsure(p) \/ StartRun(p) \/ StartProbe(p)
    PROVE  IdInv'
  <1> USE DEF Procs
  <1>1. /\ p \in Procs /\ VectorIds
        /\ \A i \in DOMAIN containers : containers[i] \in Agent
    BY ElementsTyped DEF IdInv, TypeInv
  <1>2. CASE StartAgent(p)
    <2>1. PICK i \in DOMAIN containers :
             \/ /\ containers' = [containers EXCEPT ![i].status = "Running"]
                /\ PersistLocked(p, <<containers'[i]>>)
                /\ UNCHANGED loc
             \/ /\ loc' = [loc EXCEPT ![p] = containers[i]]
                /\ Goto(p, "startEnsure")
                /\ UNCHANGED <<containers, todo>>
      BY <1>2 DEF StartAgent
    <2>2. UNCHANGED <<disk, file>>
      BY <1>2 DEF StartAgent, diskVars
    <2>3. CASE /\ containers' = [containers EXCEPT ![i].status = "Running"]
               /\ PersistLocked(p, <<containers'[i]>>)
               /\ UNCHANGED loc
      <3>1. /\ DOMAIN containers' = DOMAIN containers
            /\ \A j \in DOMAIN containers : containers'[j].id = containers[j].id
        BY <1>1, <2>3 DEF Agent
      <3>2. Known(<<containers'[i]>>, DOMAIN world')
        BY <1>1, <3>1, SingletonKnown DEF VectorIds, Known, Grows
      <3>3. /\ pc' = [pc EXCEPT ![p] = "persist"]
            /\ todo' = [todo EXCEPT ![p] = <<containers'[i]>>]
        BY <2>3 DEF PersistLocked, Goto
      <3> QED
        BY <1>1, <2>2, <2>3, <3>1, <3>2, <3>3, StillFrame DEF AgentSteps, TypeInv, TypeOK
    <2>4. CASE /\ loc' = [loc EXCEPT ![p] = containers[i]]
               /\ Goto(p, "startEnsure")
               /\ UNCHANGED <<containers, todo>>
      <3>1. containers[i].id \in Ids(containers)
        BY DEF Ids
      <3> QED
        BY <1>1, <2>2, <2>4, <3>1, StillFrame DEF Goto, TypeInv, TypeOK
    <2> QED
      BY <2>1, <2>3, <2>4
  <1>3. CASE StartEnsure(p) \/ StartRun(p)
    <2>1. /\ UNCHANGED <<containers, disk, file, todo>>
          /\ \A q \in Handlers : q # p => pc'[q] = pc[q] /\ loc'[q] = loc[q]
          /\ pc[p] \in AgentSteps
          /\ \/ pc'[p] = "idle"
             \/ loc'[p] = loc[p] /\ pc'[p] \in {"startRun", "startProbe"}
      BY <1>3
         DEF StartEnsure, StartRun, Goto, Fail, Drop, agentVars, diskVars, ioVars,
             AgentSteps, TypeInv, TypeOK
    <2> QED
      BY <1>1, <2>1, StillFrame DEF AgentSteps
  <1>4. CASE StartProbe(p)
    <2>1. UNCHANGED <<disk, file>> /\ "Running" \in Statuses
      BY <1>4 DEF StartProbe, diskVars, Statuses
    <2>2. CASE SetStatus(p, "Running")
      BY <2>1, <2>2, SetStatusIds
    <2>3. CASE Fail(p) /\ UNCHANGED <<containers, todo>>
      BY <1>1, <2>1, <2>3, StillFrame DEF Fail, Goto, Drop, AgentSteps, TypeInv, TypeOK
    <2> QED
      BY <1>4, <2>2, <2>3 DEF StartProbe
  <1> QED
    BY <1>2, <1>3, <1>4

LEMMA StopIds ==
    ASSUME TypeInv, IdInv, Grows, NEW p \in Handlers,
           StopAgent(p) \/ StopState(p) \/ StartAll(p) \/ StopAll(p)
    PROVE  IdInv'
  <1> USE DEF Procs
  <1>1. CASE StopAgent(p)
    <2>1. PICK i \in DOMAIN containers :
             \/ /\ loc' = [loc EXCEPT ![p] = containers[i]]
                /\ Goto(p, "stopState")
             \/ UNCHANGED <<pc, loc>>
      BY <1>1 DEF StopAgent
    <2>2. UNCHANGED <<containers, disk, file, todo>> /\ pc[p] = "idle"
      BY <1>1 DEF StopAgent, Begin, agentVars, diskVars, ioVars
    <2>3. containers[i].id \in Ids(containers)
      BY DEF Ids
    <2>4. /\ \A q \in Handlers : q # p => pc'[q] = pc[q] /\ loc'[q] = loc[q]
          /\ \/ pc'[p] = "stopState" /\ loc'[p] = containers[i]
             \/ pc'[p] = "idle"
      BY <2>1, <2>2 DEF Goto, TypeInv, TypeOK
    <2> QED
      BY <2>2, <2>3, <2>4, StillFrame DEF AgentSteps
  <1>2. CASE StopState(p)
    BY <1>2, SetStatusIds DEF StopState, diskVars, Statuses
  <1>3. CASE StartAll(p) \/ StopAll(p)
    BY <1>3, StillFrame DEF StartAll, StopAll, Begin, agentVars, diskVars, ioVars, AgentSteps
  <1> QED
    BY <1>1, <1>2, <1>3

LEMMA FileStepIds ==
    ASSUME TypeInv, IdInv, Grows, NEW p \in Procs, FileStep(p) \/ FileFails(p)
    PROVE  IdInv'
  <1>1. VectorIds /\ StoreIds /\ BufferIds /\ HandlerIds /\ PendingIds
    BY DEF IdInv
  <1>2. todo[p] # <<>>
    BY DEF FileStep, LoadForUpsert, LoadForRemove, TruncateFile, WriteFile, FileFails,
           TypeInv, TodoTyped
  <1>3. /\ UNCHANGED <<containers, loc, world>>
        /\ \A q \in Procs : q # p => /\ pc'[q] = pc[q] /\ file'[q] = file[q]
                                   /\ todo'[q] = todo[q]
        /\ pc'[p] \in {"idle", "persist", "save", "write"}
        /\ todo'[p] = todo[p] \/ todo'[p] = Tail(todo[p])
    BY DEF FileStep, LoadForUpsert, LoadForRemove, TruncateFile, WriteFile, FileFails,
           Advance, Goto, agentVars, ioVars, TypeInv, TypeOK
  <1>4. /\ Known(todo[p], DOMAIN world) /\ Known(Tail(todo[p]), DOMAIN world)
        /\ Head(todo[p]).id \in Nat => Head(todo[p]).id \in DOMAIN world
        /\ Head(todo[p]) \in Agent
    BY <1>1, <1>2, TailKnown, HeadTailProperties DEF BufferIds, TypeInv, TypeOK
  <1>5. /\ UniqueContainers(file'[p]) /\ Known(file'[p], DOMAIN world)
        /\ UniqueContainers(disk') /\ Known(disk', DOMAIN world)
    <2>1. UniqueContainers(disk) /\ Known(disk, DOMAIN world)
      BY <1>1 DEF StoreIds
    <2>2. UniqueContainers(file[p]) /\ Known(file[p], DOMAIN world)
      BY <1>1 DEF BufferIds
    <2>3. CASE LoadForUpsert(p)
      <3>1. file'[p] = file[p] \/ file'[p] = Upsert(disk, Head(todo[p]))
        BY <2>3 DEF LoadForUpsert, TypeInv, TypeOK
      <3>2. UNCHANGED disk
        BY <2>3 DEF LoadForUpsert, diskVars
      <3> QED
        BY <1>4, <2>1, <2>2, <3>1, <3>2, UpsertUnique DEF TypeInv, TypeOK
    <2>4. CASE LoadForRemove(p)
      <3>1. file'[p] = file[p] \/ file'[p] \in Retained(disk, Head(todo[p]).id)
        BY <2>4 DEF LoadForRemove, TypeInv, TypeOK
      <3>2. UNCHANGED disk
        BY <2>4 DEF LoadForRemove, diskVars
      <3> QED
        BY <2>1, <2>2, <3>1, <3>2, RetainedUnique DEF TypeInv, TypeOK
    <2>5. CASE TruncateFile(p) \/ WriteFile(p) \/ FileFails(p)
      <3>1. /\ disk' \in {disk, file[p], <<>>}
            /\ file'[p] \in {file[p], <<>>}
        BY <2>5 DEF TruncateFile, WriteFile, FileFails, diskVars, ioVars, TypeInv, TypeOK
      <3>2. UniqueContainers(<<>>) /\ Known(<<>>, DOMAIN world)
        BY DEF UniqueContainers, Known
      <3> QED
        BY <2>1, <2>2, <3>1, <3>2
    <2> QED
      BY <2>3, <2>4, <2>5 DEF FileStep
  <1>6. StoreIds'
    BY <1>3, <1>5 DEF StoreIds
  <1>7. BufferIds'
    BY <1>1, <1>3, <1>4, <1>5, BufferFrame
  <1>8. HandlerIds' /\ PendingIds'
    BY <1>1, <1>3, HandlerFrame, PendingFrame DEF AgentSteps, Procs
  <1> QED
    BY <1>1, <1>3, <1>6, <1>7, <1>8, VectorFrame DEF IdInv

LEMMA SyncIds ==
    ASSUME TypeInv, IdInv, Grows, SyncList \/ SyncApply
    PROVE  IdInv'
  <1>1. Reconciler \in Procs /\ Reconciler \notin Handlers
    BY ProcAssumption DEF Procs
  <1>2. CASE SyncList
    BY <1>1, <1>2, StillFrame DEF SyncList, Goto, agentVars, diskVars, ioVars, TypeInv, TypeOK
  <1>3. CASE SyncApply
    <2> DEFINE new == [i \in DOMAIN containers |-> Reconciled(containers[i])]
    <2>1. \A i \in DOMAIN containers : new[i].id = containers[i].id
      <3> SUFFICES ASSUME NEW i \in DOMAIN containers
                   PROVE  Reconciled(containers[i]).id = containers[i].id
        OBVIOUS
      <3>1. containers[i] \in Agent /\ listing[containers[i].name] \in Statuses \cup {"absent"}
        BY ElementsTyped DEF TypeInv, TypeOK, Agent
      <3>2. \A st \in Statuses : [containers[i] EXCEPT !.status = st].id = containers[i].id
        BY <3>1 DEF Agent
      <3> QED
        BY <3>1, <3>2 DEF Reconciled, Statuses
    <2>2. DOMAIN new = DOMAIN containers
      OBVIOUS
    <2>3. /\ UNCHANGED <<disk, loc, file>>
          /\ \/ UNCHANGED <<containers, todo>> /\ pc' = [pc EXCEPT ![Reconciler] = "idle"]
             \/ /\ containers' = new
                /\ todo' = [todo EXCEPT ![Reconciler] = new]
                /\ pc' = [pc EXCEPT ![Reconciler] = "persist"]
      BY <1>3 DEF SyncApply, PersistLocked, Goto, agentVars, diskVars
    <2> HIDE DEF new
    <2>4. Known(new, DOMAIN world')
      BY <2>1, <2>2 DEF IdInv, VectorIds, Known, Grows
    <2>5. /\ DOMAIN containers' = DOMAIN containers
          /\ \A i \in DOMAIN containers : containers'[i].id = containers[i].id
      BY <2>1, <2>2, <2>3
    <2>6. /\ \A q \in Procs : q # Reconciler => todo'[q] = todo[q] /\ pc'[q] = pc[q]
          /\ todo'[Reconciler] = todo[Reconciler] \/ todo'[Reconciler] = new
          /\ pc'[Reconciler] \in {"idle", "persist"}
      BY <1>1, <2>3 DEF TypeInv, TypeOK
    <2>7. /\ \A q \in Handlers : q # Reconciler => pc'[q] = pc[q] /\ loc'[q] = loc[q]
          /\ todo'[Reconciler] = todo[Reconciler] \/ Known(todo'[Reconciler], DOMAIN world')
          /\ pc'[Reconciler] \notin {"create", "push", "importPush"}
      BY <2>3, <2>4, <2>6 DEF Procs
    <2> QED
      BY <1>1, <2>3, <2>5, <2>6, <2>7, StillFrame
  <1> QED
    BY <1>2, <1>3

(* The agents startup adopts have the ids of the containers they stand for.*)
LEMMA StrangersUnique ==
    ASSUME NEW stored, NEW docker \in SUBSET Nat, IsFiniteSet(docker),
           NEW new \in Strangers(stored, docker)
    PROVE  /\ DOMAIN new = 1 .. Len(new) /\ Len(new) \in Nat
           /\ UniqueContainers(new) /\ Known(new, docker)
           /\ \A i \in DOMAIN new : new[i].id \notin Ids(stored)
           /\ new \in Seq({Adopted(c) : c \in docker})
  <1> DEFINE S == docker \ Ids(stored)
  <1>1. PICK e \in Enumerations(S) : new = [k \in DOMAIN e |-> Adopted(e[k])]
    BY DEF Strangers
  <1>2. IsFiniteSet(S) /\ S \in SUBSET Nat
    BY FS_Subset
  <1> HIDE DEF S
  <1>3. e \in Seq(S) /\ \A i, j \in DOMAIN e : e[i] = e[j] => i = j
    BY <1>2, EnumerationIsSeq
  <1>4. \A k \in DOMAIN e : e[k] \in S
    BY <1>3, LenProperties, ElementOfSeq
  <1>5. \A k \in DOMAIN e : e[k] \in docker /\ e[k] \notin Ids(stored)
    BY <1>4 DEF S
  <1>6. DOMAIN new = DOMAIN e /\ \A k \in DOMAIN e : new[k] = Adopted(e[k])
    BY <1>1
  <1>7. new \in [DOMAIN e -> {Adopted(c) : c \in docker}]
    BY <1>1, <1>5
  <1>8. new \in Seq({Adopted(c) : c \in docker}) /\ DOMAIN new = 1 .. Len(new) /\ Len(new) \in Nat
    BY <1>3, <1>7, MapIsSeq, LenProperties
  <1>9. \A k \in DOMAIN e : new[k].id = e[k]
    <2>1. \A c : Adopted(c).id = c
      BY DEF Adopted
    <2> QED
      BY <1>6, <2>1
  <1>10. UniqueContainers(new) /\ Known(new, docker)
    BY <1>3, <1>5, <1>6, <1>9 DEF UniqueContainers, Known
  <1> QED
    BY <1>5, <1>6, <1>8, <1>9, <1>10

LEMMA ConcatUnique ==
    ASSUME NEW S, NEW T, NEW s \in Seq(S), NEW t \in Seq(T), NEW W,
           UniqueContainers(s), Known(s, W), UniqueContainers(t), Known(t, W),
           \A i \in DOMAIN t : t[i].id \notin Ids(s)
    PROVE  UniqueContainers(s \o t) /\ Known(s \o t, W)
  <1>1. /\ DOMAIN s = 1 .. Len(s) /\ Len(s) \in Nat
        /\ DOMAIN t = 1 .. Len(t) /\ Len(t) \in Nat
        /\ s \in Seq(S \cup T) /\ t \in Seq(S \cup T)
    BY LenProperties
  <1>2. /\ Len(s \o t) = Len(s) + Len(t) /\ s \o t \in Seq(S \cup T)
        /\ \A i \in 1 .. Len(s) + Len(t) :
              (s \o t)[i] = IF i <= Len(s) THEN s[i] ELSE t[i - Len(s)]
    BY <1>1, ConcatProperties
  <1>3. DOMAIN (s \o t) = 1 .. Len(s) + Len(t)
    BY <1>2, LenProperties
  <1> DEFINE u == s \o t
  <1>4. \A i \in DOMAIN u : \/ i \in DOMAIN s /\ u[i] = s[i]
                            \/ i - Len(s) \in DOMAIN t /\ u[i] = t[i - Len(s)] /\ i \in Nat
    BY <1>1, <1>2, <1>3
  <1>5. \A i \in DOMAIN s : s[i].id \in Ids(s)
    BY DEF Ids
  <1> HIDE DEF u
  <1>6. Known(u, W)
    BY <1>4 DEF Known
  <1>7. UniqueContainers(u)
    <2> SUFFICES ASSUME NEW i \in DOMAIN u, NEW j \in DOMAIN u,
                        u[i].id = u[j].id, u[i].id \in Nat
                 PROVE  i = j
      BY DEF UniqueContainers
    <2>1. CASE i \in DOMAIN s /\ u[i] = s[i] /\ j \in DOMAIN s /\ u[j] = s[j]
      BY <2>1 DEF UniqueContainers
    <2>2. CASE /\ i - Len(s) \in DOMAIN t /\ u[i] = t[i - Len(s)] /\ i \in Nat
               /\ j - Len(s) \in DOMAIN t /\ u[j] = t[j - Len(s)] /\ j \in Nat
      <3>1. i - Len(s) = j - Len(s)
        BY <2>2 DEF UniqueContainers
      <3> QED
        BY <1>1, <2>2, <3>1
    <2> QED
      BY <1>4, <1>5, <2>1, <2>2
  <1> QED
    BY <1>6, <1>7 DEF u

LEMMA RestartIds ==
    ASSUME TypeInv, IdInv, CrashRestart
    PROVE  IdInv'
  <1>1. PICK docker \in {{}, {c \in DOMAIN world : /\ world[c].client = "docker"
                                                /\ world[c].state # "gone"}} :
           \E new \in Strangers(disk, docker) : containers' = Merged(disk, docker) \o new
    BY DEF CrashRestart
  <1>2. PICK new \in Strangers(disk, docker) : containers' = Merged(disk, docker) \o new
    BY <1>1
  <1>3. disk \in Seq(Agent) /\ UniqueContainers(disk) /\ Known(disk, DOMAIN world)
    BY DEF IdInv, StoreIds, TypeInv, TypeOK
  <1>4. docker \in SUBSET Nat /\ IsFiniteSet(docker) /\ docker \subseteq DOMAIN world
    <2>1. docker \subseteq DOMAIN world
      OBVIOUS
    <2>2. DOMAIN world = 1 .. Len(world) /\ Len(world) \in Nat
      BY ElementsTyped DEF TypeInv
    <2>3. IsFiniteSet(1 .. Len(world))
      BY <2>2, FS_Interval
    <2> QED
      BY <2>1, <2>2, <2>3, FS_Subset
  <1>5. /\ UniqueContainers(new) /\ Known(new, docker)
        /\ \A i \in DOMAIN new : new[i].id \notin Ids(disk)
        /\ new \in Seq({Adopted(c) : c \in docker})
    BY <1>2, <1>4, StrangersUnique
  <1> DEFINE old == Merged(disk, docker)
  <1>6. /\ DOMAIN old = DOMAIN disk /\ \A i \in DOMAIN disk : old[i].id = disk[i].id
        /\ old \in Seq(Agent)
    <2>1. \A i \in DOMAIN disk : disk[i] \in Agent
      BY <1>3, LenProperties, ElementOfSeq
    <2>2. old \in [DOMAIN disk -> Agent]
      BY <1>4, <2>1, StatusTyped DEF Merged, Agent, Statuses
    <2>3. \A i \in DOMAIN disk : old[i].id = disk[i].id
      BY <2>1 DEF Merged, Agent
    <2> QED
      BY <1>3, <2>2, <2>3, MapIsSeq
  <1> HIDE DEF old
  <1>7. UniqueContainers(old) /\ Known(old, DOMAIN world)
    BY <1>3, <1>6, SameIdsUnique
  <1>8. Ids(old) = Ids(disk)
    BY <1>6 DEF Ids
  <1>9. Known(new, DOMAIN world)
    BY <1>4, <1>5 DEF Known
  <1>10. UniqueContainers(old \o new) /\ Known(old \o new, DOMAIN world)
    BY <1>5, <1>6, <1>7, <1>8, <1>9, ConcatUnique
  <1>11. /\ UNCHANGED <<disk, world>>
         /\ pc' = [p \in Procs |-> "idle"]
         /\ file' = [p \in Procs |-> <<>>]
         /\ todo' = [p \in Procs |-> <<>>]
    BY DEF CrashRestart, diskVars
  <1>12. VectorIds' /\ StoreIds'
    BY <1>2, <1>3, <1>10, <1>11 DEF VectorIds, StoreIds, old
  <1>13. BufferIds' /\ HandlerIds' /\ PendingIds'
    BY <1>11 DEF BufferIds, HandlerIds, PendingIds, Pending, AgentSteps, Procs, UniqueContainers,
                 Known
  <1> QED
    BY <1>12, <1>13 DEF IdInv

LEMMA EnvironmentIds ==
    ASSUME TypeInv, IdInv, Grows, ContainerExit \/ ContainerPruned \/ ClientHangsUp
    PROVE  IdInv'
  <1>1. VectorIds /\ StoreIds /\ BufferIds /\ HandlerIds /\ PendingIds
    BY DEF IdInv
  <1>2. /\ UNCHANGED <<containers, disk, file, todo>>
        /\ \A q \in Handlers : \/ pc'[q] = pc[q] /\ loc'[q] = loc[q]
                               \/ pc'[q] = "idle"
    BY DEF ContainerExit, ContainerPruned, ClientHangsUp, Fail, Goto, Drop, agentVars, diskVars,
           ioVars, Procs, TypeInv, TypeOK
  <1>3. BufferIds'
    BY <1>1, <1>2 DEF BufferIds, Grows, Known
  <1>4. HandlerIds'
    BY <1>1, <1>2 DEF HandlerIds, Grows, AgentSteps
  <1>5. PendingIds'
    BY <1>1, <1>2, PendingFrame
  <1> QED
    BY <1>1, <1>2, <1>3, <1>4, <1>5, VectorFrame, StoreFrame DEF IdInv

LEMMA IdInvInductive == TypeInv /\ IdInv /\ [Next]_vars => IdInv'
  <1> SUFFICES ASSUME TypeInv, IdInv, [Next]_vars
               PROVE  IdInv'
    OBVIOUS
  <1>1. Grows
    BY WorldGrows
  <1>2. CASE \E p \in Handlers : Request(p)
    BY <1>1, <1>2, CreateIds, ImportIds, UpdateIds, DeleteIds, StartIds, StopIds DEF Request
  <1>3. CASE \E p \in Handlers : Continue(p)
    BY <1>1, <1>3, CreateIds, ImportIds, DeleteIds, StartIds, StopIds DEF Continue
  <1>4. CASE \E p \in Procs : FileStep(p) \/ FileFails(p)
    BY <1>1, <1>4, FileStepIds
  <1>5. CASE SyncList \/ SyncApply
    BY <1>1, <1>5, SyncIds
  <1>6. CASE Environment
    BY <1>1, <1>6, EnvironmentIds, RestartIds DEF Environment
  <1>7. CASE UNCHANGED vars
    BY <1>7
       DEF vars, IdInv, VectorIds, StoreIds, BufferIds, HandlerIds, PendingIds, Pending,
           UniqueContainers, Known, Ids
  <1> QED
    BY <1>2, <1>3, <1>4, <1>5, <1>6, <1>7 DEF Next

(* No container id names two agents, in the vector or in agents.json, for  *)
(* any interleaving of the handlers, the reconciler, crashes and hang-ups. *)
THEOREM IdsUnique == Spec => []ContainerIdsUnique
  <1>1. Init => IdInv
    BY DEF Init, IdInv, VectorIds, StoreIds, BufferIds, HandlerIds, PendingIds, Pending, Known,
           UniqueContainers, Procs, AgentSteps
  <1>2. IdInv => ContainerIdsUnique
    BY DEF IdInv, VectorIds, StoreIds, ContainerIdsUnique
  <1> QED
    BY <1>1, <1>2, TypeInvAlways, IdInvInductive, PTL DEF Spec

-----------------------------------------------------------------------------
(* The chat endpoint.  The index is not part of the argument: the entry it *)
(* points at is compared with the key before it is used.                   *)

LEMMA FirstIsMember ==
    ASSUME NEW S \in SUBSET Nat, S # {}
    PROVE  First(S) \in S
  <1>1. \E i \in S : \A j \in S : i <= j
    BY NatLeast
  <1> QED
    BY <1>1 DEF First

(* A container id the vector holds is resolved to the agent of that id in  *)
(* every reachable state.                                                  *)
THEOREM ChatResolves == Spec => []ChatResolvesContainerId
  <1>1. ASSUME TypeInv, NEW c \in Ids(containers), c \in Nat
        PROVE  /\ ChatTarget(c) \in DOMAIN containers
               /\ containers[ChatTarget(c)].id = c
    <2>1. \A i \in DOMAIN containers : i \in Nat /\ containers[i].name # c
      BY <1>1, ElementsTyped, NamesAssumption DEF TypeInv, Agent
    <2>2. CASE c \in DOMAIN index /\ Verified(c, index[c])
      BY <2>1, <2>2 DEF ChatTarget, Verified
    <2>3. CASE ~(c \in DOMAIN index /\ Verified(c, index[c]))
      <3> DEFINE S == {i \in DOMAIN containers : containers[i].id = c}
      <3>1. S \in SUBSET Nat /\ S # {}
        BY <1>1, <2>1 DEF Ids
      <3>2. ChatTarget(c) = First(S)
        BY <1>1, <2>3 DEF ChatTarget
      <3>3. First(S) \in S
        BY <3>1, FirstIsMember
      <3> QED
        BY <3>2, <3>3
    <2> QED
      BY <2>2, <2>3
  <1>2. TypeInv => ChatResolvesContainerId
    BY <1>1 DEF ChatResolvesContainerId
  <1> QED
    BY <1>2, TypeInvAlways, PTL
=============================================================================
