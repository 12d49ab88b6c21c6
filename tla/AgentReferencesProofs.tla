----------------------- MODULE AgentReferencesProofs -----------------------
(***************************************************************************)
(* Theorems about AgentReferences, for any names, volumes, roles, users    *)
(* and handlers and any bounds.                                            *)
(*                                                                         *)
(* The argument: an id is given to one container, once, and stands for one *)
(* agent for good, in whatever place it turns up; a name that is an id     *)
(* stands for the direct agents of that name.  So there is a naming S of   *)
(* the ids used so far that every place agrees with (Named), and a row of  *)
(* the access table is a grant for the agent S names.                      *)
(***************************************************************************)
EXTENDS AgentReferences, TLAPS

\* The ids when u containers were created.
Keys(u) == (1 .. u) \cup Names

\* An agent is named for its first id: its first container's, or its name.
Namings == {S \in [Nat \cup Names -> Nat \cup Names] : \A n \in Names : S[n] = n}

IsAgent(a) == a = [name |-> a.name, self |-> a.self, status |-> a.status,
                   mounts |-> a.mounts, direct |-> a.direct]
IsContainer(c) == c = [name |-> c.name, self |-> c.self, state |-> c.state]
IsLocal(l) ==
    l = [id |-> l.id, name |-> l.name, self |-> l.self, mounts |-> l.mounts, arg |-> l.arg]

\* Tables f of agents, records and containers, whose keys are among the first
\* u ids and whose entries are the agents S names.
AgentsNamed(S, u, f) ==
    /\ f = [id \in DOMAIN f |-> f[id]]
    /\ \A id \in DOMAIN f : /\ id \in Keys(u) /\ IsAgent(f[id])
                            /\ f[id].status \in Statuses /\ f[id].self = S[id]
StoredNamed(S, u, f) ==
    \A id \in DOMAIN f : id \in Keys(u) /\ f[id].self = S[id]
WorldNamed(S, u, f) ==
    /\ f = [c \in DOMAIN f |-> f[c]]
    /\ \A c \in DOMAIN f : c \in 1 .. u /\ IsContainer(f[c]) /\ f[c].self = S[c]
GrantsNamed(S, u, f, g) ==
    \A k \in DOMAIN f : k[1] \in Keys(u) /\ <<S[k[1]], k[2]>> \in g

\* What a handler at step s has in its locals l: which agent they are of, and
\* at the end of a restart also the agent's new id.
Knowing == Steps \ {"idle", "stuck", "roleMount", "roleRemove", "roleUnmount"}
LocalNamed(S, u, s, l) ==
    /\ IsLocal(l)
    /\ s \in Knowing => l.id \in Keys(u) /\ l.self = S[l.id]
    /\ s = "rekey" => l.arg \in Keys(u) /\ l.self = S[l.arg]

Named(S) ==
    /\ AgentsNamed(S, used, agents) /\ StoredNamed(S, used, stored)
    /\ WorldNamed(S, used, world) /\ GrantsNamed(S, used, grants, granted)
    /\ \A p \in Handlers : LocalNamed(S, used, pc[p], loc[p])

Counted ==
    /\ used \in 0 .. MaxIds /\ requests \in 0 .. MaxRequests /\ faults \in 0 .. MaxFaults
    /\ assigned \in [Roles -> (0 .. used) \cup Names]
    /\ unsaved \in BOOLEAN

\* Who holds the write lock stands between taking and releasing it, and the
\* agent it found stays listed.
Locked ==
    /\ pc \in [Handlers -> Steps]
    /\ loc = [p \in Handlers |-> loc[p]]
    /\ writer \in Handlers \cup {NoProc}
    /\ \A p \in Handlers : pc[p] \in Lockers <=> writer = p
Holding == {"attachRecord", "attachSave", "roleStop", "roleStart", "roleRestart"}
Held == \A p \in Handlers : pc[p] \in Holding => loc[p].id \in DOMAIN agents

Base == Counted /\ Locked /\ Held /\ GrantsStayWithAgent
Inv  == Base /\ \E S \in Namings : Named(S)

USE DEF deletions, agentVars, saveVars, volumeVars, accessVars, procVars, Continue

-----------------------------------------------------------------------------
\* What EXCEPT and Put leave of records and tables.
LEMMA AgentChange ==
    ASSUME NEW a, IsAgent(a), NEW s, NEW m
    PROVE  /\ LET b == [a EXCEPT !.status = s]
              IN IsAgent(b) /\ b.self = a.self /\ b.status = s
           /\ LET b == [a EXCEPT !.mounts = m]
              IN IsAgent(b) /\ b.self = a.self /\ b.status = a.status
  BY DEF IsAgent

LEMMA ContainerChange ==
    ASSUME NEW c, IsContainer(c), NEW s
    PROVE  LET d == [c EXCEPT !.state = s] IN IsContainer(d) /\ d.self = c.self
  BY DEF IsContainer

LEMMA LocalChange ==
    ASSUME NEW l, IsLocal(l), NEW x
    PROVE  LET k == [l EXCEPT !.arg = x]
           IN IsLocal(k) /\ k.id = l.id /\ k.self = l.self /\ k.arg = x
  BY DEF IsLocal

-----------------------------------------------------------------------------
\* The tables after an entry was written, and when more ids are used.
LEMMA StoredPut ==
    ASSUME NEW S, NEW u, NEW f, StoredNamed(S, u, f), NEW id \in Keys(u),
           NEW a, a.self = S[id]
    PROVE  StoredNamed(S, u, UpsertAgent(f, id, a))
  <1>1. ToStored(a).self = S[id]
    BY DEF ToStored
  <1> QED BY <1>1 DEF StoredNamed, UpsertAgent, Put

LEMMA WorldPut ==
    ASSUME NEW S, NEW u, NEW f, WorldNamed(S, u, f), NEW c \in 1 .. u,
           NEW n, NEW self, self = S[c], NEW state
    PROVE  WorldNamed(S, u, Put(f, c, Container(n, self, state)))
  <1>1. IsContainer(Container(n, self, state)) /\ Container(n, self, state).self = self
    BY DEF Container, IsContainer
  <1> QED BY <1>1 DEF WorldNamed, Put

LEMMA Later ==
    ASSUME NEW S, NEW u \in Nat, NEW v \in Nat, u <= v
    PROVE  /\ \A f : AgentsNamed(S, u, f) => AgentsNamed(S, v, f)
           /\ \A f : StoredNamed(S, u, f) => StoredNamed(S, v, f)
           /\ \A f : WorldNamed(S, u, f) => WorldNamed(S, v, f)
           /\ \A f, g : GrantsNamed(S, u, f, g) => GrantsNamed(S, v, f, g)
           /\ \A s, l : LocalNamed(S, u, s, l) => LocalNamed(S, v, s, l)
  <1>1. 1 .. u \subseteq 1 .. v /\ Keys(u) \subseteq Keys(v)
    BY DEF Keys
  <1> QED BY <1>1 DEF AgentsNamed, StoredNamed, WorldNamed, GrantsNamed, LocalNamed

\* The naming can be extended to the next id.
LEMMA Extend ==
    ASSUME Base, NEW S \in Namings, Named(S), NEW s \in Nat \cup Names
    PROVE  \E T \in Namings : Named(T) /\ T[Fresh] = s /\ \A i \in Keys(used) : T[i] = S[i]
  <1> DEFINE T == [S EXCEPT ![used + 1] = s]
  <1>1. used \in Nat /\ used + 1 \in Nat /\ \A n \in Names : n \notin Nat
    BY BoundsAssumption, NamingAssumption DEF Base, Counted
  <1>2. T \in Namings /\ T[used + 1] = s /\ \A i \in Keys(used) : T[i] = S[i]
    <2>1. \A i \in Keys(used) : i \in Nat \cup Names /\ i # used + 1
      BY <1>1 DEF Keys
    <2>2. S \in [Nat \cup Names -> Nat \cup Names] /\ \A n \in Names : S[n] = n
      BY DEF Namings
    <2>3. T \in [Nat \cup Names -> Nat \cup Names]
      BY <2>2
    <2>4. T[used + 1] = s
      BY <1>1, <2>2
    <2>5. \A i \in Nat \cup Names : i # used + 1 => T[i] = S[i]
      BY <2>2
    <2>6. \A n \in Names : n # used + 1
      BY <1>1
    <2> HIDE DEF T
    <2>7. \A n \in Names : T[n] = n
      BY <2>2, <2>5, <2>6
    <2> QED BY <2>1, <2>3, <2>4, <2>5, <2>7 DEF Namings
  <1> HIDE DEF T
  <1>3. AgentsNamed(T, used, agents)
    BY <1>2 DEF Named, AgentsNamed
  <1>4. StoredNamed(T, used, stored)
    BY <1>2 DEF Named, StoredNamed
  <1>5. WorldNamed(T, used, world)
    BY <1>2 DEF Named, WorldNamed, Keys
  <1>6. GrantsNamed(T, used, grants, granted)
    BY <1>2 DEF Named, GrantsNamed
  <1>7. \A p \in Handlers : LocalNamed(T, used, pc[p], loc[p])
    BY <1>2 DEF Named, LocalNamed
  <1> QED BY <1>2, <1>3, <1>4, <1>5, <1>6, <1>7 DEF Named, Fresh

-----------------------------------------------------------------------------
\* A step of handler p to s with locals l keeps the invariant if what it leaves
\* in the tables is named, it leaves the agents others hold, and takes, keeps
\* or releases the lock as s says.
LEMMA HandlerStep ==
    ASSUME Base, NEW S \in Namings, Named(S),
           NEW p \in Handlers, NEW s \in Steps, NEW l, LocalNamed(S, used', s, l),
           pc' = [pc EXCEPT ![p] = s], loc' = [loc EXCEPT ![p] = l],
           Counted', used <= used',
           AgentsNamed(S, used', agents'), StoredNamed(S, used', stored'),
           WorldNamed(S, used', world'), GrantsNamed(S, used', grants', granted'),
           GrantsStayWithAgent',
           s \in Holding => l.id \in DOMAIN agents',
           DOMAIN agents \subseteq DOMAIN agents' \/ writer \in {NoProc, p},
           \/ writer = NoProc /\ writer' = p /\ s \in Lockers
           \/ writer \in {NoProc, p} /\ writer' = NoProc /\ s \notin Lockers
           \/ writer' = writer /\ (s \in Lockers <=> pc[p] \in Lockers)
    PROVE  Inv'
  <1>1. NoProc \notin Handlers
    BY NamingAssumption
  <1>2. /\ pc'[p] = s /\ loc'[p] = l
        /\ \A q \in Handlers : q # p => pc'[q] = pc[q] /\ loc'[q] = loc[q]
    BY DEF Base, Locked
  <1>3. Locked'
    BY <1>1, <1>2 DEF Base, Locked
  <1>4. Held'
    <2> SUFFICES ASSUME NEW q \in Handlers, pc'[q] \in Holding
                 PROVE  loc'[q].id \in DOMAIN agents'
      BY DEF Held
    <2>1. CASE q = p
      BY <1>2, <2>1
    <2>2. CASE q # p
      <3>1. pc[q] \in Holding /\ loc'[q] = loc[q] /\ loc[q].id \in DOMAIN agents
        BY <1>2, <2>2 DEF Base, Held
      <3>2. writer = q
        BY <3>1 DEF Base, Locked, Holding, Lockers
      <3> QED BY <1>1, <2>2, <3>1, <3>2
    <2> QED BY <2>1, <2>2
  <1>5. used \in Nat /\ used' \in Nat
    BY BoundsAssumption DEF Base, Counted
  <1>6. \A q \in Handlers : LocalNamed(S, used', pc'[q], loc'[q])
    BY <1>2, <1>5, Later DEF Named
  <1>7. Named(S)'
    BY <1>6 DEF Named
  <1> QED BY <1>3, <1>4, <1>7 DEF Inv, Base

\* The same of a handler's step that changes no table.
LEMMA MoveStep ==
    ASSUME Base, NEW S \in Namings, Named(S),
           NEW p \in Handlers, NEW s \in Steps, NEW l, LocalNamed(S, used, s, l),
           pc' = [pc EXCEPT ![p] = s], loc' = [loc EXCEPT ![p] = l], Counted',
           UNCHANGED <<agents, stored, world, grants, granted, chats, used>>,
           s \in Holding => l.id \in DOMAIN agents,
           \/ writer = NoProc /\ writer' = p /\ s \in Lockers
           \/ writer \in {NoProc, p} /\ writer' = NoProc /\ s \notin Lockers
           \/ writer' = writer /\ (s \in Lockers <=> pc[p] \in Lockers)
    PROVE  Inv'
  <1>1. used \in Nat /\ used <= used'
    BY BoundsAssumption DEF Base, Counted
  <1>2. /\ AgentsNamed(S, used', agents') /\ StoredNamed(S, used', stored')
        /\ WorldNamed(S, used', world') /\ GrantsNamed(S, used', grants', granted')
        /\ LocalNamed(S, used', s, l)
    BY DEF Named
  <1>3. GrantsStayWithAgent' /\ DOMAIN agents \subseteq DOMAIN agents'
    BY DEF Base, GrantsStayWithAgent
  <1> QED BY <1>1, <1>2, <1>3, HandlerStep

\* The same of a step that moves no handler.
LEMMA TableStep ==
    ASSUME Base, NEW S \in Namings, Named(S), UNCHANGED <<pc, loc, writer>>,
           Counted', used <= used',
           AgentsNamed(S, used', agents'), StoredNamed(S, used', stored'),
           WorldNamed(S, used', world'), UNCHANGED <<grants, granted, chats>>,
           DOMAIN agents \subseteq DOMAIN agents'
    PROVE  Inv'
  <1>1. Locked' /\ Held' /\ GrantsStayWithAgent'
    BY DEF Base, Locked, Held, GrantsStayWithAgent
  <1>2. used \in Nat /\ used' \in Nat
    BY BoundsAssumption DEF Base, Counted
  <1>3. \A q \in Handlers : LocalNamed(S, used', pc'[q], loc'[q])
    BY <1>2, Later DEF Named
  <1>4. GrantsNamed(S, used', grants', granted')
    BY <1>2, Later DEF Named
  <1>5. Named(S)'
    BY <1>3, <1>4 DEF Named
  <1> QED BY <1>1, <1>5 DEF Inv, Base

-----------------------------------------------------------------------------
LEMMA Counts ==
    ASSUME Base,
           assigned' = assigned \/ assigned' \in [Roles -> (0 .. used') \cup Names],
           unsaved' = unsaved \/ unsaved' \in BOOLEAN,
           used' = used \/ (used' = Fresh /\ Fresh \in Ids),
           requests' = requests \/ (requests > 0 /\ requests' = requests - 1),
           faults' = faults \/ (faults > 0 /\ faults' = faults - 1)
    PROVE  Counted' /\ used <= used' /\ used \in Nat /\ used' \in Nat
  BY BoundsAssumption DEF Base, Counted, Fresh, Ids

LEMMA Known ==
    ASSUME Inv
    PROVE  /\ Base /\ used \in Nat /\ Fresh \in Nat
           /\ \E S \in Namings : Named(S)
           /\ \A s \in Nat \cup Names : \E S \in Namings : Named(S) /\ S[Fresh] = s
           /\ \A id \in DOMAIN agents : agents[id].self \in Nat \cup Names
           /\ \A p \in Handlers : pc[p] \in Knowing => loc[p].self \in Nat \cup Names
  <1>1. used \in Nat /\ Fresh \in Nat
    BY BoundsAssumption DEF Inv, Base, Counted, Fresh
  <1>2. PICK S \in Namings : Named(S)
    BY DEF Inv
  <1>3. \A i \in Keys(used) : S[i] \in Nat \cup Names
    BY <1>1, <1>2 DEF Namings, Keys
  <1>4. \A id \in DOMAIN agents : agents[id].self \in Nat \cup Names
    BY <1>2, <1>3 DEF Named, AgentsNamed
  <1>5. \A p \in Handlers : pc[p] \in Knowing => loc[p].self \in Nat \cup Names
    BY <1>2, <1>3 DEF Named, LocalNamed
  <1> QED BY <1>1, <1>2, <1>4, <1>5, Extend DEF Inv

\* What a handler copies of an agent it finds.
LEMMA LocalsNamed ==
    ASSUME NEW S, NEW u, NEW f, AgentsNamed(S, u, f), NEW id \in DOMAIN f,
           NEW arg, NEW s, s # "rekey"
    PROVE  LocalNamed(S, u, s, Locals(id, f[id], arg)) /\ Locals(id, f[id], arg).id = id
  BY DEF AgentsNamed, LocalNamed, Locals, IsLocal

LEMMA NothingNamed ==
    ASSUME NEW S, NEW u, NEW s \in {"idle", "stuck"}
    PROVE  LocalNamed(S, u, s, Nothing)
  BY DEF LocalNamed, Nothing, IsLocal, Knowing

\* A new agent is named for its id, the next container's or its name.
LEMMA CreatedNamed ==
    ASSUME NEW S, NEW u, NEW id \in Keys(u), S[id] = id, NEW n, NEW own
    PROVE  LocalNamed(S, u, "push", Created(id, n, own))
  BY DEF LocalNamed, IsLocal, Created

LEMMA InvCreateAgent ==
    ASSUME Inv, NEW p \in Handlers, CreateAgent(p)
    PROVE  Inv'
  <1>1. PICK n \in Names, own \in {{}, {[source |-> HostPath, target |-> "/data"]}} :
            \/ /\ Fresh \in Ids
               /\ world' = Put(world, Fresh, Container(n, Fresh, "created"))
               /\ used' = Fresh
               /\ Keep(p, Created(Fresh, n, own))
            \/ /\ Keep(p, Created(n, n, own))
               /\ UNCHANGED <<world, used>>
    BY DEF CreateAgent
  <1>2. /\ pc' = [pc EXCEPT ![p] = "push"] /\ pc[p] = "idle"
        /\ UNCHANGED <<agentVars, volumeVars, assigned, accessVars, writer, faults>>
        /\ requests > 0 /\ requests' = requests - 1
    BY DEF CreateAgent, Goto, Begin, Request
  <1>3. Base /\ Fresh \in Nat
    BY Known
  <1>4. /\ "push" \notin Holding \cup Lockers /\ "push" \in Steps /\ "idle" \notin Lockers
        /\ GrantsStayWithAgent'
    BY <1>2, <1>3 DEF Base, GrantsStayWithAgent, Holding, Lockers, Steps
  <1>5. CASE /\ Fresh \in Ids /\ used' = Fresh
             /\ world' = Put(world, Fresh, Container(n, Fresh, "created"))
             /\ Keep(p, Created(Fresh, n, own))
    <2>1. PICK S \in Namings : Named(S) /\ S[Fresh] = Fresh
      BY <1>3, Known
    <2>2. Counted' /\ used <= used' /\ used \in Nat /\ used' \in Nat
      BY <1>2, <1>3, <1>5, Counts
    <2>3. Fresh \in 1 .. used' /\ Fresh \in Keys(used')
      BY <1>3, <1>5 DEF Keys, Ids
    <2>4. PICK l : l = Created(Fresh, n, own) /\ loc' = [loc EXCEPT ![p] = l]
      BY <1>5 DEF Keep
    <2>5. LocalNamed(S, used', "push", l)
      BY <2>1, <2>3, <2>4, CreatedNamed
    <2>6. /\ AgentsNamed(S, used', agents') /\ StoredNamed(S, used', stored')
          /\ WorldNamed(S, used', world) /\ GrantsNamed(S, used', grants', granted')
      BY <1>2, <2>1, <2>2, Later DEF Named
    <2>7. WorldNamed(S, used', world')
      BY <1>5, <2>1, <2>3, <2>6, WorldPut
    <2> QED BY <1>2, <1>3, <1>4, <2>1, <2>2, <2>4, <2>5, <2>6, <2>7, HandlerStep
  <1>6. CASE Keep(p, Created(n, n, own)) /\ UNCHANGED <<world, used>>
    <2>1. PICK S \in Namings : Named(S)
      BY Known
    <2>2. S[n] = n /\ n \in Keys(used)
      BY DEF Namings, Keys
    <2>3. PICK l : l = Created(n, n, own) /\ loc' = [loc EXCEPT ![p] = l]
      BY <1>6 DEF Keep
    <2>4. LocalNamed(S, used, "push", l)
      BY <2>2, <2>3, CreatedNamed
    <2>5. Counted'
      BY <1>2, <1>3, <1>6, Counts
    <2> QED BY <1>2, <1>3, <1>4, <1>6, <2>1, <2>3, <2>4, <2>5, MoveStep
  <1> QED BY <1>1, <1>5, <1>6

LEMMA InvCreatePush ==
    ASSUME Inv, NEW p \in Handlers, CreatePush(p)
    PROVE  Inv'
  <1>1. PICK S \in Namings : Named(S)
    BY Known
  <1>2. PICK entry :
            /\ entry = [name |-> loc[p].name, self |-> loc[p].self, status |-> "Stopped",
                        mounts |-> loc[p].mounts, direct |-> loc[p].id \in Names]
            /\ agents' = Put(agents, loc[p].id, entry)
            /\ stored' = UpsertAgent(stored, loc[p].id, entry)
    BY DEF CreatePush
  <1>3. /\ pc[p] = "push" /\ writer = NoProc
        /\ pc' = [pc EXCEPT ![p] = "idle"] /\ loc' = [loc EXCEPT ![p] = Nothing]
        /\ UNCHANGED <<world, assigned, accessVars, writer, used, requests, faults, unsaved>>
    BY DEF CreatePush, End, Goto, Keep
  <1>4. loc[p].id \in Keys(used) /\ loc[p].self = S[loc[p].id]
    BY <1>1, <1>3 DEF Named, LocalNamed, Knowing, Steps
  <1>5. IsAgent(entry) /\ entry.status \in Statuses /\ entry.self = S[loc[p].id]
    BY <1>2, <1>4 DEF IsAgent, Statuses
  <1>6. AgentsNamed(S, used, agents)
    BY <1>1 DEF Named
  <1>7. Base /\ Counted' /\ used <= used'
    BY <1>3, Known, Counts
  <1>8. /\ AgentsNamed(S, used, Put(agents, loc[p].id, entry))
        /\ DOMAIN Put(agents, loc[p].id, entry) = DOMAIN agents \cup {loc[p].id}
    BY <1>4, <1>5, <1>6 DEF AgentsNamed, Put
  <1>9. StoredNamed(S, used, UpsertAgent(stored, loc[p].id, entry))
    BY <1>1, <1>4, <1>5, StoredPut DEF Named
  <1>10. /\ AgentsNamed(S, used', agents') /\ DOMAIN agents \subseteq DOMAIN agents'
         /\ StoredNamed(S, used', stored')
    BY <1>2, <1>3, <1>8, <1>9
  <1>11. WorldNamed(S, used', world') /\ GrantsNamed(S, used', grants', granted')
    BY <1>1, <1>3 DEF Named
  <1>12. /\ GrantsStayWithAgent' /\ {"idle", "push"} \cap (Lockers \cup Holding) = {}
         /\ "idle" \in Steps
    BY <1>3, <1>7 DEF Base, GrantsStayWithAgent, Lockers, Holding, Steps
  <1> QED BY <1>1, <1>3, <1>7, <1>10, <1>11, <1>12, NothingNamed, HandlerStep

LEMMA InvStartAgent ==
    ASSUME Inv, NEW p \in Handlers, StartAgent(p)
    PROVE  Inv'
  <1>1. PICK id \in DOMAIN agents :
            LET a  == [agents[id] EXCEPT !.status = "Running"]
                cs == ByName(a.name)
            IN /\ \/ UNCHANGED <<world, used>>
                  \/ /\ Fresh \in Ids
                     /\ used' = Fresh
                     /\ world' = Put(world, Fresh, Container(a.name, a.self, "running"))
                  \/ /\ world' = [c \in DOMAIN world |->
                            IF c \in cs THEN [world[c] EXCEPT !.state = "running"]
                            ELSE world[c]]
                     /\ UNCHANGED used
               /\ agents' = [agents EXCEPT ![id] = a]
               /\ stored' = UpsertAgent(stored, id, a)
    BY DEF StartAgent
  <1>2. PICK S \in Namings : Named(S) /\ S[Fresh] = agents[id].self
    BY Known
  <1> DEFINE entry == [agents[id] EXCEPT !.status = "Running"]
  <1>3. IsAgent(entry) /\ entry.status \in Statuses /\ entry.self = S[id] /\ entry.self = S[Fresh]
        /\ id \in Keys(used)
    BY <1>2 DEF Named, AgentsNamed, IsAgent, Statuses
  <1>4. /\ \/ UNCHANGED <<world, used>>
           \/ /\ used' = Fresh /\ Fresh \in Ids
              /\ world' = Put(world, Fresh, Container(entry.name, entry.self, "running"))
           \/ /\ used' = used
              /\ world' = [c \in DOMAIN world |->
                     IF c \in ByName(entry.name) THEN [world[c] EXCEPT !.state = "running"]
                     ELSE world[c]]
        /\ agents' = [agents EXCEPT ![id] = entry]
        /\ stored' = UpsertAgent(stored, id, entry)
    BY <1>1
  <1> HIDE DEF entry
  <1>5. /\ UNCHANGED <<deletions, volumeVars, assigned, accessVars, procVars, faults>>
        /\ requests > 0 /\ requests' = requests - 1
    BY DEF StartAgent, Begin, Request
  <1>6. Base /\ Counted' /\ used <= used' /\ used \in Nat /\ used' \in Nat
    BY <1>4, <1>5, Known, Counts
  <1>7. /\ AgentsNamed(S, used', agents) /\ StoredNamed(S, used', stored)
        /\ WorldNamed(S, used', world)
    BY <1>2, <1>6, Later DEF Named
  <1>8. id \in Keys(used')
    BY <1>3, <1>6 DEF Keys
  <1>9. AgentsNamed(S, used', agents') /\ DOMAIN agents \subseteq DOMAIN agents'
    BY <1>3, <1>4, <1>7 DEF AgentsNamed
  <1>10. StoredNamed(S, used', stored')
    BY <1>3, <1>4, <1>7, <1>8 DEF StoredNamed, UpsertAgent, Put, ToStored
  <1>11. WorldNamed(S, used', world')
    <2>1. CASE used' = Fresh /\ world' = Put(world, Fresh, Container(entry.name, entry.self, "running"))
      <3>1. Fresh \in 1 .. used'
        BY <1>6, <2>1 DEF Fresh
      <3> QED BY <1>3, <1>7, <2>1, <3>1, WorldPut
    <2>2. CASE world' = [c \in DOMAIN world |->
                 IF c \in ByName(entry.name) THEN [world[c] EXCEPT !.state = "running"]
                 ELSE world[c]]
      BY <1>7, <2>2 DEF WorldNamed, IsContainer
    <2> QED BY <1>4, <1>7, <2>1, <2>2
  <1> QED BY <1>2, <1>5, <1>6, <1>9, <1>10, <1>11, TableStep

LEMMA InvDeleteAgent ==
    ASSUME Inv, NEW p \in Handlers, DeleteAgent(p)
    PROVE  Inv'
  <1>1. PICK S \in Namings : Named(S)
    BY Known
  <1>2. PICK id \in DOMAIN agents : Keep(p, Locals(id, agents[id], NoAgent))
    BY DEF DeleteAgent
  <1> DEFINE l == Locals(id, agents[id], NoAgent)
  <1>3. /\ pc' = [pc EXCEPT ![p] = "delete"] /\ loc' = [loc EXCEPT ![p] = l] /\ writer = NoProc
        /\ UNCHANGED <<agentVars, world, volumeVars, assigned, accessVars, writer, used, faults>>
        /\ requests > 0 /\ requests' = requests - 1
    BY <1>2 DEF DeleteAgent, Goto, Keep, Begin, Request
  <1>4. LocalNamed(S, used, "delete", l)
    BY <1>1, LocalsNamed DEF Named
  <1> HIDE DEF l
  <1>5. Base /\ Counted'
    BY <1>3, Known, Counts
  <1>6. "delete" \in Steps \ (Holding \cup Lockers)
    BY DEF Steps, Holding, Lockers
  <1> QED BY <1>1, <1>3, <1>4, <1>5, <1>6, MoveStep

LEMMA InvDeleteState ==
    ASSUME Inv, NEW p \in Handlers, DeleteState(p)
    PROVE  Inv'
  <1>1. PICK S \in Namings : Named(S)
    BY Known
  <1>2. /\ agents' = Without(agents, {loc[p].id}) /\ stored' = Without(stored, {loc[p].id})
        /\ world' = world \/ world' = Without(world, ByKey(loc[p].id))
        /\ pc' = [pc EXCEPT ![p] = "idle"] /\ loc' = [loc EXCEPT ![p] = Nothing]
        /\ unsaved' = unsaved
        /\ writer = NoProc /\ UNCHANGED <<assigned, unsaved, accessVars, writer, used, requests>>
        /\ faults' = faults \/ (faults > 0 /\ faults' = faults - 1)
    BY DEF DeleteState, End, Goto, Keep, MayFail, Strike
  <1>3. Base /\ Counted' /\ used <= used'
    BY <1>2, Known, Counts
  <1>4. AgentsNamed(S, used, Without(agents, {loc[p].id}))
    BY <1>1 DEF Named, AgentsNamed, Without
  <1>5. StoredNamed(S, used, Without(stored, {loc[p].id}))
    BY <1>1 DEF Named, StoredNamed, Without
  <1>6. WorldNamed(S, used, world) /\ WorldNamed(S, used, Without(world, ByKey(loc[p].id)))
    BY <1>1 DEF Named, WorldNamed, Without
  <1>7. /\ AgentsNamed(S, used', agents') /\ StoredNamed(S, used', stored')
        /\ WorldNamed(S, used', world') /\ GrantsNamed(S, used', grants', granted')
    BY <1>1, <1>2, <1>4, <1>5, <1>6 DEF Named
  <1>8. GrantsStayWithAgent' /\ "idle" \in Steps \ (Holding \cup Lockers)
    BY <1>2, <1>3 DEF Base, GrantsStayWithAgent, Lockers, Holding, Steps
  <1> QED BY <1>1, <1>2, <1>3, <1>7, <1>8, NothingNamed, HandlerStep

\* The volume endpoints touch neither agents nor handlers.
LEMMA InvVolumes ==
    ASSUME Inv, Volumes
    PROVE  Inv'
  <1>1. PICK S \in Namings : Named(S)
    BY Known
  <1>2. /\ UNCHANGED <<agentVars, world, assigned, accessVars, procVars, used>>
        /\ requests > 0 /\ requests' = requests - 1
        /\ faults' = faults \/ (faults > 0 /\ faults' = faults - 1)
        /\ unsaved' \in BOOLEAN
    BY DEF Volumes, CreateVolume, UpdateVolume, DeleteVolume, Request, SaveVolumes, Strike
  <1>3. Base /\ Counted' /\ used <= used'
    BY <1>2, Known, Counts
  <1>4. /\ AgentsNamed(S, used', agents') /\ StoredNamed(S, used', stored')
        /\ WorldNamed(S, used', world')
    BY <1>1, <1>2 DEF Named
  <1> QED BY <1>1, <1>2, <1>3, <1>4, TableStep

-----------------------------------------------------------------------------
LEMMA InvAttachMount ==
    ASSUME Inv, NEW p \in Handlers, AttachMount(p)
    PROVE  Inv'
  <1>1. PICK S \in Namings : Named(S)
    BY Known
  <1>2. PICK id \in DOMAIN agents : \E v \in DOMAIN volumes, t \in Targets :
          LET m == [source |-> IF volumes[v].managed THEN v ELSE HostPath, target |-> t]
          IN /\ m \notin agents[id].mounts
             /\ agents' = [agents EXCEPT ![id].mounts = @ \cup {m}]
             /\ Keep(p, Locals(id, agents'[id], v))
    BY DEF AttachMount
  <1>3. PICK v, m : /\ agents' = [agents EXCEPT ![id].mounts = @ \cup {m}]
                    /\ Keep(p, Locals(id, agents'[id], v))
    BY <1>2
  <1> DEFINE l == Locals(id, agents'[id], v)
  <1>4. /\ pc' = [pc EXCEPT ![p] = "attachRecord"] /\ loc' = [loc EXCEPT ![p] = l]
        /\ writer = NoProc /\ writer' = p
        /\ UNCHANGED <<stored, world, assigned, unsaved, accessVars, used, faults>>
        /\ requests > 0 /\ requests' = requests - 1
    BY <1>3 DEF AttachMount, Goto, Keep, Begin, Request
  <1>5. AgentsNamed(S, used, agents') /\ DOMAIN agents' = DOMAIN agents
    <2>1. PICK a : a = agents[id]
      OBVIOUS
    <2> DEFINE entry == [a EXCEPT !.mounts = @ \cup {m}]
    <2>2. IsAgent(a) /\ a.self = S[id] /\ a.status \in Statuses /\ id \in Keys(used)
      BY <1>1, <2>1 DEF Named, AgentsNamed
    <2>3. IsAgent(entry) /\ entry.self = S[id] /\ entry.status \in Statuses /\ id \in Keys(used)
      BY <2>2, AgentChange DEF Statuses
    <2>4. agents' = [agents EXCEPT ![id] = entry]
      BY <1>3, <2>1
    <2> HIDE DEF entry
    <2> QED BY <1>1, <2>3, <2>4 DEF Named, AgentsNamed
  <1>6. LocalNamed(S, used, "attachRecord", l) /\ l.id = id
    BY <1>5, LocalsNamed
  <1> HIDE DEF l
  <1>7. Base /\ Counted' /\ used <= used'
    BY <1>4, Known, Counts
  <1>8. /\ AgentsNamed(S, used', agents') /\ StoredNamed(S, used', stored')
        /\ WorldNamed(S, used', world') /\ GrantsNamed(S, used', grants', granted')
        /\ LocalNamed(S, used', "attachRecord", l)
    BY <1>1, <1>4, <1>5, <1>6 DEF Named
  <1>9. GrantsStayWithAgent' /\ "attachRecord" \in Steps \cap Lockers
    BY <1>4, <1>7 DEF Base, GrantsStayWithAgent, Lockers, Steps
  <1> QED BY <1>1, <1>4, <1>5, <1>6, <1>7, <1>8, <1>9, HandlerStep

\* A handler that keeps its locals.
LEMMA SameLocal ==
    ASSUME Base, NEW p \in Handlers, UNCHANGED loc
    PROVE  loc' = [loc EXCEPT ![p] = loc[p]]
  BY DEF Base, Locked

LEMMA InvAttachRecord ==
    ASSUME Inv, NEW p \in Handlers, AttachRecord(p)
    PROVE  Inv'
  <1>1. PICK S \in Namings : Named(S)
    BY Known
  <1>2. /\ pc[p] = "attachRecord" /\ pc' = [pc EXCEPT ![p] = "attachSave"] /\ UNCHANGED loc
        /\ stored' = UpsertAgent(stored, loc[p].id, agents[loc[p].id])
        /\ UNCHANGED <<agents, world, assigned, unsaved, accessVars, writer, used, requests, faults>>
    BY DEF AttachRecord, Goto
  <1>3. Base /\ Counted' /\ used <= used' /\ loc' = [loc EXCEPT ![p] = loc[p]]
    BY <1>2, Known, Counts, SameLocal
  <1>4. LocalNamed(S, used', "attachSave", loc[p])
    BY <1>1, <1>2 DEF Named, LocalNamed, Knowing, Steps
  <1>5. "attachRecord" \in Lockers \cap Holding /\ "attachSave" \in Lockers \cap Steps
    BY DEF Lockers, Holding, Steps
  <1>6. loc[p].id \in DOMAIN agents
    BY <1>2, <1>3, <1>5 DEF Base, Held
  <1>7. StoredNamed(S, used', stored')
    BY <1>1, <1>2, <1>6 DEF Named, AgentsNamed, StoredNamed, UpsertAgent, Put, ToStored
  <1>8. /\ AgentsNamed(S, used', agents') /\ WorldNamed(S, used', world')
        /\ GrantsNamed(S, used', grants', granted')
    BY <1>1, <1>2 DEF Named
  <1>9. GrantsStayWithAgent'
    BY <1>2, <1>3 DEF Base, GrantsStayWithAgent
  <1> QED BY <1>1, <1>2, <1>3, <1>4, <1>5, <1>6, <1>7, <1>8, <1>9, HandlerStep

\* The listed agent a handler works on, with another status.
LEMMA StatusChange ==
    ASSUME NEW S, Named(S), NEW id \in DOMAIN agents, NEW status \in Statuses,
           agents' = [agents EXCEPT ![id].status = status]
    PROVE  /\ AgentsNamed(S, used, agents') /\ DOMAIN agents' = DOMAIN agents
           /\ agents'[id].self = S[id] /\ id \in Keys(used)
  <1>1. PICK a : a = agents[id]
    OBVIOUS
  <1> DEFINE entry == [a EXCEPT !.status = status]
  <1>2. IsAgent(a) /\ a.self = S[id] /\ id \in Keys(used)
    BY <1>1 DEF Named, AgentsNamed
  <1>3. IsAgent(entry) /\ entry.self = S[id] /\ entry.status \in Statuses
    BY <1>2, AgentChange
  <1>4. agents' = [agents EXCEPT ![id] = entry]
    BY <1>1
  <1> HIDE DEF entry
  <1> QED BY <1>2, <1>3, <1>4 DEF Named, AgentsNamed

LEMMA InvAttachSave ==
    ASSUME Inv, NEW p \in Handlers, AttachSave(p)
    PROVE  Inv'
  <1>1. PICK S \in Namings : Named(S)
    BY Known
  <1>2. /\ pc[p] = "attachSave" /\ pc' = [pc EXCEPT ![p] = "restartRemove"] /\ UNCHANGED loc
        /\ stored' = UpsertAgent(stored, loc[p].id, agents[loc[p].id])
        /\ agents' = [agents EXCEPT ![loc[p].id].status = "Stopping"] /\ writer' = NoProc
        /\ UNCHANGED <<world, assigned, accessVars, used, requests>>
        /\ faults' = faults \/ (faults > 0 /\ faults' = faults - 1)
        /\ unsaved' \in BOOLEAN
    BY DEF AttachSave, Goto, SaveVolumes, Strike
  <1>3. Base /\ Counted' /\ used <= used' /\ loc' = [loc EXCEPT ![p] = loc[p]]
    BY <1>2, Known, Counts, SameLocal
  <1>4. LocalNamed(S, used', "restartRemove", loc[p])
    BY <1>1, <1>2 DEF Named, LocalNamed, Knowing, Steps
  <1>5. "attachSave" \in Lockers \cap Holding /\ "restartRemove" \in Steps \ (Lockers \cup Holding)
    BY DEF Lockers, Holding, Steps
  <1>6. loc[p].id \in DOMAIN agents /\ writer = p
    BY <1>2, <1>3, <1>5 DEF Base, Held, Locked
  <1>7. StoredNamed(S, used', stored')
    BY <1>1, <1>2, <1>6 DEF Named, AgentsNamed, StoredNamed, UpsertAgent, Put, ToStored
  <1>8. AgentsNamed(S, used, agents')
    BY <1>1, <1>2, <1>6, StatusChange DEF Statuses
  <1>9. /\ AgentsNamed(S, used', agents') /\ WorldNamed(S, used', world')
        /\ GrantsNamed(S, used', grants', granted')
    BY <1>1, <1>2, <1>8 DEF Named
  <1>10. GrantsStayWithAgent'
    BY <1>2, <1>3 DEF Base, GrantsStayWithAgent
  <1> QED BY <1>1, <1>2, <1>3, <1>4, <1>5, <1>6, <1>7, <1>9, <1>10, HandlerStep

LEMMA InvDetachMount ==
    ASSUME Inv, NEW p \in Handlers, DetachMount(p)
    PROVE  Inv'
  <1>1. PICK S \in Namings : Named(S)
    BY Known
  <1>2. PICK id \in DOMAIN agents : \E gone \in Selections(agents[id].mounts) :
          LET left == agents[id].mounts \ gone
          IN /\ agents' = [agents EXCEPT ![id].mounts = left, ![id].status = "Stopping"]
             /\ Keep(p, Locals(id, agents'[id], NoAgent))
    BY DEF DetachMount
  <1>3. PICK left : agents' = [agents EXCEPT ![id].mounts = left, ![id].status = "Stopping"]
    BY <1>2
  <1> DEFINE l == Locals(id, agents'[id], NoAgent)
  <1>4. /\ pc' = [pc EXCEPT ![p] = "restartRemove"] /\ loc' = [loc EXCEPT ![p] = l]
        /\ writer = NoProc /\ writer' = NoProc
        /\ UNCHANGED <<stored, world, assigned, unsaved, accessVars, used, faults>>
        /\ requests > 0 /\ requests' = requests - 1
    BY <1>2 DEF DetachMount, Goto, Keep, Begin, Request
  <1>5. AgentsNamed(S, used, agents') /\ DOMAIN agents' = DOMAIN agents
    <2>1. PICK a : a = agents[id]
      OBVIOUS
    <2>2. PICK b : b = [a EXCEPT !.mounts = left]
      OBVIOUS
    <2> DEFINE entry == [b EXCEPT !.status = "Stopping"]
    <2>3. IsAgent(a) /\ a.self = S[id] /\ a.status \in Statuses /\ id \in Keys(used)
      BY <1>1, <2>1 DEF Named, AgentsNamed
    <2>4. IsAgent(entry) /\ entry.self = S[id] /\ entry.status \in Statuses /\ id \in Keys(used)
      <3>1. IsAgent(b) /\ b.self = S[id]
        BY <2>3, <2>2, AgentChange
      <3> QED BY <2>3, <3>1, AgentChange DEF Statuses
    <2>5. agents' = [agents EXCEPT ![id] = entry]
      BY <1>3, <2>1, <2>2
    <2> HIDE DEF entry
    <2> QED BY <1>1, <2>4, <2>5 DEF Named, AgentsNamed
  <1>6. LocalNamed(S, used, "restartRemove", l)
    BY <1>5, LocalsNamed
  <1> HIDE DEF l
  <1>7. Base /\ Counted' /\ used <= used'
    BY <1>4, Known, Counts
  <1>8. /\ AgentsNamed(S, used', agents') /\ StoredNamed(S, used', stored')
        /\ WorldNamed(S, used', world') /\ GrantsNamed(S, used', grants', granted')
        /\ LocalNamed(S, used', "restartRemove", l)
    BY <1>1, <1>4, <1>5, <1>6 DEF Named
  <1>9. GrantsStayWithAgent' /\ "restartRemove" \in Steps \ (Lockers \cup Holding)
    BY <1>4, <1>7 DEF Base, GrantsStayWithAgent, Lockers, Holding, Steps
  <1> QED BY <1>1, <1>4, <1>5, <1>7, <1>8, <1>9, HandlerStep

LEMMA InvRestartRemove ==
    ASSUME Inv, NEW p \in Handlers, RestartRemove(p)
    PROVE  Inv'
  <1>1. PICK S \in Namings : Named(S)
    BY Known
  <1>2. PICK gone : /\ world' = world \/ world' = Without(world, gone)
                    /\ faults' = faults \/ (faults > 0 /\ faults' = faults - 1)
    BY DEF RestartRemove, MayFail, Strike
  <1>3. /\ pc[p] = "restartRemove" /\ pc' = [pc EXCEPT ![p] = "restartCreate"]
        /\ stored' = Without(stored, {loc[p].id})
        /\ UNCHANGED <<agents, assigned, unsaved, accessVars, writer, loc, used, requests>>
    BY DEF RestartRemove, Goto
  <1>4. Base /\ Counted' /\ used <= used' /\ loc' = [loc EXCEPT ![p] = loc[p]]
    BY <1>2, <1>3, Known, Counts, SameLocal
  <1>5. LocalNamed(S, used', "restartCreate", loc[p])
    BY <1>1, <1>3 DEF Named, LocalNamed, Knowing, Steps
  <1>6. StoredNamed(S, used, Without(stored, {loc[p].id}))
    BY <1>1 DEF Named, StoredNamed, Without
  <1>7. WorldNamed(S, used, world) /\ WorldNamed(S, used, Without(world, gone))
    BY <1>1 DEF Named, WorldNamed, Without
  <1>8. /\ AgentsNamed(S, used', agents') /\ StoredNamed(S, used', stored')
        /\ WorldNamed(S, used', world') /\ GrantsNamed(S, used', grants', granted')
    BY <1>1, <1>2, <1>3, <1>6, <1>7 DEF Named
  <1>9. /\ GrantsStayWithAgent' /\ "restartRemove" \notin Lockers
        /\ "restartCreate" \in Steps \ (Lockers \cup Holding)
    BY <1>3, <1>4 DEF Base, GrantsStayWithAgent, Lockers, Holding, Steps
  <1> QED BY <1>1, <1>3, <1>4, <1>5, <1>8, <1>9, HandlerStep

\* A new container is named for the agent it was created for.
LEMMA NewContainer ==
    ASSUME NEW S, Named(S), used \in Nat, used' = Fresh,
           NEW n, NEW self, self = S[Fresh], NEW state,
           world' = Put(world, Fresh, Container(n, self, state))
    PROVE  WorldNamed(S, used', world')
  <1>1. WorldNamed(S, used', world)
    BY Later DEF Named, Fresh
  <1>2. Fresh \in 1 .. used'
    BY DEF Fresh
  <1> QED BY <1>1, <1>2, WorldPut

LEMMA InvRestartCreate ==
    ASSUME Inv, NEW p \in Handlers, RestartCreate(p)
    PROVE  Inv'
  <1>1. /\ pc[p] = "restartCreate" /\ Base /\ used \in Nat
        /\ UNCHANGED <<agentVars, volumeVars, assigned, accessVars, writer, requests>>
    BY Known DEF RestartCreate
  <1>2. /\ "restartCreate" \in Knowing /\ "rekey" \in Steps \ (Lockers \cup Holding)
        /\ "restartCreate" \notin Lockers /\ "idle" \in Steps \ (Lockers \cup Holding)
    BY DEF Knowing, Steps, Lockers, Holding
  <1>3. PICK S \in Namings : Named(S) /\ S[Fresh] = loc[p].self
    BY <1>1, <1>2, Known
  <1>4. GrantsStayWithAgent'
    BY <1>1 DEF Base, GrantsStayWithAgent
  <1>5. CASE Strike("runtime") /\ End(p) /\ UNCHANGED <<world, used>>
    <2>1. /\ faults > 0 /\ faults' = faults - 1
          /\ pc' = [pc EXCEPT ![p] = "idle"] /\ loc' = [loc EXCEPT ![p] = Nothing]
      BY <1>5 DEF Strike, End, Goto, Keep
    <2>2. Counted'
      BY <1>1, <1>5, <2>1, Counts
    <2> QED BY <1>1, <1>2, <1>3, <1>5, <2>1, <2>2, NothingNamed, MoveStep
  <1>6. CASE /\ Fresh \in Ids /\ used' = Fresh
             /\ \E started \in BOOLEAN :
                  /\ MayFail(~started)
                  /\ world' = Put(world, Fresh,
                        Container(loc[p].name, loc[p].self,
                                  IF started THEN "running" ELSE "created"))
                  /\ IF started
                     THEN Goto(p, "rekey") /\ Keep(p, [loc[p] EXCEPT !.arg = Fresh])
                     ELSE End(p)
    <2>1. PICK state :
             /\ world' = Put(world, Fresh, Container(loc[p].name, loc[p].self, state))
             /\ faults' = faults \/ (faults > 0 /\ faults' = faults - 1)
             /\ \/ Goto(p, "rekey") /\ Keep(p, [loc[p] EXCEPT !.arg = Fresh])
                \/ Goto(p, "idle") /\ Keep(p, Nothing)
      BY <1>6 DEF MayFail, Strike, End
    <2>2. Counted' /\ used <= used' /\ used' \in Nat
      BY <1>1, <1>6, <2>1, Counts
    <2>3. WorldNamed(S, used', world')
      BY <1>1, <1>3, <1>6, <2>1, NewContainer
    <2>4. /\ AgentsNamed(S, used', agents') /\ StoredNamed(S, used', stored')
          /\ GrantsNamed(S, used', grants', granted')
      BY <1>1, <1>3, <2>2, Later DEF Named
    <2>5. CASE Goto(p, "idle") /\ Keep(p, Nothing)
      <3>1. pc' = [pc EXCEPT ![p] = "idle"] /\ loc' = [loc EXCEPT ![p] = Nothing]
        BY <2>5 DEF Goto, Keep
      <3> QED BY <1>1, <1>2, <1>3, <1>4, <2>2, <2>3, <2>4, <3>1, NothingNamed, HandlerStep
    <2>6. CASE Goto(p, "rekey") /\ Keep(p, [loc[p] EXCEPT !.arg = Fresh])
      <3> DEFINE l == [loc[p] EXCEPT !.arg = Fresh]
      <3>1. pc' = [pc EXCEPT ![p] = "rekey"] /\ loc' = [loc EXCEPT ![p] = l]
        BY <2>6 DEF Goto, Keep
      <3>2. /\ IsLocal(loc[p]) /\ loc[p].id \in Keys(used) /\ loc[p].self = S[loc[p].id]
        BY <1>1, <1>2, <1>3 DEF Named, LocalNamed
      <3>3. IsLocal(l) /\ l.id = loc[p].id /\ l.self = loc[p].self /\ l.arg = Fresh
        BY <3>2, LocalChange
      <3> HIDE DEF l
      <3>4. l.id \in Keys(used') /\ l.arg \in Keys(used')
        BY <1>1, <1>6, <2>2, <3>2, <3>3 DEF Fresh, Keys
      <3>5. LocalNamed(S, used', "rekey", l)
        BY <1>3, <3>2, <3>3, <3>4 DEF LocalNamed
      <3> QED BY <1>1, <1>2, <1>3, <1>4, <2>2, <2>3, <2>4, <3>1, <3>5, HandlerStep
    <2> QED BY <2>1, <2>5, <2>6
  <1> QED BY <1>5, <1>6 DEF RestartCreate

LEMMA InvRekey ==
    ASSUME Inv, NEW p \in Handlers, Rekey(p)
    PROVE  Inv'
  <1>1. PICK S \in Namings : Named(S)
    BY Known
  <1>2. /\ pc[p] = "rekey" /\ pc' = [pc EXCEPT ![p] = "stuck"]
        /\ loc' = [loc EXCEPT ![p] = Nothing] /\ writer = NoProc /\ writer' = p
        /\ UNCHANGED <<world, assigned, unsaved, accessVars, used, requests, faults>>
    BY DEF Rekey, Goto, Keep
  <1>3. Base /\ Counted' /\ used <= used'
    BY <1>2, Known, Counts
  <1>4. /\ loc[p].id \in Keys(used) /\ loc[p].arg \in Keys(used)
        /\ S[loc[p].id] = S[loc[p].arg]
    BY <1>1, <1>2 DEF Named, LocalNamed, Knowing, Steps
  <1>5. AgentsNamed(S, used, agents') /\ StoredNamed(S, used, stored')
    <2>1. CASE loc[p].id \notin DOMAIN agents
      <3>1. UNCHANGED agentVars
        BY <2>1 DEF Rekey
      <3> QED BY <1>1, <3>1 DEF Named
    <2>2. CASE loc[p].id \in DOMAIN agents
      <3>1. PICK a : a = agents[loc[p].id]
        OBVIOUS
      <3> DEFINE entry == [a EXCEPT !.status = "Running"]
      <3>2. IsAgent(a) /\ a.self = S[loc[p].id]
        BY <1>1, <2>2, <3>1 DEF Named, AgentsNamed
      <3>3. IsAgent(entry) /\ entry.self = S[loc[p].arg] /\ entry.status \in Statuses
        BY <1>4, <3>2, AgentChange DEF Statuses
      <3>4. /\ agents' = Put(Without(agents, {loc[p].id}), loc[p].arg, entry)
            /\ stored' = UpsertAgent(stored, loc[p].arg, entry)
        BY <2>2, <3>1 DEF Rekey
      <3> HIDE DEF entry
      <3>5. AgentsNamed(S, used, Without(agents, {loc[p].id}))
        BY <1>1 DEF Named, AgentsNamed, Without
      <3>6. PICK f : f = Without(agents, {loc[p].id})
        OBVIOUS
      <3>7. AgentsNamed(S, used, agents')
        BY <1>4, <3>3, <3>4, <3>5, <3>6 DEF AgentsNamed, Put
      <3>8. StoredNamed(S, used, stored')
        BY <1>1, <1>4, <3>3, <3>4 DEF Named, StoredNamed, UpsertAgent, Put, ToStored
      <3> QED BY <3>7, <3>8
    <2> QED BY <2>1, <2>2
  <1>6. /\ AgentsNamed(S, used', agents') /\ StoredNamed(S, used', stored')
        /\ WorldNamed(S, used', world') /\ GrantsNamed(S, used', grants', granted')
    BY <1>1, <1>2, <1>5 DEF Named
  <1>7. GrantsStayWithAgent' /\ "stuck" \in (Steps \cap Lockers) \ Holding
    BY <1>2, <1>3 DEF Base, GrantsStayWithAgent, Lockers, Holding, Steps
  <1> QED BY <1>1, <1>2, <1>3, <1>6, <1>7, NothingNamed, HandlerStep

LEMMA InvGiveUp ==
    ASSUME Inv, NEW p \in Handlers, GiveUp(p)
    PROVE  Inv'
  <1>1. PICK S \in Namings : Named(S)
    BY Known
  <1>2. /\ pc[p] = "stuck" /\ pc' = [pc EXCEPT ![p] = "idle"] /\ UNCHANGED loc /\ writer' = NoProc
        /\ UNCHANGED <<agentVars, world, assigned, unsaved, accessVars, used, requests, faults>>
    BY DEF GiveUp, Goto
  <1>3. Base /\ Counted' /\ loc' = [loc EXCEPT ![p] = loc[p]]
    BY <1>2, Known, Counts, SameLocal
  <1>4. LocalNamed(S, used, "idle", loc[p])
    BY <1>1, <1>2 DEF Named, LocalNamed, Knowing
  <1>5. writer = p /\ "idle" \in Steps \ (Lockers \cup Holding)
    BY <1>2, <1>3 DEF Base, Locked, Lockers, Holding, Steps
  <1> QED BY <1>1, <1>2, <1>3, <1>4, <1>5, MoveStep

-----------------------------------------------------------------------------
\* The request for a role has only the id the client or the table names.
LEMMA RoleNamed ==
    ASSUME NEW S, NEW u, NEW id, NEW r, NEW s \in {"roleMount", "roleRemove"}
    PROVE  LocalNamed(S, u, s, [Nothing EXCEPT !.id = id, !.arg = r])
  <1>1. PICK l : l = [Nothing EXCEPT !.id = id]
    OBVIOUS
  <1>2. IsLocal(l)
    BY <1>1 DEF Nothing, IsLocal
  <1>3. IsLocal([l EXCEPT !.arg = r])
    BY <1>2, LocalChange
  <1>4. [Nothing EXCEPT !.id = id, !.arg = r] = [l EXCEPT !.arg = r]
    BY <1>1
  <1> QED BY <1>3, <1>4 DEF LocalNamed, Knowing

LEMMA InvAssignRole ==
    ASSUME Inv, NEW p \in Handlers, AssignRole(p)
    PROVE  Inv'
  <1>1. PICK S \in Namings : Named(S)
    BY Known
  <1>2. PICK r \in Roles, id \in (1 .. used) \cup Names :
            /\ assigned' = [assigned EXCEPT ![r] = id]
            /\ Keep(p, [Nothing EXCEPT !.id = id, !.arg = r])
    BY DEF AssignRole
  <1> DEFINE l == [Nothing EXCEPT !.id = id, !.arg = r]
  <1>3. /\ pc[p] = "idle" /\ pc' = [pc EXCEPT ![p] = "roleMount"] /\ loc' = [loc EXCEPT ![p] = l]
        /\ UNCHANGED <<agentVars, world, volumeVars, accessVars, writer, used, faults>>
        /\ requests > 0 /\ requests' = requests - 1
    BY <1>2 DEF AssignRole, Begin, Request, Goto, Keep
  <1>4. LocalNamed(S, used, "roleMount", l)
    BY RoleNamed
  <1> HIDE DEF l
  <1>5. Base /\ used \in Nat
    BY Known
  <1>6. assigned' = [assigned EXCEPT ![r] = id] /\ id \in (0 .. used) \cup Names
    BY <1>2, <1>5
  <1>7. assigned \in [Roles -> (0 .. used) \cup Names] /\ used' = used
    BY <1>3, <1>5 DEF Base, Counted
  <1>8. assigned' \in [Roles -> (0 .. used') \cup Names]
    BY <1>6, <1>7
  <1>9. Counted'
    BY <1>3, <1>5, <1>8, Counts
  <1>10. "idle" \notin Lockers /\ "roleMount" \in Steps \ (Lockers \cup Holding)
    BY DEF Lockers, Holding, Steps
  <1> QED BY <1>1, <1>3, <1>4, <1>5, <1>9, <1>10, MoveStep

LEMMA InvRemoveRole ==
    ASSUME Inv, NEW p \in Handlers, RemoveRole(p)
    PROVE  Inv'
  <1>1. PICK S \in Namings : Named(S)
    BY Known
  <1>2. PICK r \in Roles : Keep(p, [Nothing EXCEPT !.id = assigned[r], !.arg = r])
    BY DEF RemoveRole
  <1> DEFINE l == [Nothing EXCEPT !.id = assigned[r], !.arg = r]
  <1>3. /\ pc[p] = "idle" /\ pc' = [pc EXCEPT ![p] = "roleRemove"] /\ loc' = [loc EXCEPT ![p] = l]
        /\ UNCHANGED <<agentVars, world, assigned, unsaved, accessVars, writer, used, faults>>
        /\ requests > 0 /\ requests' = requests - 1
    BY <1>2 DEF RemoveRole, Begin, Request, Goto, Keep
  <1>4. LocalNamed(S, used, "roleRemove", l)
    BY RoleNamed
  <1> HIDE DEF l
  <1>5. Base /\ Counted'
    BY <1>3, Known, Counts
  <1>6. "idle" \notin Lockers /\ "roleRemove" \in Steps \ (Lockers \cup Holding)
    BY DEF Lockers, Holding, Steps
  <1> QED BY <1>1, <1>3, <1>4, <1>5, <1>6, MoveStep

LEMMA InvRoleRemove ==
    ASSUME Inv, NEW p \in Handlers, RoleRemove(p)
    PROVE  Inv'
  <1>1. PICK S \in Namings : Named(S)
    BY Known
  <1>2. /\ pc[p] = "roleRemove" /\ pc' = [pc EXCEPT ![p] = "roleUnmount"] /\ UNCHANGED loc
        /\ assigned' = [assigned EXCEPT ![loc[p].arg] = NoAgent]
        /\ UNCHANGED <<agentVars, world, volumeVars, accessVars, writer, used, requests, faults>>
    BY DEF RoleRemove, Goto
  <1>3. Base /\ used \in Nat /\ loc' = [loc EXCEPT ![p] = loc[p]]
    BY <1>2, Known, SameLocal
  <1>4. assigned \in [Roles -> (0 .. used) \cup Names] /\ used' = used
    BY <1>2, <1>3 DEF Base, Counted
  <1>5. assigned' \in [Roles -> (0 .. used') \cup Names]
    <2>1. PICK r : assigned' = [assigned EXCEPT ![r] = 0]
      BY <1>2 DEF NoAgent
    <2>2. 0 \in 0 .. used
      BY <1>3
    <2> QED BY <1>4, <2>1, <2>2
  <1>6. Counted'
    BY <1>2, <1>3, <1>5, Counts
  <1>7. LocalNamed(S, used, "roleUnmount", loc[p])
    BY <1>1, <1>2 DEF Named, LocalNamed, Knowing
  <1>8. "roleRemove" \notin Lockers /\ "roleUnmount" \in Steps \ (Lockers \cup Holding)
    BY DEF Lockers, Holding, Steps
  <1> QED BY <1>1, <1>2, <1>3, <1>6, <1>7, <1>8, MoveStep

LEMMA InvRoleMount ==
    ASSUME Inv, NEW p \in Handlers, RoleMount(p)
    PROVE  Inv'
  <1>1. PICK S \in Namings : Named(S)
    BY Known
  <1>2. /\ pc[p] = "roleMount" /\ writer = NoProc
        /\ UNCHANGED <<world, assigned, unsaved, accessVars, used, requests, faults>>
    BY DEF RoleMount
  <1>3. Base /\ Counted' /\ used <= used'
    BY <1>2, Known, Counts
  <1>4. GrantsStayWithAgent' /\ WorldNamed(S, used', world') /\ GrantsNamed(S, used', grants', granted')
    BY <1>1, <1>2, <1>3 DEF Base, GrantsStayWithAgent, Named
  <1>5. "roleMount" \notin Lockers /\ "idle" \in Steps \ (Lockers \cup Holding)
        /\ "roleStop" \in Steps \cap Lockers
    BY DEF Lockers, Holding, Steps
  <1>6. CASE loc[p].id \notin DOMAIN agents
    <2>1. /\ pc' = [pc EXCEPT ![p] = "idle"] /\ loc' = [loc EXCEPT ![p] = Nothing]
          /\ UNCHANGED <<agentVars, writer>>
      BY <1>6 DEF RoleMount, End, Goto, Keep
    <2> QED BY <1>1, <1>2, <1>3, <1>5, <2>1, NothingNamed, MoveStep
  <1>7. CASE loc[p].id \in DOMAIN agents
    <2>1. PICK id, x : /\ id = loc[p].id
                       /\ agents' = [agents EXCEPT ![id].mounts = x]
      BY <1>7 DEF RoleMount
    <2> DEFINE l == Locals(id, agents'[id], loc[p].arg)
    <2>2. /\ stored' = UpsertAgent(stored, id, agents'[id]) /\ writer' = p
          /\ pc' = [pc EXCEPT ![p] = "roleStop"] /\ loc' = [loc EXCEPT ![p] = l]
      BY <1>7, <2>1 DEF RoleMount, Goto, Keep
    <2>3. PICK a : a = agents[id]
      OBVIOUS
    <2> DEFINE entry == [a EXCEPT !.mounts = x]
    <2>4. IsAgent(a) /\ a.self = S[id] /\ a.status \in Statuses /\ id \in Keys(used)
      BY <1>1, <1>7, <2>1, <2>3 DEF Named, AgentsNamed
    <2>5. IsAgent(entry) /\ entry.self = S[id] /\ entry.status \in Statuses
      BY <2>4, AgentChange
    <2>6. agents' = [agents EXCEPT ![id] = entry]
      BY <2>1, <2>3
    <2> HIDE DEF entry
    <2>7. AgentsNamed(S, used, agents') /\ DOMAIN agents' = DOMAIN agents /\ agents'[id] = entry
      BY <1>1, <1>7, <2>1, <2>4, <2>5, <2>6 DEF Named, AgentsNamed
    <2>8. id \in DOMAIN agents'
      BY <1>7, <2>1, <2>7
    <2>9. LocalNamed(S, used, "roleStop", l) /\ l.id = id
      BY <2>7, <2>8, LocalsNamed
    <2> HIDE DEF l
    <2>10. StoredNamed(S, used, stored')
      BY <1>1, <2>2, <2>4, <2>5, <2>7 DEF Named, StoredNamed, UpsertAgent, Put, ToStored
    <2>11. /\ AgentsNamed(S, used', agents') /\ StoredNamed(S, used', stored')
           /\ LocalNamed(S, used', "roleStop", l)
      BY <1>2, <2>7, <2>9, <2>10
    <2> QED BY <1>1, <1>2, <1>3, <1>4, <1>5, <1>7, <2>1, <2>2, <2>7, <2>9, <2>11, HandlerStep
  <1> QED BY <1>6, <1>7

LEMMA InvRoleStop ==
    ASSUME Inv, NEW p \in Handlers, RoleStop(p)
    PROVE  Inv'
  <1>1. PICK S \in Namings : Named(S)
    BY Known
  <1>2. PICK gone : /\ \/ UNCHANGED <<agents, world>>
                       \/ /\ world' = Without(world, gone)
                          /\ agents' = [agents EXCEPT ![loc[p].id].status = "Stopped"]
                    /\ faults' = faults \/ (faults > 0 /\ faults' = faults - 1)
    BY DEF RoleStop, MayFail, Strike
  <1>3. /\ pc[p] = "roleStop" /\ pc' = [pc EXCEPT ![p] = "roleStart"]
        /\ UNCHANGED <<stored, assigned, unsaved, accessVars, writer, loc, used, requests>>
    BY DEF RoleStop, Goto
  <1>4. Base /\ Counted' /\ used <= used' /\ loc' = [loc EXCEPT ![p] = loc[p]]
    BY <1>2, <1>3, Known, Counts, SameLocal
  <1>5. "roleStop" \in Lockers \cap Holding /\ "roleStart" \in Steps \cap Lockers
    BY DEF Lockers, Holding, Steps
  <1>6. loc[p].id \in DOMAIN agents
    BY <1>3, <1>4, <1>5 DEF Base, Held
  <1>7. AgentsNamed(S, used, agents') /\ DOMAIN agents' = DOMAIN agents
    <2>1. CASE agents' = [agents EXCEPT ![loc[p].id].status = "Stopped"]
      BY <1>1, <1>6, <2>1, StatusChange DEF Statuses
    <2> QED BY <1>1, <1>2, <2>1 DEF Named
  <1>8. WorldNamed(S, used, world) /\ WorldNamed(S, used, Without(world, gone))
    BY <1>1 DEF Named, WorldNamed, Without
  <1>9. /\ AgentsNamed(S, used', agents') /\ StoredNamed(S, used', stored')
        /\ WorldNamed(S, used', world') /\ GrantsNamed(S, used', grants', granted')
    BY <1>1, <1>2, <1>3, <1>7, <1>8 DEF Named
  <1>10. GrantsStayWithAgent' /\ LocalNamed(S, used', "roleStart", loc[p])
    BY <1>1, <1>3, <1>4 DEF Base, GrantsStayWithAgent, Named, LocalNamed, Knowing, Steps
  <1> QED BY <1>1, <1>3, <1>4, <1>5, <1>6, <1>7, <1>9, <1>10, HandlerStep

LEMMA InvRoleStart ==
    ASSUME Inv, NEW p \in Handlers, RoleStart(p)
    PROVE  Inv'
  <1>1. /\ pc[p] = "roleStart" /\ pc' = [pc EXCEPT ![p] = "idle"]
        /\ loc' = [loc EXCEPT ![p] = Nothing] /\ writer' = NoProc
        /\ UNCHANGED <<assigned, unsaved, accessVars, requests>> /\ Base /\ used \in Nat
    BY Known DEF RoleStart, End, Goto, Keep
  <1>2. "roleStart" \in Lockers \cap Holding \cap Knowing /\ "idle" \in Steps \ (Lockers \cup Holding)
    BY DEF Lockers, Holding, Steps, Knowing
  <1>3. PICK S \in Namings : Named(S) /\ S[Fresh] = loc[p].self
    BY <1>1, <1>2, Known
  <1>4. writer = p /\ loc[p].id \in DOMAIN agents
    BY <1>1, <1>2 DEF Base, Locked, Held
  <1>5. CASE Strike("runtime") /\ UNCHANGED <<agentVars, world, used>>
    <2>1. Counted'
      BY <1>1, <1>5, Counts DEF Strike
    <2> QED BY <1>1, <1>2, <1>3, <1>4, <1>5, <2>1, NothingNamed, MoveStep
  <1>6. CASE ~(Strike("runtime") /\ UNCHANGED <<agentVars, world, used>>)
    <2>1. PICK cs : \/ /\ Fresh \in Ids /\ used' = Fresh
                       /\ world' = Put(world, Fresh, Container(loc[p].name, loc[p].self, "running"))
                    \/ /\ world' = [c \in DOMAIN world |->
                              IF c \in cs THEN [world[c] EXCEPT !.state = "running"]
                              ELSE world[c]]
                       /\ UNCHANGED used
      BY <1>6 DEF RoleStart
    <2>2. /\ agents' = [agents EXCEPT ![loc[p].id].status = "Running"]
          /\ stored' = UpsertAgent(stored, loc[p].id, agents'[loc[p].id]) /\ UNCHANGED faults
      BY <1>6 DEF RoleStart
    <2>3. Counted' /\ used <= used' /\ used' \in Nat
      BY <1>1, <2>1, <2>2, Counts
    <2>4. /\ AgentsNamed(S, used, agents') /\ DOMAIN agents' = DOMAIN agents
          /\ agents'[loc[p].id].self = S[loc[p].id] /\ loc[p].id \in Keys(used)
      BY <1>3, <1>4, <2>2, StatusChange DEF Statuses
    <2>5. StoredNamed(S, used, stored')
      BY <1>3, <2>2, <2>4 DEF Named, StoredNamed, UpsertAgent, Put, ToStored
    <2>6. WorldNamed(S, used', world')
      <3>1. CASE world' = [c \in DOMAIN world |->
                    IF c \in cs THEN [world[c] EXCEPT !.state = "running"] ELSE world[c]]
                 /\ UNCHANGED used
        BY <1>3, <3>1 DEF Named, WorldNamed, IsContainer
      <3> QED BY <1>1, <1>3, <2>1, <3>1, NewContainer
    <2>7. /\ AgentsNamed(S, used', agents') /\ StoredNamed(S, used', stored')
          /\ GrantsNamed(S, used', grants', granted')
      BY <1>1, <1>3, <2>3, <2>4, <2>5, Later DEF Named
    <2>8. GrantsStayWithAgent'
      BY <1>1 DEF Base, GrantsStayWithAgent
    <2> QED BY <1>1, <1>2, <1>3, <1>4, <2>3, <2>4, <2>6, <2>7, <2>8, NothingNamed, HandlerStep
  <1> QED BY <1>5, <1>6

LEMMA InvRoleUnmount ==
    ASSUME Inv, NEW p \in Handlers, RoleUnmount(p)
    PROVE  Inv'
  <1>1. PICK S \in Namings : Named(S)
    BY Known
  <1>2. /\ pc[p] = "roleUnmount" /\ writer = NoProc
        /\ UNCHANGED <<assigned, unsaved, accessVars, used, requests>>
    BY DEF RoleUnmount
  <1>3. "roleUnmount" \notin Lockers /\ "idle" \in Steps \ (Lockers \cup Holding)
        /\ "roleRestart" \in Steps \cap Lockers \cap Holding
    BY DEF Lockers, Holding, Steps
  <1>4. CASE loc[p].id \in DOMAIN agents
             /\ \E m \in agents[loc[p].id].mounts : m.target = "/role"
    <2>1. PICK id, old : id = loc[p].id /\ old = agents[id]
      OBVIOUS
    <2> DEFINE a == [old EXCEPT !.mounts = {m \in @ : m.target # "/role"}]
    <2>2. IsAgent(old) /\ old.self = S[id] /\ id \in Keys(used) /\ old.status \in Statuses
      BY <1>1, <1>4, <2>1 DEF Named, AgentsNamed
    <2>3. IsAgent(a) /\ a.self = S[id] /\ a.status \in Statuses
      BY <2>2, AgentChange
    <2>4. /\ stored' = UpsertAgent(stored, id, a) /\ writer' = p
          /\ loc' = [loc EXCEPT ![p] = Locals(id, a, NoAgent)]
          /\ pc' = [pc EXCEPT ![p] = "roleRestart"]
          /\ world' = world \/ world' = Without(world, ByKey(id))
          /\ \/ agents' = [agents EXCEPT ![id] = a]
             \/ agents' = [agents EXCEPT ![id] = [a EXCEPT !.status = "Stopped"]]
          /\ faults' = faults \/ (faults > 0 /\ faults' = faults - 1)
      BY <1>4, <2>1 DEF RoleUnmount, MayFail, Strike, Goto, Keep
    <2> HIDE DEF a
    <2>5. PICK entry : /\ agents' = [agents EXCEPT ![id] = entry]
                       /\ IsAgent(entry) /\ entry.self = S[id] /\ entry.status \in Statuses
      <3>1. LET b == [a EXCEPT !.status = "Stopped"]
            IN IsAgent(b) /\ b.self = S[id] /\ b.status \in Statuses
        BY <2>3, AgentChange DEF Statuses
      <3> QED BY <2>3, <2>4, <3>1
    <2>6. /\ AgentsNamed(S, used, agents') /\ DOMAIN agents \subseteq DOMAIN agents'
          /\ Locals(id, a, NoAgent).id \in DOMAIN agents'
      BY <1>1, <1>4, <2>1, <2>2, <2>5 DEF Named, AgentsNamed, Locals
    <2>7. StoredNamed(S, used, stored')
      BY <1>1, <2>2, <2>3, <2>4 DEF Named, StoredNamed, UpsertAgent, Put, ToStored
    <2>8. WorldNamed(S, used, world')
      BY <1>1, <2>4 DEF Named, WorldNamed, Without
    <2>9. LocalNamed(S, used, "roleRestart", Locals(id, a, NoAgent))
      BY <2>2, <2>3 DEF LocalNamed, Locals, IsLocal
    <2>10. Base /\ Counted' /\ used <= used'
      BY <1>2, <2>4, Known, Counts
    <2>11. /\ AgentsNamed(S, used', agents') /\ StoredNamed(S, used', stored')
           /\ WorldNamed(S, used', world') /\ GrantsNamed(S, used', grants', granted')
           /\ LocalNamed(S, used', "roleRestart", Locals(id, a, NoAgent))
      BY <1>1, <1>2, <2>6, <2>7, <2>8, <2>9 DEF Named
    <2>12. GrantsStayWithAgent'
      BY <1>2, <2>10 DEF Base, GrantsStayWithAgent
    <2> QED BY <1>1, <1>2, <1>3, <2>4, <2>6, <2>10, <2>11, <2>12, HandlerStep
  <1>5. CASE ~(loc[p].id \in DOMAIN agents
               /\ \E m \in agents[loc[p].id].mounts : m.target = "/role")
    <2>1. /\ pc' = [pc EXCEPT ![p] = "idle"] /\ loc' = [loc EXCEPT ![p] = Nothing]
          /\ UNCHANGED <<agentVars, world, writer, faults>>
      BY <1>5 DEF RoleUnmount, End, Goto, Keep
    <2>2. Base /\ Counted'
      BY <1>2, <2>1, Known, Counts
    <2> QED BY <1>1, <1>2, <1>3, <2>1, <2>2, NothingNamed, MoveStep
  <1> QED BY <1>4, <1>5

LEMMA InvRoleRestart ==
    ASSUME Inv, NEW p \in Handlers, RoleRestart(p)
    PROVE  Inv'
  <1>1. /\ pc[p] = "roleRestart" /\ pc' = [pc EXCEPT ![p] = "idle"]
        /\ loc' = [loc EXCEPT ![p] = Nothing] /\ writer' = NoProc
        /\ UNCHANGED <<assigned, unsaved, accessVars, requests>> /\ Base /\ used \in Nat
    BY Known DEF RoleRestart, End, Goto, Keep
  <1>2. "roleRestart" \in Lockers \cap Holding \cap Knowing /\ "idle" \in Steps \ (Lockers \cup Holding)
    BY DEF Lockers, Holding, Steps, Knowing
  <1>3. PICK S \in Namings : Named(S) /\ S[Fresh] = loc[p].self
    BY <1>1, <1>2, Known
  <1>4. writer = p /\ loc[p].id \in DOMAIN agents
    BY <1>1, <1>2 DEF Base, Locked, Held
  <1>5. PICK state :
            \/ UNCHANGED <<agentVars, world, used, faults>>
            \/ /\ used' = Fresh /\ Fresh \in Ids
               /\ world' = Put(world, Fresh, Container(loc[p].name, loc[p].self, state))
               /\ faults' = faults \/ (faults > 0 /\ faults' = faults - 1)
               /\ \/ UNCHANGED agentVars
                  \/ /\ agents' = [agents EXCEPT ![loc[p].id].status = "Running"]
                     /\ stored' = UpsertAgent(stored, loc[p].id, agents'[loc[p].id])
    BY DEF RoleRestart, Strike
  <1>6. CASE UNCHANGED <<agentVars, world, used, faults>>
    <2>1. Counted'
      BY <1>1, <1>6, Counts
    <2> QED BY <1>1, <1>2, <1>3, <1>4, <1>6, <2>1, NothingNamed, MoveStep
  <1>7. CASE ~UNCHANGED <<agentVars, world, used, faults>>
    <2>1. /\ used' = Fresh /\ Fresh \in Ids
          /\ world' = Put(world, Fresh, Container(loc[p].name, loc[p].self, state))
          /\ faults' = faults \/ (faults > 0 /\ faults' = faults - 1)
      BY <1>5, <1>7
    <2>2. Counted' /\ used <= used' /\ used' \in Nat
      BY <1>1, <2>1, Counts
    <2>3. WorldNamed(S, used', world')
      BY <1>1, <1>3, <2>1, NewContainer
    <2>4. /\ AgentsNamed(S, used, agents') /\ DOMAIN agents' = DOMAIN agents
          /\ StoredNamed(S, used, stored')
      <3>1. CASE UNCHANGED agentVars
        BY <1>3, <3>1 DEF Named
      <3>2. CASE /\ agents' = [agents EXCEPT ![loc[p].id].status = "Running"]
                 /\ stored' = UpsertAgent(stored, loc[p].id, agents'[loc[p].id])
        <4>1. /\ AgentsNamed(S, used, agents') /\ DOMAIN agents' = DOMAIN agents
              /\ agents'[loc[p].id].self = S[loc[p].id] /\ loc[p].id \in Keys(used)
          BY <1>3, <1>4, <3>2, StatusChange DEF Statuses
        <4>2. StoredNamed(S, used, stored')
          BY <1>3, <3>2, <4>1 DEF Named, StoredNamed, UpsertAgent, Put, ToStored
        <4> QED BY <4>1, <4>2
      <3> QED BY <1>5, <1>7, <3>1, <3>2
    <2>5. /\ AgentsNamed(S, used', agents') /\ StoredNamed(S, used', stored')
          /\ GrantsNamed(S, used', grants', granted')
      BY <1>1, <1>3, <2>2, <2>4, Later DEF Named
    <2>6. GrantsStayWithAgent'
      BY <1>1 DEF Base, GrantsStayWithAgent
    <2> QED BY <1>1, <1>2, <1>3, <1>4, <2>2, <2>3, <2>4, <2>5, <2>6, NothingNamed, HandlerStep
  <1> QED BY <1>6, <1>7

-----------------------------------------------------------------------------
\* Finding the agent: its id and self are copied.
LEMMA InvFind ==
    ASSUME Inv, NEW p \in Handlers, pc[p] = "idle", writer = NoProc,
           NEW next \in {"grant", "revoke", "chat"},
           NEW id \in DOMAIN agents, NEW u, Keep(p, Locals(id, agents[id], u)), Goto(p, next),
           UNCHANGED <<agentVars, world, assigned, unsaved, accessVars, writer, used, faults>>,
           requests > 0, requests' = requests - 1
    PROVE  Inv'
  <1>1. PICK S \in Namings : Named(S)
    BY Known
  <1> DEFINE l == Locals(id, agents[id], u)
  <1>2. pc' = [pc EXCEPT ![p] = next] /\ loc' = [loc EXCEPT ![p] = l]
    BY DEF Goto, Keep
  <1>3. LocalNamed(S, used, next, l)
    BY <1>1, LocalsNamed DEF Named
  <1> HIDE DEF l
  <1>4. Base /\ Counted'
    BY Known, Counts
  <1>5. "idle" \notin Lockers /\ next \in Steps \ (Lockers \cup Holding)
    BY DEF Lockers, Holding, Steps
  <1> QED BY <1>1, <1>2, <1>3, <1>4, <1>5, MoveStep

LEMMA InvFindForAccess ==
    ASSUME Inv, NEW p \in Handlers, AssignUser(p) \/ UnassignUser(p) \/ OpenChat(p)
    PROVE  Inv'
  <1>1. PICK next \in {"grant", "revoke", "chat"} : Goto(p, next)
    BY DEF AssignUser, UnassignUser, FindForAccess, OpenChat
  <1>2. PICK id \in DOMAIN agents : \E u \in Users : Keep(p, Locals(id, agents[id], u))
    BY DEF AssignUser, UnassignUser, FindForAccess, OpenChat
  <1>3. PICK u \in Users : Keep(p, Locals(id, agents[id], u))
    BY <1>2
  <1>4. /\ pc[p] = "idle" /\ writer = NoProc /\ requests > 0 /\ requests' = requests - 1
        /\ UNCHANGED <<agentVars, world, assigned, unsaved, accessVars, writer, used, faults>>
    BY DEF AssignUser, UnassignUser, FindForAccess, OpenChat, Begin, Request
  <1> QED BY <1>1, <1>3, <1>4, InvFind

\* A handler at the access table ends its request; what it leaves there is a
\* grant for the agent its id stands for.
LEMMA AccessStep ==
    ASSUME Inv, NEW p \in Handlers, pc[p] \in {"grant", "revoke", "chat"}, End(p),
           NEW S \in Namings, Named(S),
           UNCHANGED <<agentVars, world, assigned, unsaved, writer, used, requests, faults>>,
           GrantsNamed(S, used, grants', granted'), GrantsStayWithAgent'
    PROVE  Inv'
  <1>1. pc' = [pc EXCEPT ![p] = "idle"] /\ loc' = [loc EXCEPT ![p] = Nothing]
    BY DEF End, Goto, Keep
  <1>2. Base /\ Counted' /\ used <= used'
    BY Known, Counts
  <1>3. /\ AgentsNamed(S, used', agents') /\ StoredNamed(S, used', stored')
        /\ WorldNamed(S, used', world') /\ GrantsNamed(S, used', grants', granted')
    BY DEF Named
  <1>4. pc[p] \notin Lockers /\ "idle" \in Steps \ (Lockers \cup Holding)
    BY DEF Lockers, Holding, Steps
  <1> QED BY <1>1, <1>2, <1>3, <1>4, NothingNamed, HandlerStep

LEMMA InvAccess ==
    ASSUME Inv, NEW p \in Handlers, Grant(p) \/ Revoke(p) \/ Upgrade(p)
    PROVE  Inv'
  <1>1. PICK S \in Namings : Named(S)
    BY Known
  <1>2. /\ pc[p] \in {"grant", "revoke", "chat"} /\ End(p)
        /\ UNCHANGED <<agentVars, world, assigned, unsaved, writer, used, requests, faults>>
    BY DEF Grant, Revoke, Upgrade
  <1>3. loc[p].id \in Keys(used) /\ loc[p].self = S[loc[p].id]
    BY <1>1, <1>2 DEF Named, LocalNamed, Knowing, Steps
  <1>4. chats \subseteq granted
    BY DEF Inv, Base, GrantsStayWithAgent
  <1>5. GrantsNamed(S, used, grants, granted)
    BY <1>1 DEF Named
  <1>6. CASE Grant(p)
    <2>1. PICK mayChat : grants' = Put(grants, <<loc[p].id, loc[p].arg>>, mayChat)
      BY <1>6 DEF Grant, AccessKey
    <2>2. granted' = granted \cup {<<loc[p].self, loc[p].arg>>} /\ chats' = chats
      BY <1>6 DEF Grant
    <2>3. GrantsNamed(S, used, grants', granted')
      BY <1>3, <1>5, <2>1, <2>2 DEF GrantsNamed, Put
    <2>4. GrantsStayWithAgent'
      BY <1>4, <2>2 DEF GrantsStayWithAgent
    <2> QED BY <1>1, <1>2, <2>3, <2>4, AccessStep
  <1>7. CASE Revoke(p)
    <2>1. PICK gone : grants' = Without(grants, gone)
      BY <1>7 DEF Revoke
    <2>2. UNCHANGED <<granted, chats>>
      BY <1>7 DEF Revoke
    <2>3. GrantsNamed(S, used, grants', granted')
      BY <1>5, <2>1, <2>2 DEF GrantsNamed, Without
    <2>4. GrantsStayWithAgent'
      BY <1>4, <2>2 DEF GrantsStayWithAgent
    <2> QED BY <1>1, <1>2, <2>3, <2>4, AccessStep
  <1>8. CASE Upgrade(p)
    <2>1. /\ \/ chats' = chats
             \/ /\ <<loc[p].id, loc[p].arg>> \in DOMAIN grants
                /\ chats' = chats \cup {<<loc[p].self, loc[p].arg>>}
          /\ UNCHANGED <<grants, granted>>
      BY <1>8 DEF Upgrade, CanChat, AccessKey
    <2>2. GrantsNamed(S, used, grants', granted')
      BY <1>5, <2>1
    <2>3. <<loc[p].id, loc[p].arg>> \in DOMAIN grants => <<loc[p].self, loc[p].arg>> \in granted
      <3>1. PICK k : k = <<loc[p].id, loc[p].arg>>
        OBVIOUS
      <3>2. k[1] = loc[p].id /\ k[2] = loc[p].arg
        BY <3>1
      <3> QED BY <1>3, <1>5, <3>1, <3>2 DEF GrantsNamed
    <2>4. GrantsStayWithAgent'
      BY <1>4, <2>1, <2>3 DEF GrantsStayWithAgent
    <2> QED BY <1>1, <1>2, <2>2, <2>4, AccessStep
  <1> QED BY <1>6, <1>7, <1>8

-----------------------------------------------------------------------------
LEMMA InvSync ==
    ASSUME Inv, Sync
    PROVE  Inv'
  <1>1. PICK S \in Namings : Named(S)
    BY Known
  <1> DEFINE new == [id \in DOMAIN agents |->
                       [agents[id] EXCEPT !.status = Reconciled(agents[id])]]
  <1>2. /\ agents' = new
        /\ stored' = [id \in DOMAIN stored \cup DOMAIN new |->
                         IF id \in DOMAIN new THEN ToStored(new[id]) ELSE stored[id]]
        /\ UNCHANGED <<world, assigned, unsaved, accessVars, procVars, used, requests, faults>>
    BY DEF Sync
  <1>3. ASSUME NEW id \in DOMAIN agents
        PROVE  /\ id \in Keys(used) /\ IsAgent(new[id])
               /\ new[id].self = S[id] /\ new[id].status \in Statuses
    <2>1. PICK a : a = agents[id]
      OBVIOUS
    <2>2. IsAgent(a) /\ a.status \in Statuses /\ a.self = S[id] /\ id \in Keys(used)
      BY <1>1, <2>1 DEF Named, AgentsNamed
    <2>3. Reconciled(a) \in Statuses
      BY <2>2 DEF Reconciled, Statuses
    <2>4. PICK s \in Statuses : new[id] = [a EXCEPT !.status = s]
      BY <2>1, <2>3
    <2>5. LET b == [a EXCEPT !.status = s]
          IN IsAgent(b) /\ b.self = a.self /\ b.status = s
      BY <2>2, AgentChange
    <2> HIDE DEF new
    <2> QED BY <2>2, <2>4, <2>5
  <1>4. DOMAIN new = DOMAIN agents /\ new = [id \in DOMAIN new |-> new[id]]
    OBVIOUS
  <1> HIDE DEF new
  <1>5. AgentsNamed(S, used, new)
    BY <1>3, <1>4 DEF AgentsNamed
  <1>6. \A id \in DOMAIN new : ToStored(new[id]).self = S[id]
    BY <1>3, <1>4 DEF ToStored
  <1>7. StoredNamed(S, used, stored')
    BY <1>1, <1>2, <1>3, <1>4, <1>6 DEF Named, StoredNamed
  <1>8. Base /\ Counted' /\ used <= used'
    BY <1>2, Known, Counts
  <1>9. /\ AgentsNamed(S, used', agents') /\ StoredNamed(S, used', stored')
        /\ WorldNamed(S, used', world') /\ DOMAIN agents \subseteq DOMAIN agents'
    BY <1>1, <1>2, <1>4, <1>5, <1>7 DEF Named
  <1> QED BY <1>1, <1>2, <1>8, <1>9, TableStep

LEMMA InvContainerExit ==
    ASSUME Inv, ContainerExit
    PROVE  Inv'
  <1>1. PICK S \in Namings : Named(S)
    BY Known
  <1>2. PICK c \in DOMAIN world : world' = [world EXCEPT ![c].state = "exited"]
    BY DEF ContainerExit
  <1>3. /\ UNCHANGED <<agentVars, assigned, unsaved, accessVars, procVars, used, requests>>
        /\ faults > 0 /\ faults' = faults - 1
    BY DEF ContainerExit, Strike
  <1>4. WorldNamed(S, used, world')
    <2>1. PICK d : d = world[c]
      OBVIOUS
    <2> DEFINE entry == [d EXCEPT !.state = "exited"]
    <2>2. IsContainer(d) /\ d.self = S[c] /\ c \in 1 .. used
      BY <1>1, <2>1 DEF Named, WorldNamed
    <2>3. IsContainer(entry) /\ entry.self = S[c]
      BY <2>2, ContainerChange
    <2>4. world' = [world EXCEPT ![c] = entry]
      BY <1>2, <2>1
    <2> HIDE DEF entry
    <2> QED BY <1>1, <2>2, <2>3, <2>4 DEF Named, WorldNamed
  <1>5. Base /\ Counted' /\ used <= used'
    BY <1>3, Known, Counts
  <1>6. /\ AgentsNamed(S, used', agents') /\ StoredNamed(S, used', stored')
        /\ WorldNamed(S, used', world')
    BY <1>1, <1>3, <1>4 DEF Named
  <1> QED BY <1>1, <1>3, <1>5, <1>6, TableStep

LEMMA InvClientHangsUp ==
    ASSUME Inv, ClientHangsUp
    PROVE  Inv'
  <1>1. PICK S \in Namings : Named(S)
    BY Known
  <1>2. PICK p \in Handlers : End(p) /\ writer' = IF writer = p THEN NoProc ELSE writer
    BY DEF ClientHangsUp
  <1>3. /\ pc' = [pc EXCEPT ![p] = "idle"] /\ loc' = [loc EXCEPT ![p] = Nothing]
        /\ UNCHANGED <<agentVars, world, assigned, unsaved, accessVars, used, requests>>
        /\ faults > 0 /\ faults' = faults - 1
    BY <1>2 DEF ClientHangsUp, Strike, End, Goto, Keep
  <1>4. Base /\ Counted'
    BY <1>3, Known, Counts
  <1>5. "idle" \in Steps \ (Lockers \cup Holding)
    BY DEF Lockers, Holding, Steps
  <1>6. \/ writer = p /\ writer' = NoProc
        \/ writer' = writer /\ pc[p] \notin Lockers
    BY <1>2, <1>4 DEF Base, Locked
  <1> QED BY <1>1, <1>3, <1>4, <1>5, <1>6, NothingNamed, MoveStep

LEMMA InvCrashRestart ==
    ASSUME Inv, CrashRestart
    PROVE  Inv'
  <1>1. PICK S \in Namings : Named(S)
    BY Known
  <1>2. /\ assigned' = [r \in Roles |-> NoAgent] /\ writer' = NoProc
        /\ pc' = [p \in Handlers |-> "idle"] /\ loc' = [p \in Handlers |-> Nothing]
        /\ UNCHANGED <<stored, world, accessVars, used, requests>>
        /\ faults > 0 /\ faults' = faults - 1 /\ unsaved' = FALSE
    BY DEF CrashRestart, Strike
  <1>3. Base /\ used \in Nat
    BY Known
  <1>4. assigned' \in [Roles -> (0 .. used') \cup Names]
    <2>1. 0 \in 0 .. used'
      BY <1>2, <1>3
    <2> QED BY <1>2, <2>1 DEF NoAgent
  <1>5. Counted'
    BY <1>2, <1>3, <1>4, Counts
  <1>6. "idle" \in Steps \ (Lockers \cup Holding) /\ NoProc \notin Handlers
    BY NamingAssumption DEF Lockers, Holding, Steps
  <1>7. Locked' /\ Held' /\ GrantsStayWithAgent'
    BY <1>2, <1>3, <1>6 DEF Base, Locked, Held, GrantsStayWithAgent
  <1>8. AgentsNamed(S, used, agents')
    <2> DEFINE entry(id) ==
          IF id \in DOMAIN stored
          THEN [name |-> stored[id].name, self |-> stored[id].self,
                mounts |-> stored[id].mounts, direct |-> stored[id].direct,
                status |-> IF id \in DOMAIN world THEN ListedStatus(world[id].state)
                           ELSE "Stopped"]
          ELSE [name |-> world[id].name, self |-> world[id].self, mounts |-> {},
                direct |-> FALSE, status |-> ListedStatus(world[id].state)]
    <2>1. \A x : ListedStatus(x) \in Statuses
      BY DEF ListedStatus, Statuses
    <2>2. ASSUME NEW id \in DOMAIN stored \cup DOMAIN world
          PROVE  /\ id \in Keys(used) /\ IsAgent(entry(id))
                 /\ entry(id).status \in Statuses /\ entry(id).self = S[id]
      <3>1. id \in Keys(used)
        BY <1>1 DEF Named, StoredNamed, WorldNamed, Keys
      <3>2. CASE id \in DOMAIN stored
        <4>1. stored[id].self = S[id]
          BY <1>1, <3>2 DEF Named, StoredNamed
        <4>2. PICK n, m, d, s : /\ s \in Statuses
                             /\ entry(id) = [name |-> n, self |-> S[id], mounts |-> m,
                                                direct |-> d, status |-> s]
          <5>1. "Stopped" \in Statuses
            BY DEF Statuses
          <5> QED BY <2>1, <3>2, <4>1, <5>1
        <4> QED BY <3>1, <4>2 DEF IsAgent
      <3>3. CASE id \notin DOMAIN stored
        <4>1. world[id].self = S[id]
          BY <1>1, <3>3 DEF Named, WorldNamed
        <4>2. PICK n, m, d, s : /\ s \in Statuses
                             /\ entry(id) = [name |-> n, self |-> S[id], mounts |-> m,
                                                direct |-> d, status |-> s]
          BY <2>1, <3>3, <4>1
        <4> QED BY <3>1, <4>2 DEF IsAgent
      <3> QED BY <3>2, <3>3
    <2>3. agents' = [id \in DOMAIN stored \cup DOMAIN world |-> entry(id)]
      BY DEF CrashRestart
    <2> HIDE DEF entry
    <2> QED BY <2>2, <2>3 DEF AgentsNamed
  <1>9. \A p \in Handlers : LocalNamed(S, used', pc'[p], loc'[p])
    BY <1>2, NothingNamed
  <1>10. Named(S)'
    BY <1>1, <1>2, <1>8, <1>9 DEF Named
  <1> QED BY <1>5, <1>7, <1>10 DEF Inv, Base

LEMMA InvStutter ==
    ASSUME Inv, UNCHANGED vars
    PROVE  Inv'
  <1>1. PICK S \in Namings : Named(S)
    BY Known
  <1>2. UNCHANGED <<agents, stored, world, assigned, unsaved, grants, writer, pc, loc, used,
                    requests, faults, granted, chats>>
    BY DEF vars
  <1>3. Base /\ Counted' /\ used <= used'
    BY <1>2, Known, Counts
  <1>4. /\ AgentsNamed(S, used', agents') /\ StoredNamed(S, used', stored')
        /\ WorldNamed(S, used', world')
    BY <1>1, <1>2 DEF Named
  <1> QED BY <1>1, <1>2, <1>3, <1>4, TableStep

LEMMA InvInit ==
    ASSUME Init
    PROVE  Inv
  <1>1. "idle" \in Steps \ (Lockers \cup Holding) /\ NoProc \notin Handlers
    BY NamingAssumption DEF Lockers, Holding, Steps
  <1>2. Counted
    <2>1. used = 0 /\ 0 \in 0 .. used
      BY DEF Init
    <2>2. assigned \in [Roles -> (0 .. used) \cup Names]
      BY <2>1 DEF Init, NoAgent
    <2>3. unsaved \in BOOLEAN
      BY ZenonT(30) DEF Init
    <2>4. used \in 0 .. MaxIds /\ requests \in 0 .. MaxRequests /\ faults \in 0 .. MaxFaults
      BY <2>1, BoundsAssumption DEF Init
    <2> QED BY <2>2, <2>3, <2>4 DEF Counted
  <1>3. Locked /\ Held /\ GrantsStayWithAgent
    BY <1>1 DEF Init, Locked, Held, GrantsStayWithAgent
  <1> DEFINE S == [i \in Nat \cup Names |-> i]
  <1>4. S \in Namings
    BY DEF Namings
  <1> HIDE DEF S
  <1>5. DOMAIN agents = {} /\ DOMAIN stored = {} /\ DOMAIN world = {} /\ DOMAIN grants = {}
        /\ agents = <<>> /\ world = <<>>
    BY DEF Init
  <1>6. AgentsNamed(S, used, agents) /\ WorldNamed(S, used, world)
    BY <1>5 DEF AgentsNamed, WorldNamed
  <1>7. StoredNamed(S, used, stored) /\ GrantsNamed(S, used, grants, granted)
    BY <1>5 DEF StoredNamed, GrantsNamed
  <1>8. \A p \in Handlers : LocalNamed(S, used, pc[p], loc[p])
    BY NothingNamed DEF Init
  <1>9. Named(S)
    BY <1>6, <1>7, <1>8 DEF Named
  <1> QED BY <1>2, <1>3, <1>4, <1>9 DEF Inv, Base

LEMMA InvNext ==
    ASSUME Inv, [Next]_vars
    PROVE  Inv'
  <1>1. ASSUME NEW p \in Handlers,
               \/ CreateAgent(p) \/ CreatePush(p) \/ StartAgent(p)
               \/ DeleteAgent(p) \/ DeleteState(p)
               \/ AttachVolume(p) \/ DetachMount(p) \/ Restart(p)
               \/ RoleChange(p) \/ Access(p)
        PROVE  Inv'
    <2>1. CASE CreateAgent(p) \/ CreatePush(p) \/ StartAgent(p)
      BY <2>1, InvCreateAgent, InvCreatePush, InvStartAgent
    <2>2. CASE DeleteAgent(p) \/ DeleteState(p)
      BY <2>2, InvDeleteAgent, InvDeleteState
    <2>3. CASE AttachVolume(p) \/ DetachMount(p)
      BY <2>3, InvAttachMount, InvAttachRecord, InvAttachSave, InvDetachMount DEF AttachVolume
    <2>4. CASE Restart(p)
      BY <2>4, InvRestartRemove, InvRestartCreate, InvRekey, InvGiveUp DEF Restart
    <2>5. CASE RoleChange(p)
      BY <2>5, InvAssignRole, InvRoleMount, InvRoleStop, InvRoleStart, InvRemoveRole,
         InvRoleRemove, InvRoleUnmount, InvRoleRestart DEF RoleChange
    <2>6. CASE Access(p)
      BY <2>6, InvFindForAccess, InvAccess DEF Access
    <2> QED BY <1>1, <2>1, <2>2, <2>3, <2>4, <2>5, <2>6
  <1>2. CASE Volumes
    BY <1>2, InvVolumes
  <1>3. CASE Sync \/ ContainerExit \/ ClientHangsUp \/ CrashRestart
    BY <1>3, InvSync, InvContainerExit, InvClientHangsUp, InvCrashRestart
  <1>4. CASE UNCHANGED vars
    BY <1>4, InvStutter
  <1> QED BY <1>1, <1>2, <1>3, <1>4 DEF Next

LEMMA Invariance == Spec => []Inv
  <1>1. Init => Inv
    BY InvInit
  <1>2. Inv /\ [Next]_vars => Inv'
    BY InvNext
  <1> QED BY <1>1, <1>2, PTL DEF Spec

-----------------------------------------------------------------------------
(* Every variable has its type, ids are names or ids of containers that    *)
(* were created, and the write lock of containers is held by the one       *)
(* handler that stands between taking and releasing it, also after a       *)
(* hang-up or a crash.                                                     *)
THEOREM ReferencesTyped == Spec => []TypeOK
  <1>1. Inv => TypeOK
    <2> SUFFICES ASSUME Inv PROVE TypeOK
      OBVIOUS
    <2>1. PICK S \in Namings : Named(S)
      BY Known
    <2>2. /\ DOMAIN agents \cup DOMAIN stored \subseteq (1 .. used) \cup Names
          /\ DOMAIN world \subseteq 1 .. used
      BY <2>1 DEF Named, AgentsNamed, StoredNamed, WorldNamed, Keys
    <2>3. \A id \in DOMAIN agents : agents[id].status \in Statuses
      BY <2>1 DEF Named, AgentsNamed
    <2> QED BY <2>2, <2>3 DEF TypeOK, Inv, Base, Counted, Locked
  <1> QED BY <1>1, Invariance, PTL

(* Whoever opened a chat with an agent was let in by an admin for this     *)
(* very agent: chat_websocket reads a table keyed by the id of the moment, *)
(* with rows left behind by deleted and renumbered agents, after it let go *)
(* of the lock under which it found the agent.  A direct agent is told     *)
(* from the others by its name only: its users are those of the name.      *)
THEOREM GrantsStay == Spec => []GrantsStayWithAgent
  <1>1. Inv => GrantsStayWithAgent
    BY DEF Inv, Base
  <1> QED BY <1>1, Invariance, PTL

-----------------------------------------------------------------------------
(* Deleted agents.  Only create_agent enters an agent without finding it   *)
(* listed under the lock it enters it with.                                *)

\* A step after which no agent is listed that was not.
SelvesKept ==
    \A id \in DOMAIN agents' : \E j \in DOMAIN agents : agents'[id].self = agents[j].self

LEMMA SelvesStay ==
    ASSUME DeletedStaysDeleted, deleted' = deleted, missed' = missed, SelvesKept
    PROVE  DeletedStaysDeleted'
  BY DEF DeletedStaysDeleted, SelvesKept

LEMMA EntryKept ==
    ASSUME NEW id, NEW entry, agents' = [agents EXCEPT ![id] = entry],
           id \in DOMAIN agents => entry.self = agents[id].self
    PROVE  SelvesKept
  BY DEF SelvesKept

LEMMA FieldKept ==
    ASSUME Inv, NEW id, NEW x,
           \/ agents' = [agents EXCEPT ![id].status = x]
           \/ agents' = [agents EXCEPT ![id].mounts = x]
           \/ \E s : agents' = [agents EXCEPT ![id].mounts = x, ![id].status = s]
    PROVE  SelvesKept
  <1>1. PICK a : a = agents[id]
    OBVIOUS
  <1>2. id \in DOMAIN agents => IsAgent(a)
    BY <1>1 DEF Inv, Named, AgentsNamed
  <1>3. PICK b : b = [a EXCEPT !.mounts = x]
    OBVIOUS
  <1>4. id \in DOMAIN agents => IsAgent(b) /\ b.self = a.self
    BY <1>2, <1>3, AgentChange
  <1>5. CASE agents' = [agents EXCEPT ![id].status = x]
    <2>1. PICK e : e = [a EXCEPT !.status = x]
      OBVIOUS
    <2>2. id \in DOMAIN agents => e.self = a.self
      BY <1>2, <2>1, AgentChange
    <2>3. agents' = [agents EXCEPT ![id] = e]
      BY <1>1, <1>5, <2>1
    <2>4. id \in DOMAIN agents => e.self = agents[id].self
      BY <1>1, <2>2
    <2> QED BY <2>3, <2>4, EntryKept
  <1>6. CASE agents' = [agents EXCEPT ![id].mounts = x]
    <2>1. agents' = [agents EXCEPT ![id] = b]
      BY <1>1, <1>3, <1>6
    <2> QED BY <1>1, <1>4, <2>1, EntryKept
  <1>7. ASSUME NEW s, agents' = [agents EXCEPT ![id].mounts = x, ![id].status = s]
        PROVE  SelvesKept
    <2>1. PICK e : e = [b EXCEPT !.status = s]
      OBVIOUS
    <2>2. id \in DOMAIN agents => e.self = agents[id].self
      BY <1>1, <1>4, <2>1, AgentChange
    <2>3. agents' = [agents EXCEPT ![id] = e]
      BY <1>1, <1>3, <1>7, <2>1
    <2> QED BY <2>2, <2>3, EntryKept
  <1> QED BY <1>5, <1>6, <1>7

LEMMA AllKept == agents' = agents => SelvesKept
  BY DEF SelvesKept

LEMMA GonePush ==
    ASSUME DeletedStaysDeleted, NEW p \in Handlers, CreatePush(p)
    PROVE  DeletedStaysDeleted'
  <1>1. PICK a : /\ a.self = loc[p].self
                 /\ agents' = Put(agents, loc[p].id, a)
    BY DEF CreatePush
  <1>2. deleted' = deleted \ {a.self} /\ missed' = missed
    BY <1>1 DEF CreatePush
  <1>3. \A id \in DOMAIN agents' :
            agents'[id].self = a.self \/ (id \in DOMAIN agents /\ agents'[id] = agents[id])
    BY <1>1 DEF Put
  <1> QED BY <1>2, <1>3 DEF DeletedStaysDeleted

LEMMA GoneDelete ==
    ASSUME DeletedStaysDeleted, NEW p \in Handlers, DeleteState(p)
    PROVE  DeletedStaysDeleted'
  <1>1. /\ agents' = Without(agents, {loc[p].id})
        /\ deleted' = deleted \cup {loc[p].self}
        /\ missed' = IF \E id \in DOMAIN agents' : agents'[id].self = loc[p].self
                     THEN missed \cup {loc[p].self} ELSE missed \ {loc[p].self}
    BY DEF DeleteState
  <1>2. \A id \in DOMAIN agents' : id \in DOMAIN agents /\ agents'[id] = agents[id]
    BY <1>1 DEF Without
  <1>3. SUFFICES ASSUME NEW id \in DOMAIN agents', agents'[id].self \in deleted'
                 PROVE  agents'[id].self \in missed'
    BY DEF DeletedStaysDeleted
  <1>4. CASE agents'[id].self = loc[p].self
    BY <1>1, <1>4
  <1>5. CASE agents'[id].self # loc[p].self
    <2>1. agents'[id].self \in deleted /\ id \in DOMAIN agents /\ agents'[id] = agents[id]
      BY <1>1, <1>2, <1>3, <1>5
    <2>2. agents'[id].self \in missed
      BY <2>1 DEF DeletedStaysDeleted
    <2> QED BY <1>1, <1>5, <2>2
  <1> QED BY <1>4, <1>5

\* The handlers of volumes, roles and access, and those that start a container.
LEMMA SelvesStart ==
    ASSUME Inv, NEW p \in Handlers, StartAgent(p)
    PROVE  SelvesKept
  <1>1. PICK id \in DOMAIN agents :
               agents' = [agents EXCEPT ![id] = [agents[id] EXCEPT !.status = "Running"]]
    BY DEF StartAgent
  <1>2. PICK a : a = agents[id]
    OBVIOUS
  <1>3. PICK e : e = [a EXCEPT !.status = "Running"]
    OBVIOUS
  <1>4. IsAgent(a)
    BY <1>1, <1>2 DEF Inv, Named, AgentsNamed
  <1>5. e.self = a.self
    BY <1>3, <1>4, AgentChange
  <1> QED BY <1>1, <1>2, <1>3, <1>5, EntryKept

LEMMA SelvesAttach ==
    ASSUME Inv, NEW p \in Handlers, AttachVolume(p)
    PROVE  SelvesKept
  <1>1. CASE AttachMount(p)
    <2>1. PICK id, m : agents' = [agents EXCEPT ![id].mounts = @ \cup {m}]
      BY <1>1 DEF AttachMount
    <2>2. PICK x : agents' = [agents EXCEPT ![id].mounts = x]
      BY <2>1
    <2> QED BY <2>2, FieldKept
  <1>2. CASE AttachRecord(p)
    BY <1>2, AllKept DEF AttachRecord
  <1>3. CASE AttachSave(p)
    BY <1>3, FieldKept DEF AttachSave
  <1> QED BY <1>1, <1>2, <1>3 DEF AttachVolume

LEMMA SelvesDetach ==
    ASSUME Inv, NEW p \in Handlers, DetachMount(p)
    PROVE  SelvesKept
  <1>1. PICK id, x : agents' = [agents EXCEPT ![id].mounts = x, ![id].status = "Stopping"]
    BY DEF DetachMount
  <1> QED BY <1>1, FieldKept

LEMMA SelvesRekey ==
    ASSUME Inv, NEW p \in Handlers, Rekey(p)
    PROVE  SelvesKept
  <1>1. CASE loc[p].id \in DOMAIN agents
    <2>1. PICK a : a = agents[loc[p].id]
      OBVIOUS
    <2>2. PICK e : e = [a EXCEPT !.status = "Running"]
      OBVIOUS
    <2>3. IsAgent(a)
      BY <1>1, <2>1 DEF Inv, Named, AgentsNamed
    <2>4. e.self = a.self
      BY <2>2, <2>3, AgentChange
    <2>5. agents' = Put(Without(agents, {loc[p].id}), loc[p].arg, e)
      BY <1>1, <2>1, <2>2 DEF Rekey
    <2> QED BY <1>1, <2>1, <2>4, <2>5 DEF SelvesKept, Put, Without
  <1>2. CASE loc[p].id \notin DOMAIN agents
    BY <1>2, AllKept DEF Rekey
  <1> QED BY <1>1, <1>2

LEMMA SelvesUnmount ==
    ASSUME Inv, NEW p \in Handlers, RoleUnmount(p)
    PROVE  SelvesKept
  <1>1. PICK id, old, a : /\ id = loc[p].id /\ old = agents[id]
                          /\ a = [old EXCEPT !.mounts = {m \in @ : m.target # "/role"}]
    OBVIOUS
  <1>2. PICK b : b = [a EXCEPT !.status = "Stopped"]
    OBVIOUS
  <1>3. \/ agents' = agents
        \/ agents' = [agents EXCEPT ![id] = a]
        \/ agents' = [agents EXCEPT ![id] = b]
    BY <1>1, <1>2 DEF RoleUnmount
  <1>4. id \in DOMAIN agents => IsAgent(old)
    BY <1>1 DEF Inv, Named, AgentsNamed
  <1>5. id \in DOMAIN agents => IsAgent(a) /\ a.self = old.self
    <2>1. PICK ms : ms = {m \in old.mounts : m.target # "/role"}
      OBVIOUS
    <2>2. a = [old EXCEPT !.mounts = ms]
      BY <1>1, <2>1
    <2> QED BY <1>4, <2>2, AgentChange
  <1>6. id \in DOMAIN agents => b.self = old.self
    BY <1>2, <1>5, AgentChange
  <1>7. id \in DOMAIN agents => a.self = agents[id].self /\ b.self = agents[id].self
    BY <1>1, <1>5, <1>6
  <1>8. CASE agents' = [agents EXCEPT ![id] = a]
    BY <1>7, <1>8, EntryKept
  <1>9. CASE agents' = [agents EXCEPT ![id] = b]
    BY <1>7, <1>9, EntryKept
  <1> QED BY <1>3, <1>8, <1>9, AllKept

LEMMA SelvesRole ==
    ASSUME Inv, NEW p \in Handlers, RoleChange(p)
    PROVE  SelvesKept
  <1>1. CASE AssignRole(p) \/ RemoveRole(p) \/ RoleRemove(p)
    BY <1>1, AllKept DEF AssignRole, RemoveRole, RoleRemove
  <1>2. CASE RoleMount(p)
    <2>1. agents' = agents \/ \E x : agents' = [agents EXCEPT ![loc[p].id].mounts = x]
      BY <1>2 DEF RoleMount
    <2> QED BY <2>1, AllKept, FieldKept
  <1>3. CASE RoleStop(p) \/ RoleStart(p) \/ RoleRestart(p)
    <2>1. agents' = agents \/ \E x : agents' = [agents EXCEPT ![loc[p].id].status = x]
      BY <1>3 DEF RoleStop, RoleStart, RoleRestart
    <2> QED BY <2>1, AllKept, FieldKept
  <1> QED BY <1>1, <1>2, <1>3, SelvesUnmount DEF RoleChange

LEMMA SelvesSync ==
    ASSUME Inv, Sync
    PROVE  SelvesKept
  <1>1. agents' = [id \in DOMAIN agents |->
                       [agents[id] EXCEPT !.status = Reconciled(agents[id])]]
    BY DEF Sync
  <1>2. ASSUME NEW id \in DOMAIN agents
        PROVE  agents'[id].self = agents[id].self
    <2>1. PICK a : a = agents[id]
      OBVIOUS
    <2>2. PICK s : agents'[id] = [a EXCEPT !.status = s]
      BY <1>1, <2>1
    <2>3. IsAgent(a)
      BY <2>1 DEF Inv, Named, AgentsNamed
    <2> QED BY <2>1, <2>2, <2>3, AgentChange
  <1> QED BY <1>1, <1>2 DEF SelvesKept

(* An agent that was gone when its deletion was answered is listed no      *)
(* more, under no id, by whichever of the handlers that still had it in    *)
(* hand: each enters only what it finds listed.  The exceptions are        *)
(* DeletedStaysDeleted's: an agent the delete missed, and one created      *)
(* again.                                                                  *)
THEOREM DeletedStays == Spec => []DeletedStaysDeleted
  <1>1. Init => Inv /\ DeletedStaysDeleted
    BY InvInit DEF Init, DeletedStaysDeleted
  <1>2. Inv /\ DeletedStaysDeleted /\ [Next]_vars => Inv' /\ DeletedStaysDeleted'
    <2> SUFFICES ASSUME Inv, DeletedStaysDeleted, [Next]_vars PROVE DeletedStaysDeleted'
      BY InvNext
    <2>1. ASSUME NEW p \in Handlers,
                 CreateAgent(p) \/ StartAgent(p) \/ DeleteAgent(p)
          PROVE  DeletedStaysDeleted'
      <3>1. SelvesKept
        BY <2>1, AllKept, SelvesStart DEF CreateAgent, DeleteAgent
      <3>2. UNCHANGED deletions
        BY <2>1 DEF CreateAgent, StartAgent, DeleteAgent
      <3> QED BY <3>1, <3>2, SelvesStay
    <2>2. ASSUME NEW p \in Handlers, AttachVolume(p) \/ DetachMount(p)
          PROVE  DeletedStaysDeleted'
      <3>1. UNCHANGED deletions
        BY <2>2 DEF AttachVolume, AttachMount, AttachRecord, AttachSave, DetachMount
      <3> QED BY <2>2, <3>1, SelvesAttach, SelvesDetach, SelvesStay
    <2>3. ASSUME NEW p \in Handlers, Restart(p)
          PROVE  DeletedStaysDeleted'
      <3>1. SelvesKept
        BY <2>3, AllKept, SelvesRekey DEF Restart, RestartRemove, RestartCreate, GiveUp
      <3>2. UNCHANGED deletions
        BY <2>3 DEF Restart, RestartRemove, RestartCreate, GiveUp, Rekey
      <3> QED BY <3>1, <3>2, SelvesStay
    <2>4. ASSUME NEW p \in Handlers, RoleChange(p)
          PROVE  DeletedStaysDeleted'
      <3>1. UNCHANGED deletions
        BY <2>4 DEF RoleChange, AssignRole, RoleMount, RoleStop, RoleStart, RemoveRole,
                    RoleRemove, RoleUnmount, RoleRestart
      <3> QED BY <2>4, <3>1, SelvesRole, SelvesStay
    <2>5. ASSUME NEW p \in Handlers, Access(p)
          PROVE  DeletedStaysDeleted'
      <3>1. UNCHANGED <<agents, deletions>>
        BY <2>5 DEF Access, AssignUser, UnassignUser, FindForAccess, OpenChat, Grant, Revoke,
                    Upgrade
      <3> QED BY <3>1, AllKept, SelvesStay
    <2>6. CASE Volumes \/ ContainerExit \/ ClientHangsUp \/ UNCHANGED vars
      <3>1. UNCHANGED <<agents, deletions>>
        BY <2>6 DEF Volumes, CreateVolume, UpdateVolume, DeleteVolume, ContainerExit,
                    ClientHangsUp, vars
      <3> QED BY <3>1, AllKept, SelvesStay
    <2>7. CASE Sync
      BY <2>7, SelvesSync, SelvesStay DEF Sync
    <2>8. CASE CrashRestart
      BY <2>8 DEF CrashRestart, DeletedStaysDeleted
    <2> QED BY <2>1, <2>2, <2>3, <2>4, <2>5, <2>6, <2>7, <2>8, GonePush, GoneDelete DEF Next
  <1> QED BY <1>1, <1>2, PTL DEF Spec

-----------------------------------------------------------------------------
(* The volumes and their file.                                             *)
VolumesShaped(f) ==
    \A v \in DOMAIN f :
        f[v] = [name |-> f[v].name, managed |-> f[v].managed, attached |-> f[v].attached]
Saved == VolumesSurviveRestart /\ VolumesShaped(volumes) /\ VolumesShaped(volumesFile)

\* A step that leaves both alone, unless a handler drops out before its save.
LEMMA SavedStay ==
    ASSUME Saved, UNCHANGED <<volumes, volumesFile, unsaved>>, cutOff \subseteq cutOff',
           \A q \in Handlers : pc[q] = "attachSave" =>
               \/ pc'[q] = "attachSave" /\ loc'[q].id = loc[q].id
               \/ loc[q].id \in cutOff'
    PROVE  Saved'
  <1>1. {loc[p].id : p \in {q \in Handlers : pc[q] = "attachSave"}}
            \subseteq {loc'[p].id : p \in {q \in Handlers : pc'[q] = "attachSave"}} \cup cutOff'
    OBVIOUS
  <1>2. VolumesSurviveRestart'
    BY <1>1 DEF Saved, VolumesSurviveRestart
  <1> QED BY <1>2 DEF Saved, VolumesShaped

\* A step that makes the file what the memory is, or fails to.
LEMMA SavedNow ==
    ASSUME Saved, SaveVolumes, VolumesShaped(volumes')
    PROVE  Saved'
  <1>1. CASE volumesFile' = volumes'
    BY <1>1 DEF VolumesSurviveRestart, Saved, VolumesShaped
  <1>2. CASE unsaved' = TRUE /\ volumesFile' \in {volumesFile, <<>>}
    BY <1>2 DEF VolumesSurviveRestart, Saved, VolumesShaped
  <1> QED BY <1>1, <1>2 DEF SaveVolumes

LEMMA SavedVolumes ==
    ASSUME Saved, Volumes
    PROVE  Saved'
  <1>1. CASE CreateVolume
    <2>1. PICK v, n, managed :
               volumes' = Put(volumes, v, [name |-> n, managed |-> managed, attached |-> {}])
      BY <1>1 DEF CreateVolume
    <2>2. VolumesShaped(volumes')
      BY <2>1 DEF Saved, VolumesShaped, Put
    <2> QED BY <1>1, <2>2, SavedNow DEF CreateVolume
  <1>2. CASE UpdateVolume
    <2>1. PICK v \in DOMAIN volumes, n \in VolumeNames : volumes' = [volumes EXCEPT ![v].name = n]
      BY <1>2 DEF UpdateVolume
    <2>2. VolumesShaped(volumes')
      BY <2>1 DEF Saved, VolumesShaped
    <2> QED BY <1>2, <2>2, SavedNow DEF UpdateVolume
  <1>3. CASE DeleteVolume
    <2>1. PICK v : volumes' = Without(volumes, {v})
      BY <1>3 DEF DeleteVolume
    <2>2. VolumesShaped(volumes')
      BY <2>1 DEF Saved, VolumesShaped, Without
    <2> QED BY <1>3, <2>2, SavedNow DEF DeleteVolume
  <1> QED BY <1>1, <1>2, <1>3 DEF Volumes

\* One volume more names the agent, of whom its handler is now before the save.
LEMMA SavedRecord ==
    ASSUME Inv, Saved, NEW p \in Handlers, AttachRecord(p)
    PROVE  Saved'
  <1>1. /\ pc[p] = "attachRecord" /\ pc' = [pc EXCEPT ![p] = "attachSave"]
        /\ UNCHANGED <<volumesFile, unsaved, cutOff, loc>>
        /\ volumes' = [v \in DOMAIN volumes |->
              IF v = loc[p].arg THEN [volumes[v] EXCEPT !.attached = @ \cup {loc[p].id}]
              ELSE volumes[v]]
    BY DEF AttachRecord, Goto
  <1>2. pc \in [Handlers -> Steps]
    BY DEF Inv, Base, Locked
  <1>3. /\ p \in {q \in Handlers : pc'[q] = "attachSave"}
        /\ {q \in Handlers : pc[q] = "attachSave"} \subseteq {q \in Handlers : pc'[q] = "attachSave"}
    BY <1>1, <1>2
  <1>4. ASSUME NEW v \in DOMAIN volumes
        PROVE  /\ volumes'[v] = [name |-> volumes'[v].name, managed |-> volumes'[v].managed,
                                 attached |-> volumes'[v].attached]
               /\ volumes'[v].name = volumes[v].name
               /\ volumes'[v].attached \subseteq volumes[v].attached \cup {loc[p].id}
    <2>1. PICK a : a = volumes[v]
      OBVIOUS
    <2>2. a = [name |-> a.name, managed |-> a.managed, attached |-> a.attached]
      BY <2>1 DEF Saved, VolumesShaped
    <2>3. volumes'[v] = a \/ volumes'[v] = [a EXCEPT !.attached = @ \cup {loc[p].id}]
      BY <1>1, <2>1
    <2> QED BY <2>1, <2>2, <2>3
  <1>5. DOMAIN volumes' = DOMAIN volumes
    BY <1>1
  <1>6. VolumesSurviveRestart'
    BY <1>1, <1>3, <1>4, <1>5 DEF Saved, VolumesSurviveRestart
  <1> QED BY <1>1, <1>4, <1>5, <1>6 DEF Saved, VolumesShaped

\* Detach takes the agent off volumes, in memory only.
LEMMA SavedDetach ==
    ASSUME Inv, Saved, NEW p \in Handlers, DetachMount(p)
    PROVE  Saved'
  <1>1. /\ pc[p] = "idle" /\ UNCHANGED <<volumesFile, unsaved, cutOff>>
        /\ pc' = [pc EXCEPT ![p] = "restartRemove"]
    BY DEF DetachMount, Goto, Begin
  <1>2. PICK id, T, l :
            /\ volumes' = [v \in DOMAIN volumes |->
                  IF v \in T THEN [volumes[v] EXCEPT !.attached = @ \ {id}] ELSE volumes[v]]
            /\ loc' = [loc EXCEPT ![p] = l]
    <2>1. PICK id \in DOMAIN agents : \E gone \in Selections(agents[id].mounts) :
            LET left == agents[id].mounts \ gone
            IN /\ volumes' = [v \in DOMAIN volumes |->
                     IF \E m \in left : m.source = v
                     THEN [volumes[v] EXCEPT !.attached = @ \ {id}] ELSE volumes[v]]
               /\ Keep(p, Locals(id, agents'[id], NoAgent))
      BY DEF DetachMount
    <2>2. PICK left : /\ volumes' = [v \in DOMAIN volumes |->
                            IF \E m \in left : m.source = v
                            THEN [volumes[v] EXCEPT !.attached = @ \ {id}] ELSE volumes[v]]
                      /\ Keep(p, Locals(id, agents'[id], NoAgent))
      BY <2>1
    <2>3. PICK T : T = {v \in DOMAIN volumes : \E m \in left : m.source = v}
      OBVIOUS
    <2>4. volumes' = [v \in DOMAIN volumes |->
             IF v \in T THEN [volumes[v] EXCEPT !.attached = @ \ {id}] ELSE volumes[v]]
      BY <2>2, <2>3
    <2>5. PICK l : loc' = [loc EXCEPT ![p] = l]
      BY <2>2 DEF Keep
    <2> QED BY <2>4, <2>5
  <1>3. pc \in [Handlers -> Steps] /\ loc = [q \in Handlers |-> loc[q]]
    BY DEF Inv, Base, Locked
  <1>4. \A q \in Handlers : pc[q] = "attachSave" => pc'[q] = "attachSave" /\ loc'[q] = loc[q]
    BY <1>1, <1>2, <1>3
  <1>5. ASSUME NEW v \in DOMAIN volumes
        PROVE  /\ volumes'[v] = [name |-> volumes'[v].name, managed |-> volumes'[v].managed,
                                 attached |-> volumes'[v].attached]
               /\ volumes'[v].name = volumes[v].name
               /\ volumes'[v].attached \subseteq volumes[v].attached
    <2>1. PICK a : a = volumes[v]
      OBVIOUS
    <2>2. a = [name |-> a.name, managed |-> a.managed, attached |-> a.attached]
      BY <2>1 DEF Saved, VolumesShaped
    <2>3. volumes'[v] = a \/ volumes'[v] = [a EXCEPT !.attached = @ \ {id}]
      BY <1>2, <2>1
    <2> QED BY <2>1, <2>2, <2>3
  <1>6. DOMAIN volumes' = DOMAIN volumes
    BY <1>2
  <1>7. {loc[q].id : q \in {r \in Handlers : pc[r] = "attachSave"}}
            \subseteq {loc'[q].id : q \in {r \in Handlers : pc'[r] = "attachSave"}}
    BY <1>4
  <1>8. VolumesSurviveRestart'
    BY <1>1, <1>5, <1>6, <1>7 DEF Saved, VolumesSurviveRestart
  <1> QED BY <1>1, <1>5, <1>6, <1>8 DEF Saved, VolumesShaped

LEMMA SavedSave ==
    ASSUME Saved, NEW p \in Handlers, AttachSave(p)
    PROVE  Saved'
  <1>1. VolumesShaped(volumes')
    BY DEF AttachSave, Saved, VolumesShaped
  <1> QED BY <1>1, SavedNow DEF AttachSave

\* Every other handler step is of a handler that has nothing to save.
LEMMA SavedElse ==
    ASSUME Inv, Saved, NEW p \in Handlers, pc[p] # "attachSave",
           NEW s, pc' = [pc EXCEPT ![p] = s],
           NEW l, loc' = [loc EXCEPT ![p] = l] \/ loc' = loc,
           UNCHANGED <<volumes, volumesFile, unsaved, cutOff>>
    PROVE  Saved'
  <1>1. \A q \in Handlers : pc[q] = "attachSave" => pc'[q] = "attachSave" /\ loc'[q] = loc[q]
    BY DEF Inv, Base, Locked
  <1> QED BY <1>1, SavedStay

LEMMA SavedAgents ==
    ASSUME Inv, Saved, NEW p \in Handlers,
           CreateAgent(p) \/ CreatePush(p) \/ DeleteAgent(p) \/ DeleteState(p) \/ AttachMount(p)
    PROVE  Saved'
  <1>1. PICK s, l : /\ pc[p] # "attachSave" /\ pc' = [pc EXCEPT ![p] = s]
                    /\ loc' = [loc EXCEPT ![p] = l] \/ loc' = loc
    BY DEF CreateAgent, CreatePush, DeleteAgent, DeleteState, AttachMount, Begin, Goto, Keep, End
  <1>2. UNCHANGED <<volumes, volumesFile, unsaved, cutOff>>
    BY DEF CreateAgent, CreatePush, DeleteAgent, DeleteState, AttachMount
  <1> QED BY <1>1, <1>2, SavedElse

LEMMA SavedRestart ==
    ASSUME Inv, Saved, NEW p \in Handlers, Restart(p)
    PROVE  Saved'
  <1>1. PICK s, l : /\ pc[p] # "attachSave" /\ pc' = [pc EXCEPT ![p] = s]
                    /\ loc' = [loc EXCEPT ![p] = l] \/ loc' = loc
    BY DEF Restart, RestartRemove, RestartCreate, Rekey, GiveUp, Goto, Keep, End
  <1>2. UNCHANGED <<volumes, volumesFile, unsaved, cutOff>>
    BY DEF Restart, RestartRemove, RestartCreate, Rekey, GiveUp
  <1> QED BY <1>1, <1>2, SavedElse

LEMMA SavedRole ==
    ASSUME Inv, Saved, NEW p \in Handlers, RoleChange(p)
    PROVE  Saved'
  <1>1. PICK s, l : /\ pc[p] # "attachSave" /\ pc' = [pc EXCEPT ![p] = s]
                    /\ loc' = [loc EXCEPT ![p] = l] \/ loc' = loc
    <2>1. CASE AssignRole(p) \/ RoleStop(p) \/ RoleStart(p) \/ RemoveRole(p)
               \/ RoleRemove(p) \/ RoleRestart(p)
      BY <2>1 DEF AssignRole, RoleStop, RoleStart, RemoveRole, RoleRemove, RoleRestart,
                  Begin, Goto, Keep, End
    <2>2. CASE RoleMount(p)
      BY <2>2 DEF RoleMount, Goto, Keep, End
    <2>3. CASE RoleUnmount(p)
      BY <2>3 DEF RoleUnmount, Goto, Keep, End
    <2> QED BY <2>1, <2>2, <2>3 DEF RoleChange
  <1>2. UNCHANGED <<volumes, volumesFile, unsaved, cutOff>>
    BY DEF RoleChange, AssignRole, RoleMount, RoleStop, RoleStart, RemoveRole, RoleRemove,
           RoleUnmount, RoleRestart
  <1> QED BY <1>1, <1>2, SavedElse

LEMMA SavedAccess ==
    ASSUME Inv, Saved, NEW p \in Handlers, Access(p)
    PROVE  Saved'
  <1>1. PICK s, l : /\ pc[p] # "attachSave" /\ pc' = [pc EXCEPT ![p] = s]
                    /\ loc' = [loc EXCEPT ![p] = l] \/ loc' = loc
    BY DEF Access, AssignUser, UnassignUser, FindForAccess, OpenChat, Grant, Revoke, Upgrade,
           Begin, Goto, Keep, End
  <1>2. UNCHANGED <<volumes, volumesFile, unsaved, cutOff>>
    BY DEF Access, AssignUser, UnassignUser, FindForAccess, OpenChat, Grant, Revoke, Upgrade
  <1> QED BY <1>1, <1>2, SavedElse

LEMMA SavedHangUp ==
    ASSUME Inv, Saved, ClientHangsUp
    PROVE  Saved'
  <1>1. PICK p \in Handlers :
            /\ cutOff' = IF pc[p] = "attachSave" THEN cutOff \cup {loc[p].id} ELSE cutOff
            /\ End(p)
    BY DEF ClientHangsUp
  <1>2. UNCHANGED <<volumes, volumesFile, unsaved>>
    BY DEF ClientHangsUp
  <1>3. \A q \in Handlers : q # p => pc'[q] = pc[q] /\ loc'[q] = loc[q]
    BY <1>1 DEF End, Goto, Keep, Inv, Base, Locked
  <1> QED BY <1>1, <1>2, <1>3, SavedStay

LEMMA SavedCrash ==
    ASSUME Saved, CrashRestart
    PROVE  Saved'
  <1>1. volumes' = volumesFile' /\ volumesFile' \in {volumesFile, <<>>}
    BY DEF CrashRestart
  <1> QED BY <1>1 DEF VolumesSurviveRestart, Saved, VolumesShaped

(* Until a save fails, volumes.json has every volume, and what it has is   *)
(* enough to refuse the deletion of each that an agent is attached to in   *)
(* memory, but for the agents whose attach is before its save, or was      *)
(* dropped there since the last one.                                       *)
THEOREM VolumesSurvive == Spec => []VolumesSurviveRestart
  <1>1. Init => Inv /\ Saved
    <2> SUFFICES ASSUME Init PROVE Saved
      BY InvInit
    <2>1. volumes = volumesFile /\ DOMAIN volumes = {}
      BY DEF Init
    <2> QED BY <2>1 DEF Saved, VolumesSurviveRestart, VolumesShaped
  <1>2. Inv /\ Saved /\ [Next]_vars => Inv' /\ Saved'
    <2> SUFFICES ASSUME Inv, Saved, [Next]_vars PROVE Saved'
      BY InvNext
    <2>1. CASE UNCHANGED vars
      <3>1. UNCHANGED <<volumes, volumesFile, unsaved, cutOff, pc, loc>>
        BY <2>1 DEF vars
      <3> QED BY <3>1, SavedStay
    <2>2. ASSUME NEW p \in Handlers, StartAgent(p) PROVE Saved'
      <3>1. UNCHANGED <<volumes, volumesFile, unsaved, cutOff, pc, loc>>
        BY <2>2 DEF StartAgent
      <3> QED BY <3>1, SavedStay
    <2>3. CASE Sync \/ ContainerExit
      <3>1. UNCHANGED <<volumes, volumesFile, unsaved, cutOff, pc, loc>>
        BY <2>3 DEF Sync, ContainerExit
      <3> QED BY <3>1, SavedStay
    <2> QED BY <2>1, <2>2, <2>3, SavedAgents, SavedVolumes, SavedRecord, SavedSave, SavedDetach,
               SavedRestart, SavedRole, SavedAccess, SavedHangUp, SavedCrash DEF Next, AttachVolume
  <1>3. Saved => VolumesSurviveRestart
    BY DEF Saved
  <1> QED BY <1>1, <1>2, <1>3, PTL DEF Spec
=============================================================================
