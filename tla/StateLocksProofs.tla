-------------------------- MODULE StateLocksProofs --------------------------
(***************************************************************************)
(* Why the orchestrator's locks cannot deadlock, for any number of         *)
(* connections, spawned tasks and requests, as long as nobody calls the    *)
(* three handlers that do not nest their guards in the common order.       *)
(***************************************************************************)
EXTENDS StateLocks, WellFoundedInduction, TLAPS

-----------------------------------------------------------------------------
(* The common order: containers first, then at most one other lock.        *)
Rank(l) == IF l = "containers" THEN 1 ELSE 2

(* What path p acquires ranks above every lock it holds by then.           *)
Ordered(p) ==
    \A k \in DOMAIN p : p[k].op # "drop" =>
        \A l \in Locks :
            HoldsAt(p, k, Reading(l)) \/ HoldsAt(p, k, Writing(l))
                => Rank(l) < Rank(p[k].lock)

(* A path is ordered if each of its guards is dropped at once or ranks     *)
(* below what is acquired after it.                                        *)
LEMMA OrderedByNesting ==
    ASSUME NEW p,
           DOMAIN p \subseteq Nat,
           \A k \in DOMAIN p : p[k].op # "drop" =>
               \A a \in 1 .. k - 1 : p[a].op # "drop" =>
                   \/ a + 1 < k /\ p[a + 1] = Dropping(p[a].lock)
                   \/ Rank(p[a].lock) < Rank(p[k].lock)
    PROVE  Ordered(p)
  <1> SUFFICES ASSUME NEW k \in DOMAIN p, p[k].op # "drop", NEW l \in Locks,
                      NEW s \in {Reading(l), Writing(l)}, HoldsAt(p, k, s)
               PROVE  Rank(l) < Rank(p[k].lock)
    BY DEF Ordered
  <1>1. s.lock = l /\ s.op # "drop"
    BY DEF Reading, Writing
  <1>2. PICK a \in 1 .. k - 1 :
               p[a] = s /\ \A d \in a + 1 .. k - 1 : p[d] # Dropping(s.lock)
    BY DEF HoldsAt
  <1>3. ~(a + 1 < k /\ p[a + 1] = Dropping(p[a].lock))
    <2>1. k \in Nat
      OBVIOUS
    <2> QED
      BY <1>2, <2>1
  <1> QED
    BY <1>1, <1>2, <1>3

(* What OrderedByNesting asks of a path.                                   *)
Nests(p) ==
    \A k \in DOMAIN p : p[k].op # "drop" =>
        \A a \in 1 .. k - 1 : p[a].op # "drop" =>
            \/ a + 1 < k /\ p[a + 1] = Dropping(p[a].lock)
            \/ Rank(p[a].lock) < Rank(p[k].lock)

(* The handlers that only read the agents lock one lock.                  *)
LEMMA ReadAgentsNests == \A p \in ReadAgentsPaths : DOMAIN p \subseteq Nat /\ Nests(p)
  BY DEF ReadAgentsPaths, Nests, Rank, Reading, Writing, Dropping

(* So do those that only write them.                                      *)
LEMMA WriteAgentsNests == \A p \in WriteAgentsPaths : DOMAIN p \subseteq Nat /\ Nests(p)
  BY DEF WriteAgentsPaths, Nests, Rank, Reading, Writing, Dropping

(* create_agent enters the name with containers locked, then agent_index. *)
LEMMA CreateAgentNests == \A p \in CreateAgentPaths : DOMAIN p \subseteq Nat /\ Nests(p)
  BY DEF CreateAgentPaths, Nests, Rank, Reading, Writing, Dropping

(* start_agent reads the API keys with containers locked.                 *)
LEMMA StartAgentNests == \A p \in StartAgentPaths : DOMAIN p \subseteq Nat /\ Nests(p)
  BY DEF StartAgentPaths, Nests, Rank, Reading, Writing, Dropping

(* delete_agent drops each guard before it asks again.                    *)
LEMMA DeleteAgentNests == \A p \in DeleteAgentPaths : DOMAIN p \subseteq Nat /\ Nests(p)
  BY DEF DeleteAgentPaths, Nests, Rank, Reading, Writing, Dropping

(* run_health_check drops its read guard before it writes.                *)
LEMMA HealthCheckNests == \A p \in HealthCheckPaths : DOMAIN p \subseteq Nat /\ Nests(p)
  BY DEF HealthCheckPaths, Nests, Rank, Reading, Writing, Dropping

(* logs_websocket and terminal_websocket drop the auth guard first.       *)
LEMMA StreamNests == \A p \in StreamPaths : DOMAIN p \subseteq Nat /\ Nests(p)
  BY DEF StreamPaths, Nests, Rank, Reading, Writing, Dropping

(* handle_direct_chat drops the agents before it reads the keys.          *)
LEMMA DirectChatNests == \A p \in DirectChatPaths : DOMAIN p \subseteq Nat /\ Nests(p)
  BY DEF DirectChatPaths, Nests, Rank, Reading, Writing, Dropping

(* list_api_keys locks one lock.                                          *)
LEMMA ListKeysNests == \A p \in ListKeysPaths : DOMAIN p \subseteq Nat /\ Nests(p)
  BY DEF ListKeysPaths, Nests, Rank, Reading, Writing, Dropping

(* set_api_key and delete_api_key lock one lock.                          *)
LEMMA ChangeKeysNests == \A p \in ChangeKeysPaths : DOMAIN p \subseteq Nat /\ Nests(p)
  BY DEF ChangeKeysPaths, Nests, Rank, Reading, Writing, Dropping

(* list_volumes and get_volume lock one lock.                             *)
LEMMA ReadVolumesNests == \A p \in ReadVolumesPaths : DOMAIN p \subseteq Nat /\ Nests(p)
  BY DEF ReadVolumesPaths, Nests, Rank, Reading, Writing, Dropping

(* The handlers that write the volumes lock no other lock.                *)
LEMMA ChangeVolumesNests == \A p \in ChangeVolumesPaths : DOMAIN p \subseteq Nat /\ Nests(p)
  BY DEF ChangeVolumesPaths, Nests, Rank, Reading, Writing, Dropping

(* The handlers that read the users lock no other lock.                   *)
LEMMA ReadAuthNests == \A p \in ReadAuthPaths : DOMAIN p \subseteq Nat /\ Nests(p)
  BY DEF ReadAuthPaths, Nests, Rank, Reading, Writing, Dropping

(* register locks one lock.                                               *)
LEMMA RegisterNests == \A p \in RegisterPaths : DOMAIN p \subseteq Nat /\ Nests(p)
  BY DEF RegisterPaths, Nests, Rank, Reading, Writing, Dropping

(* runtime_status drops its first guard before it asks again.             *)
LEMMA RuntimeStatusNests == \A p \in RuntimeStatusPaths : DOMAIN p \subseteq Nat /\ Nests(p)
  BY DEF RuntimeStatusPaths, Nests, Rank, Reading, Writing, Dropping

(* list_teams locks one lock.                                             *)
LEMMA ListTeamsNests == \A p \in ListTeamsPaths : DOMAIN p \subseteq Nat /\ Nests(p)
  BY DEF ListTeamsPaths, Nests, Rank, Reading, Writing, Dropping

(* team_chat_websocket drops the auth guard first.                        *)
LEMMA TeamChatNests == \A p \in TeamChatPaths : DOMAIN p \subseteq Nat /\ Nests(p)
  BY DEF TeamChatPaths, Nests, Rank, Reading, Writing, Dropping

(* A team chat drops the teams before it looks an agent up.               *)
LEMMA TeamMessageNests == \A p \in TeamMessagePaths : DOMAIN p \subseteq Nat /\ Nests(p)
  BY DEF TeamMessagePaths, Nests, Rank, Reading, Writing, Dropping

(* assign_team_role never holds two locks.                                *)
LEMMA AssignRoleNests == \A p \in AssignRolePaths : DOMAIN p \subseteq Nat /\ Nests(p)
  BY DEF AssignRolePaths, Nests, Rank, Reading, Writing, Dropping

(* remove_team_role never holds two locks.                                *)
LEMMA RemoveRoleNests == \A p \in RemoveRolePaths : DOMAIN p \subseteq Nat /\ Nests(p)
  BY DEF RemoveRolePaths, Nests, Rank, Reading, Writing, Dropping

(* resolve_team_role drops the assignments before it reads the teams.     *)
LEMMA ResolveRoleNests == \A p \in ResolveRolePaths : DOMAIN p \subseteq Nat /\ Nests(p)
  BY DEF ResolveRolePaths, Nests, Rank, Reading, Writing, Dropping

(* The handlers that write the workflows lock one lock.                   *)
LEMMA WriteWorkflowsNests == \A p \in WriteWorkflowsPaths : DOMAIN p \subseteq Nat /\ Nests(p)
  BY DEF WriteWorkflowsPaths, Nests, Rank, Reading, Writing, Dropping

(* So do those that read them.                                            *)
LEMMA ReadWorkflowsNests == \A p \in ReadWorkflowsPaths : DOMAIN p \subseteq Nat /\ Nests(p)
  BY DEF ReadWorkflowsPaths, Nests, Rank, Reading, Writing, Dropping

(* A run of a workflow drops each guard before it asks again.             *)
LEMMA RunWorkflowNests == \A p \in RunWorkflowPaths : DOMAIN p \subseteq Nat /\ Nests(p)
  BY DEF RunWorkflowPaths, Nests, Rank, Reading, Writing, Dropping

(* discover_tailscale_ips drops its read guard before it writes.          *)
LEMMA DiscoverNests == \A p \in DiscoverPaths : DOMAIN p \subseteq Nat /\ Nests(p)
  BY DEF DiscoverPaths, Nests, Rank, Reading, Writing, Dropping

(* So does the start of the inference process.                            *)
LEMMA StartInferenceNests == \A p \in StartInferencePaths : DOMAIN p \subseteq Nat /\ Nests(p)
  BY DEF StartInferencePaths, Nests, Rank, Reading, Writing, Dropping

(* Its stop locks one lock.                                               *)
LEMMA StopInferenceNests == \A p \in StopInferencePaths : DOMAIN p \subseteq Nat /\ Nests(p)
  BY DEF StopInferencePaths, Nests, Rank, Reading, Writing, Dropping

(* The reconciler nests as create_agent does.                             *)
LEMMA SyncNests == \A p \in SyncPaths : DOMAIN p \subseteq Nat /\ Nests(p)
  BY DEF SyncPaths, Nests, Rank, Reading, Writing, Dropping

(* The handlers that may close a cycle of waiting tasks.                   *)
OutOfOrder == {"chat_websocket", "attach_volume", "detach_volume"}

(* Every path of every other handler, of the reconciler and of the spawned *)
(* tasks nests its guards in the common order.                             *)
THEOREM HandlersNestInOrder ==
    /\ \A h \in DOMAIN LockPaths \ OutOfOrder : \A p \in LockPaths[h] : Ordered(p)
    /\ \A p \in SyncPaths \cup DirectChatPaths \cup TeamMessagePaths
                  \cup RunWorkflowPaths : Ordered(p)
  <1>1. \A p : DOMAIN p \subseteq Nat /\ Nests(p) => Ordered(p)
    BY OrderedByNesting DEF Nests
  <1>2. ASSUME NEW h \in DOMAIN LockPaths \ OutOfOrder, NEW p \in LockPaths[h]
        PROVE  DOMAIN p \subseteq Nat /\ Nests(p)
    BY ReadAgentsNests, RuntimeStatusNests, ListTeamsNests, TeamChatNests,
       WriteAgentsNests, CreateAgentNests, StartAgentNests,
       DeleteAgentNests, HealthCheckNests, StreamNests, ListKeysNests, ChangeKeysNests,
       ReadVolumesNests, ChangeVolumesNests, ReadAuthNests, RegisterNests,
       AssignRoleNests, RemoveRoleNests, ResolveRoleNests, WriteWorkflowsNests,
       ReadWorkflowsNests, DiscoverNests, StartInferenceNests, StopInferenceNests
       DEF LockPaths, OutOfOrder
  <1>3. \A p \in SyncPaths \cup DirectChatPaths \cup TeamMessagePaths \cup RunWorkflowPaths :
            DOMAIN p \subseteq Nat /\ Nests(p)
    BY SyncNests, DirectChatNests, TeamMessageNests, RunWorkflowNests
  <1> QED
    BY <1>1, <1>2, <1>3

-----------------------------------------------------------------------------
(* The queues.                                                             *)

(* Leaving a queue keeps the order and the others in it.                   *)
LEMMA WithoutLeaves ==
    ASSUME NEW S, NEW s \in Seq(S), NEW t,
           \A i, j \in DOMAIN s : s[i] = s[j] => i = j
    PROVE  /\ Without(s, t) \in Seq(S)
           /\ \A j \in DOMAIN Without(s, t) :
                \E i \in DOMAIN s : Without(s, t)[j] = s[i] /\ s[i] # t
           /\ \A j, k \in DOMAIN Without(s, t) :
                Without(s, t)[j] = Without(s, t)[k] => j = k
  <1>1. CASE ~ \E i \in DOMAIN s : s[i] = t
    BY <1>1 DEF Without
  <1>2. CASE \E i \in DOMAIN s : s[i] = t
    <2> DEFINE i == CHOOSE i \in DOMAIN s : s[i] = t
               r == [j \in 1 .. Len(s) - 1 |-> IF j < i THEN s[j] ELSE s[j + 1]]
    <2>1. i \in DOMAIN s /\ s[i] = t
      BY <1>2
    <2>2. Without(s, t) = r
      BY <1>2 DEF Without
    <2> HIDE DEF i
    <2>3. Len(s) \in Nat /\ DOMAIN s = 1 .. Len(s) /\ Len(s) - 1 \in Nat
      BY <2>1
    <2>4. r \in Seq(S) /\ DOMAIN r = 1 .. Len(s) - 1
      <3>1. r \in [1 .. Len(s) - 1 -> S]
        BY <2>1, <2>3
      <3> QED
        BY <3>1, <2>3
    <2>5. \A j \in DOMAIN r : \E k \in DOMAIN s :
              /\ r[j] = s[k]
              /\ s[k] # t
              /\ k = IF j < i THEN j ELSE j + 1
      <3> SUFFICES ASSUME NEW j \in DOMAIN r
                   PROVE  LET k == IF j < i THEN j ELSE j + 1 IN
                          k \in DOMAIN s /\ r[j] = s[k] /\ s[k] # t
        OBVIOUS
      <3>1. j \in 1 .. Len(s) - 1 /\ i \in 1 .. Len(s)
        BY <2>1, <2>3, <2>4
      <3> QED
        BY <3>1, <2>1, <2>3
    <2>6. \A j, k \in DOMAIN r : r[j] = r[k] => j = k
      BY <2>1, <2>3, <2>4, <2>5
    <2> QED
      BY <2>2, <2>4, <2>5, <2>6
  <1> QED
    BY <1>1, <1>2

-----------------------------------------------------------------------------
(* Types.                                                                  *)

(* The part of TypeOK about the queues.                                    *)
QueuesOK ==
    \A l \in Locks : \A i \in DOMAIN queue[l] :
        /\ AtStep(queue[l][i])
        /\ Current(queue[l][i]).op # "drop"
        /\ Current(queue[l][i]).lock = l
        /\ \A j \in DOMAIN queue[l] : queue[l][j] = queue[l][i] => i = j

(* A step keeps QueuesOK if the tasks it leaves queued do not move.        *)
LEMMA QueuesKept ==
    ASSUME QueuesOK,
           \A l \in Locks : \A i \in DOMAIN queue'[l] :
               /\ \E j \in DOMAIN queue[l] : queue[l][j] = queue'[l][i]
               /\ path'[queue'[l][i]] = path[queue'[l][i]]
               /\ pc'[queue'[l][i]] = pc[queue'[l][i]],
           \A l \in Locks : \A i, j \in DOMAIN queue'[l] :
               queue'[l][i] = queue'[l][j] => i = j
    PROVE  QueuesOK'
  <1> SUFFICES ASSUME NEW l \in Locks, NEW i \in DOMAIN queue'[l]
               PROVE  /\ AtStep(queue[l][i])'
                      /\ (Current(queue[l][i]).op # "drop")'
                      /\ (Current(queue[l][i]).lock = l)'
    BY DEF QueuesOK
  <1>1. PICK j \in DOMAIN queue[l] : queue[l][j] = queue'[l][i]
    OBVIOUS
  <1>2. /\ AtStep(queue[l][j])
        /\ Current(queue[l][j]).op # "drop"
        /\ Current(queue[l][j]).lock = l
    BY DEF QueuesOK
  <1> QED
    BY <1>1, <1>2 DEF AtStep, Current

(* Every task stays in its types, and waits at most once and only for the  *)
(* lock its current step acquires.                                         *)
LEMMA TypeOKInductive == TypeOK /\ [Next]_vars => TypeOK'
  <1> SUFFICES ASSUME TypeOK, [Next]_vars PROVE TypeOK'
    OBVIOUS
  <1> DEFINE Paths == {<<>>} \cup UNION {Serves(t) : t \in Tasks}
  <1>0. /\ path \in [Tasks -> Paths]
        /\ pc \in [Tasks -> Nat \ {0}]
        /\ queue \in [Locks -> Seq(Tasks)]
        /\ \A t \in Tasks : ~Busy(t) => pc[t] = 1
        /\ QueuesOK
    BY DEF TypeOK, QueuesOK
  <1>i. \A l \in Locks : \A i, j \in DOMAIN queue[l] : queue[l][i] = queue[l][j] => i = j
    BY <1>0 DEF QueuesOK
  <1>q. (/\ path \in [Tasks -> Paths]
         /\ pc \in [Tasks -> Nat \ {0}]
         /\ queue \in [Locks -> Seq(Tasks)]
         /\ \A t \in Tasks : ~Busy(t) => pc[t] = 1
         /\ QueuesOK)' => TypeOK'
    BY DEF TypeOK, QueuesOK
  <1> HIDE DEF Paths
  <1>1. ASSUME NEW t \in Tasks, Arrive(t) PROVE TypeOK'
    <2>1. PICK p \in Serves(t) : path' = [path EXCEPT ![t] = p]
      BY <1>1 DEF Arrive
    <2>2. ~Busy(t) /\ pc' = pc /\ queue' = queue /\ p \in Paths
      BY <1>1 DEF Arrive, Paths
    <2>3. \A l \in Locks : \A i \in DOMAIN queue[l] : queue[l][i] # t
      BY <2>2, <1>0 DEF QueuesOK, Busy, AtStep
    <2>4. QueuesOK'
      BY <2>1, <2>2, <2>3, <1>0, <1>i, QueuesKept
    <2> QED
      BY <2>1, <2>2, <2>4, <1>0, <1>q DEF Busy
  <1>2. ASSUME NEW t \in Tasks, Ask(t) PROVE TypeOK'
    <2> DEFINE c == Current(t).lock
    <2>1. /\ AtStep(t) /\ Current(t).op # "drop" /\ ~Waiting(t)
          /\ queue' = [queue EXCEPT ![c] = Append(@, t)]
          /\ path' = path /\ pc' = pc
      BY <1>2 DEF Ask
    <2>2. queue' \in [Locks -> Seq(Tasks)]
      <3>1. \A l \in Locks : queue[l] \in Seq(Tasks) /\ Append(queue[l], t) \in Seq(Tasks)
        BY <1>0
      <3>2. c \in Locks => queue' \in [Locks -> Seq(Tasks)]
        BY <2>1, <3>1, <1>0
      <3>3. c \notin Locks => queue' = queue
        BY <2>1, <1>0
      <3> QED
        BY <3>2, <3>3, <1>0
    <2>3. \A u : AtStep(u)' = AtStep(u) /\ Current(u)' = Current(u)
      BY <2>1 DEF AtStep, Current
    <2>4. ASSUME NEW l \in Locks, NEW i \in DOMAIN queue'[l]
          PROVE  /\ AtStep(queue'[l][i])
                 /\ Current(queue'[l][i]).op # "drop"
                 /\ Current(queue'[l][i]).lock = l
                 /\ \A j \in DOMAIN queue'[l] : queue'[l][j] = queue'[l][i] => i = j
      <3>1. CASE l # c
        BY <3>1, <2>1, <2>4, <1>0 DEF QueuesOK
      <3>2. CASE l = c
        <4>1. queue'[l] = Append(queue[l], t) /\ queue[l] \in Seq(Tasks)
          BY <3>2, <2>1, <1>0
        <4>2. /\ DOMAIN queue'[l] = 1 .. Len(queue[l]) + 1
              /\ Len(queue[l]) \in Nat
              /\ \A j \in 1 .. Len(queue[l]) :
                    j \in DOMAIN queue[l] /\ queue'[l][j] = queue[l][j]
              /\ queue'[l][Len(queue[l]) + 1] = t
          BY <4>1
        <4>3. \A j \in 1 .. Len(queue[l]) : queue'[l][j] # t
          BY <4>2, <2>1 DEF Waiting
        <4>4. CASE i \in 1 .. Len(queue[l])
          <5>1. /\ AtStep(queue[l][i])
                /\ Current(queue[l][i]).op # "drop"
                /\ Current(queue[l][i]).lock = l
                /\ \A j \in DOMAIN queue[l] : queue[l][j] = queue[l][i] => i = j
            BY <4>2, <4>4, <1>0 DEF QueuesOK
          <5>2. ASSUME NEW j \in DOMAIN queue'[l], queue'[l][j] = queue'[l][i]
                PROVE  i = j
            <6>1. j # Len(queue[l]) + 1
              BY <4>2, <4>3, <4>4, <5>2
            <6> QED
              BY <4>2, <4>4, <5>1, <5>2, <6>1
          <5> QED
            BY <4>2, <4>4, <5>1, <5>2
        <4>5. CASE i = Len(queue[l]) + 1
          BY <4>2, <4>3, <4>5, <3>2, <2>1
        <4> QED
          BY <4>2, <4>4, <4>5, <2>4
      <3> QED
        BY <3>1, <3>2
    <2>5. QueuesOK'
      BY <2>3, <2>4 DEF QueuesOK
    <2> QED
      BY <2>1, <2>2, <2>5, <1>0, <1>q DEF Busy
  <1>3. ASSUME NEW l \in Locks, Grant(l) PROVE TypeOK'
    <2>1. PICK i \in DOMAIN queue[l] :
             /\ pc' = [pc EXCEPT ![queue[l][i]] = @ + 1]
             /\ queue' = [queue EXCEPT ![l] = Without(@, queue[l][i])]
             /\ path' = path
      BY <1>3 DEF Grant
    <2> DEFINE t == queue[l][i]
    <2>2. t \in Tasks /\ queue[l] \in Seq(Tasks)
      BY <1>0
    <2>3. /\ Without(queue[l], t) \in Seq(Tasks)
          /\ \A j \in DOMAIN Without(queue[l], t) :
                \E k \in DOMAIN queue[l] :
                    Without(queue[l], t)[j] = queue[l][k] /\ queue[l][k] # t
          /\ \A j, k \in DOMAIN Without(queue[l], t) :
                Without(queue[l], t)[j] = Without(queue[l], t)[k] => j = k
      BY <2>2, <1>i, WithoutLeaves
    <2>4. \A m \in Locks : m # l => \A j \in DOMAIN queue[m] : queue[m][j] # t
      BY <1>0 DEF QueuesOK
    <2>5. \A m \in Locks : m # l => queue'[m] = queue[m]
      BY <2>1, <1>0
    <2>6. queue'[l] = Without(queue[l], t)
      BY <2>1, <1>0
    <2>7. ASSUME NEW m \in Locks, NEW j \in DOMAIN queue'[m]
          PROVE  queue'[m][j] # t /\ \E k \in DOMAIN queue[m] : queue[m][k] = queue'[m][j]
      BY <2>3, <2>4, <2>5, <2>6, <2>7
    <2>8. \A m \in Locks : \A j, k \in DOMAIN queue'[m] :
              queue'[m][j] = queue'[m][k] => j = k
      BY <2>3, <2>5, <2>6, <1>i
    <2>t. AtStep(t)
      BY <1>0 DEF QueuesOK
    <2> HIDE DEF t
    <2>9. \A u : u # t => pc'[u] = pc[u]
      BY <2>1, <1>0 DEF t
    <2>10. QueuesOK'
      BY <2>1, <2>7, <2>8, <2>9, <1>0, QueuesKept
    <2>11. Busy(t)
      BY <2>t DEF AtStep, Busy
    <2>12. pc' \in [Tasks -> Nat \ {0}]
      BY <2>1, <2>2, <1>0 DEF t
    <2>13. queue' \in [Locks -> Seq(Tasks)]
      BY <2>1, <2>3, <1>0 DEF t
    <2>14. \A u \in Tasks : ~Busy(u)' => pc'[u] = 1
      BY <2>1, <2>9, <2>11, <1>0 DEF Busy
    <2> QED
      BY <2>1, <2>10, <2>12, <2>13, <2>14, <1>0, <1>q
  <1>4. ASSUME NEW t \in Tasks, DropGuard(t) PROVE TypeOK'
    <2>1. \A l \in Locks : \A i \in DOMAIN queue[l] : queue[l][i] # t
      BY <1>4, <1>0 DEF DropGuard, QueuesOK
    <2>2. /\ AtStep(t) /\ pc' = [pc EXCEPT ![t] = @ + 1]
          /\ path' = path /\ queue' = queue
      BY <1>4 DEF DropGuard
    <2>3. QueuesOK'
      BY <2>1, <2>2, <1>0, <1>i, QueuesKept
    <2>4. Busy(t)
      BY <2>2 DEF AtStep, Busy
    <2> QED
      BY <2>2, <2>3, <2>4, <1>0, <1>q DEF Busy
  <1>5. ASSUME NEW t \in Tasks, Return(t) PROVE TypeOK'
    <2>1. \A l \in Locks : \A i \in DOMAIN queue[l] : queue[l][i] # t
      BY <1>5, <1>0 DEF Return, QueuesOK
    <2>2. /\ path' = [path EXCEPT ![t] = <<>>] /\ pc' = [pc EXCEPT ![t] = 1]
          /\ queue' = queue
      BY <1>5 DEF Return, Ended
    <2>3. QueuesOK'
      BY <2>1, <2>2, <1>0, <1>i, QueuesKept
    <2>4. <<>> \in Paths
      BY DEF Paths
    <2> QED
      BY <2>2, <2>3, <2>4, <1>0, <1>q DEF Busy
  <1>6. ASSUME NEW t \in Tasks, HangUp(t) PROVE TypeOK'
    <2>1. /\ path' = [path EXCEPT ![t] = <<>>] /\ pc' = [pc EXCEPT ![t] = 1]
          /\ queue' = [l \in Locks |-> Without(queue[l], t)]
      BY <1>6 DEF HangUp, Ended
    <2>2. ASSUME NEW l \in Locks
          PROVE  /\ Without(queue[l], t) \in Seq(Tasks)
                 /\ \A j \in DOMAIN Without(queue[l], t) :
                      \E k \in DOMAIN queue[l] :
                         Without(queue[l], t)[j] = queue[l][k] /\ queue[l][k] # t
                 /\ \A j, k \in DOMAIN Without(queue[l], t) :
                      Without(queue[l], t)[j] = Without(queue[l], t)[k] => j = k
      <3>1. queue[l] \in Seq(Tasks)
        BY <1>0
      <3> QED
        BY <3>1, <1>i, WithoutLeaves
    <2>3. queue' \in [Locks -> Seq(Tasks)] /\ \A l \in Locks : queue'[l] = Without(queue[l], t)
      BY <2>1, <2>2
    <2>4. QueuesOK'
      <3>1. \A l \in Locks : \A i \in DOMAIN queue'[l] :
                queue'[l][i] # t /\ \E k \in DOMAIN queue[l] : queue[l][k] = queue'[l][i]
        BY <2>2, <2>3
      <3>2. \A u : u # t => pc'[u] = pc[u] /\ path'[u] = path[u]
        BY <2>1, <1>0
      <3>3. \A l \in Locks : \A i, j \in DOMAIN queue'[l] :
                queue'[l][i] = queue'[l][j] => i = j
        BY <2>2, <2>3
      <3> QED
        BY <3>1, <3>2, <3>3, <1>0, QueuesKept
    <2>5. <<>> \in Paths
      BY DEF Paths
    <2> QED
      BY <2>1, <2>3, <2>4, <2>5, <1>0, <1>q DEF Busy
  <1>7. CASE UNCHANGED vars
    <2>1. path' = path /\ pc' = pc /\ queue' = queue
      BY <1>7 DEF vars
    <2>2. QueuesOK'
      BY <2>1, <1>0, <1>i, QueuesKept
    <2> QED
      BY <2>1, <2>2, <1>0, <1>q DEF Busy
  <1> QED
    BY <1>1, <1>2, <1>3, <1>4, <1>5, <1>6, <1>7 DEF Next, TaskStep

(* In every behaviour of the handlers a task waits at most once, and only  *)
(* for the lock its current step acquires.                                 *)
THEOREM LocksTyped == Spec => []TypeOK
  <1>1. Init => TypeOK
    BY DEF Init, TypeOK, Busy
  <1> QED
    BY <1>1, TypeOKInductive, PTL DEF Spec

-----------------------------------------------------------------------------
(* Deadlock.                                                               *)

(* Some natural of a set is the least.                                     *)
LEMMA LeastPlace ==
    ASSUME NEW T \in SUBSET Nat, T # {}
    PROVE  \E x \in T : \A y \in T : x <= y
  <1>1. PICK x \in T : \A y \in T : ~(<<y, x>> \in OpToRel(<, Nat))
    BY NatLessThanWellFounded, WFMin, Zenon
  <1>2. \A y \in T : ~(y < x)
    BY <1>1 DEF OpToRel
  <1> QED
    BY <1>2

(* Whatever a task follows, unless a client called an unordered handler,   *)
(* is an ordered path.                                                     *)
LEMMA FollowsOrdered ==
    ASSUME TypeOK, Active \cap OutOfOrder = {}, NEW t \in Tasks, Busy(t)
    PROVE  Ordered(path[t])
  <1>1. PICK u \in Tasks : path[t] \in Serves(u)
    BY DEF TypeOK, Busy
  <1>2. \A h \in Active : h \in DOMAIN LockPaths \ OutOfOrder
    BY ActiveAreHandlers
  <1> QED
    BY <1>1, <1>2, HandlersNestInOrder DEF Serves

(* If every task nests its guards in the common order, then of a group of  *)
(* tasks that wait, one waits for nobody in the group: the first in the    *)
(* queue for a lock that nobody in the group holds.                        *)
LEMMA OrderedCannotDeadlock ==
    ASSUME TypeOK, Active \cap OutOfOrder = {}
    PROVE  NoDeadlock
  <1> SUFFICES ASSUME NEW S \in SUBSET Tasks, S # {},
                      \A t \in S : \E l \in Locks : \E i \in DOMAIN queue[l] :
                          queue[l][i] = t /\ Blockers(l, i) \cap S # {}
               PROVE  FALSE
    BY DEF NoDeadlock
  <1> DEFINE Places(l) == {i \in DOMAIN queue[l] : queue[l][i] \in S}
  <1>0. queue \in [Locks -> Seq(Tasks)] /\ QueuesOK
    BY DEF TypeOK, QueuesOK
  <1>1. \A l \in Locks : DOMAIN queue[l] \subseteq Nat
    <2> SUFFICES ASSUME NEW l \in Locks PROVE DOMAIN queue[l] \subseteq Nat
      OBVIOUS
    <2>1. queue[l] \in Seq(Tasks)
      BY <1>0
    <2> QED
      BY <2>1
  <1>2. ASSUME NEW l \in Locks, Places(l) # {}
        PROVE  \E m \in Locks : Places(m) # {} /\ Rank(l) < Rank(m)
    <2>1. PICK i \in Places(l) : \A j \in Places(l) : i <= j
      <3>1. Places(l) \in SUBSET Nat
        BY <1>1
      <3> QED
        BY <3>1, <1>2, LeastPlace
    <2>2. queue[l][i] \in S /\ i \in DOMAIN queue[l]
      BY <2>1
    <2>3. PICK m \in Locks : \E j \in DOMAIN queue[m] :
             queue[m][j] = queue[l][i] /\ Blockers(m, j) \cap S # {}
      BY <2>2
    <2>4. PICK j \in DOMAIN queue[m] :
             queue[m][j] = queue[l][i] /\ Blockers(m, j) \cap S # {}
      BY <2>3
    <2>n. m = l /\ j = i
      <3>1. /\ Current(queue[l][i]).lock = l
            /\ \A k \in DOMAIN queue[l] : queue[l][k] = queue[l][i] => i = k
        BY <2>2, <1>0 DEF QueuesOK
      <3>2. Current(queue[m][j]).lock = m
        BY <2>4, <1>0 DEF QueuesOK
      <3> QED
        BY <2>4, <3>1, <3>2
    <2>5. PICK v \in S : v \in Blockers(l, i)
      BY <2>4, <2>n
    <2>6. ~ \E k \in 1 .. i - 1 : v = queue[l][k]
      <3> SUFFICES ASSUME NEW k \in 1 .. i - 1, v = queue[l][k] PROVE FALSE
        OBVIOUS
      <3>1. queue[l] \in Seq(Tasks)
        BY <1>0
      <3>2. k \in DOMAIN queue[l] /\ k < i /\ i \in Nat /\ k \in Nat
        BY <2>2, <3>1
      <3> QED
        BY <3>2, <2>1, <2>5
    <2>7. Blocks(v, Current(queue[l][i]))
      BY <2>5, <2>6 DEF Blockers
    <2>8. Current(queue[l][i]).lock = l
      BY <2>2, <1>0 DEF QueuesOK
    <2>9. Holds(v, Writing(l)) \/ Holds(v, Reading(l))
      BY <2>7, <2>8 DEF Blocks
    <2>10. PICK n \in Locks : \E k \in DOMAIN queue[n] : queue[n][k] = v
      OBVIOUS
    <2>11. AtStep(v) /\ Current(v).op # "drop" /\ Current(v).lock = n
      <3>1. PICK k \in DOMAIN queue[n] : queue[n][k] = v
        BY <2>10
      <3>2. /\ AtStep(queue[n][k])
            /\ Current(queue[n][k]).op # "drop"
            /\ Current(queue[n][k]).lock = n
        BY <3>1, <1>0 DEF QueuesOK
      <3> QED
        BY <3>1, <3>2
    <2>12. Ordered(path[v])
      BY <2>11, FollowsOrdered DEF AtStep, Busy
    <2>13. Rank(l) < Rank(n)
      BY <2>9, <2>11, <2>12 DEF Ordered, Holds, AtStep, Current
    <2> QED
      BY <2>10, <2>13
  <1>3. PICK l \in Locks : Places(l) # {}
    <2>1. PICK t \in S : TRUE
      OBVIOUS
    <2> QED
      BY <2>1
  <1> HIDE DEF Places
  <1>4. PICK m \in Locks : Places(m) # {} /\ Rank(l) < Rank(m)
    BY <1>2, <1>3
  <1>5. PICK n \in Locks : Rank(m) < Rank(n)
    BY <1>2, <1>4
  <1> QED
    BY <1>4, <1>5 DEF Rank

(* No group of tasks of the orchestrator ever waits for each other, for    *)
(* any number of connections and spawned tasks, if no client opens an      *)
(* agent's chat or attaches or detaches a volume.                          *)
THEOREM DeadlockFree ==
    ASSUME Active \cap OutOfOrder = {}
    PROVE  Spec => []NoDeadlock
  <1>1. TypeOK => NoDeadlock
    BY OrderedCannotDeadlock
  <1> QED
    BY <1>1, LocksTyped, PTL

-----------------------------------------------------------------------------
(* The guards are those of readers-writer locks.                           *)

(* What passing step k changes in the guards held.                         *)
LEMMA HoldsAfterStep ==
    ASSUME NEW p, NEW k \in Nat \ {0}, NEW s
    PROVE  HoldsAt(p, k + 1, s)
              <=> p[k] = s \/ (HoldsAt(p, k, s) /\ p[k] # Dropping(s.lock))
  <1>1. ASSUME HoldsAt(p, k + 1, s)
        PROVE  p[k] = s \/ (HoldsAt(p, k, s) /\ p[k] # Dropping(s.lock))
    <2>1. PICK a \in 1 .. k : p[a] = s /\ \A d \in a + 1 .. k : p[d] # Dropping(s.lock)
      BY <1>1 DEF HoldsAt
    <2>2. CASE a = k
      BY <2>1, <2>2
    <2>3. CASE a # k
      <3>1. a \in 1 .. k - 1 /\ k \in a + 1 .. k
        BY <2>3
      <3>2. \A d \in a + 1 .. k - 1 : d \in a + 1 .. k
        OBVIOUS
      <3> QED
        BY <2>1, <3>1, <3>2 DEF HoldsAt
    <2> QED
      BY <2>2, <2>3
  <1>2. ASSUME p[k] = s PROVE HoldsAt(p, k + 1, s)
    <2>1. k \in 1 .. (k + 1) - 1 /\ \A d \in k + 1 .. (k + 1) - 1 : FALSE
      OBVIOUS
    <2> QED
      BY <1>2, <2>1 DEF HoldsAt
  <1>3. ASSUME HoldsAt(p, k, s), p[k] # Dropping(s.lock) PROVE HoldsAt(p, k + 1, s)
    <2>1. PICK a \in 1 .. k - 1 : p[a] = s /\ \A d \in a + 1 .. k - 1 : p[d] # Dropping(s.lock)
      BY <1>3 DEF HoldsAt
    <2>2. a \in 1 .. (k + 1) - 1
      OBVIOUS
    <2>3. \A d \in a + 1 .. (k + 1) - 1 : d \in a + 1 .. k - 1 \/ d = k
      OBVIOUS
    <2> QED
      BY <1>3, <2>1, <2>2, <2>3 DEF HoldsAt
  <1> QED
    BY <1>1, <1>2, <1>3

(* Nothing is held before the first step.                                  *)
LEMMA NothingHeldAtFirst ==
    ASSUME NEW p, NEW s
    PROVE  ~HoldsAt(p, 1, s)
  BY DEF HoldsAt

(* A step that takes no guard and touches those of one task at most is a   *)
(* Release.                                                                *)
LEMMA ReleaseStep ==
    ASSUME NEW t \in Tasks,
           \A l \in Locks : \A s \in {Reading(l), Writing(l)} :
               /\ \A u \in Tasks \ {t} : Holds(u, s)' <=> Holds(u, s)
               /\ Holds(t, s)' => Holds(t, s)
    PROVE  AppState!Next
  <1>1. AppState!TypeOK'
    BY DEF AppState!TypeOK
  <1>2. AppState!Release(t)
    <2> SUFFICES ASSUME NEW l \in Locks
                 PROVE  /\ {u \in Tasks : Holds(u, Reading(l))'}
                             \in {{u \in Tasks : Holds(u, Reading(l))},
                                  {u \in Tasks : Holds(u, Reading(l))} \ {t}}
                        /\ {u \in Tasks : Holds(u, Writing(l))'}
                             \in {{u \in Tasks : Holds(u, Writing(l))},
                                  {u \in Tasks : Holds(u, Writing(l))} \ {t}}
      BY DEF AppState!Release
    <2> QED
      OBVIOUS
  <1> QED
    BY <1>1, <1>2 DEF AppState!Next

(* Each step of the handlers is a step of the readers-writer locks.        *)
LEMMA StepsRefine == TypeOK /\ [Next]_vars => AppState!Next
  <1> SUFFICES ASSUME TypeOK, [Next]_vars PROVE AppState!Next
    OBVIOUS
  <1>0. /\ path \in [Tasks -> {<<>>} \cup UNION {Serves(t) : t \in Tasks}]
        /\ pc \in [Tasks -> Nat \ {0}]
        /\ queue \in [Locks -> Seq(Tasks)]
        /\ \A t \in Tasks : ~Busy(t) => pc[t] = 1
        /\ QueuesOK
    BY DEF TypeOK, QueuesOK
  <1>s. \A u, s : path'[u] = path[u] /\ pc'[u] = pc[u] => (Holds(u, s)' <=> Holds(u, s))
    BY DEF Holds
  <1>f. \A u, s : pc'[u] = 1 => ~Holds(u, s)'
    BY NothingHeldAtFirst DEF Holds
  <1>1. ASSUME NEW t \in Tasks, Arrive(t) PROVE AppState!Next
    <2>1. pc'[t] = 1 /\ \A u \in Tasks \ {t} : path'[u] = path[u] /\ pc'[u] = pc[u]
      BY <1>1, <1>0 DEF Arrive
    <2> QED
      BY <2>1, <1>s, <1>f, ReleaseStep
  <1>2. ASSUME NEW t \in Tasks, Ask(t) PROVE AppState!Next
    <2>1. path' = path /\ pc' = pc
      BY <1>2 DEF Ask
    <2> QED
      BY <2>1, <1>s, ReleaseStep
  <1>3. ASSUME NEW l \in Locks, Grant(l) PROVE AppState!Next
    <2>1. PICK i \in DOMAIN queue[l] :
             /\ Grantable(l, i)
             /\ pc' = [pc EXCEPT ![queue[l][i]] = @ + 1]
             /\ path' = path
      BY <1>3 DEF Grant
    <2>2. PICK t \in Tasks : t = queue[l][i]
      BY <1>0
    <2> DEFINE c == Current(t)
               k == pc[t]
    <2>3. c.op # "drop" /\ c.lock = l /\ \A u \in Tasks : ~Blocks(u, c)
      <3>1. Current(queue[l][i]).op # "drop" /\ Current(queue[l][i]).lock = l
        BY <1>0 DEF QueuesOK
      <3> QED
        BY <3>1, <2>1, <2>2 DEF Grantable
    <2>4. \A u \in Tasks \ {t} : \A s : Holds(u, s)' <=> Holds(u, s)
      <3>1. \A u \in Tasks \ {t} : path'[u] = path[u] /\ pc'[u] = pc[u]
        BY <2>1, <2>2, <1>0
      <3> QED
        BY <3>1, <1>s
    <2>5. \A s : Holds(t, s)' <=> c = s \/ (Holds(t, s) /\ c # Dropping(s.lock))
      <3>1. pc'[t] = k + 1 /\ k \in Nat \ {0} /\ path'[t] = path[t]
        BY <2>1, <2>2, <1>0
      <3> QED
        BY <3>1, HoldsAfterStep DEF Holds, Current
    <2>6. \A s : c # Dropping(s.lock)
      BY <2>3 DEF Dropping
    <2>7. \A u \in Tasks : ~Holds(u, Writing(l))
      BY <2>3 DEF Blocks
    <2> HIDE DEF c
    <2>8. \A m \in Locks : m # l => c # Reading(m) /\ c # Writing(m)
      BY <2>3 DEF Reading, Writing
    <2>9. CASE c = Reading(l)
      <3>1. c # Writing(l)
        BY <2>9 DEF Reading, Writing
      <3>2. \A m \in Locks : \A u \in Tasks :
               /\ Holds(u, Reading(m))' <=> Holds(u, Reading(m)) \/ (m = l /\ u = t)
               /\ Holds(u, Writing(m))' <=> Holds(u, Writing(m))
        BY <2>4, <2>5, <2>6, <2>8, <2>9, <3>1
      <3>3. AppState!Acquire(t, l)
        <4>1. {u \in Tasks : Holds(u, Writing(l))} = {}
          BY <2>7
        <4>2. {u \in Tasks : Holds(u, Writing(l))'} = {}
          BY <2>7, <3>2
        <4>3. {u \in Tasks : Holds(u, Reading(l))'}
                 = {u \in Tasks : Holds(u, Reading(l))} \cup {t}
          BY <3>2
        <4>4. \A m \in Locks \ {l} :
                 /\ {u \in Tasks : Holds(u, Reading(m))'} = {u \in Tasks : Holds(u, Reading(m))}
                 /\ {u \in Tasks : Holds(u, Writing(m))'} = {u \in Tasks : Holds(u, Writing(m))}
          BY <3>2
        <4> QED
          BY <4>1, <4>2, <4>3, <4>4 DEF AppState!Acquire
      <3>4. AppState!TypeOK'
        BY DEF AppState!TypeOK
      <3> QED
        BY <3>3, <3>4 DEF AppState!Next
    <2>10. CASE c = Writing(l)
      <3>1. c # Reading(l)
        BY <2>10 DEF Reading, Writing
      <3>2. c.op = "write"
        BY <2>10 DEF Writing
      <3>3. \A u \in Tasks : ~Holds(u, Reading(l))
        BY <2>3, <3>2 DEF Blocks
      <3>4. \A m \in Locks : \A u \in Tasks :
               /\ Holds(u, Reading(m))' <=> Holds(u, Reading(m))
               /\ Holds(u, Writing(m))' <=> Holds(u, Writing(m)) \/ (m = l /\ u = t)
        BY <2>4, <2>5, <2>6, <2>8, <2>10, <3>1
      <3>5. AppState!Acquire(t, l)
        <4>1. {u \in Tasks : Holds(u, Writing(l))} = {} /\ {u \in Tasks : Holds(u, Reading(l))} = {}
          BY <2>7, <3>3
        <4>2. {u \in Tasks : Holds(u, Reading(l))'} = {}
          BY <3>3, <3>4
        <4>3. {u \in Tasks : Holds(u, Writing(l))'} = {t}
          BY <2>7, <3>4
        <4>4. \A m \in Locks \ {l} :
                 /\ {u \in Tasks : Holds(u, Reading(m))'} = {u \in Tasks : Holds(u, Reading(m))}
                 /\ {u \in Tasks : Holds(u, Writing(m))'} = {u \in Tasks : Holds(u, Writing(m))}
          BY <3>4
        <4> QED
          BY <4>1, <4>2, <4>3, <4>4 DEF AppState!Acquire
      <3>6. AppState!TypeOK'
        BY DEF AppState!TypeOK
      <3> QED
        BY <3>5, <3>6 DEF AppState!Next
    <2>11. CASE c # Reading(l) /\ c # Writing(l)
      <3>1. \A m \in Locks : c # Reading(m) /\ c # Writing(m)
        BY <2>8, <2>11
      <3> QED
        BY <3>1, <2>4, <2>5, ReleaseStep
    <2> QED
      BY <2>9, <2>10, <2>11
  <1>4. ASSUME NEW t \in Tasks, DropGuard(t) PROVE AppState!Next
    <2>1. /\ pc'[t] = pc[t] + 1 /\ pc[t] \in Nat \ {0} /\ path'[t] = path[t]
          /\ \A u \in Tasks \ {t} : path'[u] = path[u] /\ pc'[u] = pc[u]
      BY <1>4, <1>0 DEF DropGuard
    <2>2. \A l : path[t][pc[t]] # Reading(l) /\ path[t][pc[t]] # Writing(l)
      BY <1>4 DEF DropGuard, Current, Reading, Writing
    <2>3. \A l \in Locks : \A s \in {Reading(l), Writing(l)} : Holds(t, s)' => Holds(t, s)
      BY <2>1, <2>2, HoldsAfterStep DEF Holds
    <2> QED
      BY <2>1, <2>3, <1>s, ReleaseStep
  <1>5. ASSUME NEW t \in Tasks, Ended(t) PROVE AppState!Next
    <2>1. pc'[t] = 1 /\ \A u \in Tasks \ {t} : path'[u] = path[u] /\ pc'[u] = pc[u]
      BY <1>5, <1>0 DEF Ended
    <2> QED
      BY <2>1, <1>s, <1>f, ReleaseStep
  <1>6. CASE UNCHANGED vars
    <2>1. path' = path /\ pc' = pc /\ Reconciler \in Tasks
      BY <1>6 DEF vars, Tasks
    <2> QED
      BY <2>1, <1>s, ReleaseStep
  <1> QED
    BY <1>1, <1>2, <1>3, <1>4, <1>5, <1>6 DEF Next, TaskStep, Return, HangUp

(* The suspended handlers hold their guards as readers-writer locks allow, *)
(* for any number of connections, whatever the clients call and whenever   *)
(* they hang up.                                                           *)
THEOREM GuardsRefine == Spec => GuardsExclude
  <1>1. Init => AppState!Init
    BY NothingHeldAtFirst DEF Init, AppState!Init, Holds
  <1>2. TypeOK /\ [Next]_vars => [AppState!Next]_AppState!vars
    BY StepsRefine
  <1> QED
    BY <1>1, <1>2, LocksTyped, PTL DEF Spec, GuardsExclude, AppState!Spec

=============================================================================
