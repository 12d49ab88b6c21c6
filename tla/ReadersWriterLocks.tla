------------------------- MODULE ReadersWriterLocks -------------------------
(***************************************************************************)
(* What the orchestrator's code takes for granted of the RwLocks in        *)
(* AppState: each is held by any number of readers or by one writer, a     *)
(* step takes one guard of one task or gives back guards of one task (all  *)
(* of them when the task ends or its client hangs up).  Who is served      *)
(* first is left open here.                                                *)
(***************************************************************************)
CONSTANTS Tasks, Locks

VARIABLES
    readers,    \* readers[l]: the tasks with a read guard of l
    writers     \* writers[l]: the tasks with a write guard of l

vars == <<readers, writers>>

TypeOK ==
    /\ readers \in [Locks -> SUBSET Tasks]
    /\ writers \in [Locks -> SUBSET Tasks]

Init ==
    /\ readers = [l \in Locks |-> {}]
    /\ writers = [l \in Locks |-> {}]

Acquire(t, l) ==
    /\ writers[l] = {}
    /\ \/ /\ readers'[l] = readers[l] \cup {t}
          /\ writers'[l] = {}
       \/ /\ readers[l] = {}
          /\ readers'[l] = {}
          /\ writers'[l] = {t}
    /\ \A m \in Locks \ {l} : readers'[m] = readers[m] /\ writers'[m] = writers[m]

Release(t) ==
    \A l \in Locks :
        /\ readers'[l] \in {readers[l], readers[l] \ {t}}
        /\ writers'[l] \in {writers[l], writers[l] \ {t}}

Next ==
    /\ TypeOK'
    /\ \E t \in Tasks : Release(t) \/ \E l \in Locks : Acquire(t, l)

Spec == Init /\ [][Next]_vars
=============================================================================
