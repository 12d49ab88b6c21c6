SPECIFICATION Spec
CONSTANTS
    p1 = p1
    p2 = p2
    p3 = p3
    h1 = h1
    h2 = h2
    Callers = {p1, p2, p3}
    Handles = {h1, h2}
    HandleOf <- MCHandleOf
    Agents = {a1, a2}
    Orgs = {o1, common}
    AllOrgs = all
    Anyone = anyone
    NoCaller = nobody
    Embeddings <- MCEmbeddings
    Unembedded = unembedded
    Priorities = {0, 1}
    Mixes = {{"memories"}, {"tasks"}, {"statuses"}}
    MaxMemories = 3
    MaxTasks = 2
    MaxTime = 1
    MaxRequests = 5
    MaxCrashes = 1
INVARIANTS
    TypeOK
    HandedOnce
    MostUrgentFirst
    SearchFindsNearest
PROPERTY
    MemoryIdsNotReused
SYMMETRY Symmetry
CHECK_DEADLOCK FALSE
