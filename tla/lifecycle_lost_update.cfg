SPECIFICATION Spec
CONSTANTS
    Names = {n1, n2}
    Runtimes = {"direct"}
    Handlers = {h1, h2}
    Reconciler = sync
    NoProc = nobody
    BasePort = 1
    LastPort = 2
    FallbackPort = 2
    Ops = {"create"}
    Faults = {}
    MaxContainers = 1
    MaxRequests = 2
    MaxFaults = 0
INVARIANTS
    ListedAgentsSurviveRestart
