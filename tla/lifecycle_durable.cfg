SPECIFICATION Spec
CONSTANTS
    Names = {n1, n2}
    Runtimes = {"docker", "exo", "direct"}
    Handlers = {h1}
    Reconciler = sync
    NoProc = nobody
    BasePort = 1
    LastPort = 2
    FallbackPort = 2
    Ops = {"create", "update", "delete", "start", "stop", "tailscale"}
    Faults = {"exit", "hangup", "crash", "disk"}
    MaxContainers = 2
    MaxRequests = 3
    MaxFaults = 2
INVARIANTS
    ListedAgentsSurviveRestart
    StoredAgentsAreListed
SYMMETRY Symmetry
