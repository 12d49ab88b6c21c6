SPECIFICATION Spec
CONSTANTS
    Names = {n1, n2}
    Runtimes = {"docker"}
    Handlers = {h1, h2}
    Reconciler = sync
    NoProc = nobody
    BasePort = 1
    LastPort = 2
    FallbackPort = 2
    Ops = {"create", "delete", "start"}
    Faults = {"prune", "hangup", "crash", "disk"}
    MaxContainers = 2
    MaxRequests = 3
    MaxFaults = 2
INVARIANTS
    TypeOK
    ContainerIdsUnique
    ChatResolvesContainerId
    TargetStays
SYMMETRY Symmetry
