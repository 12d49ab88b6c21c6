SPECIFICATION Spec
CONSTANTS
    Names = {n1, n2}
    Runtimes = {"docker"}
    Handlers = {h1, h2}
    Reconciler = sync
    NoProc = nobody
    BasePort = 1
    LastPort = 2
    FallbackPort = 2
    Ops = {"create"}
    Faults = {}
    MaxContainers = 2
    MaxRequests = 2
    MaxFaults = 0
INVARIANTS
    PortsDistinct
