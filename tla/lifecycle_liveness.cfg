SPECIFICATION FairSpec
CONSTANTS
    Names = {n1, n2}
    Runtimes = {"docker"}
    Handlers = {h1}
    Reconciler = sync
    NoProc = nobody
    BasePort = 1
    LastPort = 2
    FallbackPort = 2
    Ops = {"create", "import", "update", "delete", "start", "stop", "startAll", "stopAll", "tailscale"}
    Faults = {"exit", "listing", "crash"}
    MaxContainers = 2
    MaxRequests = 3
    MaxFaults = 1
PROPERTIES
    RunningIsNoticed
    ExitIsNoticed
