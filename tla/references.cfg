SPECIFICATION Spec
CONSTANTS
    Names = {n1}
    VolumeIds = {v1, v2}
    VolumeNames = {"x", "y"}
    HostPath = host
    Targets = {"/work"}
    Roles = {r1}
    Users = {u1}
    Handlers = {h1, h2}
    NoProc = nobody
    Ops = {"create", "delete", "start", "attach", "detach", "assignRole", "removeRole", "grant", "revoke", "chat", "volumes"}
    Faults = {"runtime", "disk", "exit", "hangup", "crash"}
    MaxIds = 3
    MaxRequests = 4
    MaxFaults = 3
INVARIANTS
    TypeOK
    GrantsStayWithAgent
    VolumesSurviveRestart
    DeletedStaysDeleted
SYMMETRY Symmetry
CHECK_DEADLOCK FALSE
