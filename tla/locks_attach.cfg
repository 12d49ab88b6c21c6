CONSTANTS
    Clients = {c1, c2}
    Spawned = {}
    Reconciler = reconciler
    Active <- MCAttaching
SPECIFICATION Spec
INVARIANT NoDeadlock
