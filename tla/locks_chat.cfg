CONSTANTS
    Clients = {c1, c2}
    Spawned = {}
    Reconciler = reconciler
    Active <- MCChatting
SPECIFICATION Spec
INVARIANT NoDeadlock
