CONSTANTS
    Clients = {c1, c2}
    Spawned = {s1}
    Reconciler = reconciler
    Active <- MCOrdered
SPECIFICATION FairSpec
INVARIANTS TypeOK NoDeadlock
PROPERTIES GuardsExclude EveryRequestEnds
