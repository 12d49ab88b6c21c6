SPECIFICATION Spec
CONSTANTS
    Conns = {c1, c2}
    Kinds = {"chat", "direct", "team", "send", "proxy", "terminal"}
    ClientsOf <- MCClientsOf
    MaxSent <- MCMaxSent
    MaxEvents <- MCMaxEvents
    MaxFaults = 1
INVARIANTS
    TypeOK
    StoredIsLoaded
    HistoryBeforeDelivery
    AnswersFollowQuestions
PROPERTY
    AbandonedEnds
CHECK_DEADLOCK FALSE
