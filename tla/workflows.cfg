CONSTANTS
    WorkflowIds = {w1}
    StepIds = {s1, s2, s3}
    Executions = {e1, e2}
    MaxSteps = 3
SPECIFICATION FairSpec
INVARIANTS TypeOK RefusedIffNotRunnable LevelsInOrder CompletedRanAll NoTaskLeftBehind
PROPERTIES EndedStays ExecutionsEnd
CHECK_DEADLOCK FALSE
