SPECIFICATION FairSpec
CONSTANTS
    Firings = {f1}
    Requests = {q1}
    Ticks = {t1, t2}
    NumSteps = 2
    MaxRetries <- NoRetries
    MaxAttempts = 1
    MaxFaults = 1
    MayDelete = TRUE
INVARIANTS
    ExecutionTypeOK
    RowsAndJobsAgree
    CompletedRunsCount
PROPERTIES
    RunLogImplemented
    RunSettles
CHECK_DEADLOCK FALSE
