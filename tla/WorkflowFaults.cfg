SPECIFICATION Spec
CONSTANTS
    Runners = {r1, r2}
    Clients = {c1}
    NumSteps = 2
    MaxRetries <- RetryFirstStep
    MaxCrashes = 1
    MaxDbErrors = 1
    MaxResets = 1
    MayDelete = TRUE
SYMMETRY RunnerSymmetry
INVARIANTS
    TypeOK
    LockProtects
    NoStepSkipped
    CompletedOnlyWhenPerformed
    RetriesBounded
    LockHasWorker
PROPERTIES
    CursorMovesUnderLock
CHECK_DEADLOCK FALSE
