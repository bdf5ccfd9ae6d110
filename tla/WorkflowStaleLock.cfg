SPECIFICATION FairSpec
CONSTANTS
    Runners = {r1}
    Clients = {}
    NumSteps = 2
    MaxRetries <- RetryFirstStep
    MaxCrashes = 1
    MaxDbErrors = 0
    MaxResets = 0
    MayDelete = FALSE
PROPERTY StaleLockTakenOver
CHECK_DEADLOCK FALSE
