SPECIFICATION Spec
CONSTANTS
    Runners = {r1, r2, r3}
    Clients = {}
    NumSteps = 2
    MaxRetries <- RetryFirstStep
    MaxCrashes = 0
    MaxDbErrors = 0
    MaxResets = 0
    MayDelete = FALSE
INVARIANT LockIsExclusive
