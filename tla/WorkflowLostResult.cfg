SPECIFICATION Spec
CONSTANTS
    Runners = {r1}
    Clients = {c1}
    NumSteps = 2
    MaxRetries <- RetryFirstStep
    MaxCrashes = 0
    MaxDbErrors = 0
    MaxResets = 0
    MayDelete = FALSE
INVARIANT InputsComplete
