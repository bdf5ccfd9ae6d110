SPECIFICATION FairSpec
CONSTANTS
    Runners = {r1, r2, r3}
    Clients = {}
    NumSteps = 3
    MaxRetries <- RetryFirstStep
    MaxCrashes = 0
    MaxDbErrors = 0
    MaxResets = 0
    MayDelete = FALSE
INVARIANTS
    InputsComplete
PROPERTIES
    WorkflowSettles
