SPECIFICATION FairSpec
CONSTANTS
    NumEmails = 2
    Retriers = {r1, r2}
    EmailMaxAttempts = 2
    EmailMaxDbErrors = 2
    EmailMaxCrashes = 1
    Completions = {c1, c2}
    NumModels = 2
    FailureThreshold = 2
    SuccessThreshold = 1
    MaxAttemptsAtModel = 2
    MaxBreakerEvents = 1
    LimitedCallers = {l1, l2, l3, l4, l5}
    MaxRequests = 2
    MaxPauses = 2
    NumTypedJobs = 2
    TypedTicks = {t1, t2}
    TypedMaxAttempts = 2
    MaxTypedErrors = 2
    MaxTypedCrashes = 1
    Ingests = {i1, i2, i3}
    NumAttachments = 2
    MaxIngestErrors = 1
    PromptNames = {"crm"}
    MaxEdits = 4
    MaxPromptCalls = 3
    MaxRetries = 2
    MaxDelay = 3
    MaxWraps = 2
    MaxTyped = 3
    MaxSubmitted = 2
    CachedRequests = {a1, a2, a3}
    MaxVersions = 2
    MaxClears = 1
INVARIANTS
    OutboundTypeOK
    EmailSentOnce
    BreakerHonest
    LimitHolds
    TypedJobsHonest
    ReportsKeptOnce
    ClientsHonest
PROPERTIES
    EmailTakenUp
CHECK_DEADLOCK FALSE
