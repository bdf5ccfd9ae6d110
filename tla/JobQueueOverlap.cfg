SPECIFICATION FairSpec
CONSTANTS
    NumJobs = 3
    Tasks = {k1, k2}
    ScheduledTasks = {k1}
    Ticks = {t1, t2}
    MaxAttempts = 1
    MaxDbErrors = 1
    MaxCrashes = 1
INVARIANTS
    TypeOK
    StartedInOrder
    AttemptsCounted
    CompletedWasExecuted
    LogNotAbandoned
PROPERTIES
    RunningNotTaken
    EveryJobStarts
CHECK_DEADLOCK FALSE
