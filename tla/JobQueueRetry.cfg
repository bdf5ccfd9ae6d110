SPECIFICATION FairSpec
CONSTANTS
    NumJobs = 2
    Tasks = {k1, k2}
    ScheduledTasks = {k1}
    Ticks = {t1, t2}
    MaxAttempts = 3
    MaxDbErrors = 0
    MaxCrashes = 0
PROPERTY FailedAttemptRetried
CHECK_DEADLOCK FALSE
