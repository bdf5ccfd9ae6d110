SPECIFICATION Spec
CONSTANTS
    Calls = {h1, h2, h3}
    Startup = startup
    Crons = {daily, weekly, bad}
    ValidCrons = {daily, weekly}
    MaxReplies = 2
    MaxDbErrors = 1
    MaxCrashes = 1
    MayCascade = TRUE
SYMMETRY CallSymmetry
INVARIANTS
    TypeOK
    MappedTaskRuns
    EveryTaskIsMapped
    TasksMatchRow
CHECK_DEADLOCK FALSE
