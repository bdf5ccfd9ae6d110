SPECIFICATION Spec
CONSTANTS
    Calls = {h1, h2}
    Startup = startup
    Crons = {daily}
    ValidCrons = {daily}
    MaxReplies = 1
    MaxDbErrors = 0
    MaxCrashes = 0
    MayCascade = FALSE
INVARIANT DeletedIsStopped
CHECK_DEADLOCK FALSE
