SPECIFICATION Spec
CONSTANTS
    NumRedisClients = 2
    RedisChecks = {h1, h2}
    MaxReconnectAttempts = 1
    MaxRedisCloses = 1
    HealthNames = {"database", "email"}
    HealthCalls = {c1, c2}
    MaxHealthErrors = 1
    Instances = {m1, m2}
    Scripts = {s1, s2}
    NumMigrations = 2
    NumPolicies = 1
    MaxMigrationFaults = 1
    CredUsers = {u1, u2}
    CredNames = {n1, n2}
    NumCredentials = 2
    CredCallers = {k1, k2}
    MaxCredOps = 4
    MaxCredErrors = 1
    MaxLines = 6
    HeaderWindow = 3
    SheetColumns = 3
    SheetRows = 2
    Parses = {p1, p2}
    Hashes = {f1, f2}
    MaxRecentParses = 1
    MaxParseErrors = 1
    MaxParserResets = 1
    Requests = {q1, q2}
    AlertAfter = 2
    RateInverse = 3
    BufferLimit = 5
    SlowLimit = 1
    HistoryLimit = 2
    MaxSamples = 3
    MaxMetricResets = 1
    MaxStarts = 2
    SecurityJobs = {j1, j2}
    SecurityRuns = {o1, o2}
    AlertThreshold = 2
    MaxFailures = 2
    MaxInits = 2
INVARIANTS
    PlatformTypeOK
    RedisStatusHonest
    HealthHonest
    MigrationsHonest
    CredentialsHonest
    DocumentsHonest
    StartupHonest
CHECK_DEADLOCK FALSE
