CONSTANTS
    Starters = {e1, e2}
    Processes = {b0, b1, b2}
    Veteran = b0
    Nobody = Nobody
    Homes = {h1, h2}
    NoHome = NoHome
    Connectors = {k1, k2}
    Refreshers = {rf1}
    MaxEpoch = 1
    MaxEnrolments = 2
    MaxConnections = 2
    ReadThreads = {rt1}
    InboxQuery = InboxQuery
    PageLimit = 2
    ResultWeight = 2
    MaxPosts = 3
    NavRooms = {nr1, nr2}
    NoRoom = NoRoom
    MaxJoins = 2
    NavMessages = {1, 2}
    MaxCached = 1
    Calls = {c1, c2}
    CommandKeys = {x, y}
    MaxTurns = 2
    HasUI = TRUE
    Forms <- MCForms
    MaxParallelTasks = 3
    MaxConcurrency = 2
    MaxAttempts = 2
    Reasons = {"stop", "error"}
    Summaries = {s1, s2}
    MaxGeneration = 2
    MaxTodoId = 3
    MaxBranch = 3
    VariantCount = 2
    MaxRetries = 1
    EvalReasons = {"stop", "error"}
    MaxEvents = 3
    MaxTries = 2
    UsageEntries = {u1, u2}
    UsageTags = {t1, t2}
    MaxFiles = 2
    MaxTasks = 2
    Askers = {ak1, ak2}
    MaxGenerations = 2
    MaxRequests = 3
    FastModels = {f1, f2}
    SlowModels = {g}
    MaxResets = 2
    MaxCommands = 1
    Reviewers = {r1, r2}
    Skills = {k}
    FilterSessions = {fs1, fs2}
    Managed = {ms1}
    Upkeepers = {up1}
    MaxVersion = 2
SPECIFICATION Spec
SYMMETRY PairsAlike
CONSTRAINT MonitorMatters
CHECK_DEADLOCK FALSE
INVARIANTS
    TypesOK
    StartupIsSound
    PagingMissesOnlyLate
    NavigationIsTrue
    AnswersAreSound
    CompactsOnce
    ReloadKeepsList
    VerdictIsDeserved
    EvidenceIsWhole
    RecordedOnceAsFirstSeen
    LimitsAreOfSession
    PriorityIsWanted
    ReportIsEarned
PROPERTIES
    LinkIsOfSession
    DecidedByOwnTurn
    CompletedIsEarned
    DisableTakesEffect
    ReviewsAreKept
