CONSTANTS
    RowKeys = {k1, k2, k3}
    Procs = {p1, p2}
    MaxRows = 1
    PurgeEvery = 2
    Ttl = 0
    MaxTime = 1
    MaxCount = 2
    MaxDrift = 1
    MaxFaults = 1
    MaxLoad = 3
    SessionWindow = 0
    LastStamp = 2
    MaxEvents = 2
    Names = {n1, n2}
    MaxTally = 2
    MaxMishaps = 1
    Tasks = {t1, t2, t3}
    Tenants = {a, b}
    MaxWorkers = 3
    MaxTenants = 1
    MaxClock = 2
    Calls = {c1, c2, c3}
    TenantOf <- MCTenantOf
    RowTtl = 1
    MaxNow = 3
    Threads = {t1, t2}
    Shapes = {a, b}
    Anonymous = a
    WindowTime = 1
    MaxPer = 2
    MaxShapes = 1
    HintMin = 1
    SkipMin = 2
    LastTime = 2
    Hosts = {1, 2, 3}
    Callers = {p1, p2}
    Ids = {"session"}
    EnvOf <- MCEnvOf
    RootOf <- MCRootOf
    Backends = {"sqlite", "plugin"}
    MaxMade = 2
    Homes <- MCHomes
    Convs = {p1, p2}
    Texts = {"x"}
    Small = {}
    Long = {}
    Errors = {}
    Pinned = {}
    Phrased = {}
    Borderline = {"x"}
    Units <- MCUnits
    Excluded = {"bash", "retrieve"}
    Retrieval = "retrieve"
    BiasOf <- MCBiasOf
    Hints = {0, 1}
    Queries = {"first", "other"}
    MinWindow = 1
    Share = 2
    AssistantText = TRUE
    MaxTurns = 2
    Askers = {c1}
    Hashes = {1, 2, 3}
    ScoreOf <- MCScoreOf
    ItemScore = 2
    MaxResults = 1
    LimitCap = 2
    Limits = {0, 1, 3}
    LastTick = 1
    MaxChanges = 3
    MaxShown = 1
    a = a
    b = b
    c1 = c1
    c2 = c2
    c3 = c3
    None = None
SPECIFICATION Spec
SYMMETRY Symmetric
CHECK_DEADLOCK FALSE
INVARIANTS
    TypeOK
    RowCounterHolds
    NoteOnce
    EventsKept
    WorkspaceHeld
    SnapshotsKept
    NamespacesHold
    AnswersTrue
PROPERTIES
    WriteIsRead
    
    CountHonest
    BlocksHold
