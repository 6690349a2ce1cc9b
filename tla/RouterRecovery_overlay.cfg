CONSTANTS
    c1 = c1
    c2 = c2
    h1 = h1
    h2 = h2
    h3 = h3
    t1 = t1
    t2 = t2
    s1 = s1
    None = None
    Contents = {c1, c2}
    Hashes = {h1, h2, h3}
    MarkersOf <- Markers
    Crushed = {c1}
    Borderline = {c2}
    Requests <- Mixed
    Calls = {t1, t2}
    Stores = {s1}
    StoreOf <- OneNamespace
    StoreCap = 2
    EngineCap = 2
    Ttl = 0
    TierCap = 1
    CacheTtl = 1
    SweepEvery = 1
    Contention = TRUE
    MaxTime = 1
SPECIFICATION Spec
SYMMETRY Symmetric
CHECK_DEADLOCK FALSE
INVARIANTS
    CachedIsDurable
