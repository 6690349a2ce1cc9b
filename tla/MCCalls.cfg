CONSTANTS
    Servers = {s1, s2}
    Workers = {w1, w2}
    Hashes = {p, q, nb}
    Tops = {p}
    Files = {q}
    Asked = {p, nb}
    Nested <- MCNested
    MaxMishaps = 1
    Threads = {w1, w2}
    Requests <- MCRequests
    CallTexts = {ta, tb, tv}
    Bulky = {ta, tb}
    Small = {tv}
    Dumps = {}
    Code = {}
    Volatile = {tv}
    RowsOf <- MCRowsOf
    MinShared = 2
    MaxSources = 1
    Threshold = 2
    Cooldown = 1
    MaxTime = 1
    MaxFaults = 2
    Contents <- MCContents
    MaxLines = 4
    ProseMin = 1
    Triggers = 9
    Documents <- MCDocuments
    Filters <- MCFilters
    Fields = {fa, fb}
    Order <- MCOrder
    MaxDistinct = 2
    TopValues = 2
    SampleRows = 2
    HeadLines = 1
    TailLines = 1
    ErrorLines = 1
    Budget = 2
    LastTime = 5
    Sessions <- MCSessions
    s1 = s1
    s2 = s2
    w1 = w1
    w2 = w2
    p = p
    q = q
    nb = nb
    ta = ta
    tb = tb
    tv = tv
    path = path
    fa = fa
    fb = fb
    None = None
SPECIFICATION Spec
SYMMETRY Symmetric
CHECK_DEADLOCK FALSE
INVARIANTS
    ErasedStaysGone
    NestedResolves
    Recoverable
    PointersGrounded
    SectionsCover
    ResultSound
    ViewsHold
    BudgetTransparent
    OutputOnce
    HookAccounts
PROPERTIES
    OpensOnStreak
    MovedBreakpointWarned
