CONSTANTS
    k1 = k1
    k2 = k2
    k3 = k3
    k4 = k4
    a = a
    b = b
    c = c
    d = d
    t1 = t1
    t2 = t2
    None = None
    Keys = {k1, k2}
    Contents = {a, b}
    KeyOf <- TwoKeys
    Threads = {t1, t2}
    MaxEntries = 1
    Ttls = {1}
    MaxTime = 2
    TickSize = 1
    MaxStale = 2
    Durable = FALSE
    Contention = FALSE
    RetryAttempts = 1
    SpillOn = TRUE
    SpillFaults = TRUE
    ImportRows <- OneRow
    MayRestart = TRUE
SPECIFICATION Spec
SYMMETRY Symmetric
INVARIANTS
    PromiseKept
PROPERTIES
    GoneStaysGone
