CONSTANTS
    k1 = k1
    k2 = k2
    k3 = k3
    k4 = k4
    a = a
    b = b
    c = c
    d = d
    t1 = t1
    t2 = t2
    None = None
    Keys = {k1, k2}
    Contents = {a, b}
    KeyOf <- TwoKeys
    Threads = {t1}
    MaxEntries = 1
    Ttls = {1}
    MaxTime = 1
    TickSize = 1
    MaxStale = 3
    Durable = TRUE
    Contention = TRUE
    RetryAttempts = 1
    SpillOn = FALSE
    SpillFaults = FALSE
    ImportRows <- NoRows
    MayRestart = FALSE
SPECIFICATION FairSpec
PROPERTIES
    StoreTerminates
