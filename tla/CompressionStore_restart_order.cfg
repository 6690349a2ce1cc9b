CONSTANTS
    k1 = k1
    k2 = k2
    k3 = k3
    k4 = k4
    a = a
    b = b
    c = c
    d = d
    t1 = t1
    t2 = t2
    None = None
    Keys = {k1, k2, k3}
    Contents = {k1, k2, k3}
    KeyOf <- Identity
    Threads = {t1}
    MaxEntries = 2
    Ttls = {2}
    MaxTime = 3
    TickSize = 1
    MaxStale = 3
    Durable = TRUE
    Contention = FALSE
    RetryAttempts = 1
    SpillOn = FALSE
    SpillFaults = FALSE
    ImportRows <- NoRows
    MayRestart = TRUE
SPECIFICATION Spec
SYMMETRY FullySymmetric
PROPERTIES
    EvictsOldestFirst
