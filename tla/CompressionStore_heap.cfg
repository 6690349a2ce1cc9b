CONSTANTS
    k1 = k1
    k2 = k2
    k3 = k3
    k4 = k4
    a = a
    b = b
    c = c
    d = d
    t1 = t1
    t2 = t2
    None = None
    Keys = {k1, k2, k3, k4}
    Contents = {k1, k2, k3, k4}
    KeyOf <- Identity
    Threads = {t1, t2}
    MaxEntries = 3
    Ttls = {1}
    MaxTime = 2
    TickSize = 1
    MaxStale = 3
    Durable = FALSE
    Contention = FALSE
    RetryAttempts = 1
    SpillOn = FALSE
    SpillFaults = FALSE
    ImportRows <- NoRows
    MayRestart = FALSE
SPECIFICATION Spec
SYMMETRY FullySymmetric
INVARIANTS
    HeapExact
    CapacityBound
PROPERTIES
    EvictsOldestFirst
