CONSTANTS
    k1 = k1
    k2 = k2
    k3 = k3
    p = p
    t1 = t1
    t2 = t2
    None = None
    Keys = {k1, k2, k3}
    Payloads = {k1, k2, k3, p}
    KeyOf <- OneCollision
    Threads = {t1, t2}
    Capacity = 2
    Ttl = 0
    MaxPuts = 6
    MaxTime = 1
    MaxLoad = 6
SPECIFICATION Spec
SYMMETRY Symmetric
CHECK_DEADLOCK FALSE
INVARIANTS
    QueueSound
    CompactionKeepsAll
    CapacityOverrunBound
    PromiseKept
PROPERTIES
    EvictsInOrder
