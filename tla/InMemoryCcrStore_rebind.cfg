CONSTANTS
    k1 = k1
    k2 = k2
    k3 = k3
    p = p
    t1 = t1
    t2 = t2
    None = None
    Keys = {k1, k2, k3}
    Payloads = {k1, k2, k3, p}
    KeyOf <- OneCollision
    Threads = {t1, t2}
    Capacity = 1
    Ttl = 0
    MaxPuts = 3
    MaxTime = 0
    MaxLoad = 3
SPECIFICATION Spec
SYMMETRY Symmetric
CHECK_DEADLOCK FALSE
PROPERTIES
    NoSilentRebind
