SPECIFICATION Spec
CONSTANTS
    VIPs = {v1, v2}
    Backends = {b1}
    Tuples <- MCTuples
    VIPSpec <- MCSpecs
    t1 = t1
    t2 = t2
    IPs <- MCIPs
    Compatible <- MCCompatible
    Callers = {c1, c2}
    None = None
    e1 = e1
    e2 = e2
    i1 = i1
    i2 = i2
    MaxRequests = 3
    MaxTxSize = 2
SYMMETRY Symmetry
INVARIANT TupleFreed
CHECK_DEADLOCK FALSE
