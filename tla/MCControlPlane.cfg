SPECIFICATION SystemSpec
CONSTANTS
    VIPs <- MCVIPs
    v1 = v1
    Backends <- MCBackends
    b1 = b1
    InitialStores <- MCStores
    Tuples <- MCTuples
    VIPSpec <- MCSpecs
    IPs <- MCIPs
    Compatible <- MCCompatible
    Patches <- MCPatches
    Handlers = {h1, h2}
    None = None
    t1 = t1
    e1 = e1
    e2 = e2
    i1 = i1
    i2 = i2
    MaxRevision = 3
    MaxFaults = 1
    MaxSent = 1
INVARIANTS ExactSnapshot AppliedIsUsable
PROPERTIES StaysConsistent RevisionCatchesUp ConfigCatchesUp
CONSTRAINT Bounded
CHECK_DEADLOCK FALSE
