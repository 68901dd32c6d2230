SPECIFICATION Spec
CONSTANTS
    LB = LB
    p1 = p1
    p2 = p2
    h1 = h1
    h2 = h2
    m1 = m1
    m2 = m2
    m3 = m3
    Listeners = {1, 2}
    Pools = {p1, p2}
    Members = {m1, m2, m3}
    Monitors = {h1, h2}
    PoolOf <- MCPoolOf
    MonitorOf <- MCMonitorOf
    ProbePort <- MCProbePort
    VIPPort = 80
    Drainable = {m2, m3}
    Unfit <- MCUnfit
    Workers = {1, 2}
    Initial <- MCInitial
    MaxAttempts = 2
    MaxCalls = 2
    MaxFaults = 1
    None = None
    Keep = Keep
    Skip = Skip
    Reject = Reject
CHECK_DEADLOCK FALSE
INVARIANTS
    TypeOK
    MirrorsOctavia
PROPERTIES
    ServesWhatIsEnabled
    Settles
