CONSTANTS
    b1 = b1
    w1 = w1
    None = None
    Backends <- MCBackends
    Workers <- MCWorkers
    Specs <- StopSpecs
    QueueSize = 1
    MaxCount = 1
    MaxUpdates = 1
    MaxRestarts = 1
SPECIFICATION FairSpec
INVARIANT NoSendOnClosed
PROPERTY StopEnds
CHECK_DEADLOCK FALSE
