CONSTANTS
    b1 = b1
    w1 = w1
    None = None
    Backends <- MCBackends
    Workers <- MCWorkers
    Specs <- MCSpecs
    QueueSize = 1
    MaxCount = 1
    MaxUpdates = 3
    MaxRestarts = 0
SPECIFICATION Spec
INVARIANTS WakeUpPending
CONSTRAINT Running
CHECK_DEADLOCK FALSE
