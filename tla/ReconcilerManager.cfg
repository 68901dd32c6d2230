CONSTANTS
    MaxVersion = 3
    None = None
SPECIFICATION FairSpec
INVARIANTS OneWorker
PROPERTIES StaleDeleteHarmless DeletedIsRemoved Converges
CHECK_DEADLOCK FALSE
