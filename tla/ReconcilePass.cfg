CONSTANTS
    a1 = a1
    a2 = a2
    b1 = b1
    None = None
    Invalid = Invalid
    Specs <- MCSpecs
    Backends <- MCBackends
    Lengths <- MCLengths
    FailClosed = FALSE
    Preserve = FALSE
    MaxFaults = 3
SPECIFICATION FairSpec
INVARIANTS TypeOK Accounted NoEmptyRoute PreviousRemoved
PROPERTY ObjectProgrammed
CHECK_DEADLOCK FALSE
