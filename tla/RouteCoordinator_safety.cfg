CONSTANTS
    VIPs = {v1, v2}
    Addresses = {a1, a2}
    NoVIP = NoVIP
    NoAddress = NoAddress
    RouterMayFail = TRUE
SPECIFICATION Spec
SYMMETRY Symmetry
INVARIANTS CountedOnce Settled DrainExclusive
VIEW Bookkeeping
