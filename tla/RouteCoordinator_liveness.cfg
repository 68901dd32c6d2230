CONSTANTS
    VIPs = {v1, v2}
    Addresses = {a1}
    NoVIP = NoVIP
    NoAddress = NoAddress
    RouterMayFail = FALSE
SPECIFICATION FairSpec
PROPERTIES LostRouteHeals NoBlackHole
