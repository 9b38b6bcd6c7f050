SPECIFICATION LinkFairSpec
CONSTANTS
    Procs = {p1, p2}
    NoProc = NoProc
    PingMayOutlast = FALSE
    MaxRequests = 1
    MaxLosses = 2
    MaxPings = 1
PROPERTIES
    WedgeNoticed
CHECK_DEADLOCK FALSE
