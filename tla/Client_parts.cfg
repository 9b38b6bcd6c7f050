SPECIFICATION MCClientSpec
CONSTANTS
    p1 = p1
    p2 = p2
    g1 = g1
    g2 = g2
    u1 = u1
    u2 = u2
    u3 = u3
    Budget = 1
    Grant = 1
    MaxGrants = 1
    MaxFollowUps = 1
    MaxEdits = 1
    MaxOut = 3
    Procs = {p1, p2}
    NoProc = NoProc
    PingMayOutlast = TRUE
    MaxRequests = 2
    MaxLosses = 2
    MaxPings = 1
    Grid = {g1, g2}
    NoGrid = NoGrid
    MaxEnds = 1
    MaxFrames = 2
    MaxLayouts = 2
    MaxBacklog = 1
    Caller = {u1, u2, u3}
    Programs = {"open", "remove"}
    Timeouts = {}
    Faults = {}
    MaxPanes = 4
INVARIANTS
    MCClientTypeOK
    NeverTwice
    OneTurnAtATime
    BudgetAccounted
    OneForward
    VerdictPerUpgrade
    FedInOrder
    
    GeometryAgrees
PROPERTIES
    
    TaskAnswers
    HealthyForwardKept
    StopHolds
    LinkComesUp
    
    OpenSucceeds
    RemovedEnds
CHECK_DEADLOCK FALSE
