SPECIFICATION DaemonSpec
CONSTANTS
    s1 = s1
    s2 = s2
    esc = esc
    num = num
    high = high
    low = low
    g1 = g1
    g2 = g2
    j1 = j1
    Symbol = {esc, num, high, low}
    On <- PasteOn
    Off <- PasteOff
    MaxFeed = 4
    MaxStream = 8
    NoSize = NoSize
    Size = {s1, s2}
    RingCap = 4
    MaxSegments = 3
    DequeCap = 8
    InitialSize = s1
    MaxChunk = 5
    MaxBytes = 9
    ScanWindow = 2
    Caller = {g1, g2}
    Programs = {"open", "respawn", "remove"}
    Timeouts = {"attach", "spawn"}
    Faults = {"exit", "hide", "fail"}
    MaxPanes = 3
    Job = {j1}
    Approvals = 2
    SameMs = FALSE
    MaxReports = 4
INVARIANTS
    DaemonTypeOK
    RingHoldsTail
    GeometryKept
    ChunkingIsInvisible
    PaneRingAgrees
    ModeIsLastSwitch
    RespawnIsFresh
    SpawnedIsRegistered
    StateSettles
PROPERTIES
    NeverBackwards
SYMMETRY Symmetry
CHECK_DEADLOCK FALSE
