SPECIFICATION Spec
CONSTANTS
    s1 = s1
    s2 = s2
    c1 = c1
    c2 = c2
    NoSize = NoSize
    NoConn = NoConn
    Size = {s1, s2}
    RingCap = 2
    MaxSegments = 4
    Conn = {c1, c2}
    InitialSize = s1
    Replay = TRUE
    RingInput = TRUE
    Events = {"hide"}
    Text = {"plain", "pasteOn"}
    MaxFrame = 2
    BatchCap = 2
    WireCap = 2
    MaxOut = 1
    ClientMoves = {"INPUT", "RESIZE"}
    MaxRequest = 2
INVARIANTS
    BytesKeepGeometry
    RungBeforeTyped
    ReplayFitsFrame
    
    
SYMMETRY Symmetry
CHECK_DEADLOCK FALSE
