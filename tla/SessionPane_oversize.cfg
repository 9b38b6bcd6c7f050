SPECIFICATION Spec
CONSTANTS
    s1 = s1
    s2 = s2
    c1 = c1
    c2 = c2
    NoSize = NoSize
    NoConn = NoConn
    Size = {s1}
    RingCap = 3
    MaxSegments = 4
    Conn = {c1}
    InitialSize = s1
    Replay = TRUE
    RingInput = FALSE
    Events = {}
    Text = {"plain"}
    MaxFrame = 2
    BatchCap = 2
    WireCap = 1
    MaxOut = 3
    ClientMoves = {"READ", "CLOSE"}
    MaxRequest = 0
INVARIANTS
    ReplayFitsFrame
SYMMETRY Symmetry
CHECK_DEADLOCK FALSE
