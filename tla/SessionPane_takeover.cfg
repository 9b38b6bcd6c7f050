SPECIFICATION Spec
CONSTANTS
    s1 = s1
    s2 = s2
    c1 = c1
    c2 = c2
    NoSize = NoSize
    NoConn = NoConn
    Size = {s1}
    RingCap = 2
    MaxSegments = 4
    Conn = {c1, c2}
    InitialSize = s1
    Replay = TRUE
    RingInput = FALSE
    Events = {}
    Text = {"plain"}
    MaxFrame = 2
    BatchCap = 2
    WireCap = 1
    MaxOut = 2
    ClientMoves = {"READ", "CLOSE"}
    MaxRequest = 0
INVARIANTS
    TypeOK
    StreamIntact
    NewestStaysSubscribed
    OutputContiguous
PROPERTIES
    ImplementsPaneStream
SYMMETRY Symmetry
CHECK_DEADLOCK FALSE
