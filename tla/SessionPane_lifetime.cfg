SPECIFICATION FairSpec
CONSTANTS
    s1 = s1
    s2 = s2
    c1 = c1
    c2 = c2
    NoSize = NoSize
    NoConn = NoConn
    Size = {s1, s2}
    RingCap = 2
    MaxSegments = 4
    Conn = {c1}
    InitialSize = s1
    Replay = TRUE
    RingInput = FALSE
    Events = {"exit", "kill"}
    Text = {"plain"}
    MaxFrame = 2
    BatchCap = 2
    WireCap = 1
    MaxOut = 1
    ClientMoves = {"INPUT", "RESIZE", "DETACH", "KILL", "READ", "CLOSE"}
    MaxRequest = 1
PROPERTIES
    
    
    ReaderNeverStalls
CHECK_DEADLOCK FALSE
