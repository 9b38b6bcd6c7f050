SPECIFICATION RingSpec
CONSTANTS
    NoSize = NoSize
    Size = {s1, s2}
    RingCap = 4
    MaxSegments = 3
    DequeCap = 8
    InitialSize = s1
    MaxChunk = 2
    MaxBytes = 12
    ScanWindow = 2
INVARIANTS
    TailBytesAreNewest
CHECK_DEADLOCK FALSE
