SPECIFICATION ClientFairSpec
CONSTANTS
    Grid = {g1}
    NoGrid = NoGrid
    MaxEnds = 1
    MaxFrames = 1
    MaxLayouts = 1
    MaxBacklog = 1
PROPERTIES
    PaneComesBack
CHECK_DEADLOCK FALSE
