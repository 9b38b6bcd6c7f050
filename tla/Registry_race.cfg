SPECIFICATION RegistrySpec
CONSTANTS
    Caller = {g1, g2}
    Programs = {"open"}
    Timeouts = {}
    Faults = {}
    MaxPanes = 2
INVARIANTS
    OneLiveProcess
CHECK_DEADLOCK FALSE
