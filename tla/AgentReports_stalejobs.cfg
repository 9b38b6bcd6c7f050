SPECIFICATION ReportsSpec
CONSTANTS
    Job = {j1}
    Approvals = 2
    SameMs = FALSE
    MaxReports = 3
INVARIANTS
    JobsSettle
CHECK_DEADLOCK FALSE
