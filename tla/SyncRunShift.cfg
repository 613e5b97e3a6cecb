CONSTANTS
    Entries = {e1, e2, e3}
    InGraph = {e1, e2}
    PageSize = 1
    MaxRetries = 1
    MaxRuns = 2
SPECIFICATION RunSpec
PROPERTIES SweepSparesHeld
CHECK_DEADLOCK FALSE
