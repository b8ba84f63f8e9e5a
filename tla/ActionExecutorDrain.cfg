SPECIFICATION Spec
CONSTANTS
    Execution = {e1, e2}
    NoID = NoID
    Enabled = TRUE
    MaxConcurrent = 2
    MaxRequests = 1
INVARIANT ShutdownDrains
CHECK_DEADLOCK FALSE
