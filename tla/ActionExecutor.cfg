SPECIFICATION FairSpec
CONSTANTS
    Execution = {e1, e2, e3}
    NoID = NoID
    Enabled = TRUE
    MaxConcurrent = 2
    MaxRequests = 3
INVARIANTS SlotsExact ShutdownCancelsAll TimeoutReported
PROPERTY AllSettle
CHECK_DEADLOCK FALSE
