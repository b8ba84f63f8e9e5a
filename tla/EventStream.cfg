SPECIFICATION FairSpec
CONSTANTS
    Window = 1
    Cleanup = 1
    Transition = 2
    Fallback = 2
    Idle = 1
    MaxTime = 3
    MaxEvents = 2
    MaxReplays = 1
PROPERTIES HandledOnce EventsNeverRollBack AllReceived KeysCatchUp
CHECK_DEADLOCK FALSE
