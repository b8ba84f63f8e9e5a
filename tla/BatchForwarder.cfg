SPECIFICATION ForwarderFairSpec
CONSTANTS
    Sources = 2
    BatchSize = 2
    MaxPerCollect = 3
    MaxEntries = 7
    MaxFaults = 2
 
PROPERTIES  ForwarderLive
CHECK_DEADLOCK FALSE
