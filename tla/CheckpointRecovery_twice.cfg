CONSTANTS
    N = 2
    MaxCheckpoint = 1
    MaxFaults = 1
    MaxEvents = 0
    StateAtCollect = {0}
SPECIFICATION FairSpec
PROPERTIES
    RecoveryEnds
CHECK_DEADLOCK FALSE
