CONSTANTS
    N = 2
    MaxCheckpoint = 2
    MaxFaults = 3
    MaxEvents = 2
    StateAtCollect = {1}
SPECIFICATION FairSpec
INVARIANTS
    TypeOK
    NoOldEvents
PROPERTIES
    CommonCheckpoint
    PurgesOnlyOld
    RecoveryEnds
CHECK_DEADLOCK FALSE
