CONSTANTS
    Manager = {0, 1}
    Object = {1, 2, 3}
    Home <- Homes
    App <- Chatter
    Initial <- Starts
    StatePeriod = 1
    MaxTime = 4
    Estimates = {3, 5}
    MaxId = 3
SPECIFICATION FairSpec
INVARIANTS
    TypeOK
    StateIsReplay
    RestorePoint
    NoOrphan
    SequentialBelowFloor
PROPERTIES
    RespectsGVT
    Terminates
CHECK_DEADLOCK FALSE
