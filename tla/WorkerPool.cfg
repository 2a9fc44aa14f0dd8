CONSTANTS
    Worker = {1, 2}
    QueueCount = 2
    MaxIdle = 1
    Waiting <- OneObject
    MaxInserts = 2
    MaxSpurious = 1
SPECIFICATION FairSpec
INVARIANTS
    TypeOK
PROPERTIES
    WorkIsTaken
    ShutdownEnds
CHECK_DEADLOCK FALSE
