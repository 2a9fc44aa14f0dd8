CONSTANTS
    Worker = {1, 2}
    Object = {0, 1, 2}
    QueueCount = 1
    StatePeriod = 0
    MaxId = 12
    App <- Mixed
    Initial <- StartMixed
    Inbox <- Remote
SPECIFICATION FairSpec
INVARIANTS TypeOK ScheduleExact OneWorker NoEventLost
PROPERTIES Drains
CHECK_DEADLOCK FALSE
