CONSTANTS
    Worker = {1, 2}
    Object = {0, 1, 2}
    QueueCount = 1
    StatePeriod = 0
    MaxId = 9
    App <- Cross
    Initial <- StartCross
    Inbox <- NoMessages
SPECIFICATION Spec
INVARIANT NoOrphan
CHECK_DEADLOCK FALSE
