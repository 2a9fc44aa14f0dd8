CONSTANTS
    Worker = {1, 2}
    Object = {0, 1, 2}
    QueueCount = 1
    StatePeriod = 0
    MaxId = 9
    App <- Stale
    Initial <- StartStale
    Inbox <- NoMessages
SPECIFICATION Spec
INVARIANT StateIsProcessed
CHECK_DEADLOCK FALSE
