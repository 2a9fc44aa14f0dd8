CONSTANTS
    Worker = {1, 2}
    QueueCount = 2
    MaxIdle = 1
    Waiting <- OneObject
    MaxInserts = 2
    MaxSpurious = 0
SPECIFICATION Spec
INVARIANT NoPrematureCompletion
CHECK_DEADLOCK FALSE
