CONSTANTS
    Object = {o1, o2}
    EventTime = {2, 4, 5, 7, 10}
    Period = 3
    ActiveHistory = 2
    MaxRollbacks = 2
SPECIFICATION Spec
INVARIANTS
    CheckpointIsCurrent
CHECK_DEADLOCK FALSE
