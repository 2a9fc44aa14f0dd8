CONSTANTS
    Object = {o1, o2}
    EventTime = {2, 4, 8}
    Period = 3
    ActiveHistory = 2
    MaxRollbacks = 3
SPECIFICATION Spec
INVARIANTS
    TypeOK
    Restorable
PROPERTIES
    NewCheckpointIsCut
CHECK_DEADLOCK FALSE
SYMMETRY Interchangeable
