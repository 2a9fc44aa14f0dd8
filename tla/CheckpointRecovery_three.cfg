CONSTANTS
    N = 3
    MaxCheckpoint = 1
    MaxFaults = 1
    MaxEvents = 1
    StateAtCollect = {}
SPECIFICATION Spec
INVARIANTS
    NoOldEvents
CHECK_DEADLOCK FALSE
