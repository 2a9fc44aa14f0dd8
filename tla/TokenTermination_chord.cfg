CONSTANTS
    N = 3
    Routes <- ChordRoutes
    InitialStatus = {"ACTIVE"}
    MaxEvents = 1
SPECIFICATION Spec
INVARIANTS
    NoPrematureCompletion
CHECK_DEADLOCK FALSE
