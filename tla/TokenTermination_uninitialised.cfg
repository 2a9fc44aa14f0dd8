CONSTANTS
    N = 2
    Routes <- AllRoutes
    InitialStatus = {"IDLE", "ACTIVE"}
    MaxEvents = 1
SPECIFICATION Spec
INVARIANTS
    NoPrematureCompletion
CHECK_DEADLOCK FALSE
