CONSTANTS
    N = 3
    Routes <- RingRoutes
    InitialStatus = {"ACTIVE"}
    MaxEvents = 1
SPECIFICATION Spec
INVARIANTS
    NoPrematureCompletion
    OneDetection
CHECK_DEADLOCK FALSE
