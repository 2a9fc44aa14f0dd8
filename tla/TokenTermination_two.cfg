CONSTANTS
    N = 2
    Routes <- AllRoutes
    InitialStatus = {"ACTIVE"}
    MaxEvents = 3
SPECIFICATION FairSpec
INVARIANTS
    TypeOK
    NoPrematureCompletion
    OneDetection
PROPERTIES
    SimulationEnds
CHECK_DEADLOCK FALSE
