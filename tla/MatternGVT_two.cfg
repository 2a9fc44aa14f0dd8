CONSTANTS
    N = 2
    MaxTime = 3
    GVTPeriod = 1
    MaxInTransit = 2
    Starters = {0, 1}
    Routes <- AllRoutes
SPECIFICATION FairSpec
INVARIANTS
    TypeOK
    WhiteAccounting
PROPERTIES
    ImplementsGVT
    EstimationEnds
CHECK_DEADLOCK FALSE
