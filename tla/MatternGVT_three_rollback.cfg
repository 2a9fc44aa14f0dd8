CONSTANTS
    N = 3
    MaxTime = 4
    GVTPeriod = 2
    MaxInTransit = 1
    Starters = {0, 1}
    Routes <- AgainstTheRing
SPECIFICATION Spec
INVARIANTS
    NoRollbackBelowGVT
CHECK_DEADLOCK FALSE
