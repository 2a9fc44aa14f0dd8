CONSTANTS
    Object = {1, 2}
    Event <- Events
    End = End
SPECIFICATION Spec
INVARIANTS
    TypeOK
    IndexExact
    PeekIsLowest
    HintValid
    ProcessedSorted
    OnePlace
CHECK_DEADLOCK FALSE
