\* Two communicators: three messages one way, explicit acknowledgements back.
CONSTANTS
    N = 2
    Quota <- ThreeOneWay
    AckLimit = 1
    WireModulus = 8
    MaxLoss = 1
    MaxDup = 1
    MaxOutOfOrder = 2
SPECIFICATION FairSpec
INVARIANTS
    TypeOK
PROPERTIES
    ImplementsFifo
    AllDelivered
CHECK_DEADLOCK FALSE
