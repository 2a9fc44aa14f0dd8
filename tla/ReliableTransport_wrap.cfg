\* The number of the second message has wrapped.
CONSTANTS
    N = 2
    Quota <- ThreeOneWay
    AckLimit = 1
    WireModulus = 2
    MaxLoss = 0
    MaxDup = 0
    MaxOutOfOrder = 2
SPECIFICATION FairSpec
PROPERTY AllDelivered
CHECK_DEADLOCK FALSE
