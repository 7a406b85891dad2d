CONSTANTS
    MaxPending = 2
    MaxRetries = 1
    MaxMade = 3
    MaxFaults = 1
    MidCrankSends = TRUE
    NoDelivery = NoDelivery
SPECIFICATION FairSenderSpec
INVARIANTS
    NothingForgotten
    NothingSteppedOver
PROPERTIES
    FlushSendsNothingAbandoned
    EverythingSettles
CHECK_DEADLOCK FALSE
