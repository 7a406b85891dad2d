CONSTANTS
    MaxPending = 2
    MaxRetries = 1
    MaxMade = 2
    MaxFaults = 2
    MidCrankSends = FALSE
    DiesMidWrite = TRUE
    NoDelivery = NoDelivery
    Seqs <- MCSeqs
    Msgs <- MCMsgs
    MaxArrivals = 1
    NoArrival = NoArrival
SPECIFICATION SessionSpec
INVARIANTS
    TakenInMadeOrder
    RetiredIsReceipted
CHECK_DEADLOCK FALSE
