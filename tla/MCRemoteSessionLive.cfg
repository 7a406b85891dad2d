CONSTANTS
    MaxPending = 2
    MaxRetries = 1
    MaxMade = 2
    MaxFaults = 0
    MidCrankSends = FALSE
    DiesMidWrite = FALSE
    NoDelivery = NoDelivery
    Seqs <- MCSeqs
    Msgs <- MCMsgs
    MaxArrivals = 2
    NoArrival = NoArrival
SPECIFICATION FairSessionSpec
PROPERTY EverythingDelivered
CHECK_DEADLOCK FALSE
