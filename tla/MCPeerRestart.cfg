CONSTANTS
    MaxIncarnations = 3
    MaxSeq = 1
    MaxArrivals = 1
    MaxMade = 1
    MaxTaken = 2
    MaxCrashes = 1
    NoArrival = NoArrival
    NoSend = NoSend
SPECIFICATION FairSpec
INVARIANTS
    NothingTakenEarly
    TakenOnceInOrder
    WatermarkIsSessions
    OneCrankPerRestart
PROPERTIES
    GivenForTheSession RestartsAreRecorded
CHECK_DEADLOCK FALSE
