CONSTANTS
    NumVats = 2
    MaxObjects = 3
    MaxPromises = 3
    MaxRequests = 2
    MaxSyscalls = 2
    MaxRefused = 1
    BarePromises = FALSE
    NoOne = NoOne
SPECIFICATION Spec
INVARIANTS
    CountsMatchHolders
    OwnersAreTold
    ExportsHaveOwners
    EveryPromiseHasADecider
PROPERTIES
    SettlementsStand
    OnlySettledResultsKill
CHECK_DEADLOCK FALSE
