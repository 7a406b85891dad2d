CONSTANTS
    NumVats = 2
    MaxObjects = 3
    MaxPromises = 3
    MaxRequests = 2
    MaxSyscalls = 2
    MaxRefused = 0
    BarePromises = FALSE
    NoOne = NoOne
SPECIFICATION Spec
INVARIANTS
    RunLoopSurvives
CHECK_DEADLOCK FALSE
