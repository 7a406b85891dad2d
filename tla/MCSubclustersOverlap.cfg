CONSTANTS
    NumMembers = 2
    MaxVats = 4
    MaxSubclusters = 2
    MaxFaults = 0
    MaxEvents = 0
    Overlapping = TRUE
SPECIFICATION Spec
INVARIANT EveryVatHasASubcluster
CHECK_DEADLOCK FALSE
