CONSTANTS
    NumMembers = 2
    MaxVats = 4
    MaxSubclusters = 2
    MaxFaults = 1
    MaxEvents = 1
    Overlapping = FALSE
SPECIFICATION FairSpec
INVARIANTS
    MembershipAgrees
    StatusFindsEveryVat
    PinsBalance
    WorkersAreAccountedFor
PROPERTIES
    NamesAreServed CallsEnd
CHECK_DEADLOCK FALSE
