CONSTANTS
    m1 = m1
    s1 = s1
    w1 = w1
    r1 = r1
    r2 = r2
    t1 = t1
    c1 = c1
    e1 = e1
    NoOne = NoOne
    Callers = {m1, s1, e1}
    Kind <- MCKind
    MaxArrivals = 1
    MaxCrashes = 1
    StoreMayFail = TRUE
SPECIFICATION FairSpec
INVARIANTS
    OneFate
PROPERTY EveryoneIsTold
CHECK_DEADLOCK FALSE
