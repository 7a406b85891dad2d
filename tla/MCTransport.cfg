CONSTANTS
    Senders = {s1}
    Loops = {l1, l2}
    Channels = {c1, c2}
    MaxAttempts = 1
    Threshold = 1
    Restarts = {r1}
    MaxTurns = 2
    NoChannel = NoChannel
    NoRestart = NoRestart
SPECIFICATION FairSpec
INVARIANTS
    LossIsPursued
    RegisteredIsLive
    FailedIsLeftAlone
PROPERTIES
    ReconnectingEnds
CHECK_DEADLOCK FALSE
