SPECIFICATION FairSpec
CONSTANTS
    MaxCid = 2
    MaxDefer = 0
    IntBound = 8
    Fd = {1, 2}
    Ncap = 1
    MaxTime = 2
    MaxCalls = 2
    Delays = {0, 2}
    MaxCloses = 0
PROPERTIES
    SleepersWake
    WaitersWake
CHECK_DEADLOCK FALSE
