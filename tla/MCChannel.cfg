SPECIFICATION ChanSpec
CONSTANTS
    MaxCid = 3
    MaxDefer = 0
    IntBound = 8
    Fd = {}
    Ncap = 1
    MaxTime = 1
    MaxCalls = 3
    Capacity = 1
    Timeouts = {1}
    Untimed = TRUE
    Delays = {1}
INVARIANTS
    ChanNoFault
    WaitersExact
    NoLostWakeup
    CallsPairInOrder
PROPERTIES
    ImplementsBoundedQueue
CHECK_DEADLOCK FALSE
