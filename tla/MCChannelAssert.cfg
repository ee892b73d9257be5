SPECIFICATION ChanSpec
CONSTANTS
    MaxCid = 2
    MaxDefer = 0
    IntBound = 8
    Fd = {}
    Ncap = 1
    MaxTime = 2
    MaxCalls = 2
    Capacity = 1
    Timeouts = {1}
    Untimed = TRUE
    Delays = {}
INVARIANTS
    ResumeAssertion
CHECK_DEADLOCK FALSE
