SPECIFICATION Spec
CONSTANTS
    MaxCid = 3
    MaxDefer = 0
    IntBound = 8
    Fd = {1, 2}
    Ncap = 2
    MaxTime = 2
    MaxCalls = 2
    Delays = {1, 2}
    MaxCloses = 1
INVARIANTS
    NoFault
    TimersExact
    RegistrationsExact
    BatchIntact
    EventNumExact
    ReturnedMeansQuiescent
PROPERTIES
    WokenOnTime
CHECK_DEADLOCK FALSE
