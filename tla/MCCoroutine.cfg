SPECIFICATION CoSpec
CONSTANTS
    MaxCid = 3
    MaxDefer = 2
INVARIANTS
    CoTypeOK
    CurrentIsRunning
    OriginsFormAChain
    ControlCanReturn
    DeferredRunOnce
PROPERTIES
    DeferLIFO
\* A program may stop: every coroutine ended, or a fault.
CHECK_DEADLOCK FALSE
