SPECIFICATION ServerFairSpec
CONSTANTS
    MaxCid = 2
    MaxDefer = 0
    IntBound = 8
    Fd = {3, 4}
    Ncap = 2
    MaxTime = 0
    MaxCalls = 1
    ListenFd = 3
    Kinds = {"send_all"}
    Lens = {2}
    TxCap = 1
    MaxRx = 0
    MaxPeers = 1
PROPERTIES
    SendersProgress
CHECK_DEADLOCK FALSE
