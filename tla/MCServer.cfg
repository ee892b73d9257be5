SPECIFICATION ServerSpec
CONSTANTS
    MaxCid = 3
    MaxDefer = 0
    IntBound = 8
    Fd = {3, 4}
    Ncap = 2
    MaxTime = 0
    MaxCalls = 1
    ListenFd = 3
    Kinds = {"recv", "recv_all", "send", "send_all"}
    Lens = {1, 2}
    TxCap = 1
    MaxRx = 3
    MaxPeers = 2
INVARIANTS
    RecvIntact
    SendIntact
    ShortMeansEnd
    AtMostOneLate
CHECK_DEADLOCK FALSE
