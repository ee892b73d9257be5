SPECIFICATION Http2Spec
CONSTANTS
    Co = {c1, c2}
    NoCo = NoCo
    Receiver = c1
    Requests = {"pipelined", "bare"}
    MaxRequests = 2
    MaxWrites = 1
    MaxData = 2
    Tables = {1, 3}
    Control = {"GOAWAY"}
    MaxControl = 1
    MaxUnread = 2
    Default = 2
    Window = 2
    Room = 2
    Unreliable = TRUE
    GoesOn = FALSE
INVARIANTS
    
    ReceivedExactly
    
PROPERTIES
    ReceiverReturns
CHECK_DEADLOCK FALSE
