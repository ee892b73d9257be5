SPECIFICATION HttpFairSpec
CONSTANTS
    Conn = {c1}
    Paths = {"/file", "/index", "/websocket", "/other"}
    Files = {"/file"}
    HttpPaths = {"/index"}
    WsPaths = {"/websocket"}
    Methods = {"GET", "POST", "PUT"}
    HeaderSets = {{}, {"upgrade", "key"}}
    UserStatus = {500}
    Split = TRUE
    Resets = TRUE
    MaxRequests = 2
    MaxFrames = 1
INVARIANTS
    RepliesExplained
    NothingAfterFinal
PROPERTIES
    ConnsReleased
CHECK_DEADLOCK FALSE
