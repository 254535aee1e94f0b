CONSTANTS
    Connects = {k1, k2}
    Closes = {x1, x2}
    Hooks = {x2}
    NoConn = NoConn
    KeepAlive = TRUE
    AutoPresence = TRUE
    CanStall = TRUE
    MaxTicks = 1
SPECIFICATION FairSpec
INVARIANTS ConnectedIsLive FailedConnectClean EndsOnce
PROPERTIES CloseReturns SessionWindsDown
CHECK_DEADLOCK FALSE
