CONSTANTS
    Connects = {k1}
    Closes = {x1}
    Hooks = {}
    NoConn = NoConn
    KeepAlive = TRUE
    AutoPresence = TRUE
    CanStall = FALSE
    MaxTicks = 1
SPECIFICATION Spec
INVARIANTS CloseClosesTransport
CHECK_DEADLOCK FALSE
