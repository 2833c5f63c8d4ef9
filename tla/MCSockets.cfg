SPECIFICATION Spec
CONSTANTS
    Local = {l1}
    Outside = {a1, a2, a3}
    RoutingPeers = {a1}
    SEND_LIMIT = 2
    RECV_LIMIT = 1
    LOCAL_TICKS = 1
    REMOTE_TICKS = 2
    Constrained = FALSE
INVARIANTS TypeOK SendLimited KeepaliveEvery
PROPERTIES SilentForgotten
CHECK_DEADLOCK FALSE
