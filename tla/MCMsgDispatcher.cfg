CONSTANTS
    Dispatchers = {d1, d2}
    Receivers = {r1, r2}
    Events = {e1}
    MaxConnections = 3
    MaxDepth = 2
SPECIFICATION Spec
CHECK_DEADLOCK FALSE
INVARIANTS NoDeadReceiver
