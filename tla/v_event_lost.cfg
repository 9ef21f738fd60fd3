SPECIFICATION Spec
CONSTANTS
    Clients = {c1}
    Timers = {t1, t2}
    Initial = {1}
    Spare = {2}
    MaxTime = 6
    MaxCalls = 4
    ClientOps = {"start"}
    HandlerOps = {"delete"}
    None = None
INVARIANTS NoEventLost
CHECK_DEADLOCK FALSE
