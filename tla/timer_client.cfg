SPECIFICATION Spec
CONSTANTS
    Clients = {c1, c2}
    Timers = {t1, t2}
    Initial = {1}
    Spare = {2}
    MaxTime = 6
    MaxCalls = 3
    ClientOps = {"start", "stop", "delete"}
    HandlerOps = {}
    None = None
INVARIANTS TypeOK OneState OneServer DestroyedQuiet NoEventLost
CHECK_DEADLOCK FALSE
