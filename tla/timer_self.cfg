SPECIFICATION FairSpec
CONSTANTS
    Clients = {c1}
    Timers = {t1}
    Initial = {1}
    Spare = {2}
    MaxTime = 6
    MaxCalls = 5
    ClientOps = {"start"}
    HandlerOps = {"start", "delete"}
    None = None
INVARIANTS DestroyedQuiet
PROPERTY TimersFire
CHECK_DEADLOCK FALSE
