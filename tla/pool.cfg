SPECIFICATION FairSpec
CONSTANTS
    Workers = {w1, w2}
    Plain = {p1, p2}
    Synced = {s1, s2}
    ShutdownBody = {p2}
    ThrowBody = {p1}
    NoTask = NoTask
INVARIANTS TypeOK BusyMatches OneHolder JoinedHasRun NotPremature
PROPERTIES NoEffectAfterShutdown TasksRun ShutdownEnds
CHECK_DEADLOCK FALSE
