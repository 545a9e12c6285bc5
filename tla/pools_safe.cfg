SPECIFICATION Safe
CONSTANTS
    s1 = s1
    s2 = s2
    p1 = p1
    p2 = p2
    None = None
    Sockets = {s1, s2}
    Pools = {p1, p2}
    PoolSizes = {1, 2}
    MaxJobs = 2
    MaxLines = 1
    HangupMasks = {"in"}
    SigpipeIgnored = FALSE
SYMMETRY Symmetry
CHECK_DEADLOCK FALSE
INVARIANTS
    Accounting
    FinishedServesNobody
    NoLostWakeup
    StaleMinersWillBeTold
PROPERTY
    RemovedForCause
