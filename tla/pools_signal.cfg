SPECIFICATION Safe
CONSTANTS
    s1 = s1
    p1 = p1
    None = None
    Sockets = {s1}
    Pools = {p1}
    PoolSizes = {2}
    MaxJobs = 3
    MaxLines = 1
    HangupMasks = {"in"}
    SigpipeIgnored = TRUE
CHECK_DEADLOCK FALSE
INVARIANT
    LateSignalsAreHarmless
