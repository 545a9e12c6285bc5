SPECIFICATION Safe
CONSTANTS
    s1 = s1
    p1 = p1
    None = None
    Sockets = {s1}
    Pools = {p1}
    PoolSizes = {1}
    MaxJobs = 2
    MaxLines = 1
    HangupMasks = {"in"}
    SigpipeIgnored = TRUE
CHECK_DEADLOCK FALSE
PROPERTY
    ErasedPoolsAreEmpty
