SPECIFICATION Spec
CONSTANTS
    s1 = s1
    p1 = p1
    None = None
    Sockets = {s1}
    Pools = {p1}
    PoolSizes = {2}
    MaxJobs = 3
    MaxLines = 2
    HangupMasks = {"in", "hup"}
    SigpipeIgnored = FALSE
CHECK_DEADLOCK FALSE
INVARIANT
    TypeOK
PROPERTIES
    MinersHearOfJobs
    HungupIsRemoved
