SPECIFICATION Safe
CONSTANTS
    Callers = {c1}
    HashThreads = {h1}
    NSlots = 2
    Datasets = {d1, d2, d3}
    None = None
    Scrap = Scrap
    Error = Error
    Paced = FALSE
    MaxPend = 1
INVARIANTS
    ReadyMeansBuilt
