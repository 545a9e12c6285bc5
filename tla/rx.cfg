SPECIFICATION Spec
CONSTANTS
    Callers = {c1}
    HashThreads = {h1}
    NSlots = 2
    Datasets = {d1, d2, d3}
    None = None
    Scrap = Scrap
    Error = Error
    Paced = TRUE
    MaxPend = 1
INVARIANTS
    TypeOK
    RightDataset
    NoSpuriousError
    JobsBelongToWaiters
PROPERTIES
    KeepsPromise
    LoadsInTurn
    EveryLoadCompletes
