SPECIFICATION Spec
CONSTANTS
    Callers = {c1, c2}
    HashThreads = {h1, h2}
    NSlots = 1
    Datasets = {d1, d2}
    None = None
    Scrap = Scrap
    Error = Error
    Paced = FALSE
    MaxPend = 2
INVARIANTS
    PoolTypeOK
    RightDataset
    ReadyMeansBuilt
    SettledSlotIsReady
PROPERTIES
    KeepsPromise
    UsesFifo
