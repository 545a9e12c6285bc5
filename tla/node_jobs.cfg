SPECIFICATION Safe
CONSTANTS
    Readers = {r1}
    KeepJobs = 2
    NSlots = 2
    RxEpoch = 2
    PpEpoch = 2
    MaxReorg = 1
    TemplateTimeout = 0
    FatalTimeout = 1
    MaxHeight = 5
    MaxFaults = 2
CHECK_DEADLOCK FALSE
INVARIANTS
    TypeOK
    GraceWindow
    CopiesAreComplete
PROPERTY
    DatasetsOfCurrentJobStay
