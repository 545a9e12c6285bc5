SPECIFICATION Spec
CONSTANTS
    Places = {p1, p2}
    Word = 16
    FixDiff = 4
    Window = 1
    MaxCalls = 1
    MaxJobs = 2
    MaxClients = 2
    MaxLines = 3
SYMMETRY Symmetry
CHECK_DEADLOCK FALSE
INVARIANTS
    TypeOK
    CreditIsForTheJobSent
    DistinctWork
    JudgedByWorth
    CallsAreLimited
    OnlyTheFastSlowDown
