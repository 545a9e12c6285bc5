SPECIFICATION Spec
CONSTANTS
    Producers = {p1, p2, p3}
    Consumers = {c1, c2, c3}
    Nobody = Nobody
INVARIANTS
    TypeOK
    SleepersAreSpare
PROPERTY
    KeepsFifo
