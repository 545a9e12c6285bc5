SPECIFICATION Spec
CONSTANTS
    Readers = {}
    KeepJobs = 1
    NSlots = 2
    RxEpoch = 2
    PpEpoch = 2
    MaxReorg = 1
    TemplateTimeout = 1
    FatalTimeout = 2
    MaxHeight = 2
    MaxFaults = 2
CHECK_DEADLOCK FALSE
INVARIANT
    SilenceIsNotFatal
PROPERTY
    JobsKeepComing
