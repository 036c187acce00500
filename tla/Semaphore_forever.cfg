CONSTANTS
    NULL = NULL
    Task = {1, 2, 3, 4}
    TickMod = 4
    Priority <- TwoLevels
    Preemptive = TRUE
    Delays = {}
    MaxIsr = 0
    max = 2
    init_count = 0
    Timeouts = {3}
VIEW View
SPECIFICATION SemSpec
INVARIANTS
    SemTypeOK
    WaitersAsleep
    WaitersSorted
    NoLostUnlock
PROPERTIES
    WaitResumeKept
