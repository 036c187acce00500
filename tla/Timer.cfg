CONSTANTS
    NULL = NULL
    Task = {1, 2, 3}
    TickMod = 3
    Priority <- TaskIsPriority
    Preemptive = FALSE
    Delays = {1}
    MaxIsr = 1
    AutoReset = {2}
    OneShot = {3}
    period <- Periods
    ResetInScan = FALSE
    MaxResets = 2
VIEW View
SPECIFICATION TimerSpec
INVARIANTS
    TypeOK
    SortedByTick
    NeverOverdueUnlessWrapped
    AutoContinues
PROPERTIES
    NeverEarly
    OneShotRunsOnce
    StoppedNeverRuns
    ResumeKept
