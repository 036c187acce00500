CONSTANTS
    NULL = NULL
    Task = {1, 2, 3}
    TickMod = 4
    Priority <- TaskIsPriority
    Preemptive = FALSE
    Delays = {1}
    MaxIsr = 1
    AutoReset = {2}
    OneShot = {3}
    period <- Periods
    ResetInScan = TRUE
    MaxResets = 1
VIEW View
SPECIFICATION TimerSpec
INVARIANTS
    NeverOverdueUnlessWrapped
