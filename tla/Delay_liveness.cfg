CONSTANTS
    NULL = NULL
    Task = {1, 2, 3}
    TickMod = 3
    Priority <- TaskIsPriority
    Preemptive = FALSE
    Delays = {1, 2}
    MaxIsr = 1
VIEW LiveView
SPECIFICATION FairSpec
PROPERTIES
    DelayEnds
