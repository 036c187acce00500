CONSTANTS
    NULL = NULL
    Task = {1, 2}
    TickMod = 4
    Priority <- TaskIsPriority
    Preemptive = TRUE
    Delays = {}
    MaxIsr = 1
    max = 1
    init_count = 0
    Timeouts = {1, 2, 3}
VIEW View
SPECIFICATION SemSpec
PROPERTIES
    WaitResumeKept
