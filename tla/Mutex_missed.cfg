CONSTANTS
    NULL = NULL
    Task = {1, 2}
    NUM_PRIORITIES = 2
    Preemptive = TRUE
    MaxIsr = 1
    MaxLocks = 0
    Mutex = {m1}
    original_priority <- TaskIsPriority
    Timed <- AllForever
    Others = {1, 2}
    MaxCount <- Recursive
VIEW View
SPECIFICATION MutexSpec
INVARIANTS
    NoMissedPreemption
