CONSTANTS
    NULL = NULL
    Task = {t1, t2}
    NUM_PRIORITIES = 2
    Preemptive = FALSE
    MaxIsr = 1
    MaxLocks = 0
SPECIFICATION FairSpec
INVARIANTS
    CooperativeRunsOne
PROPERTIES
    ReadyTasksShareTheCPU
