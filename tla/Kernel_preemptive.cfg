CONSTANTS
    NULL = NULL
    Task = {t1, t2, t3}
    NUM_PRIORITIES = 3
    Preemptive = TRUE
    MaxIsr = 2
    MaxLocks = 1
SYMMETRY TaskSymmetry
SPECIFICATION Spec
INVARIANTS
    TypeOK
    EachTaskOnOneList
    NoReentry
    PriorityNesting
    CurrentTaskRestored
    NoMissedPreemption
    DepthBalanced
    LockPreventsPreemption
PROPERTIES
    ImplementsPriorityScheduler
