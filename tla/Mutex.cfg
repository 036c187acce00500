CONSTANTS
    NULL = NULL
    Task = {1, 2, 3}
    NUM_PRIORITIES = 3
    Preemptive = TRUE
    MaxIsr = 1
    MaxLocks = 0
    Mutex = {m1, m2}
    original_priority <- TaskIsPriority
    Timed <- OneTimed
    Others = {2}
    MaxCount <- Recursive
SYMMETRY MutexSymmetry
VIEW View
SPECIFICATION MutexSpec
INVARIANTS
    MutexTypeOK
    EachTaskOnOneList
    NoReentry
    MutualExclusion
    LoanHonoured
    PriorityRestored
    MutexWaitersSorted
    NoLostMutexUnlock
