CONSTANTS
    NULL = NULL
    Task = {1, 2}
    TickMod = 4
    Priority <- TaskIsPriority
    Preemptive = TRUE
    Delays = {}
    MaxIsr = 1
    max = 2
    init_count = 0
    Timeouts = {1, 2, 3}
    Item = {a, b}
    item_size = 1
VIEW QueueView
SPECIFICATION QueueSpec
INVARIANTS
    WaitersAsleep
    NoItemStranded
