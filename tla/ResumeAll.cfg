CONSTANTS
    NULL = NULL
    n1 = n1
    n2 = n2
    n3 = n3
    n4 = n4
    Node = {n1, n2, n3, n4}
    LengthMod = 256
    Timers = {n4}
SYMMETRY Symmetry
SPECIFICATION Spec
CHECK_DEADLOCK FALSE
INVARIANTS
    RingsOK
    ResumesAll
PROPERTIES
    ImplementsSequences
