CONSTANTS
    Item = {a, b, c}
    que_size = 4
    item_size = 3
SYMMETRY ItemSymmetry
SPECIFICATION Spec
INVARIANTS
    RingOK
PROPERTIES
    ImplementsFifo
