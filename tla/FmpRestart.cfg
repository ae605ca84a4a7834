SPECIFICATION Spec
CONSTANTS
    p1 = p1
    p2 = p2
    Node = {1, 2}
    Path = {p1, p2}
    MaxPending = 1
    HistoryLimit = 8
    Environments <- RestartsAndRoams
    NoPath = NoPath
    Gone = Gone
CHECK_DEADLOCK FALSE
SYMMETRY PathSymmetry
INVARIANTS
    TypeOK
PROPERTIES
    NoRollback
    DisplacedDrains
