SPECIFICATION FairSpec
CONSTANTS
    p1 = p1
    p2 = p2
    Node = {1, 2}
    Path = {p1}
    MaxPending = 1
    HistoryLimit = 8
    Environments <- OnlyCrosses
    NoPath = NoPath
    Gone = Gone
CHECK_DEADLOCK FALSE
PROPERTIES
    Converges
