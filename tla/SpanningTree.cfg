SPECIFICATION FairTreeSpec
CONSTANTS
    Node = {1, 2, 3, 4}
    Meshes <- AllMeshes
CHECK_DEADLOCK FALSE
INVARIANTS
    WellFormed
    SettledRight
PROPERTIES
    Settles
