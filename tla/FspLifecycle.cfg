SPECIFICATION Spec
CONSTANTS
    WINDOW = 2
    Exhausted = 4
    Node = {1, 2}
    MaxEphemeral = 3
    MaxTx = 1
    MaxUpsets = 1
    MaxTimeouts = 1
    MaxEarly = 1
CHECK_DEADLOCK FALSE
INVARIANTS
    TypeOK
    KeysInOrder
    KBitsAgreeUnlessDiscarded
    NoDuplicateDelivery
PROPERTIES
    AuthenticatedCutover
    RemoteEpochNeverRollsBack
    DeliveredFromAuthenticatedLife
