SPECIFICATION Spec
CONSTANTS
    WINDOW = 2
    Exhausted = 4
    Node = {1, 2}
    MaxEphemeral = 3
    MaxTx = 0
    MaxUpsets = 0
    MaxTimeouts = 1
    MaxEarly = 1
CHECK_DEADLOCK FALSE
INVARIANTS
    KBitsAgree
