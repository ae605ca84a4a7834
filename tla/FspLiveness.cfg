SPECIFICATION FairSpec
CONSTANTS
    WINDOW = 2
    Exhausted = 4
    Node = {1, 2}
    MaxEphemeral = 3
    MaxTx = 1
    MaxUpsets = 0
    MaxTimeouts = 9
    MaxEarly = 1
CHECK_DEADLOCK FALSE
PROPERTIES
    HandshakeConverges
    SetupSettles
