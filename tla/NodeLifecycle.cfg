SPECIFICATION FairSpec
CONSTANTS
    N = 2
    Carrier = {1}
    Key = {k1}
    StartCall = {s1, s2}
    StopCall = {p1}
    BlockCall = {b1}
    Dial = {d1}
    MaxFailures = 1
    None = None
CHECK_DEADLOCK FALSE
INVARIANTS
    LifecycleInv
    RevocationHolds
PROPERTIES
    DeniedAtOnce
    CallsReturn
