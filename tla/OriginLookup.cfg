SPECIFICATION FairSpec
CONSTANTS
    c1 = c1
    c2 = c2
    t1 = t1
    t2 = t2
    i1 = i1
    i2 = i2
    Call = {c1, c2}
    Target = {t1, t2}
    RequestId = {i1, i2}
    Mtu = {0, 1}
    MaxLookups = 1
    Timeout = 2
    MaxInterval = 1
    None = None
CHECK_DEADLOCK FALSE
INVARIANTS
    RegistryOK
    IndexesAgree
    AnswerFitsCaller
PROPERTIES
    RequestsAnswerable
    CallersReleased
