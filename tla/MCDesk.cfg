SPECIFICATION Spec
CONSTANTS
    m1 = m1
    m2 = m2
    Sent <- MCSent
    NProcs = 2
    MaxOwn = 1
    MaxCalls = 3
INVARIANTS
    TypeOK
    OneWriter
    Attended
    ResultIsOwn
    GivenOnce
PROPERTIES
    ReleasedForGood
    KeepsSession
    BusyEnds
CHECK_DEADLOCK FALSE
