SPECIFICATION Spec
CONSTANTS
    m1 = m1
    m2 = m2
    Sent <- MCSent
    NProcs = 2
    MaxOwn = 1
    MaxCalls = 3
PROPERTY
    ClosedFirst
CHECK_DEADLOCK FALSE
