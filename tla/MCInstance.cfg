SPECIFICATION Spec
CONSTANTS
    NProcs = 3
    Ports = {8080}
    MaxPolls = 1
INVARIANTS
    TypeOK
    OneServer
    StopFindsServer
    PortIsOwn
PROPERTIES
    KeepsSingle
    SignalledEnds
CHECK_DEADLOCK FALSE
