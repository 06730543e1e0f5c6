SPECIFICATION Spec
CONSTANTS
    Callers = {c1, c2}
    RecoveryTimeout = 3
    ProbeEnabled = TRUE
PROPERTIES
    WindowHolds
