SPECIFICATION FairSpec
CONSTANTS
    Callers = {c1, c2}
    RecoveryTimeout = 3
    ProbeEnabled = TRUE
INVARIANTS
    TypeOK
    ReasonMatchesVerdict
PROPERTIES
    OnlyOvertakenProbesCutWindow
    NoBanishment
