SPECIFICATION Spec
CONSTANTS
    FailureThreshold = 2
    OpenDuration = 2
    RecoveryThreshold = 3
    PromotionHold = 2
    Requests = {r1, r2, r3}
INVARIANTS
    OneProbeAtATime
