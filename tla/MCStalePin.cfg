SPECIFICATION Spec
CONSTANTS
    FailureThreshold = 1
    OpenDuration = 1
    RecoveryThreshold = 1
    PromotionHold = 1
    a = a
    b = b
    c = c
    k1 = k1
    r1 = r1
    r2 = r2
    Services = {a, b}
    TierOf <- OneTier
    Horizontal = FALSE
    Requests = {r1, r2}
    Sessions = {k1}
    SessionOf <- FirstHasSession
    Disabled = {}
    NoService = NoService
    NoSession = NoSession
PROPERTIES
    PinIsAvailable
