SPECIFICATION FairSpec
CONSTANTS
    FailureThreshold = 1
    OpenDuration = 1
    RecoveryThreshold = 1
    PromotionHold = 0
    a = a
    b = b
    c = c
    k1 = k1
    r1 = r1
    r2 = r2
    Services = {a, b, c}
    TierOf <- TwoTiers
    Horizontal = TRUE
    Requests = {r1}
    Sessions = {}
    SessionOf <- NoSessions
    Disabled = {c}
    NoService = NoService
    NoSession = NoSession
PROPERTY
    RequestsEnd
