SPECIFICATION FairSpec
CONSTANTS
    FailureThreshold = 2
    OpenDuration = 2
    RecoveryThreshold = 3
    PromotionHold = 2
    Requests = {r1, r2}
INVARIANTS
    TypeOK
    CountsMatchOutcomes
    NoLeftovers
PROPERTIES
    TripsOnlyOnStreak
    RecoversOnlyOnStreak
    PacesProbes
    Recovers
