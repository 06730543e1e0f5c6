----------------------------- MODULE Selection -----------------------------
(***************************************************************************)
(* What a rule's services look like to one request: the tier buckets of    *)
(* TierTactic and the eligibility of an affinity pin, both from            *)
(* internal/typ/tactics.go, over the breakers of the rule's services.      *)
(***************************************************************************)
EXTENDS Breaker

CONSTANTS
    Services,    \* the active services of one rule
    TierOf,      \* Service.Tier, 0 is the highest priority
    Horizontal   \* TRUE: a tactic other than TacticTier, which ignores tiers

ASSUME SelectionAssumption ==
    /\ TierOf \in [Services -> Nat]
    /\ Horizontal \in BOOLEAN

\* The services of the highest-priority bucket of `pool` under `tier`.
FirstBucket(pool, tier) ==
    {s \in pool : \A t \in pool : tier[s] <= tier[t]}

\* The bucket a selection tries first: TierTactic groups by tier, every other
\* tactic has the whole pool as its only bucket.
TopBucket(pool) == IF Horizontal THEN pool ELSE FirstBucket(pool, TierOf)

Available(breaker, pool) == {s \in pool : IsAvailable(breaker[s])}

\* Faulty variant of IsAffinityEligible: a pin is never given up.
PinAlwaysEligible(breaker, pool, pinned) == TRUE

(***************************************************************************)
(* IsAffinityEligible.  It reads the tiers whatever the tactic: `best` is  *)
(* the whole bucket of the first tier with an available service.           *)
(***************************************************************************)
IsAffinityEligible(breaker, pool, pinned) ==
    LET avail == Available(breaker, pool)
        first == FirstBucket(avail, TierOf)
        best  == {s \in pool : \E t \in first : TierOf[s] = TierOf[t]}
    IN  IF avail = {} THEN pinned \in FirstBucket(pool, TierOf)
        ELSE \/ pinned \in first
             \/ \E s \in best : WithinPromotionHold(breaker[s])
=============================================================================
