------------------------------ MODULE Breaker ------------------------------
(***************************************************************************)
(* The three-state circuit breaker of internal/loadbalance/breaker.go, as  *)
(* operators on a record.  Every method of the Go type holds the breaker's *)
(* mutex from its first to its last line, so one operator is one atomic    *)
(* step; the modules that own breakers (BreakerUse, Gateway) keep them in  *)
(* variables and decide who calls which method when.                       *)
(*                                                                         *)
(* Instants are kept as ages in clock ticks: the code compares an instant  *)
(* only with `now` and only against one duration, so an age that stops     *)
(* growing at that duration loses nothing and needs no bound on time.      *)
(***************************************************************************)
EXTENDS Integers

CONSTANTS
    FailureThreshold,   \* consecutive failures that trip a closed breaker
    OpenDuration,       \* ticks an open breaker refuses, and a probe may take
    RecoveryThreshold,  \* half-open successes that close the breaker
    PromotionHold       \* ticks a recovered primary must stay recovered

\* NewBreaker and NewBreakerStore replace non-positive thresholds by positive
\* defaults; a hold of zero disables the hold.
ASSUME BreakerAssumption ==
    /\ FailureThreshold \in Nat \ {0}
    /\ OpenDuration \in Nat \ {0}
    /\ RecoveryThreshold \in Nat \ {0}
    /\ PromotionHold \in Nat

\* The zero time.Time of closedSince, and a released probe slot.
Never == -1

Ages(cap) == {Never} \cup 0..cap

\* Faulty variant of Older: the age is not capped.
OlderForever(age, cap) == IF age = Never THEN age ELSE age + 1

\* An age one tick later.
Older(age, cap) == IF age = Never \/ age = cap THEN age ELSE age + 1

BreakerStates == {"closed", "open", "half_open"}

(***************************************************************************)
(* consecFails saturates at the threshold: it keeps growing while the      *)
(* breaker is open, and is only ever compared with the threshold.          *)
(* openedAgo is the age of openedAt, read only while open.  probeAgo is    *)
(* halfOpenInFlight and halfOpenClaimedAt in one: Never while the slot is  *)
(* free, else the age of the claim.  closedAgo is the age of closedSince.  *)
(***************************************************************************)
BreakerRecord ==
    [state : BreakerStates,
     consecFails : 0..FailureThreshold,
     openedAgo : 0..OpenDuration,
     probeAgo : Ages(OpenDuration),
     halfOpenSuccess : 0..(RecoveryThreshold - 1),
     closedAgo : Ages(PromotionHold)]

NewBreaker ==
    [state |-> "closed", consecFails |-> 0, openedAgo |-> OpenDuration,
     probeAgo |-> Never, halfOpenSuccess |-> 0, closedAgo |-> Never]

-----------------------------------------------------------------------------
(* Allow *)

OpenElapsed(b) == b.openedAgo >= OpenDuration

\* The claimer never reported within OpenDuration: the probe counts as lost.
ProbeLost(b) == b.probeAgo >= OpenDuration

\* Faulty variants of SlotFree: no probe slot at all, and a claim that is never
\* taken back from a claimer that went silent.
SlotAlwaysFree(b) == TRUE

SlotFreeUnlessClaimed(b) == b.probeAgo = Never

SlotFree(b) == b.probeAgo = Never \/ ProbeLost(b)

Allow(b) ==
    \/ b.state = "closed"
    \/ b.state = "open" /\ OpenElapsed(b)
    \/ b.state = "half_open" /\ SlotFree(b)

\* The breaker after a call of Allow, whatever it answered.
AfterAllow(b) ==
    IF ~Allow(b) \/ b.state = "closed" THEN b
    ELSE [b EXCEPT !.state = "half_open",
                   !.probeAgo = 0,
                   !.halfOpenSuccess = IF b.state = "open" THEN 0 ELSE @]

-----------------------------------------------------------------------------
(* RecordSuccess and RecordFailure *)

Recovered(b) ==
    [b EXCEPT !.state = "closed", !.consecFails = 0, !.probeAgo = Never,
              !.halfOpenSuccess = 0, !.closedAgo = 0]

\* Faulty variants of AfterSuccess: a success outside a trial does not reset the
\* failure count, and one probe success is enough.
AfterSuccessKeepingFails(b) ==
    IF b.state # "half_open" THEN b
    ELSE IF b.halfOpenSuccess + 1 >= RecoveryThreshold THEN Recovered(b)
    ELSE [b EXCEPT !.halfOpenSuccess = @ + 1, !.probeAgo = Never]

AfterSuccessOneShort(b) ==
    IF b.state = "half_open" THEN Recovered(b)
    ELSE [b EXCEPT !.consecFails = 0]

AfterSuccess(b) ==
    IF b.state # "half_open" THEN [b EXCEPT !.consecFails = 0]
    ELSE IF b.halfOpenSuccess + 1 >= RecoveryThreshold THEN Recovered(b)
    ELSE [b EXCEPT !.halfOpenSuccess = @ + 1, !.probeAgo = Never]

\* Faulty variant of Opened: closedSince survives the trip.
OpenedKeepingClosedSince(b) ==
    [b EXCEPT !.state = "open", !.openedAgo = 0, !.halfOpenSuccess = 0]

\* openLocked
Opened(b) ==
    [b EXCEPT !.state = "open", !.openedAgo = 0, !.halfOpenSuccess = 0,
              !.closedAgo = Never]

Bump(n) == IF n < FailureThreshold THEN n + 1 ELSE n

AfterFailure(b) ==
    LET counted == [b EXCEPT !.consecFails = Bump(@)]
    IN  CASE b.state = "half_open" -> [Opened(b) EXCEPT !.probeAgo = Never]
          [] b.state = "closed" /\ counted.consecFails >= FailureThreshold -> Opened(counted)
          [] OTHER -> counted

-----------------------------------------------------------------------------
(* Reads that change nothing *)

\* State(): an open breaker whose window is over already reads as half-open.
ReportedState(b) ==
    IF b.state = "open" /\ OpenElapsed(b) THEN "half_open" ELSE b.state

\* BreakerStore.IsAvailable
IsAvailable(b) == ReportedState(b) # "open"

\* BreakerStore.WithinPromotionHold; a hold of 0 is never within.
WithinPromotionHold(b) == b.closedAgo # Never /\ b.closedAgo < PromotionHold

-----------------------------------------------------------------------------
(* One tick of the clock (internal/clock). *)

Aged(b) ==
    [b EXCEPT !.openedAgo = Older(@, OpenDuration),
              !.probeAgo = Older(@, OpenDuration),
              !.closedAgo = Older(@, PromotionHold)]
=============================================================================
