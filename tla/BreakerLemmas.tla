--------------------------- MODULE BreakerLemmas ---------------------------
(***************************************************************************)
(* What the methods of a breaker preserve: lemmas about the operators of   *)
(* Breaker, for the proofs about the modules that own breakers.            *)
(***************************************************************************)
EXTENDS Breaker, TLAPS

\* The values the methods assign, each in the range of its field.
LEMMA FieldValues ==
    /\ {"closed", "open", "half_open"} = BreakerStates
    /\ 0 \in 0..FailureThreshold
    /\ {0, OpenDuration} \subseteq 0..OpenDuration
    /\ {Never, 0} \subseteq Ages(OpenDuration)
    /\ 0 \in 0..(RecoveryThreshold - 1)
    /\ {Never, 0} \subseteq Ages(PromotionHold)
BY BreakerAssumption DEF BreakerStates, Ages, Never

LEMMA NewBreakerType == NewBreaker \in BreakerRecord
BY FieldValues DEF NewBreaker, BreakerRecord

LEMMA OlderType ==
    ASSUME NEW cap \in Nat
    PROVE  /\ \A age \in 0..cap : Older(age, cap) \in 0..cap
           /\ \A age \in Ages(cap) : Older(age, cap) \in Ages(cap)
           /\ \A age \in Ages(cap) : Older(age, cap) = Never <=> age = Never
BY DEF Older, Ages, Never

LEMMA AllowType ==
    ASSUME NEW x \in BreakerRecord
    PROVE  AfterAllow(x) \in BreakerRecord
<1>1. CASE Allow(x) /\ x.state = "open"
  <2>1. AfterAllow(x) = [x EXCEPT !.state = "half_open", !.probeAgo = 0, !.halfOpenSuccess = 0]
    BY <1>1 DEF AfterAllow
  <2> QED
    BY <2>1, FieldValues DEF BreakerRecord
<1>2. CASE Allow(x) /\ x.state = "half_open"
  <2>1. AfterAllow(x) = [x EXCEPT !.state = "half_open", !.probeAgo = 0,
                                  !.halfOpenSuccess = x.halfOpenSuccess]
    BY <1>2 DEF AfterAllow
  <2> QED
    BY <2>1, FieldValues DEF BreakerRecord
<1>3. CASE ~Allow(x) \/ x.state = "closed"
  BY <1>3 DEF AfterAllow
<1> QED
  BY <1>1, <1>2, <1>3 DEF Allow

LEMMA SuccessType ==
    ASSUME NEW x \in BreakerRecord
    PROVE  AfterSuccess(x) \in BreakerRecord
<1>1. Recovered(x) \in BreakerRecord
  BY FieldValues DEF Recovered, BreakerRecord
<1>2. ASSUME x.halfOpenSuccess + 1 < RecoveryThreshold
      PROVE  [x EXCEPT !.halfOpenSuccess = @ + 1, !.probeAgo = Never] \in BreakerRecord
  <2>1. x.halfOpenSuccess \in 0..(RecoveryThreshold - 1)
    BY DEF BreakerRecord
  <2>2. x.halfOpenSuccess + 1 \in 0..(RecoveryThreshold - 1)
    BY <1>2, <2>1, BreakerAssumption
  <2> QED
    BY <2>2, FieldValues DEF BreakerRecord
<1>3. [x EXCEPT !.consecFails = 0] \in BreakerRecord
  BY FieldValues DEF BreakerRecord
<1>4. x.halfOpenSuccess \in Nat
  BY BreakerAssumption DEF BreakerRecord
<1> QED
  BY <1>1, <1>2, <1>3, <1>4, BreakerAssumption DEF AfterSuccess

LEMMA FailureType ==
    ASSUME NEW x \in BreakerRecord
    PROVE  AfterFailure(x) \in BreakerRecord
<1>1. Bump(x.consecFails) \in 0..FailureThreshold
  BY BreakerAssumption DEF Bump, BreakerRecord
<1>2. [x EXCEPT !.consecFails = Bump(@)] \in BreakerRecord
  BY <1>1 DEF BreakerRecord
<1>3. \A y \in BreakerRecord : Opened(y) \in BreakerRecord
  BY FieldValues DEF Opened, BreakerRecord
<1>4. [Opened(x) EXCEPT !.probeAgo = Never] \in BreakerRecord
  BY <1>3, FieldValues DEF BreakerRecord
<1> QED
  BY <1>2, <1>3, <1>4 DEF AfterFailure

LEMMA AgedType ==
    ASSUME NEW x \in BreakerRecord
    PROVE  Aged(x) \in BreakerRecord
BY BreakerAssumption, OlderType DEF Aged, BreakerRecord
=============================================================================
