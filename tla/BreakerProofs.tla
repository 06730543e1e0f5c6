--------------------------- MODULE BreakerProofs ---------------------------
(***************************************************************************)
(* Proofs about BreakerUse, for every value of the thresholds and every    *)
(* set of requests.                                                        *)
(***************************************************************************)
EXTENDS BreakerUse, BreakerLemmas

\* The inductive invariant: the counters have their meaning, and each field
\* its state.  A success count left over from an earlier trial would make the
\* counters wrong in the next one.
IInv ==
    /\ TypeOK
    /\ NoLeftovers
    /\ CountsMatchOutcomes

-----------------------------------------------------------------------------
(* Every step has the right types *)

LEMMA LongerType ==
    ASSUME TypeOK, NEW kind \in {"success", "failure"}
    PROVE  Longer(kind) \in Streaks
BY BreakerAssumption DEF TypeOK, Longer, Streaks, MaxStreak

\* Every reachable state of the breaker and its requests is well typed: no
\* sequence of calls, however interleaved, drives a counter or an age of
\* breaker.go out of its range.
LEMMA TypeStep == TypeOK /\ [Next]_vars => TypeOK'
<1> SUFFICES ASSUME TypeOK, [Next]_vars PROVE TypeOK'
  OBVIOUS
<1> USE DEF TypeOK, Phases
<1>1. ASSUME NEW r \in Requests, Ask(r) PROVE TypeOK'
  BY <1>1, AllowType DEF Ask, Move
<1>2. ASSUME NEW r \in Requests, Bypass(r) PROVE TypeOK'
  BY <1>2 DEF Bypass, Move
<1>3. ASSUME NEW r \in Requests, Dispatch(r) PROVE TypeOK'
  BY <1>3 DEF Dispatch, Move
<1>4. ASSUME NEW r \in Requests, Withdraw(r) PROVE TypeOK'
  BY <1>4 DEF Withdraw, Move
<1>5. ASSUME NEW r \in Requests, EndUnreported(r) PROVE TypeOK'
  BY <1>5 DEF EndUnreported, Move
<1>6. ASSUME NEW r \in Requests, Succeed(r) PROVE TypeOK'
  BY <1>6, SuccessType, LongerType DEF Succeed, Move
<1>7. ASSUME NEW r \in Requests, Fail(r) PROVE TypeOK'
  BY <1>7, FailureType, LongerType DEF Fail, Move
<1>8. CASE Reset
  BY <1>8, NewBreakerType, BreakerAssumption DEF Reset, NoStreak, Streaks, MaxStreak
<1>9. CASE Tick
  BY <1>9, AgedType DEF Tick
<1>10. CASE Toggle
  BY <1>10 DEF Toggle
<1>11. CASE UNCHANGED vars
  BY <1>11 DEF vars
<1> QED
  BY <1>1, <1>2, <1>3, <1>4, <1>5, <1>6, <1>7, <1>8, <1>9, <1>10, <1>11 DEF Next

LEMMA TypeInit == Init => TypeOK
BY NewBreakerType, BreakerAssumption
   DEF Init, TypeOK, Phases, NoStreak, Streaks, MaxStreak

THEOREM TypeCorrect == Spec => []TypeOK
BY TypeInit, TypeStep, PTL DEF Spec

-----------------------------------------------------------------------------
(* The inductive invariant *)

LEMMA InvInit == Init => IInv
BY TypeInit, BreakerAssumption
   DEF Init, IInv, NoLeftovers, CountsMatchOutcomes, Run, NewBreaker, NoStreak, Never

LEMMA Thresholds ==
    /\ MaxStreak \in Nat \ {0}
    /\ FailureThreshold <= MaxStreak
    /\ RecoveryThreshold <= MaxStreak
BY BreakerAssumption DEF MaxStreak

\* What a report does to the runs of equal outcomes.
LEMMA RunStep ==
    ASSUME TypeOK, NEW kind \in {"success", "failure"}, streak' = Longer(kind)
    PROVE  /\ Run(kind) \in Nat
           /\ Run(kind)' = IF Run(kind) < MaxStreak THEN Run(kind) + 1 ELSE Run(kind)
           /\ \A other \in {"success", "failure"} : other # kind => Run(other)' = 0
<1>1. streak.kind \in {"success", "failure"} /\ streak.n \in 0..MaxStreak
  BY DEF TypeOK, Streaks
<1>2. streak'.kind = kind
  BY DEF Longer
<1>3. CASE streak.kind # kind
  <2>1. streak'.n = 1
    BY <1>3 DEF Longer
  <2> QED
    BY <1>2, <1>3, <2>1, Thresholds DEF Run
<1>4. CASE streak.kind = kind
  <2>1. streak'.n = IF streak.n < MaxStreak THEN streak.n + 1 ELSE streak.n
    BY <1>4 DEF Longer
  <2> QED
    BY <1>1, <1>2, <1>4, <2>1 DEF Run
<1> QED
  BY <1>3, <1>4

\* The fields of a well-typed breaker.
LEMMA Fields ==
    ASSUME TypeOK
    PROVE  /\ b.state \in BreakerStates
           /\ b.consecFails \in 0..FailureThreshold
           /\ b.openedAgo \in 0..OpenDuration
           /\ b.probeAgo \in Ages(OpenDuration)
           /\ b.halfOpenSuccess \in 0..(RecoveryThreshold - 1)
           /\ b.closedAgo \in Ages(PromotionHold)
BY DEF TypeOK, BreakerRecord

\* What the methods do to a breaker, one case each.
LEMMA AskCases ==
    ASSUME TypeOK, NEW r \in Requests, Ask(r)
    PROVE  \/ /\ b.state = "closed"
              /\ b' = b
           \/ /\ b.state = "open" /\ b.openedAgo = OpenDuration
              /\ b' = [b EXCEPT !.state = "half_open", !.probeAgo = 0, !.halfOpenSuccess = 0]
           \/ /\ b.state = "half_open" /\ b.probeAgo \in {Never, OpenDuration}
              /\ b' = [b EXCEPT !.state = "half_open", !.probeAgo = 0,
                                !.halfOpenSuccess = b.halfOpenSuccess]
<1>1. Allow(b) /\ b' = AfterAllow(b)
  BY DEF Ask
<1>2. CASE b.state = "closed"
  BY <1>1, <1>2 DEF AfterAllow
<1>3. CASE b.state = "open"
  <2>1. b.openedAgo = OpenDuration
    BY <1>1, <1>3, Fields, BreakerAssumption DEF Allow, OpenElapsed
  <2> QED
    BY <1>1, <1>3, <2>1 DEF AfterAllow
<1>4. CASE b.state = "half_open"
  <2>1. b.probeAgo \in {Never, OpenDuration}
    BY <1>1, <1>4, Fields, BreakerAssumption DEF Allow, SlotFree, ProbeLost, Ages, Never
  <2> QED
    BY <1>1, <1>4, <2>1 DEF AfterAllow
<1> QED
  BY <1>2, <1>3, <1>4, Fields DEF BreakerStates

LEMMA SucceedCases ==
    ASSUME TypeOK, NEW r \in Requests, Succeed(r)
    PROVE  \/ b.state # "half_open" /\ b' = [b EXCEPT !.consecFails = 0]
           \/ /\ b.state = "half_open" /\ b.halfOpenSuccess + 1 >= RecoveryThreshold
              /\ b' = Recovered(b)
           \/ /\ b.state = "half_open" /\ b.halfOpenSuccess + 1 < RecoveryThreshold
              /\ b' = [b EXCEPT !.halfOpenSuccess = b.halfOpenSuccess + 1, !.probeAgo = Never]
<1>1. b' = AfterSuccess(b)
  BY DEF Succeed
<1>2. b.halfOpenSuccess + 1 \in Nat
  BY Fields, BreakerAssumption
<1>3. CASE b.state # "half_open"
  BY <1>1, <1>3 DEF AfterSuccess
<1>4. CASE b.state = "half_open" /\ b.halfOpenSuccess + 1 >= RecoveryThreshold
  BY <1>1, <1>4 DEF AfterSuccess
<1>5. CASE b.state = "half_open" /\ ~(b.halfOpenSuccess + 1 >= RecoveryThreshold)
  BY <1>1, <1>2, <1>5, BreakerAssumption DEF AfterSuccess
<1> QED
  BY <1>3, <1>4, <1>5

LEMMA FailCases ==
    ASSUME TypeOK, NEW r \in Requests, Fail(r)
    PROVE  \/ /\ b.state = "half_open"
              /\ b' = [Opened(b) EXCEPT !.probeAgo = Never]
           \/ /\ b.state = "closed" /\ Bump(b.consecFails) >= FailureThreshold
              /\ b' = Opened([b EXCEPT !.consecFails = Bump(b.consecFails)])
           \/ /\ b.state = "closed" => Bump(b.consecFails) < FailureThreshold
              /\ b.state # "half_open"
              /\ b' = [b EXCEPT !.consecFails = Bump(b.consecFails)]
<1>1. b' = AfterFailure(b)
  BY DEF Fail
<1>2. Bump(b.consecFails) \in Nat
  BY Fields, BreakerAssumption DEF Bump
<1>3. [b EXCEPT !.consecFails = Bump(@)].consecFails = Bump(b.consecFails)
  BY DEF TypeOK, BreakerRecord
<1> QED
  BY <1>1, <1>2, <1>3, BreakerAssumption DEF AfterFailure

LEMMA AskInv ==
    ASSUME IInv, TypeOK', NEW r \in Requests, Ask(r)
    PROVE  IInv'
<1>1. TypeOK /\ UNCHANGED streak
  BY DEF IInv, Ask
<1>2. Run("success")' = Run("success") /\ Run("failure")' = Run("failure") /\ Run("success") \in Nat
  BY <1>1 DEF Run, TypeOK, Streaks
<1>3. CASE b' = b
  BY <1>2, <1>3 DEF IInv, NoLeftovers, CountsMatchOutcomes
<1>4. CASE /\ b.state = "open"
           /\ b' = [b EXCEPT !.state = "half_open", !.probeAgo = 0, !.halfOpenSuccess = 0]
  BY <1>1, <1>2, <1>4 DEF IInv, NoLeftovers, CountsMatchOutcomes, TypeOK, BreakerRecord
<1>5. CASE /\ b.state = "half_open"
           /\ b' = [b EXCEPT !.state = "half_open", !.probeAgo = 0,
                             !.halfOpenSuccess = b.halfOpenSuccess]
  BY <1>1, <1>2, <1>5 DEF IInv, NoLeftovers, CountsMatchOutcomes, TypeOK, BreakerRecord
<1> QED
  BY <1>1, <1>3, <1>4, <1>5, AskCases

LEMMA SucceedInv ==
    ASSUME IInv, TypeOK', NEW r \in Requests, Succeed(r)
    PROVE  IInv'
<1>1. TypeOK /\ streak' = Longer("success")
  BY DEF IInv, Succeed
<1>2. /\ Run("success") \in Nat
      /\ Run("success")' = IF Run("success") < MaxStreak THEN Run("success") + 1 ELSE Run("success")
      /\ Run("failure")' = 0
  BY <1>1, RunStep
<1>3. CASE b.state # "half_open" /\ b' = [b EXCEPT !.consecFails = 0]
  BY <1>1, <1>2, <1>3, BreakerAssumption
     DEF IInv, NoLeftovers, CountsMatchOutcomes, TypeOK, BreakerRecord
<1>4. CASE b' = Recovered(b)
  BY <1>1, <1>2, <1>4, BreakerAssumption
     DEF IInv, NoLeftovers, CountsMatchOutcomes, Recovered, TypeOK, BreakerRecord
<1>5. CASE /\ b.state = "half_open" /\ b.halfOpenSuccess + 1 < RecoveryThreshold
           /\ b' = [b EXCEPT !.halfOpenSuccess = b.halfOpenSuccess + 1, !.probeAgo = Never]
  <2>1. b.halfOpenSuccess <= Run("success")
    BY <1>5 DEF IInv, CountsMatchOutcomes
  <2>2. b.halfOpenSuccess + 1 <= Run("success")'
    BY <1>1, <1>2, <1>5, <2>1, Fields, Thresholds, BreakerAssumption
  <2> QED
    BY <1>1, <1>5, <2>2
       DEF IInv, NoLeftovers, CountsMatchOutcomes, TypeOK, BreakerRecord
<1> QED
  BY <1>1, <1>3, <1>4, <1>5, SucceedCases

LEMMA FailInv ==
    ASSUME IInv, TypeOK', NEW r \in Requests, Fail(r)
    PROVE  IInv'
<1>1. TypeOK /\ streak' = Longer("failure")
  BY DEF IInv, Fail
<1>2. /\ Run("failure") \in Nat
      /\ Run("failure")' = IF Run("failure") < MaxStreak THEN Run("failure") + 1 ELSE Run("failure")
      /\ Run("success")' = 0
  BY <1>1, RunStep
<1>3. CASE b.state = "half_open" /\ b' = [Opened(b) EXCEPT !.probeAgo = Never]
  BY <1>1, <1>3 DEF IInv, NoLeftovers, CountsMatchOutcomes, Opened, TypeOK, BreakerRecord
<1>4. CASE b.state = "closed" /\ b' = Opened([b EXCEPT !.consecFails = Bump(b.consecFails)])
  BY <1>1, <1>4 DEF IInv, NoLeftovers, CountsMatchOutcomes, Opened, TypeOK, BreakerRecord
<1>5. CASE /\ b.state = "closed" => Bump(b.consecFails) < FailureThreshold
           /\ b.state # "half_open"
           /\ b' = [b EXCEPT !.consecFails = Bump(b.consecFails)]
  <2>1. b'.state = b.state /\ b'.consecFails = Bump(b.consecFails)
    BY <1>1, <1>5 DEF TypeOK, BreakerRecord
  <2>2. NoLeftovers'
    BY <1>1, <1>5 DEF IInv, NoLeftovers, TypeOK, BreakerRecord
  <2>3. ASSUME b.state = "closed"
        PROVE  Bump(b.consecFails) = Run("failure")' /\ Bump(b.consecFails) < FailureThreshold
    <3>1. b.consecFails = Run("failure") /\ b.consecFails < FailureThreshold
      BY <2>3 DEF IInv, CountsMatchOutcomes
    <3> QED
      BY <1>2, <1>5, <2>3, <3>1, Thresholds, BreakerAssumption DEF Bump
  <2> QED
    BY <1>5, <2>1, <2>2, <2>3 DEF IInv, CountsMatchOutcomes
<1> QED
  BY <1>1, <1>3, <1>4, <1>5, FailCases

LEMMA TickInv ==
    ASSUME IInv, TypeOK', Tick
    PROVE  IInv'
<1>1. TypeOK /\ b' = Aged(b) /\ UNCHANGED streak
  BY DEF IInv, Tick
<1>2. /\ b'.state = b.state /\ b'.consecFails = b.consecFails
      /\ b'.halfOpenSuccess = b.halfOpenSuccess
      /\ b'.probeAgo = Older(b.probeAgo, OpenDuration)
      /\ b'.closedAgo = Older(b.closedAgo, PromotionHold)
  BY <1>1 DEF Aged, TypeOK, BreakerRecord
<1>3. (b'.probeAgo = Never <=> b.probeAgo = Never) /\ (b'.closedAgo = Never <=> b.closedAgo = Never)
  BY <1>1, <1>2, Fields, OlderType, BreakerAssumption
<1> QED
  BY <1>1, <1>2, <1>3 DEF IInv, NoLeftovers, CountsMatchOutcomes, Run

\* Every step of every request, of the clock and of the simulator keeps the
\* counters truthful.
LEMMA InvStep == IInv /\ [Next]_vars => IInv'
<1> SUFFICES ASSUME IInv, [Next]_vars PROVE IInv'
  OBVIOUS
<1>1. TypeOK'
  BY TypeStep DEF IInv
<1>2. ASSUME UNCHANGED <<b, streak>> PROVE IInv'
  BY <1>1, <1>2 DEF IInv, NoLeftovers, CountsMatchOutcomes, Run
<1>3. ASSUME NEW r \in Requests,
             Bypass(r) \/ Dispatch(r) \/ Withdraw(r) \/ EndUnreported(r)
      PROVE  IInv'
  BY <1>2, <1>3 DEF Bypass, Dispatch, Withdraw, EndUnreported
<1>4. CASE Reset
  BY <1>1, <1>4, BreakerAssumption
     DEF Reset, IInv, NoLeftovers, CountsMatchOutcomes, Run, NewBreaker, NoStreak, Never
<1>5. CASE Toggle \/ UNCHANGED vars
  BY <1>2, <1>5 DEF Toggle, vars
<1> QED
  BY <1>1, <1>3, <1>4, <1>5, AskInv, SucceedInv, FailInv, TickInv DEF Next

LEMMA Invariant == Spec => []IInv
BY InvInit, InvStep, PTL DEF Spec

-----------------------------------------------------------------------------
(* The safety invariants *)

\* consecFails and halfOpenSuccess of breaker.go mean what their comments say,
\* and RecordFailure never leaves a breaker closed after FailureThreshold
\* failures in a row.
THEOREM CountsAreTrue == Spec => []CountsMatchOutcomes
<1>1. IInv => CountsMatchOutcomes
  BY DEF IInv
<1> QED
  BY <1>1, Invariant, PTL

\* The probe slot, the success count and closedSince of breaker.go do not
\* outlive the state they belong to.
THEOREM NothingLeftOver == Spec => []NoLeftovers
<1>1. IInv => NoLeftovers
  BY DEF IInv
<1> QED
  BY <1>1, Invariant, PTL

-----------------------------------------------------------------------------
(* The action properties *)

\* Allow, RecordSuccess and RecordFailure together trip a breaker on a full
\* run of failures only.
THEOREM TripsOnStreak == Spec => TripsOnlyOnStreak
<1>1. ASSUME IInv, [Next]_vars, b.state = "closed", b'.state = "open"
      PROVE  streak'.kind = "failure" /\ streak'.n >= FailureThreshold
  <2>1. TypeOK /\ b.consecFails = Run("failure")
    BY <1>1 DEF IInv, CountsMatchOutcomes
  <2>2. PICK r \in Requests : Fail(r)
    <3>1. ASSUME NEW r \in Requests, Ask(r) PROVE FALSE
      BY <1>1, <2>1, <3>1, AskCases
    <3>2. ASSUME NEW r \in Requests, Succeed(r) PROVE FALSE
      BY <1>1, <2>1, <3>2, SucceedCases DEF TypeOK, BreakerRecord, Recovered
    <3>3. CASE Tick
      BY <1>1, <2>1, <3>3 DEF Tick, Aged, TypeOK, BreakerRecord
    <3>4. CASE Reset
      BY <1>1, <3>4 DEF Reset, NewBreaker
    <3> QED
      BY <1>1, <3>1, <3>2, <3>3, <3>4
         DEF Next, Bypass, Dispatch, Withdraw, EndUnreported, Toggle, vars
  <2>3. Bump(b.consecFails) >= FailureThreshold
    BY <1>1, <2>1, <2>2, FailCases DEF TypeOK, BreakerRecord
  <2>4. streak' = Longer("failure")
    BY <2>2 DEF Fail
  <2>5. Run("failure")' >= FailureThreshold
    BY <2>1, <2>3, <2>4, RunStep, Thresholds, Fields, BreakerAssumption DEF Bump
  <2> QED
    BY <2>4, <2>5, BreakerAssumption DEF Run, Longer
<1> QED
  BY <1>1, Invariant, PTL DEF Spec, TripsOnlyOnStreak

\* A breaker leaves a trial closed only after RecoveryThreshold successes that
\* no failure interrupted.
THEOREM RecoversOnStreak == Spec => RecoversOnlyOnStreak
<1>1. ASSUME IInv, [Next]_vars, b.state = "half_open", b'.state = "closed"
      PROVE  \/ streak'.kind = "success" /\ streak'.n >= RecoveryThreshold
             \/ b' = NewBreaker
  <2>1. TypeOK /\ b.halfOpenSuccess <= Run("success")
    BY <1>1 DEF IInv, CountsMatchOutcomes
  <2>2. CASE Reset
    BY <2>2 DEF Reset
  <2>3. ASSUME NEW r \in Requests, Succeed(r)
        PROVE  streak'.kind = "success" /\ streak'.n >= RecoveryThreshold
    <3>1. b.halfOpenSuccess + 1 >= RecoveryThreshold
      BY <1>1, <2>1, <2>3, SucceedCases DEF TypeOK, BreakerRecord
    <3>2. streak' = Longer("success")
      BY <2>3 DEF Succeed
    <3>3. Run("success")' >= RecoveryThreshold
      BY <2>1, <3>1, <3>2, RunStep, Thresholds, Fields, BreakerAssumption
    <3> QED
      BY <3>2, <3>3, BreakerAssumption DEF Run, Longer
  <2>4. ASSUME NEW r \in Requests, Ask(r) PROVE FALSE
    BY <1>1, <2>1, <2>4, AskCases DEF TypeOK, BreakerRecord
  <2>5. ASSUME NEW r \in Requests, Fail(r) PROVE FALSE
    BY <1>1, <2>1, <2>5, FailCases DEF TypeOK, BreakerRecord, Opened
  <2>6. CASE Tick
    BY <1>1, <2>1, <2>6 DEF Tick, Aged, TypeOK, BreakerRecord
  <2> QED
    BY <1>1, <2>2, <2>3, <2>4, <2>5, <2>6
       DEF Next, Bypass, Dispatch, Withdraw, EndUnreported, Toggle, vars
<1> QED
  BY <1>1, Invariant, PTL DEF Spec, RecoversOnlyOnStreak

-----------------------------------------------------------------------------
(* BreakerUse implements Circuit *)

Wait == CASE b.state = "open" -> OpenDuration - b.openedAgo
          [] b.state = "half_open" /\ b.probeAgo # Never -> OpenDuration - b.probeAgo
          [] OTHER -> 0

LEMMA WaitValue ==
    /\ b.state = "open" => Wait = OpenDuration - b.openedAgo
    /\ b.state = "half_open" /\ b.probeAgo # Never => Wait = OpenDuration - b.probeAgo
    /\ b.state = "half_open" /\ b.probeAgo = Never => Wait = 0
    /\ b.state = "closed" => Wait = 0
BY DEF Wait

LEMMA WaitValueNext ==
    /\ b'.state = "open" => Wait' = OpenDuration - b'.openedAgo
    /\ b'.state = "half_open" /\ b'.probeAgo # Never => Wait' = OpenDuration - b'.probeAgo
    /\ b'.state = "half_open" /\ b'.probeAgo = Never => Wait' = 0
    /\ b'.state = "closed" => Wait' = 0
BY DEF Wait

\* The steps of Circuit, written over the breaker.
LEMMA PromiseStep ==
    ASSUME \/ /\ b.state # "closed" /\ Wait = 0
              /\ b'.state = "half_open" /\ Wait' = OpenDuration
           \/ /\ b.state = "half_open"
              /\ b'.state \in {"half_open", "closed"} /\ Wait' = 0
           \/ /\ b.state \in {"closed", "half_open"}
              /\ b'.state = "open" /\ Wait' = OpenDuration
           \/ b'.state = "closed" /\ Wait' = 0
           \/ Wait > 0 /\ Wait' = Wait - 1 /\ b'.state = b.state
           \/ Wait' = Wait /\ b'.state = b.state
    PROVE  [Promise!Next]_(Promise!vars)
BY DEF Promise!Next, Promise!vars, Promise!AdmitProbe, Promise!ReportSuccess,
       Promise!ReportFailure, Promise!Reset, Promise!Tick, Wait

LEMMA AskPromise ==
    ASSUME IInv, NEW r \in Requests, Ask(r)
    PROVE  [Promise!Next]_(Promise!vars)
<1>1. TypeOK
  BY DEF IInv
<1>2. CASE b' = b
  <2>1. b'.state = b.state /\ Wait' = Wait
    BY <1>2 DEF Wait
  <2> QED
    BY <2>1, PromiseStep
<1>3. CASE b' # b
  <2>1. /\ b.state \in {"open", "half_open"}
        /\ b.state = "open" => b.openedAgo = OpenDuration
        /\ b.state = "half_open" => b.probeAgo \in {Never, OpenDuration}
        /\ b'.state = "half_open" /\ b'.probeAgo = 0
    BY <1>1, <1>3, AskCases DEF TypeOK, BreakerRecord
  <2>2. Wait = 0 /\ Wait' = OpenDuration
    BY <2>1, WaitValue, WaitValueNext, BreakerAssumption DEF Never
  <2> QED
    BY <2>1, <2>2, PromiseStep
<1> QED
  BY <1>2, <1>3

LEMMA SucceedPromise ==
    ASSUME IInv, NEW r \in Requests, Succeed(r)
    PROVE  [Promise!Next]_(Promise!vars)
<1>1. TypeOK
  BY DEF IInv
<1>2. CASE b.state # "half_open"
  <2>1. b'.state = b.state /\ b'.openedAgo = b.openedAgo /\ b'.probeAgo = b.probeAgo
    BY <1>1, <1>2, SucceedCases DEF TypeOK, BreakerRecord
  <2>2. Wait' = Wait
    BY <2>1 DEF Wait
  <2> QED
    BY <2>1, <2>2, PromiseStep
<1>3. CASE b.state = "half_open"
  <2>1. b'.state \in {"half_open", "closed"} /\ b'.probeAgo = Never
    BY <1>1, <1>3, SucceedCases DEF TypeOK, BreakerRecord, Recovered
  <2> QED
    BY <1>3, <2>1, WaitValueNext, PromiseStep
<1> QED
  BY <1>2, <1>3

LEMMA FailPromise ==
    ASSUME IInv, NEW r \in Requests, Fail(r)
    PROVE  [Promise!Next]_(Promise!vars)
<1>1. TypeOK
  BY DEF IInv
<1>2. CASE b'.state # b.state
  <2>1. b.state \in {"closed", "half_open"} /\ b'.state = "open" /\ b'.openedAgo = 0
    BY <1>1, <1>2, FailCases DEF TypeOK, BreakerRecord, Opened
  <2>2. Wait' = OpenDuration
    BY <2>1, WaitValueNext, BreakerAssumption
  <2> QED
    BY <2>1, <2>2, PromiseStep
<1>3. CASE b'.state = b.state
  <2>1. b.state # "half_open" /\ b'.openedAgo = b.openedAgo /\ b'.probeAgo = b.probeAgo
    BY <1>1, <1>3, FailCases DEF TypeOK, BreakerRecord, Opened
  <2>2. Wait' = Wait
    BY <1>3, <2>1 DEF Wait
  <2> QED
    BY <1>3, <2>2, PromiseStep
<1> QED
  BY <1>2, <1>3

LEMMA TickPromise ==
    ASSUME IInv, Tick
    PROVE  [Promise!Next]_(Promise!vars)
<1>1. TypeOK
  BY DEF IInv
<1>2. /\ b'.state = b.state
      /\ b'.openedAgo = Older(b.openedAgo, OpenDuration)
      /\ b'.probeAgo = Older(b.probeAgo, OpenDuration)
  BY <1>1 DEF Tick, Aged, TypeOK, BreakerRecord
<1>3. CASE b.state = "open"
  <2>1. Wait = OpenDuration - b.openedAgo /\ Wait' = OpenDuration - b'.openedAgo
    BY <1>2, <1>3, WaitValue, WaitValueNext
  <2> QED
    BY <1>1, <1>2, <2>1, Fields, PromiseStep, BreakerAssumption DEF Older, Never
<1>4. CASE b.state = "half_open" /\ b.probeAgo # Never
  <2>1. b'.probeAgo # Never
    BY <1>1, <1>2, <1>4, Fields, OlderType, BreakerAssumption
  <2>2. Wait = OpenDuration - b.probeAgo /\ Wait' = OpenDuration - b'.probeAgo
    BY <1>2, <1>4, <2>1, WaitValue, WaitValueNext
  <2> QED
    BY <1>1, <1>2, <1>4, <2>2, Fields, PromiseStep, BreakerAssumption DEF Older, Never, Ages
<1>5. CASE b.state = "half_open" /\ b.probeAgo = Never
  <2>1. b'.probeAgo = Never
    BY <1>2, <1>5 DEF Older
  <2> QED
    BY <1>2, <1>5, <2>1, WaitValue, WaitValueNext, PromiseStep
<1>6. CASE b.state = "closed"
  BY <1>2, <1>6, WaitValue, WaitValueNext, PromiseStep
<1> QED
  BY <1>1, <1>3, <1>4, <1>5, <1>6, Fields DEF BreakerStates

\* Allow, RecordSuccess and RecordFailure let no more requests through to a
\* service considered down than Circuit admits, however many handlers call
\* them and however late or lost their reports are.
THEOREM ImplementsCircuit == Spec => PacesProbes
<1>1. Init => Promise!Init
  BY WaitValue DEF Init, Promise!Init, NewBreaker, Wait
<1>2. IInv /\ [Next]_vars => [Promise!Next]_(Promise!vars)
  <2> SUFFICES ASSUME IInv, [Next]_vars PROVE [Promise!Next]_(Promise!vars)
    OBVIOUS
  <2>1. CASE UNCHANGED b
    <3>1. b'.state = b.state /\ Wait' = Wait
      BY <2>1 DEF Wait
    <3> QED
      BY <3>1, PromiseStep
  <2>2. CASE Reset
    BY <2>2, WaitValueNext, PromiseStep DEF Reset, NewBreaker
  <2> QED
    BY <2>1, <2>2, AskPromise, SucceedPromise, FailPromise, TickPromise
       DEF Next, Bypass, Dispatch, Withdraw, EndUnreported, Toggle, vars
<1> QED
  BY <1>1, <1>2, Invariant, PTL DEF Spec, PacesProbes, Promise!Spec
=============================================================================
