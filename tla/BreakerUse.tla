---------------------------- MODULE BreakerUse ----------------------------
(***************************************************************************)
(* One circuit breaker of the BreakerStore and the concurrent requests     *)
(* that use it.  A request reaches the service in one of two ways:         *)
(*   - selected by a tactic, which claims the breaker with Allow           *)
(*     (PickBreakerAvailable, internal/typ/tactics.go);                    *)
(*   - without asking Allow: an affinity pin, the only healthy service of  *)
(*     a rule, or the degraded pick when every service is tripped.         *)
(* Its outcome is reported by DispatchWithPriorityFailover, possibly long  *)
(* after the breaker changed state, or never: a selection may be dropped   *)
(* before dispatch, and an attempt that ends in a non-retryable buffered   *)
(* response reports nothing.                                               *)
(***************************************************************************)
EXTENDS Breaker

CONSTANT Requests

VARIABLES
    b,        \* the breaker
    req,      \* what each request is doing
    up,       \* whether the upstream service works
    streak,   \* history: the run of equal outcomes reported last
    probing   \* history: the probes whose claim is neither reported nor lost

vars == <<b, req, up, streak, probing>>

Phases == {"idle", "picked", "sent"}

\* Runs of outcomes are counted up to the length the thresholds care about.
MaxStreak == IF FailureThreshold > RecoveryThreshold
             THEN FailureThreshold ELSE RecoveryThreshold

Streaks == [kind : {"success", "failure"}, n : 0..MaxStreak]

NoStreak == [kind |-> "success", n |-> 0]

Longer(kind) ==
    [kind |-> kind,
     n |-> IF streak.kind # kind THEN 1
           ELSE IF streak.n < MaxStreak THEN streak.n + 1 ELSE streak.n]

TypeOK ==
    /\ b \in BreakerRecord
    /\ req \in [Requests -> Phases]
    /\ up \in BOOLEAN
    /\ streak \in Streaks
    /\ probing \subseteq Requests

Init ==
    /\ b = NewBreaker
    /\ req = [r \in Requests |-> "idle"]
    /\ up = TRUE
    /\ streak = NoStreak
    /\ probing = {}

-----------------------------------------------------------------------------
Move(r, from, to) ==
    /\ req[r] = from
    /\ req' = [req EXCEPT ![r] = to]

\* A tactic picks the service and Allow says yes; when it says no, nothing
\* changes.  In a trial the claim makes r the probe, in place of a lost one.
Ask(r) ==
    /\ Move(r, "idle", "picked")
    /\ Allow(b)
    /\ b' = AfterAllow(b)
    /\ probing' = IF b.state = "closed" THEN probing
                  ELSE IF ProbeLost(b) THEN {r}
                  ELSE probing \cup {r}
    /\ UNCHANGED <<up, streak>>

\* The service is used without asking the breaker.
Bypass(r) ==
    /\ Move(r, "idle", "sent")
    /\ UNCHANGED <<b, up, streak, probing>>

Dispatch(r) ==
    /\ Move(r, "picked", "sent")
    /\ UNCHANGED <<b, up, streak, probing>>

\* Selected and never dispatched: the selector rejects the service after the
\* tactic claimed it (its provider is disabled).
Withdraw(r) ==
    /\ Move(r, "picked", "idle")
    /\ probing' = probing \ {r}
    /\ UNCHANGED <<b, up, streak>>

\* The attempt ends uncommitted with a non-retryable status: no report.
EndUnreported(r) ==
    /\ Move(r, "sent", "idle")
    /\ probing' = probing \ {r}
    /\ UNCHANGED <<b, up, streak>>

Succeed(r) ==
    /\ up
    /\ Move(r, "sent", "idle")
    /\ b' = AfterSuccess(b)
    /\ streak' = Longer("success")
    /\ probing' = probing \ {r}
    /\ UNCHANGED up

Fail(r) ==
    /\ ~up
    /\ Move(r, "sent", "idle")
    /\ b' = AfterFailure(b)
    /\ streak' = Longer("failure")
    /\ probing' = IF AfterFailure(b).state = "open" THEN {} ELSE probing \ {r}
    /\ UNCHANGED up

\* BreakerStore.Reset: the simulator drops every breaker of the process.
Reset ==
    /\ b' = NewBreaker
    /\ streak' = NoStreak
    /\ probing' = {}
    /\ UNCHANGED <<req, up>>

Tick == b' = Aged(b) /\ UNCHANGED <<req, up, streak, probing>>

Toggle == up' = ~up /\ UNCHANGED <<b, req, streak, probing>>

Next ==
    \/ \E r \in Requests :
         \/ Ask(r) \/ Bypass(r) \/ Dispatch(r) \/ Withdraw(r)
         \/ EndUnreported(r) \/ Succeed(r) \/ Fail(r)
    \/ Reset \/ Tick \/ Toggle

Spec == Init /\ [][Next]_vars

(***************************************************************************)
(* Time passes; the rule keeps receiving traffic that is routed by its     *)
(* tactic; not every selection is withdrawn, and not every dispatched      *)
(* request of a working service ends without a report (streams report).    *)
(***************************************************************************)
Fairness ==
    /\ WF_vars(Tick)
    /\ SF_vars(\E r \in Requests : Ask(r))
    /\ SF_vars(\E r \in Requests : Dispatch(r))
    /\ SF_vars(\E r \in Requests : Succeed(r))

FairSpec == Spec /\ Fairness

-----------------------------------------------------------------------------
Run(kind) == IF streak.kind = kind THEN streak.n ELSE 0

\* The counters are what they claim to be: the failures in a row a closed
\* breaker has seen, always fewer than FailureThreshold, and probe successes
\* nothing interrupted.
CountsMatchOutcomes ==
    /\ b.state = "closed" =>
          b.consecFails = Run("failure") /\ b.consecFails < FailureThreshold
    /\ b.state = "half_open" => b.halfOpenSuccess <= Run("success")

\* A probe slot is claimed, successes are counted and the promotion hold runs
\* only in the state each belongs to; a leftover would let a tripped service
\* look freshly recovered, or start its next trial half won.
NoLeftovers ==
    /\ b.probeAgo # Never \/ b.halfOpenSuccess # 0 => b.state = "half_open"
    /\ b.closedAgo # Never => b.state = "closed"

\* The breaker trips on nothing less than FailureThreshold failures in a row:
\* successes in between, a recovery or a reset start the count over.
TripsOnlyOnStreak ==
    [][b.state = "closed" /\ b'.state = "open"
       => streak'.kind = "failure" /\ streak'.n >= FailureThreshold]_vars

\* A trial ends closed only after RecoveryThreshold successes in a row, with
\* no failure of any request reported in between.
RecoversOnlyOnStreak ==
    [][b.state = "half_open" /\ b'.state = "closed"
       => \/ streak'.kind = "success" /\ streak'.n >= RecoveryThreshold
          \/ b' = NewBreaker]_vars

\* Two timestamps and four counters amount to the one countdown of Circuit:
\* however outcomes are interleaved, lost or late, a service considered down
\* sees at most one tactic-routed request per OpenDuration or success report.
Promise ==
    INSTANCE Circuit WITH
        shut <- b.state # "closed",
        trial <- b.state = "half_open",
        wait <- CASE b.state = "open" -> OpenDuration - b.openedAgo
                  [] b.state = "half_open" /\ b.probeAgo # Never -> OpenDuration - b.probeAgo
                  [] OTHER -> 0

PacesProbes == Promise!Spec

\* Once the upstream works for good, the breaker closes for good: no lost,
\* withdrawn or unreported probe can keep a service out of rotation.
Recovers == <>[]up => <>[](b.state = "closed")

\* The documented rule: while half-open, exactly one probe is in flight.
OneProbeAtATime ==
    b.state = "half_open" =>
        \A r, s \in probing : r = s
=============================================================================
