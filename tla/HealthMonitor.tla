--------------------------- MODULE HealthMonitor ---------------------------
(***************************************************************************)
(* The health record of one service, internal/loadbalance/                 *)
(* health_monitor.go, with the routers that ask IsHealthy and the handlers *)
(* that report outcomes.  Records of different services are independent.   *)
(*                                                                         *)
(* IsHealthy is not atomic: it copies the record under the read lock, runs *)
(* the probe, a real request to the provider, with no lock held, and only  *)
(* then writes the verdict.  Everything else holds the record's lock.      *)
(***************************************************************************)
EXTENDS Integers

CONSTANTS
    Callers,          \* concurrent calls of IsHealthy
    RecoveryTimeout,  \* ticks
    ProbeEnabled      \* FALSE: recovery is on time alone

ASSUME HealthAssumption ==
    /\ RecoveryTimeout \in Nat \ {0}
    /\ ProbeEnabled \in BOOLEAN

VARIABLES
    healthy,      \* Status
    rateLimited,  \* RateLimited
    authError,    \* AuthError
    limitLeft,    \* ticks until RateLimitedUntil, 0 once past or unset
    errorAgo,     \* age of LastErrorTime, up to one past RecoveryTimeout
    calling,      \* calls of IsHealthy whose probe is running
    overtaken,    \* history: those of them that began before the last error
    byHand,       \* history: the last step was ResetHealth
    up            \* whether the upstream serves requests

record == <<healthy, rateLimited, authError, limitLeft, errorAgo>>
vars == <<record, calling, overtaken, byHand, up>>

TypeOK ==
    /\ healthy \in BOOLEAN /\ rateLimited \in BOOLEAN /\ authError \in BOOLEAN
    /\ up \in BOOLEAN /\ byHand \in BOOLEAN
    /\ limitLeft \in 0..RecoveryTimeout
    /\ errorAgo \in 0..(RecoveryTimeout + 1)
    /\ calling \subseteq Callers
    /\ overtaken \subseteq calling

Init ==
    /\ healthy = TRUE /\ rateLimited = FALSE /\ authError = FALSE
    /\ limitLeft = 0
    /\ errorAgo = RecoveryTimeout + 1
    /\ calling = {} /\ overtaken = {}
    /\ up = TRUE /\ byHand = FALSE

-----------------------------------------------------------------------------
\* Faulty variant of WithinLimit: the window has no end.
RateLimitedForGood == rateLimited

\* now.Before(RateLimitedUntil), of a rate-limited service.
WithinLimit == rateLimited /\ limitLeft > 0

RecoveryDue == errorAgo > RecoveryTimeout

\* recoverService, and the recovery of ReportSuccess.
Recover ==
    IF healthy THEN UNCHANGED record
    ELSE /\ healthy' = TRUE
         /\ rateLimited' = FALSE
         /\ authError' = FALSE
         /\ limitLeft' = 0
         /\ UNCHANGED errorAgo

\* IsHealthy up to the probe.  In every other case it answers from the copy
\* and changes nothing.
StartProbe(c) ==
    /\ c \notin calling
    /\ ~healthy /\ ~WithinLimit /\ RecoveryDue
    /\ calling' = calling \cup {c}
    /\ byHand' = FALSE
    /\ UNCHANGED <<record, overtaken, up>>

EndCall(c) ==
    /\ c \in calling
    /\ calling' = calling \ {c}
    /\ overtaken' = overtaken \ {c}
    /\ byHand' = FALSE

\* The probe succeeds, or there is none: recover, whatever happened meanwhile.
ProbeSucceeds(c) ==
    /\ up \/ ~ProbeEnabled
    /\ EndCall(c)
    /\ Recover
    /\ UNCHANGED up

ExtendRecoveryTimeout == errorAgo' = 0

\* The probe fails: extendRecoveryTimeout.
ProbeFails(c) ==
    /\ ~up /\ ProbeEnabled
    /\ EndCall(c)
    /\ ExtendRecoveryTimeout
    /\ UNCHANGED <<healthy, rateLimited, authError, limitLeft, up>>

\* LastErrorTime.  Every probe still running now knows an older record.
ErrorStamp ==
    /\ errorAgo' = 0
    /\ overtaken' = calling
    /\ byHand' = FALSE

\* Faulty variant of ReportRateLimit: the RateLimited flag is not set.
RateLimitUnflagged ==
    /\ ~up
    /\ healthy' = FALSE
    /\ limitLeft' = RecoveryTimeout
    /\ ErrorStamp
    /\ UNCHANGED <<rateLimited, authError, calling, up>>

\* A 429: the window of RateLimitedUntil starts over.
ReportRateLimit ==
    /\ ~up
    /\ healthy' = FALSE
    /\ rateLimited' = TRUE
    /\ limitLeft' = RecoveryTimeout
    /\ ErrorStamp
    /\ UNCHANGED <<authError, calling, up>>

\* A 401 or 403; an open rate-limit window stays as it is.
ReportAuthError ==
    /\ ~up
    /\ healthy' = FALSE
    /\ authError' = TRUE
    /\ ErrorStamp
    /\ UNCHANGED <<rateLimited, limitLeft, calling, up>>

\* Faulty variant of ReportSuccess: a success ends the window.
ReportSuccessAnyTime ==
    /\ up
    /\ Recover
    /\ byHand' = FALSE
    /\ UNCHANGED <<calling, overtaken, up>>

\* A success inside the window is noted and does not recover the service.
ReportSuccess ==
    /\ up
    /\ ~WithinLimit
    /\ Recover
    /\ byHand' = FALSE
    /\ UNCHANGED <<calling, overtaken, up>>

\* ResetHealth, from the admin API.
ResetHealth == Recover /\ byHand' = TRUE /\ UNCHANGED <<calling, overtaken, up>>

\* Faulty variant of Tick: the age of the last error is not capped.
TickUnbounded ==
    /\ limitLeft' = IF limitLeft > 0 THEN limitLeft - 1 ELSE 0
    /\ errorAgo' = errorAgo + 1
    /\ byHand' = FALSE
    /\ UNCHANGED <<healthy, rateLimited, authError, calling, overtaken, up>>

Tick ==
    /\ limitLeft' = IF limitLeft > 0 THEN limitLeft - 1 ELSE 0
    /\ errorAgo' = IF RecoveryDue THEN errorAgo ELSE errorAgo + 1
    /\ byHand' = FALSE
    /\ UNCHANGED <<healthy, rateLimited, authError, calling, overtaken, up>>

Toggle ==
    /\ up' = ~up
    /\ byHand' = FALSE
    /\ UNCHANGED <<record, calling, overtaken>>

Next ==
    \/ \E c \in Callers : StartProbe(c) \/ ProbeSucceeds(c) \/ ProbeFails(c)
    \/ ReportRateLimit \/ ReportAuthError \/ ReportSuccess \/ ResetHealth
    \/ Tick \/ Toggle

Spec == Init /\ [][Next]_vars

\* Time passes, the router keeps asking, and a probe ends.
FairSpec ==
    /\ Spec
    /\ WF_vars(Tick)
    /\ WF_vars(\E c \in Callers : StartProbe(c))
    /\ \A c \in Callers : WF_vars(ProbeSucceeds(c)) /\ WF_vars(ProbeFails(c))

-----------------------------------------------------------------------------
\* The verdict and its reason never part: a healthy service carries no error,
\* an unhealthy one has a reason, and an open window belongs to a 429.
ReasonMatchesVerdict ==
    /\ healthy <=> ~rateLimited /\ ~authError
    /\ limitLeft > 0 => rateLimited

\* The documented rule: RateLimitedUntil is the earliest time a rate limit is
\* cleared, except by the operator.
WindowHolds == [][WithinLimit /\ healthy' => byHand']_vars

\* What the code guarantees instead: only a probe that was already running
\* when the last error was reported can end a rate limit before its time.
OnlyOvertakenProbesCutWindow ==
    [][WithinLimit /\ healthy' /\ ~byHand'
       => \E c \in overtaken : c \notin calling']_vars

\* A service that works again for good is back in rotation for good, whatever
\* mix of rate limits, auth errors, failed and concurrent probes came before.
NoBanishment == <>[]up => <>[]healthy
=============================================================================
