------------------------------ MODULE Gateway ------------------------------
(***************************************************************************)
(* One rule of the AI gateway: concurrent requests are routed to its       *)
(* services (internal/routing: health, affinity and load-balancer stages), *)
(* dispatched behind a first-chunk gate and retried on other services      *)
(* (internal/protocolserver/failover_dispatch.go), while the rule's        *)
(* breakers, the health verdicts and the affinity pins are shared by all.  *)
(*                                                                         *)
(* The health monitor is reduced to the set of services it calls           *)
(* unhealthy; HealthMonitor models it in full.  Smart routing is off.  The *)
(* TTL of a pin is a step that may happen at any time.                     *)
(***************************************************************************)
EXTENDS Selection, FiniteSets

CONSTANTS
    Requests,    \* request handlers, each serving one request after another
    Sessions,
    SessionOf,   \* the session of a handler's requests, or NoSession
    Disabled,    \* services whose provider is disabled
    NoService,
    NoSession

ASSUME GatewayAssumption ==
    /\ SessionOf \in [Requests -> Sessions \cup {NoSession}]
    /\ NoSession \notin Sessions
    /\ Disabled \subseteq Services
    /\ NoService \notin Services
    /\ IsFiniteSet(Services)
    \* a rule with one service is dispatched with neither gate nor breaker
    /\ Cardinality(Services) > 1

VARIABLES
    breaker,   \* per service: its breaker under this rule
    sick,      \* the services IsHealthy refuses
    pin,       \* per session: the service it is pinned to
    req        \* per handler: its request

vars == <<breaker, sick, pin, req>>

(***************************************************************************)
(* The answer of an attempt, as isRetryableStatus and the health report    *)
(* tell them apart: the writer was never touched (status 0), a success, a  *)
(* client error; and, retryable, a 5xx, a 429, a 401 or 403.               *)
(***************************************************************************)
Final == {"untouched", "ok", "rejected"}
Retryable == {"failing", "limited", "denied"}

PCs == {"idle", "affinity", "balance", "walk", "attempt", "judge", "answered", "refused"}

(***************************************************************************)
(* A request: pool is the candidate set of the current stage; left and     *)
(* avail are the buckets not yet visited and the rest of the visited one;  *)
(* tried and svc as in DispatchWithPriorityFailover; status, committed and *)
(* buf are the gate (buf and wire: whose bytes they hold); charged is      *)
(* history: the services the breaker store was told have failed.           *)
(***************************************************************************)
RequestRecord ==
    [pc : PCs,
     pool : SUBSET Services, left : SUBSET Services, avail : SUBSET Services,
     tried : SUBSET Services, svc : Services \cup {NoService},
     status : Final \cup Retryable, committed : BOOLEAN,
     buf : SUBSET Services, wire : SUBSET Services, charged : SUBSET Services]

NoRequest ==
    [pc |-> "idle", pool |-> {}, left |-> {}, avail |-> {},
     tried |-> {}, svc |-> NoService,
     status |-> "untouched", committed |-> FALSE,
     buf |-> {}, wire |-> {}, charged |-> {}]

TypeOK ==
    /\ breaker \in [Services -> BreakerRecord]
    /\ sick \subseteq Services
    /\ pin \in [Sessions -> Services \cup {NoService}]
    /\ req \in [Requests -> RequestRecord]

Init ==
    /\ breaker = [s \in Services |-> NewBreaker]
    /\ sick = {}
    /\ pin = [k \in Sessions |-> NoService]
    /\ req = [r \in Requests |-> NoRequest]

-----------------------------------------------------------------------------
(* Selection *)

\* Keep the healthy services, or all of them when none is: degrade, do not
\* disappear.
HealthyOrAll(pool) == IF pool \subseteq sick THEN pool ELSE pool \ sick

\* ServiceSelector.Select up to the affinity stage.
Arrive(r) ==
    /\ req[r].pc = "idle"
    /\ req' = [req EXCEPT ![r].pc = "affinity", ![r].pool = HealthyOrAll(Services)]
    /\ UNCHANGED <<breaker, sick, pin>>

Dispatched(q, s) ==
    [q EXCEPT !.pc = "attempt", !.svc = s, !.tried = @ \cup {s},
              !.left = {}, !.avail = {}, !.pool = {}]

PinHonoured(r) ==
    /\ SessionOf[r] # NoSession
    /\ pin[SessionOf[r]] \in req[r].pool \ Disabled
    /\ IsAffinityEligible(breaker, req[r].pool, pin[SessionOf[r]])

\* AffinityStage: a pin that is honoured is dispatched without asking the
\* breaker; one that is not, or whose provider is disabled, is passed over.
UseAffinity(r) ==
    /\ req[r].pc = "affinity"
    /\ req' = [req EXCEPT ![r] =
                 IF PinHonoured(r) THEN Dispatched(@, pin[SessionOf[r]])
                 ELSE [@ EXCEPT !.pc = "balance"]]
    /\ UNCHANGED <<breaker, sick, pin>>

\* Faulty variant of Discard: the buffered body survives.
DiscardBufferKept(q) == [q EXCEPT !.status = "untouched"]

\* firstChunkGate.Discard
Discard(q) ==
    IF q.committed THEN q ELSE [q EXCEPT !.status = "untouched", !.buf = {}]

\* The pick of the load balancer's stage is final: when its provider is
\* disabled the pipeline has no further stage and the request is refused.
\* Otherwise postProcess pins the session.
FirstPick(r, s) ==
    /\ req' = [req EXCEPT ![r] = IF s \in Disabled
                                 THEN [NoRequest EXCEPT !.pc = "refused"]
                                 ELSE Dispatched(@, s)]
    /\ pin' = IF s \in Disabled \/ SessionOf[r] = NoSession THEN pin
              ELSE [pin EXCEPT ![SessionOf[r]] = s]

\* The pick of selectFallbackService is dispatched after the failed answer is
\* thrown away.
FallbackPick(r, s) ==
    /\ req' = [req EXCEPT ![r] = Dispatched(Discard(@), s)]
    /\ UNCHANGED pin

Pick(r, s) == IF req[r].tried = {} THEN FirstPick(r, s) ELSE FallbackPick(r, s)

StartWalk(q, pool) ==
    [q EXCEPT !.pc = "walk", !.pool = pool, !.left = pool, !.avail = {}]

\* LoadBalancer.selectService: a single healthy service is taken as it is,
\* several are walked by the tactic.
Balance(r) ==
    /\ req[r].pc = "balance"
    /\ LET pool == HealthyOrAll(req[r].pool) IN
         \/ /\ \E s \in pool : pool = {s} /\ Pick(r, s)
            /\ UNCHANGED <<breaker, sick>>
         \/ /\ Cardinality(pool) > 1
            /\ req' = [req EXCEPT ![r] = StartWalk(@, pool)]
            /\ UNCHANGED <<breaker, sick, pin>>

\* PickBreakerAvailable on the next bucket: read who is available.
OpenBucket(r) ==
    /\ req[r].pc = "walk" /\ req[r].avail = {} /\ req[r].left # {}
    /\ LET bucket == TopBucket(req[r].left) IN
         req' = [req EXCEPT ![r].left = @ \ bucket,
                            ![r].avail = Available(breaker, bucket)]
    /\ UNCHANGED <<breaker, sick, pin>>

\* Faulty variant of Dropped: the refused pick stays a candidate.
NotDropped(q, s) == q

\* removeServiceByID
Dropped(q, s) == [q EXCEPT !.avail = @ \ {s}]

\* ... then claim one of them; a refused claim drops it from the bucket.
Claim(r) ==
    /\ req[r].pc = "walk"
    /\ \E s \in req[r].avail :
         /\ breaker' = [breaker EXCEPT ![s] = AfterAllow(@)]
         /\ IF Allow(breaker[s]) THEN Pick(r, s)
            ELSE /\ req' = [req EXCEPT ![r] = Dropped(@, s)]
                 /\ UNCHANGED pin
    /\ UNCHANGED sick

\* No bucket had a service to claim: take one of the first bucket anyway, so
\* that the client sees a real upstream error.
Degrade(r) ==
    /\ req[r].pc = "walk" /\ req[r].avail = {} /\ req[r].left = {}
    /\ \E s \in TopBucket(req[r].pool) : Pick(r, s)
    /\ UNCHANGED <<breaker, sick>>

-----------------------------------------------------------------------------
(* The attempt, which writes through the gate *)

\* The handler writes before the first real chunk: the gate buffers.
Buffer(r) ==
    /\ req[r].pc = "attempt" /\ ~req[r].committed
    /\ req' = [req EXCEPT ![r].buf = @ \cup {req[r].svc}, ![r].status = "ok"]
    /\ UNCHANGED <<breaker, sick, pin>>

\* Faulty variant of Commit: the gate does not remember that it flushed.
CommitUnmarked(q) == [q EXCEPT !.wire = @ \cup q.buf, !.buf = {}]

\* commit: what is buffered reaches the client.
Commit(q) ==
    IF q.committed THEN q
    ELSE [q EXCEPT !.committed = TRUE, !.wire = @ \cup q.buf, !.buf = {}]

\* CommitFirstChunk, and the chunks that follow it.
Streamed(q) == [Commit(q) EXCEPT !.wire = @ \cup {q.svc}, !.status = "ok"]

Stream(r) ==
    /\ req[r].pc = "attempt"
    /\ req' = [req EXCEPT ![r] = Streamed(@)]
    /\ UNCHANGED <<breaker, sick, pin>>

\* The attempt returns, with the status the gate holds when it did not stream.
Return(r) ==
    /\ req[r].pc = "attempt"
    /\ \/ /\ req[r].committed
          /\ req' = [req EXCEPT ![r].pc = "judge"]
       \/ /\ ~req[r].committed /\ req[r].status = "untouched"
          /\ req' = [req EXCEPT ![r].pc = "judge"]
       \/ /\ ~req[r].committed
          /\ \E st \in (Final \cup Retryable) \ {"untouched"} :
               req' = [req EXCEPT ![r].pc = "judge", ![r].status = st,
                                  ![r].buf = @ \cup {req[r].svc}]
    /\ UNCHANGED <<breaker, sick, pin>>

-----------------------------------------------------------------------------
(* The failover loop *)

IsRetryable(q) == q.status \in Retryable

\* CommitIfBuffered, deferred to the end of the loop.
Answered(q) ==
    [(IF q.buf = {} /\ q.status = "untouched" THEN q ELSE Commit(q))
        EXCEPT !.pc = "answered"]

\* The gate committed: the attempt counts as a success, whatever came later.
JudgeCommitted(r) ==
    /\ req[r].pc = "judge" /\ req[r].committed
    /\ breaker' = [breaker EXCEPT ![req[r].svc] = AfterSuccess(@)]
    /\ req' = [req EXCEPT ![r] = Answered(@)]
    /\ UNCHANGED <<sick, pin>>

\* A buffered answer that is not retryable is passed on; the breaker learns
\* nothing from it, be it an error of the client or a success.
JudgeFinal(r) ==
    /\ req[r].pc = "judge" /\ ~req[r].committed /\ ~IsRetryable(req[r])
    /\ req' = [req EXCEPT ![r] = Answered(@)]
    /\ UNCHANGED <<breaker, sick, pin>>

\* Faulty variant of Blamed: a service tried earlier is charged again.
BlamedFirst(q) == CHOOSE s \in q.tried : TRUE

\* The service of the attempt that failed, not the one first selected.
Blamed(q) == q.svc

\* Faulty variant of Untried: an unhealthy service is no longer worth a try.
UntriedHealthy(q) == Services \ (q.tried \cup sick)

\* The services selectFallbackService chooses from: health, the provider's
\* Enabled flag and the affinity pin play no part.
Untried(q) == Services \ q.tried

\* ReportRateLimit or ReportAuthError, then RecordServiceFailure.
Charge(s, status) ==
    /\ breaker' = [breaker EXCEPT ![s] = AfterFailure(@)]
    /\ sick' = IF status \in {"limited", "denied"} THEN sick \cup {s} ELSE sick

\* A retryable failure: report it, then look for a service not tried yet.  Only
\* the tactics other than TacticTier go through the load balancer again.
JudgeFailed(r) ==
    /\ req[r].pc = "judge" /\ ~req[r].committed /\ IsRetryable(req[r])
    /\ Charge(Blamed(req[r]), req[r].status)
    /\ LET q == [req[r] EXCEPT !.charged = @ \cup {Blamed(req[r])}]
           rest == Untried(q)
       IN  req' = [req EXCEPT ![r] =
                     IF rest = {} THEN Answered(q)
                     ELSE IF Horizontal THEN [q EXCEPT !.pc = "balance", !.pool = rest]
                     ELSE StartWalk(q, rest)]
    /\ UNCHANGED pin

\* The handler is free for another request.
Leave(r) ==
    /\ req[r].pc \in {"answered", "refused"}
    /\ req' = [req EXCEPT ![r] = NoRequest]
    /\ UNCHANGED <<breaker, sick, pin>>

-----------------------------------------------------------------------------
(* The rest of the process *)

Tick ==
    /\ breaker' = [s \in Services |-> Aged(breaker[s])]
    /\ UNCHANGED <<sick, pin, req>>

\* HealthMonitor recovers a service, or another rule's traffic reports it.
HealthChanges(s) ==
    /\ sick' = IF s \in sick THEN sick \ {s} ELSE sick \cup {s}
    /\ UNCHANGED <<breaker, pin, req>>

\* The TTL of a pin passes, or DeleteByRule drops it.
PinLapses(k) ==
    /\ pin[k] # NoService
    /\ pin' = [pin EXCEPT ![k] = NoService]
    /\ UNCHANGED <<breaker, sick, req>>

Step(r) ==
    \/ UseAffinity(r) \/ Balance(r) \/ OpenBucket(r) \/ Claim(r) \/ Degrade(r)
    \/ Return(r) \/ JudgeCommitted(r) \/ JudgeFinal(r) \/ JudgeFailed(r) \/ Leave(r)

Next ==
    \/ \E r \in Requests : Arrive(r) \/ Buffer(r) \/ Stream(r) \/ Step(r)
    \/ Tick
    \/ \E s \in Services : HealthChanges(s)
    \/ \E k \in Sessions : PinLapses(k)

Spec == Init /\ [][Next]_vars

\* A handler goroutine keeps running, and an attempt ends: providers have a
\* request timeout.
FairSpec == Spec /\ \A r \in Requests : WF_vars(Step(r))

-----------------------------------------------------------------------------
\* Bytes on the wire are those of the attempt being made: once the first chunk
\* is out, the request is never dispatched again.
NoRetryAfterFirstByte ==
    \A r \in Requests : req[r].wire \subseteq {req[r].svc}

\* The breakers are charged for the services that failed and no other: all that
\* were tried, but for the one being tried and the one whose answer was final.
ChargedExactly ==
    \A r \in Requests :
        LET q == req[r]
            spared == \/ q.pc \in {"attempt", "judge"}
                      \/ q.pc = "answered" /\ ~IsRetryable(q)
        IN  q.charged = IF spared THEN q.tried \ {q.svc} ELSE q.tried

\* A failure another service might have masked reaches the client only after
\* every active service was tried.
FailsOnlyWhenExhausted ==
    \A r \in Requests :
        req[r].pc = "answered" /\ req[r].status \in Retryable =>
            req[r].charged = Services

UsesPin(r) == req[r].pc = "affinity" /\ req'[r].pc = "attempt"

\* A pin is passed over once a service of a higher-priority tier is available
\* and that tier has been recovered for the promotion hold.
PinYieldsToSettledPrimary ==
    [][\A r \in Requests : UsesPin(r) =>
         \A s \in Available(breaker, req[r].pool) :
            TierOf[s] < TierOf[req'[r].svc] =>
              \E t \in req[r].pool :
                 TierOf[t] <= TierOf[s] /\ WithinPromotionHold(breaker[t])]_vars

\* Every request is answered or refused: neither the claims lost to other
\* requests nor the retries go on for ever.
RequestsEnd ==
    \A r \in Requests : req[r].pc # "idle" ~> req[r].pc = "idle"

-----------------------------------------------------------------------------
(* What a rule promises its clients, Failover, of which this is an           *)
(* implementation.                                                           *)

Phase(q) ==
    CASE q.pc = "idle" -> "idle" [] q.pc = "answered" -> "over"
      [] q.pc = "refused" -> "refused" [] OTHER -> "open"

Promise == INSTANCE Failover WITH
    Clients <- Requests,
    phase <- [r \in Requests |-> Phase(req[r])],
    tried <- [r \in Requests |-> req[r].tried],
    failed <- [r \in Requests |-> req[r].charged],
    heard <- [r \in Requests |-> req[r].wire]

\* Whatever requests do to each other through breakers, pins and health, each
\* client is served by one service at a time, by another only after the last
\* one failed unheard, never twice by the same, and it is shown a failure only
\* when none is left (DispatchWithPriorityFailover behind firstChunkGate).
KeepsFailover == Promise!Spec

-----------------------------------------------------------------------------
(* What a comment says and the code does not do *)

\* IsAffinityEligible's comment: a pin counts only while its own breaker is
\* available, unless every service is tripped.
PinIsAvailable ==
    [][\A r \in Requests : UsesPin(r) =>
         \/ IsAvailable(breaker[req'[r].svc])
         \/ Available(breaker, req[r].pool) = {}]_vars
=============================================================================
