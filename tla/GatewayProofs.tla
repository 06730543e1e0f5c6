--------------------------- MODULE GatewayProofs ---------------------------
(***************************************************************************)
(* Proofs about Gateway, for every set of services, tiers, sessions and    *)
(* handlers, every tactic and every threshold.                             *)
(*                                                                         *)
(* What a request goes through is independent of the other requests but    *)
(* for what it reads of the shared state, and no safety property of a      *)
(* request depends on what it reads.  So the invariant is one predicate    *)
(* per request, Sound, and each action is shown to leave its own request   *)
(* sound.                                                                  *)
(***************************************************************************)
EXTENDS Gateway, BreakerLemmas

Selecting == {"affinity", "balance", "walk"}

\* The gate holds bytes of the current attempt alone, and none before the
\* first; candidates were not tried; the attempt's service was.
Sound(q) ==
    /\ q \in RequestRecord
    /\ q.wire \cup q.buf \subseteq {q.svc}
    /\ ~q.committed => q.wire = {}
    /\ q.tried = {} => q.buf = {}
    /\ q.pc = "idle" => q = NoRequest
    /\ q.pc = "affinity" => q.tried = {}
    /\ q.pc \in Selecting =>
         /\ ~q.committed
         /\ q.pool \cap q.tried = {}
         /\ q.left \cup q.avail \subseteq q.pool
    /\ q.pc \in {"attempt", "judge"} =>
         /\ q.svc \in q.tried
         /\ q.left = {} /\ q.avail = {}
         /\ q.committed => q.status = "ok"
    /\ q.charged = IF \/ q.pc \in {"attempt", "judge"}
                      \/ q.pc = "answered" /\ ~IsRetryable(q)
                   THEN q.tried \ {q.svc} ELSE q.tried
    /\ q.pc = "answered" /\ IsRetryable(q) => q.tried = Services

IInv == TypeOK /\ \A r \in Requests : Sound(req[r])

\* The action moves the request of handler r to q and no other.
Becomes(r, q) == req' = [req EXCEPT ![r] = q]

-----------------------------------------------------------------------------
(* What the operators on a request preserve *)

\* An idle handler, and one whose request was refused.
LEMMA EmptySound == Sound(NoRequest) /\ Sound([NoRequest EXCEPT !.pc = "refused"])
BY DEF Sound, NoRequest, RequestRecord, PCs, Selecting, Final, Retryable, IsRetryable

\* Dispatching to a candidate, with nothing buffered.
LEMMA DispatchSound ==
    ASSUME NEW q, Sound(q), q.pc \in Selecting, q.buf = {}, NEW s \in q.pool
    PROVE  Sound(Dispatched(q, s))
<1> DEFINE d == Dispatched(q, s)
<1>1. q \in RequestRecord /\ s \in Services /\ s \notin q.tried
  BY DEF Sound, RequestRecord
<1>2. d \in RequestRecord
  BY <1>1 DEF Dispatched, RequestRecord, PCs
<1>3. /\ d.pc = "attempt" /\ d.svc = s /\ d.tried = q.tried \cup {s}
      /\ d.buf = q.buf /\ d.wire = q.wire /\ d.committed = q.committed
      /\ d.charged = q.charged /\ d.left = {} /\ d.avail = {}
  BY <1>1 DEF Dispatched, RequestRecord
<1>4. ~q.committed /\ q.wire = {} /\ q.charged = q.tried
  BY DEF Sound, Selecting
<1> HIDE DEF d
<1> QED
  BY <1>1, <1>2, <1>3, <1>4 DEF Sound, Selecting, d

\* Discarding the answer of a failed attempt empties the buffer.
LEMMA DiscardSound ==
    ASSUME NEW q, Sound(q), q.pc \in {"balance", "walk"}
    PROVE  /\ Sound(Discard(q)) /\ Discard(q).buf = {}
           /\ Discard(q).pc = q.pc /\ Discard(q).pool = q.pool
BY DEF Sound, Discard, RequestRecord, Selecting, IsRetryable, Final, Retryable

\* The flush at the end of the loop, when the request ends answered.
LEMMA AnsweredSound ==
    ASSUME NEW q \in RequestRecord,
           ~q.committed => q.wire = {},
           q.wire \cup q.buf \subseteq {q.svc},
           q.tried # {},
           q.charged = IF IsRetryable(q) THEN q.tried ELSE q.tried \ {q.svc},
           IsRetryable(q) => q.tried = Services
    PROVE  Sound(Answered(q))
<1>1. Commit(q) \in RequestRecord
  BY DEF Commit, RequestRecord
<1>2. /\ Commit(q).svc = q.svc /\ Commit(q).status = q.status /\ Commit(q).tried = q.tried
      /\ Commit(q).charged = q.charged
      /\ Commit(q).wire \cup Commit(q).buf \subseteq {q.svc}
      /\ Commit(q).committed
  BY DEF Commit, RequestRecord
<1> QED
  BY <1>1, <1>2 DEF Answered, Sound, RequestRecord, PCs, Selecting, IsRetryable

-----------------------------------------------------------------------------
(* One lemma per action *)

\* The types of the shared state after a step.
SharedTypes ==
    /\ breaker' \in [Services -> BreakerRecord]
    /\ sick' \subseteq Services
    /\ pin' \in [Sessions -> Services \cup {NoService}]

LEMMA StepInv ==
    ASSUME IInv, NEW r \in Requests, NEW q, Sound(q), Becomes(r, q), SharedTypes
    PROVE  IInv'
<1>1. \A p \in Requests : req'[p] = IF p = r THEN q ELSE req[p]
  BY DEF Becomes, IInv, TypeOK
<1>2. req' \in [Requests -> RequestRecord]
  BY DEF Becomes, IInv, TypeOK, Sound
<1>3. \A p \in Requests : Sound(req'[p])
  BY <1>1 DEF IInv
<1>4. TypeOK'
  BY <1>2 DEF TypeOK, SharedTypes
<1> QED
  BY <1>3, <1>4 DEF IInv, Sound

LEMMA PickStep ==
    ASSUME IInv, NEW r \in Requests, req[r].pc \in {"balance", "walk"},
           NEW s \in req[r].pool, Pick(r, s),
           breaker' \in [Services -> BreakerRecord], UNCHANGED sick
    PROVE  IInv'
<1> DEFINE q == req[r]
<1>1. Sound(q) /\ s \in Services
  BY DEF IInv, Sound, RequestRecord
<1>2. CASE q.tried = {} /\ s \in Disabled
  <2>1. Becomes(r, [NoRequest EXCEPT !.pc = "refused"]) /\ UNCHANGED pin
    BY <1>2 DEF Pick, FirstPick, Becomes
  <2> QED
    BY <2>1, EmptySound, StepInv DEF SharedTypes, IInv, TypeOK
<1>3. CASE q.tried = {} /\ s \notin Disabled
  <2>1. Becomes(r, Dispatched(q, s))
    BY <1>3 DEF Pick, FirstPick, Becomes
  <2>2. Sound(Dispatched(q, s))
    BY <1>1, <1>3, DispatchSound DEF Sound, Selecting
  <2>3. pin' \in [Sessions -> Services \cup {NoService}]
    BY <1>1, <1>3 DEF Pick, FirstPick, IInv, TypeOK
  <2> QED
    BY <2>1, <2>2, <2>3, StepInv DEF SharedTypes, IInv, TypeOK
<1>4. CASE q.tried # {}
  <2>1. Becomes(r, Dispatched(Discard(q), s)) /\ UNCHANGED pin
    BY <1>4 DEF Pick, FallbackPick, Becomes
  <2>2. Sound(Dispatched(Discard(q), s))
    BY <1>1, DiscardSound, DispatchSound DEF Selecting
  <2> QED
    BY <2>1, <2>2, StepInv DEF SharedTypes, IInv, TypeOK
<1> QED
  BY <1>2, <1>3, <1>4

\* Every bucket and every filter is a part of what it is given.
LEMMA Parts ==
    ASSUME NEW pool \in SUBSET Services
    PROVE  /\ HealthyOrAll(pool) \subseteq pool
           /\ TopBucket(pool) \subseteq pool
           /\ Available(breaker, pool) \subseteq pool
BY DEF HealthyOrAll, TopBucket, FirstBucket, Available

LEMMA ArriveInv ==
    ASSUME IInv, NEW r \in Requests, Arrive(r)
    PROVE  IInv'
<1> DEFINE q == [NoRequest EXCEPT !.pc = "affinity", !.pool = HealthyOrAll(Services)]
<1>1. req[r] = NoRequest
  BY DEF Arrive, IInv, Sound
<1>2. Becomes(r, q)
  BY <1>1 DEF Arrive, Becomes, IInv, TypeOK
<1>3. Sound(q)
  BY Parts DEF NoRequest, Sound, RequestRecord, PCs, Selecting, IsRetryable, Final, Retryable
<1> QED
  BY <1>2, <1>3, StepInv DEF Arrive, SharedTypes, IInv, TypeOK

LEMMA AffinityInv ==
    ASSUME IInv, NEW r \in Requests, UseAffinity(r)
    PROVE  IInv'
<1> DEFINE q == req[r]
           s == pin[SessionOf[r]]
<1>1. Sound(q) /\ q.pc = "affinity" /\ q.buf = {}
  BY DEF UseAffinity, IInv, Sound
<1>2. CASE PinHonoured(r)
  <2>1. s \in q.pool
    BY <1>2 DEF PinHonoured
  <2>2. Becomes(r, Dispatched(q, s))
    BY <1>2 DEF UseAffinity, Becomes
  <2>3. Sound(Dispatched(q, s))
    BY <1>1, <2>1, DispatchSound DEF Selecting
  <2> QED
    BY <2>2, <2>3, StepInv DEF UseAffinity, SharedTypes, IInv, TypeOK
<1>3. CASE ~PinHonoured(r)
  <2>1. Becomes(r, [q EXCEPT !.pc = "balance"])
    BY <1>3 DEF UseAffinity, Becomes
  <2>2. Sound([q EXCEPT !.pc = "balance"])
    BY <1>1 DEF Sound, RequestRecord, PCs, Selecting, IsRetryable
  <2> QED
    BY <2>1, <2>2, StepInv DEF UseAffinity, SharedTypes, IInv, TypeOK
<1> QED
  BY <1>2, <1>3

\* Starting a walk among candidates not tried yet.
LEMMA WalkSound ==
    ASSUME NEW q \in RequestRecord, NEW pool \in SUBSET (Services \ q.tried),
           ~q.committed, q.wire = {}, q.buf \subseteq {q.svc},
           q.tried = {} => q.buf = {}, q.charged = q.tried
    PROVE  Sound(StartWalk(q, pool))
BY DEF StartWalk, Sound, RequestRecord, PCs, Selecting, IsRetryable

LEMMA BalanceInv ==
    ASSUME IInv, NEW r \in Requests, Balance(r)
    PROVE  IInv'
<1> DEFINE q == req[r]
           pool == HealthyOrAll(q.pool)
<1>1. Sound(q) /\ q.pc = "balance" /\ q \in RequestRecord
  BY DEF Balance, IInv, Sound
<1>2. pool \subseteq q.pool /\ q.pool \subseteq Services
  BY <1>1, Parts DEF RequestRecord
<1>3. ASSUME NEW s \in pool, Pick(r, s), UNCHANGED <<breaker, sick>>
      PROVE  IInv'
  BY <1>1, <1>2, <1>3, PickStep DEF IInv, TypeOK
<1>4. CASE Becomes(r, StartWalk(q, pool)) /\ UNCHANGED <<breaker, sick, pin>>
  <2>1. pool \subseteq Services \ q.tried
    BY <1>1, <1>2 DEF Sound, Selecting
  <2>2. Sound(StartWalk(q, pool))
    BY <1>1, <2>1, WalkSound DEF Sound, Selecting
  <2> QED
    BY <1>4, <2>2, StepInv DEF SharedTypes, IInv, TypeOK
<1> QED
  BY <1>3, <1>4 DEF Balance, Becomes

\* A walk that narrows what it still has to look at.
LEMMA NarrowSound ==
    ASSUME NEW q, Sound(q), q.pc = "walk",
           NEW left \in SUBSET q.pool, NEW avail \in SUBSET q.pool
    PROVE  Sound([q EXCEPT !.left = left, !.avail = avail])
BY DEF Sound, RequestRecord, PCs, Selecting, IsRetryable

LEMMA OpenBucketInv ==
    ASSUME IInv, NEW r \in Requests, OpenBucket(r)
    PROVE  IInv'
<1> DEFINE q == req[r]
           bucket == TopBucket(q.left)
           left == q.left \ bucket
           avail == Available(breaker, bucket)
<1>1. Sound(q) /\ q.pc = "walk" /\ q.left \subseteq q.pool /\ q.left \subseteq Services
  BY DEF OpenBucket, IInv, Sound, RequestRecord, Selecting
<1>2. bucket \subseteq q.left /\ avail \subseteq bucket
  BY <1>1, Parts
<1>3. Becomes(r, [q EXCEPT !.left = left, !.avail = avail])
  BY <1>1 DEF OpenBucket, Becomes, IInv, TypeOK
<1>4. Sound([q EXCEPT !.left = left, !.avail = avail])
  BY <1>1, <1>2, NarrowSound
<1> QED
  BY <1>3, <1>4, StepInv DEF OpenBucket, SharedTypes, IInv, TypeOK

LEMMA ClaimInv ==
    ASSUME IInv, NEW r \in Requests, Claim(r)
    PROVE  IInv'
<1> DEFINE q == req[r]
<1>1. Sound(q) /\ q.pc = "walk" /\ q.avail \subseteq q.pool /\ q.left \subseteq q.pool
  BY DEF Claim, IInv, Sound, Selecting
<1>2. PICK s \in q.avail :
        /\ breaker' = [breaker EXCEPT ![s] = AfterAllow(@)]
        /\ IF Allow(breaker[s]) THEN Pick(r, s)
           ELSE req' = [req EXCEPT ![r] = Dropped(@, s)] /\ UNCHANGED pin
  BY DEF Claim
<1>3. breaker' \in [Services -> BreakerRecord]
  BY <1>1, <1>2, AllowType DEF IInv, TypeOK, Sound, RequestRecord
<1>4. CASE Allow(breaker[s])
  BY <1>1, <1>2, <1>3, <1>4, PickStep DEF Claim
<1>5. CASE ~Allow(breaker[s])
  <2>1. [q EXCEPT !.left = q.left, !.avail = q.avail \ {s}] = Dropped(q, s)
    BY <1>1 DEF Dropped, Sound, RequestRecord
  <2>3. Becomes(r, Dropped(q, s))
    BY <1>2, <1>5 DEF Becomes
  <2>2. Sound([q EXCEPT !.left = q.left, !.avail = q.avail \ {s}])
    BY <1>1, NarrowSound
  <2> QED
    BY <1>2, <1>3, <1>5, <2>1, <2>2, <2>3, StepInv DEF Claim, SharedTypes, IInv, TypeOK
<1> QED
  BY <1>4, <1>5

LEMMA DegradeInv ==
    ASSUME IInv, NEW r \in Requests, Degrade(r)
    PROVE  IInv'
<1>1. TopBucket(req[r].pool) \subseteq req[r].pool
  BY Parts DEF IInv, Sound, RequestRecord
<1> QED
  BY <1>1, PickStep DEF Degrade, IInv, TypeOK

LEMMA BufferInv ==
    ASSUME IInv, NEW r \in Requests, Buffer(r)
    PROVE  IInv'
<1> DEFINE q == [req[r] EXCEPT !.buf = @ \cup {req[r].svc}, !.status = "ok"]
<1>1. Sound(req[r]) /\ req[r].pc = "attempt"
  BY DEF Buffer, IInv
<1>2. Becomes(r, q)
  BY DEF Buffer, Becomes, IInv, TypeOK
<1>3. Sound(q)
  BY <1>1 DEF Sound, RequestRecord, PCs, Selecting, Final, Retryable, IsRetryable
<1> QED
  BY <1>2, <1>3, StepInv DEF Buffer, SharedTypes, IInv, TypeOK

LEMMA StreamInv ==
    ASSUME IInv, NEW r \in Requests, Stream(r)
    PROVE  IInv'
<1> DEFINE c == Commit(req[r])
           q == Streamed(req[r])
<1>1. Sound(req[r]) /\ req[r].pc = "attempt" /\ req[r].svc \in Services
  BY DEF Stream, IInv, Sound, RequestRecord
<1>2. Becomes(r, q)
  BY DEF Stream, Becomes
<1>3. /\ c \in RequestRecord /\ c.pc = "attempt" /\ c.committed
      /\ c.svc = req[r].svc /\ c.tried = req[r].tried /\ c.charged = req[r].charged
      /\ c.wire \cup c.buf \subseteq {c.svc}
  BY <1>1 DEF Commit, Sound, RequestRecord
<1>4. q = [c EXCEPT !.wire = @ \cup {c.svc}, !.status = "ok"]
  BY <1>3 DEF Streamed
<1>5. c.left = {} /\ c.avail = {}
  BY <1>1 DEF Commit, Sound, RequestRecord
<1> HIDE DEF c, q
<1>6. q \in RequestRecord
  BY <1>1, <1>3, <1>4 DEF RequestRecord, Final, Retryable
<1>7. /\ q.pc = "attempt" /\ q.committed /\ q.status = "ok" /\ q.left = {} /\ q.avail = {}
      /\ q.svc = c.svc /\ q.tried = c.tried /\ q.charged = c.charged
      /\ q.wire \cup q.buf \subseteq {q.svc}
  BY <1>3, <1>4, <1>5 DEF RequestRecord
<1>8. Sound(q)
  BY <1>1, <1>3, <1>6, <1>7 DEF Sound, Selecting
<1> QED
  BY <1>2, <1>8, StepInv DEF Stream, SharedTypes, IInv, TypeOK

LEMMA ReturnInv ==
    ASSUME IInv, NEW r \in Requests, Return(r)
    PROVE  IInv'
<1> DEFINE q == req[r]
<1>1. Sound(q) /\ q.pc = "attempt"
  BY DEF Return, IInv
<1>2. CASE Becomes(r, [q EXCEPT !.pc = "judge"])
  <2>1. Sound([q EXCEPT !.pc = "judge"])
    BY <1>1 DEF Sound, RequestRecord, PCs, Selecting, IsRetryable
  <2> QED
    BY <1>2, <2>1, StepInv DEF Return, SharedTypes, IInv, TypeOK
<1>3. ASSUME NEW st \in Final \cup Retryable, ~q.committed,
             Becomes(r, [q EXCEPT !.pc = "judge", !.status = st, !.buf = @ \cup {q.svc}])
      PROVE  IInv'
  <2> DEFINE d == [q EXCEPT !.pc = "judge", !.status = st, !.buf = @ \cup {q.svc}]
  <2>1. q \in RequestRecord /\ q.svc \in q.tried /\ q.buf \subseteq {q.svc}
    BY <1>1 DEF Sound
  <2>2. d \in RequestRecord
    BY <1>3, <2>1 DEF RequestRecord, PCs
  <2>3. /\ d.pc = "judge" /\ d.committed = q.committed /\ d.buf = {q.svc}
        /\ d.svc = q.svc /\ d.wire = q.wire /\ d.tried = q.tried
        /\ d.charged = q.charged /\ d.left = q.left /\ d.avail = q.avail
    BY <2>1 DEF RequestRecord
  <2> HIDE DEF d
  <2>4. Sound(d)
    BY <1>1, <1>3, <2>1, <2>2, <2>3 DEF Sound, Selecting
  <2> QED
    BY <1>3, <2>4, StepInv DEF d, Return, SharedTypes, IInv, TypeOK
<1> QED
  BY <1>2, <1>3 DEF Return, Becomes, IInv, TypeOK

LEMMA JudgeCommittedInv ==
    ASSUME IInv, NEW r \in Requests, JudgeCommitted(r)
    PROVE  IInv'
<1> DEFINE q == req[r]
<1>1. Sound(q) /\ q.pc = "judge" /\ q.committed /\ q.svc \in Services
  BY DEF JudgeCommitted, IInv, Sound, RequestRecord
<1>2. breaker' \in [Services -> BreakerRecord]
  BY <1>1, SuccessType DEF JudgeCommitted, IInv, TypeOK
<1>3. ~IsRetryable(q)
  BY <1>1 DEF Sound, IsRetryable, Retryable
<1>4. Sound(Answered(q))
  BY <1>1, <1>3, AnsweredSound DEF Sound
<1> QED
  BY <1>2, <1>4, StepInv DEF JudgeCommitted, Becomes, SharedTypes, IInv, TypeOK

LEMMA JudgeFinalInv ==
    ASSUME IInv, NEW r \in Requests, JudgeFinal(r)
    PROVE  IInv'
<1>1. Sound(req[r]) /\ req[r].pc = "judge" /\ ~IsRetryable(req[r])
  BY DEF JudgeFinal, IInv
<1>2. Sound(Answered(req[r]))
  BY <1>1, AnsweredSound DEF Sound
<1> QED
  BY <1>2, StepInv DEF JudgeFinal, Becomes, SharedTypes, IInv, TypeOK

LEMMA JudgeFailedInv ==
    ASSUME IInv, NEW r \in Requests, JudgeFailed(r)
    PROVE  IInv'
<1> DEFINE old == req[r]
           q == [old EXCEPT !.charged = @ \cup {Blamed(old)}]
           rest == Untried(q)
<1>1. /\ Sound(old) /\ old.pc = "judge" /\ ~old.committed /\ IsRetryable(old)
      /\ old.svc \in Services
  BY DEF JudgeFailed, IInv, Sound, RequestRecord
<1>2. SharedTypes
  BY <1>1, FailureType DEF JudgeFailed, Charge, Blamed, SharedTypes, IInv, TypeOK
<1>3. q \in RequestRecord
  BY <1>1 DEF Sound, Blamed, RequestRecord
<1>4. /\ q.charged = q.tried /\ q.tried # {} /\ ~q.committed /\ q.wire = {}
      /\ q.buf \subseteq {q.svc} /\ IsRetryable(q) /\ q.left = {} /\ q.avail = {}
  BY <1>1 DEF Sound, Blamed, RequestRecord, IsRetryable
<1>5. rest = Services \ q.tried
  BY DEF Untried
<1> HIDE DEF q, rest
<1>6. CASE rest = {}
  <2>1. q.tried = Services
    BY <1>3, <1>5, <1>6 DEF RequestRecord
  <2>2. Sound(Answered(q))
    BY <1>3, <1>4, <2>1, AnsweredSound
  <2>3. Becomes(r, Answered(q))
    BY <1>6 DEF JudgeFailed, Becomes, q, rest
  <2> QED
    BY <1>2, <2>2, <2>3, StepInv
<1>7. CASE rest # {} /\ Horizontal
  <2>1. Sound([q EXCEPT !.pc = "balance", !.pool = rest])
    BY <1>3, <1>4, <1>5 DEF Sound, RequestRecord, PCs, Selecting
  <2>2. Becomes(r, [q EXCEPT !.pc = "balance", !.pool = rest])
    BY <1>7 DEF JudgeFailed, Becomes, q, rest
  <2> QED
    BY <1>2, <2>1, <2>2, StepInv
<1>8. CASE rest # {} /\ ~Horizontal
  <2>1. Sound(StartWalk(q, rest))
    BY <1>3, <1>4, <1>5, WalkSound
  <2>2. Becomes(r, StartWalk(q, rest))
    BY <1>8 DEF JudgeFailed, Becomes, q, rest
  <2> QED
    BY <1>2, <2>1, <2>2, StepInv
<1> QED
  BY <1>6, <1>7, <1>8

LEMMA LeaveInv ==
    ASSUME IInv, NEW r \in Requests, Leave(r)
    PROVE  IInv'
BY EmptySound, StepInv DEF Leave, Becomes, SharedTypes, IInv, TypeOK

-----------------------------------------------------------------------------
(* The invariant *)

LEMMA InvInit == Init => IInv
BY NewBreakerType, EmptySound DEF Init, IInv, TypeOK, Sound

LEMMA StepActionInv ==
    ASSUME IInv, NEW r \in Requests, Step(r)
    PROVE  IInv'
BY AffinityInv, BalanceInv, OpenBucketInv, ClaimInv, DegradeInv, ReturnInv,
   JudgeCommittedInv, JudgeFinalInv, JudgeFailedInv, LeaveInv DEF Step

\* A step that moves no request need only keep the types.
LEMMA UntouchedInv ==
    ASSUME IInv, UNCHANGED req, TypeOK'
    PROVE  IInv'
BY DEF IInv, Sound

LEMMA InvNext == IInv /\ [Next]_vars => IInv'
<1> SUFFICES ASSUME IInv, [Next]_vars
             PROVE  IInv'
  OBVIOUS
<1>1. ASSUME NEW r \in Requests, Arrive(r) \/ Buffer(r) \/ Stream(r) \/ Step(r)
      PROVE  IInv'
  BY <1>1, ArriveInv, BufferInv, StreamInv, StepActionInv
<1>2. CASE Tick
  <2>1. breaker' \in [Services -> BreakerRecord]
    BY <1>2, AgedType DEF Tick, IInv, TypeOK
  <2> QED
    BY <1>2, <2>1, UntouchedInv DEF Tick, IInv, TypeOK
<1>3. CASE \E s \in Services : HealthChanges(s)
  BY <1>3, UntouchedInv DEF HealthChanges, IInv, TypeOK
<1>4. CASE \E k \in Sessions : PinLapses(k)
  BY <1>4, UntouchedInv DEF PinLapses, IInv, TypeOK
<1>5. CASE UNCHANGED vars
  BY <1>5, UntouchedInv DEF vars, IInv, TypeOK
<1> QED
  BY <1>1, <1>2, <1>3, <1>4, <1>5 DEF Next

\* Every request is sound in every reachable state.
THEOREM Invariant == Spec => []IInv
BY InvInit, InvNext, PTL DEF Spec

-----------------------------------------------------------------------------
(* The safety properties *)

\* Breakers, pins and requests keep their types whatever the requests do.
THEOREM TypeCorrect == Spec => []TypeOK
<1>1. IInv => TypeOK
  BY DEF IInv
<1> QED
  BY <1>1, Invariant, PTL

\* The client reads one answer: no byte of an attempt that was given up ever
\* reaches it next to the bytes of another.
OneVoice ==
    \A r \in Requests : \A s, t \in req[r].wire : s = t

\* The client never reads bytes of two attempts (firstChunkGate).
THEOREM ClientReadsOneAttempt == Spec => []OneVoice
<1>1. ASSUME NEW q, Sound(q)
      PROVE  \A s, t \in q.wire : s = t
  <2>1. q.wire \subseteq {q.svc}
    BY <1>1 DEF Sound
  <2> QED
    BY <2>1
<1>2. IInv => OneVoice
  BY <1>1 DEF IInv, OneVoice
<1> QED
  BY <1>2, Invariant, PTL

\* A request whose first chunk is out is never dispatched again
\* (DispatchWithPriorityFailover returns once the gate has committed).
THEOREM CommitIsFinal == Spec => []NoRetryAfterFirstByte
<1>1. IInv => NoRetryAfterFirstByte
  BY DEF IInv, Sound, NoRetryAfterFirstByte
<1> QED
  BY <1>1, Invariant, PTL

\* The breaker store is told of the failure of the services that failed and of
\* no other, each time before the next service is looked for.
THEOREM BlameIsExact == Spec => []ChargedExactly
<1>1. IInv => ChargedExactly
  BY DEF IInv, Sound, ChargedExactly
<1> QED
  BY <1>1, Invariant, PTL

\* A retryable failure reaches the client only when every active service of the
\* rule was tried and failed.
THEOREM ExhaustedBeforeFailing == Spec => []FailsOnlyWhenExhausted
<1>1. IInv => FailsOnlyWhenExhausted
  BY DEF IInv, Sound, FailsOnlyWhenExhausted, IsRetryable
<1> QED
  BY <1>1, Invariant, PTL

-----------------------------------------------------------------------------
(* The affinity pin *)

\* A handler moves its own request only.
LEMMA OwnRequestOnly ==
    ASSUME TypeOK, NEW p \in Requests, NEW r \in Requests, p # r,
           Arrive(p) \/ Buffer(p) \/ Stream(p) \/ Step(p)
    PROVE  req'[r] = req[r]
<1>1. ASSUME NEW s, Pick(p, s)
      PROVE  req'[r] = req[r]
  BY <1>1 DEF Pick, FirstPick, FallbackPick, TypeOK
<1>2. CASE Arrive(p) \/ Buffer(p) \/ Stream(p)
  BY <1>2 DEF Arrive, Buffer, Stream, TypeOK
<1>3. CASE UseAffinity(p) \/ OpenBucket(p) \/ Return(p) \/ Leave(p)
  BY <1>3 DEF UseAffinity, OpenBucket, Return, Leave, TypeOK
<1>4. CASE JudgeCommitted(p) \/ JudgeFinal(p) \/ JudgeFailed(p)
  BY <1>4 DEF JudgeCommitted, JudgeFinal, JudgeFailed, TypeOK
<1>5. CASE Balance(p)
  BY <1>1, <1>5 DEF Balance, TypeOK
<1>6. CASE Claim(p)
  BY <1>1, <1>6 DEF Claim, TypeOK
<1>7. CASE Degrade(p)
  BY <1>1, <1>7 DEF Degrade, TypeOK
<1> QED
  BY <1>2, <1>3, <1>4, <1>5, <1>6, <1>7 DEF Step

\* A request leaves the affinity stage for an attempt only with its pin.
LEMMA OnlyAffinityUsesPin ==
    ASSUME TypeOK, [Next]_vars, NEW r \in Requests, UsesPin(r)
    PROVE  PinHonoured(r) /\ req'[r].svc = pin[SessionOf[r]]
<1>1. req[r].pc = "affinity" /\ req'[r] # req[r]
  BY DEF UsesPin
<1>2. PICK p \in Requests : Arrive(p) \/ Buffer(p) \/ Stream(p) \/ Step(p)
  BY <1>1 DEF Next, Tick, HealthChanges, PinLapses, vars
<1>3. p = r
  BY <1>1, <1>2, OwnRequestOnly
<1>4. UseAffinity(r)
  BY <1>1, <1>2, <1>3
     DEF Arrive, Buffer, Stream, Step, Balance, OpenBucket, Claim, Degrade,
         Return, JudgeCommitted, JudgeFinal, JudgeFailed, Leave
<1>5. req'[r] = IF PinHonoured(r) THEN Dispatched(req[r], pin[SessionOf[r]])
                ELSE [req[r] EXCEPT !.pc = "balance"]
  BY <1>4 DEF UseAffinity, TypeOK
<1>6. req[r] \in RequestRecord
  BY DEF TypeOK
<1>7. PinHonoured(r)
  BY <1>5, <1>6 DEF UsesPin, RequestRecord
<1> QED
  BY <1>5, <1>6, <1>7 DEF Dispatched, RequestRecord

\* A pin is honoured in front of an available service of a higher tier only
\* while that tier, or one above it, is within its promotion hold.
LEMMA EligibleInHold ==
    ASSUME NEW pool \in SUBSET Services, NEW pinned \in pool,
           IsAffinityEligible(breaker, pool, pinned),
           NEW s \in Available(breaker, pool), TierOf[s] < TierOf[pinned]
    PROVE  \E t \in pool : TierOf[t] <= TierOf[s] /\ WithinPromotionHold(breaker[t])
<1> DEFINE avail == Available(breaker, pool)
           first == FirstBucket(avail, TierOf)
           best == {t \in pool : \E u \in first : TierOf[t] = TierOf[u]}
<1>1. \A t \in pool : TierOf[t] \in Nat
  BY SelectionAssumption
<1>2. avail \subseteq pool /\ s \in avail
  BY DEF Available
<1>3. \A t \in first : t \in pool /\ TierOf[t] <= TierOf[s]
  BY <1>2 DEF FirstBucket
<1>4. pinned \notin first
  BY <1>1, <1>2, <1>3
<1>5. PICK t \in best : WithinPromotionHold(breaker[t])
  BY <1>2, <1>4 DEF IsAffinityEligible
<1>6. t \in pool /\ TierOf[t] <= TierOf[s]
  BY <1>3, <1>5
<1> QED
  BY <1>5, <1>6

\* A pin to a fallback service is given up once a service of a higher-priority
\* tier is available and that tier's promotion hold is over (AffinityStage).
THEOREM PinYields == Spec => PinYieldsToSettledPrimary
<1>1. TypeOK /\ [Next]_vars =>
        [\A r \in Requests : UsesPin(r) =>
           \A s \in Available(breaker, req[r].pool) :
              TierOf[s] < TierOf[req'[r].svc] =>
                \E t \in req[r].pool :
                   TierOf[t] <= TierOf[s] /\ WithinPromotionHold(breaker[t])]_vars
  <2> SUFFICES ASSUME TypeOK, [Next]_vars,
                      NEW r \in Requests, UsesPin(r),
                      NEW s \in Available(breaker, req[r].pool),
                      TierOf[s] < TierOf[req'[r].svc]
               PROVE  \E t \in req[r].pool :
                         TierOf[t] <= TierOf[s] /\ WithinPromotionHold(breaker[t])
    OBVIOUS
  <2>1. PinHonoured(r) /\ req'[r].svc = pin[SessionOf[r]]
    BY OnlyAffinityUsesPin
  <2>2. req[r].pool \in SUBSET Services
    BY DEF TypeOK, RequestRecord
  <2> QED
    BY <2>1, <2>2, EligibleInHold DEF PinHonoured
<1> QED
  BY <1>1, TypeCorrect, PTL DEF Spec, PinYieldsToSettledPrimary

-----------------------------------------------------------------------------
(* Gateway implements Failover.                                              *)
(*                                                                           *)
(* First, one lemma per step of Failover: when the request of a handler      *)
(* becomes q, what q shows of the call says which step was taken.            *)

\* What Failover sees of a request.
Shows(q, phase, tried, failed, heard) ==
    Phase(q) = phase /\ q.tried = tried /\ q.charged = failed /\ q.wire = heard

KeepsPromise == [Promise!Next]_(Promise!vars)

LEMMA UnseenKept ==
    ASSUME TypeOK, NEW r \in Requests, NEW q, Becomes(r, q),
           Shows(q, Phase(req[r]), req[r].tried, req[r].charged, req[r].wire)
    PROVE  KeepsPromise
<1>1. \A p \in Requests :
        Shows(req'[p], Phase(req[p]), req[p].tried, req[p].charged, req[p].wire)
  BY DEF Becomes, TypeOK, Shows
<1> QED
  BY <1>1 DEF KeepsPromise, Promise!vars, Shows

LEMMA AskKept ==
    ASSUME TypeOK, NEW r \in Requests, NEW q, Becomes(r, q),
           Shows(req[r], "idle", {}, {}, {}), Shows(q, "open", {}, {}, {})
    PROVE  KeepsPromise
<1>1. Promise!Ask(r)
  BY DEF Promise!Ask, Becomes, TypeOK, Shows
<1> QED
  BY <1>1 DEF KeepsPromise, Promise!Next

LEMMA RefuseKept ==
    ASSUME TypeOK, NEW r \in Requests, NEW q, Becomes(r, q),
           Shows(req[r], "open", {}, {}, {}), Shows(q, "refused", {}, {}, {})
    PROVE  KeepsPromise
<1>1. Promise!Refuse(r)
  BY DEF Promise!Refuse, Becomes, TypeOK, Shows
<1> QED
  BY <1>1 DEF KeepsPromise, Promise!Next, Promise!Serve, Shows

LEMMA TryKept ==
    ASSUME TypeOK, NEW r \in Requests, NEW q, Becomes(r, q),
           Shows(req[r], "open", req[r].tried, req[r].tried, {}),
           NEW s \in Services \ req[r].tried,
           Shows(q, "open", req[r].tried \cup {s}, req[r].tried, {})
    PROVE  KeepsPromise
<1>1. Promise!Try(r, s)
  BY DEF Promise!Try, Becomes, TypeOK, Shows
<1> QED
  BY <1>1 DEF KeepsPromise, Promise!Next, Promise!Serve, Shows

\* The call is being served by the one service that has not failed.
ServedBy(q, s) == Phase(q) = "open" /\ s \in q.tried \ q.charged

LEMMA ServedKept ==
    ASSUME NEW r \in Requests, NEW s, ServedBy(req[r], s),
           Promise!Hear(r, s) \/ Promise!Fail(r, s)
           \/ Promise!Answer(r, s) \/ Promise!GiveUp(r, s)
    PROVE  KeepsPromise
BY DEF KeepsPromise, Promise!Next, Promise!Serve, ServedBy

LEMMA HearKept ==
    ASSUME TypeOK, NEW r \in Requests, NEW q, Becomes(r, q),
           NEW s, ServedBy(req[r], s),
           Shows(q, "open", req[r].tried, req[r].charged, {s})
    PROVE  KeepsPromise
<1>1. Promise!Hear(r, s)
  BY DEF Promise!Hear, Becomes, TypeOK, Shows, ServedBy
<1> QED
  BY <1>1, ServedKept

LEMMA FailKept ==
    ASSUME TypeOK, NEW r \in Requests, NEW q, Becomes(r, q),
           NEW s, ServedBy(req[r], s), req[r].wire = {},
           Shows(q, "open", req[r].tried, req[r].charged \cup {s}, {})
    PROVE  KeepsPromise
<1>1. Promise!Fail(r, s)
  BY DEF Promise!Fail, Becomes, TypeOK, Shows, ServedBy
<1> QED
  BY <1>1, ServedKept

LEMMA AnswerKept ==
    ASSUME TypeOK, NEW r \in Requests, NEW q, Becomes(r, q),
           NEW s, ServedBy(req[r], s),
           q.wire \in {req[r].wire, {s}},
           Shows(q, "over", req[r].tried, req[r].charged, q.wire)
    PROVE  KeepsPromise
<1>1. Promise!Answer(r, s)
  BY DEF Promise!Answer, Becomes, TypeOK, Shows
<1> QED
  BY <1>1, ServedKept

LEMMA GiveUpKept ==
    ASSUME TypeOK, NEW r \in Requests, NEW q, Becomes(r, q),
           NEW s, ServedBy(req[r], s), req[r].wire = {}, req[r].tried = Services,
           q.wire \in {{}, {s}}, Shows(q, "over", Services, Services, q.wire)
    PROVE  KeepsPromise
<1>1. Promise!GiveUp(r, s)
  BY DEF Promise!GiveUp, Becomes, TypeOK, Shows
<1> QED
  BY <1>1, ServedKept

LEMMA LeaveKept ==
    ASSUME TypeOK, NEW r \in Requests, Becomes(r, NoRequest),
           Phase(req[r]) \in {"over", "refused"}
    PROVE  KeepsPromise
<1>1. Promise!Leave(r)
  BY DEF Promise!Leave, Becomes, TypeOK, Phase, NoRequest
<1> QED
  BY <1>1 DEF KeepsPromise, Promise!Next

\* Second, each action of Gateway takes one of those steps, or one that no
\* client sees.

LEMMA ShownWhileSelecting ==
    ASSUME NEW q, Sound(q), q.pc \in Selecting
    PROVE  Shows(q, "open", q.tried, q.tried, {})
BY DEF Sound, Shows, Phase, Selecting

LEMMA ShownWhileServed ==
    ASSUME NEW q, Sound(q), q.pc \in {"attempt", "judge"}
    PROVE  /\ ServedBy(q, q.svc)
           /\ q.charged = q.tried \ {q.svc}
           /\ ~q.committed => q.wire = {}
BY DEF Sound, ServedBy, Phase

LEMMA DispatchKept ==
    ASSUME TypeOK, NEW r \in Requests, NEW q, Sound(req[r]), req[r].pc \in Selecting,
           NEW s \in req[r].pool, q \in RequestRecord, q.wire = req[r].wire,
           q.tried = req[r].tried, q.charged = req[r].charged,
           Becomes(r, Dispatched(q, s))
    PROVE  KeepsPromise
<1>1. Shows(req[r], "open", req[r].tried, req[r].tried, {})
  BY ShownWhileSelecting
<1>2. s \in Services \ req[r].tried
  BY DEF Sound, RequestRecord
<1>3. Shows(Dispatched(q, s), "open", req[r].tried \cup {s}, req[r].tried, {})
  BY <1>1 DEF Dispatched, RequestRecord, Shows, Phase
<1> QED
  BY <1>1, <1>2, <1>3, TryKept

LEMMA PickKept ==
    ASSUME IInv, NEW r \in Requests, req[r].pc \in {"balance", "walk"},
           NEW s \in req[r].pool, Pick(r, s)
    PROVE  KeepsPromise
<1> DEFINE q == req[r]
<1>1. TypeOK /\ Sound(q) /\ q \in RequestRecord /\ q.pc \in Selecting
  BY DEF IInv, Sound, Selecting
<1>2. Shows(q, "open", q.tried, q.tried, {})
  BY <1>1, ShownWhileSelecting
<1>3. CASE q.tried = {} /\ s \in Disabled
  <2>1. Becomes(r, [NoRequest EXCEPT !.pc = "refused"])
    BY <1>3 DEF Pick, FirstPick, Becomes
  <2>2. Shows([NoRequest EXCEPT !.pc = "refused"], "refused", {}, {}, {})
    BY DEF Shows, Phase, NoRequest
  <2> QED
    BY <1>1, <1>2, <1>3, <2>1, <2>2, RefuseKept
<1>4. CASE q.tried = {} /\ s \notin Disabled
  <2>1. Becomes(r, Dispatched(q, s))
    BY <1>4 DEF Pick, FirstPick, Becomes
  <2> QED
    BY <1>1, <2>1, DispatchKept
<1>5. CASE q.tried # {}
  <2>1. Becomes(r, Dispatched(Discard(q), s))
    BY <1>5 DEF Pick, FallbackPick, Becomes
  <2>2. /\ Discard(q) \in RequestRecord /\ Discard(q).wire = q.wire
        /\ Discard(q).tried = q.tried /\ Discard(q).charged = q.charged
    BY <1>1 DEF Discard, RequestRecord, Final
  <2> QED
    BY <1>1, <2>1, <2>2, DispatchKept
<1> QED
  BY <1>3, <1>4, <1>5

LEMMA ArriveKept ==
    ASSUME IInv, NEW r \in Requests, Arrive(r)
    PROVE  KeepsPromise
<1> DEFINE q == [NoRequest EXCEPT !.pc = "affinity", !.pool = HealthyOrAll(Services)]
<1>1. req[r] = NoRequest
  BY DEF Arrive, IInv, Sound
<1>2. Becomes(r, q)
  BY <1>1 DEF Arrive, Becomes, IInv, TypeOK
<1>3. Shows(req[r], "idle", {}, {}, {}) /\ Shows(q, "open", {}, {}, {})
  BY <1>1 DEF Shows, Phase, NoRequest
<1> QED
  BY <1>2, <1>3, AskKept DEF IInv

LEMMA AffinityKept ==
    ASSUME IInv, NEW r \in Requests, UseAffinity(r)
    PROVE  KeepsPromise
<1> DEFINE q == req[r]
           s == pin[SessionOf[r]]
<1>1. TypeOK /\ Sound(q) /\ q \in RequestRecord /\ q.pc = "affinity" /\ q.pc \in Selecting
  BY DEF UseAffinity, IInv, Sound, Selecting
<1>2. CASE PinHonoured(r)
  <2>1. s \in q.pool
    BY <1>2 DEF PinHonoured
  <2>2. Becomes(r, Dispatched(q, s))
    BY <1>2 DEF UseAffinity, Becomes
  <2> QED
    BY <1>1, <2>1, <2>2, DispatchKept
<1>3. CASE ~PinHonoured(r)
  <2>1. Becomes(r, [q EXCEPT !.pc = "balance"])
    BY <1>3 DEF UseAffinity, Becomes
  <2>2. Shows([q EXCEPT !.pc = "balance"], Phase(q), q.tried, q.charged, q.wire)
    BY <1>1 DEF Shows, Phase, RequestRecord
  <2> QED
    BY <1>1, <2>1, <2>2, UnseenKept
<1> QED
  BY <1>2, <1>3

LEMMA BalanceKept ==
    ASSUME IInv, NEW r \in Requests, Balance(r)
    PROVE  KeepsPromise
<1> DEFINE q == req[r]
           pool == HealthyOrAll(q.pool)
<1>1. TypeOK /\ q \in RequestRecord /\ q.pc = "balance" /\ pool \subseteq q.pool
  BY Parts DEF Balance, IInv, Sound, RequestRecord
<1>2. ASSUME NEW s \in pool, Pick(r, s)
      PROVE  KeepsPromise
  BY <1>1, <1>2, PickKept
<1>3. CASE Becomes(r, StartWalk(q, pool))
  <2>1. Shows(StartWalk(q, pool), Phase(q), q.tried, q.charged, q.wire)
    BY <1>1 DEF StartWalk, Shows, Phase, RequestRecord
  <2> QED
    BY <1>1, <1>3, <2>1, UnseenKept
<1> QED
  BY <1>2, <1>3 DEF Balance, Becomes

LEMMA OpenBucketKept ==
    ASSUME IInv, NEW r \in Requests, OpenBucket(r)
    PROVE  KeepsPromise
<1> DEFINE bucket == TopBucket(req[r].left)
           q == [req[r] EXCEPT !.left = @ \ bucket, !.avail = Available(breaker, bucket)]
<1>1. TypeOK /\ req[r] \in RequestRecord
  BY DEF IInv, Sound
<1>2. Becomes(r, q)
  BY <1>1 DEF OpenBucket, Becomes, TypeOK
<1>3. Shows(q, Phase(req[r]), req[r].tried, req[r].charged, req[r].wire)
  BY <1>1 DEF Shows, Phase, RequestRecord
<1> QED
  BY <1>1, <1>2, <1>3, UnseenKept

LEMMA ClaimKept ==
    ASSUME IInv, NEW r \in Requests, Claim(r)
    PROVE  KeepsPromise
<1> DEFINE q == req[r]
<1>1. TypeOK /\ q \in RequestRecord /\ q.pc = "walk" /\ q.avail \subseteq q.pool
  BY DEF Claim, IInv, Sound, Selecting
<1>2. PICK s \in q.avail : Pick(r, s) \/ Becomes(r, Dropped(q, s))
  BY DEF Claim, Becomes
<1>3. Shows(Dropped(q, s), Phase(q), q.tried, q.charged, q.wire)
  BY <1>1 DEF Dropped, Shows, Phase, RequestRecord
<1>4. CASE Pick(r, s)
  BY <1>1, <1>4, PickKept
<1>5. CASE Becomes(r, Dropped(q, s))
  BY <1>1, <1>3, <1>5, UnseenKept
<1> QED
  BY <1>2, <1>4, <1>5

LEMMA DegradeKept ==
    ASSUME IInv, NEW r \in Requests, Degrade(r)
    PROVE  KeepsPromise
<1>1. TopBucket(req[r].pool) \subseteq req[r].pool
  BY Parts DEF IInv, Sound, RequestRecord
<1> QED
  BY <1>1, PickKept DEF Degrade

LEMMA BufferKept ==
    ASSUME IInv, NEW r \in Requests, Buffer(r)
    PROVE  KeepsPromise
<1> DEFINE q == [req[r] EXCEPT !.buf = @ \cup {req[r].svc}, !.status = "ok"]
<1>1. TypeOK /\ req[r] \in RequestRecord
  BY DEF IInv, Sound
<1>2. Becomes(r, q)
  BY <1>1 DEF Buffer, Becomes, TypeOK
<1>3. Shows(q, Phase(req[r]), req[r].tried, req[r].charged, req[r].wire)
  BY <1>1 DEF Shows, Phase, RequestRecord
<1> QED
  BY <1>1, <1>2, <1>3, UnseenKept

LEMMA StreamKept ==
    ASSUME IInv, NEW r \in Requests, Stream(r)
    PROVE  KeepsPromise
<1> DEFINE old == req[r]
           q == Streamed(old)
<1>1. /\ TypeOK /\ Sound(old) /\ old \in RequestRecord /\ old.pc = "attempt"
      /\ old.wire \cup old.buf \subseteq {old.svc}
  BY DEF Stream, IInv, Sound
<1>2. Becomes(r, q)
  BY DEF Stream, Becomes
<1>3. ServedBy(old, old.svc)
  BY <1>1, ShownWhileServed
<1>4. Shows(q, "open", old.tried, old.charged, {old.svc})
  BY <1>1 DEF Streamed, Commit, Shows, Phase, RequestRecord
<1> QED
  BY <1>1, <1>2, <1>3, <1>4, HearKept

LEMMA ReturnKept ==
    ASSUME IInv, NEW r \in Requests, Return(r)
    PROVE  KeepsPromise
<1> DEFINE q == req[r]
<1>1. TypeOK /\ q \in RequestRecord /\ q.pc = "attempt"
  BY DEF Return, IInv, Sound
<1>2. ASSUME NEW d, Becomes(r, d),
             d.pc = "judge" /\ d.tried = q.tried /\ d.charged = q.charged /\ d.wire = q.wire
      PROVE  KeepsPromise
  <2>1. Shows(d, Phase(q), q.tried, q.charged, q.wire)
    BY <1>1, <1>2 DEF Shows, Phase
  <2> QED
    BY <1>1, <1>2, <2>1, UnseenKept
<1>3. CASE Becomes(r, [q EXCEPT !.pc = "judge"])
  BY <1>1, <1>2, <1>3 DEF RequestRecord
<1>4. ASSUME NEW st, Becomes(r, [q EXCEPT !.pc = "judge", !.status = st, !.buf = @ \cup {q.svc}])
      PROVE  KeepsPromise
  BY <1>1, <1>2, <1>4 DEF RequestRecord
<1> QED
  BY <1>1, <1>3, <1>4 DEF Return, Becomes, TypeOK

\* The flush at the end of the loop shows the client one service at most.
LEMMA AnsweredShows ==
    ASSUME NEW q \in RequestRecord, q.wire \cup q.buf \subseteq {q.svc}
    PROVE  /\ Shows(Answered(q), "over", q.tried, q.charged, Answered(q).wire)
           /\ Answered(q).wire \in {q.wire, {q.svc}}
<1>1. /\ Answered(q).pc = "answered" /\ Answered(q).tried = q.tried
      /\ Answered(q).charged = q.charged
      /\ Answered(q).wire = q.wire \/ Answered(q).wire = q.wire \cup q.buf
  BY DEF Answered, Commit, RequestRecord
<1>2. q.wire \cup q.buf \in {q.wire, {q.svc}}
  OBVIOUS
<1> QED
  BY <1>1, <1>2 DEF Shows, Phase

LEMMA AnswerGivenKept ==
    ASSUME IInv, NEW r \in Requests, req[r].pc = "judge", Becomes(r, Answered(req[r]))
    PROVE  KeepsPromise
<1> DEFINE q == req[r]
<1>1. TypeOK /\ Sound(q) /\ q \in RequestRecord /\ q.wire \cup q.buf \subseteq {q.svc}
  BY DEF IInv, Sound
<1>2. ServedBy(q, q.svc)
  BY <1>1, ShownWhileServed
<1> QED
  BY <1>1, <1>2, AnsweredShows, AnswerKept

LEMMA JudgeFailedKept ==
    ASSUME IInv, NEW r \in Requests, JudgeFailed(r)
    PROVE  KeepsPromise
<1> DEFINE old == req[r]
           s == old.svc
           q == [old EXCEPT !.charged = @ \cup {Blamed(old)}]
           rest == Untried(q)
<1>1. /\ TypeOK /\ Sound(old) /\ old \in RequestRecord /\ old.pc = "judge"
      /\ ~old.committed /\ old.wire \cup old.buf \subseteq {s}
  BY DEF JudgeFailed, IInv, Sound
<1>2. ServedBy(old, s) /\ old.charged = old.tried \ {s} /\ old.wire = {}
  BY <1>1, ShownWhileServed
<1>3. /\ q \in RequestRecord /\ q.tried = old.tried /\ q.charged = old.charged \cup {s}
      /\ q.wire = {} /\ q.wire \cup q.buf \subseteq {q.svc} /\ q.svc = s /\ q.pc = "judge"
  BY <1>1, <1>2 DEF RequestRecord, Blamed, ServedBy
<1>4. rest = Services \ old.tried
  BY <1>3 DEF Untried
<1>5. \/ rest = {} /\ Becomes(r, Answered(q))
      \/ Becomes(r, [q EXCEPT !.pc = "balance", !.pool = rest])
      \/ Becomes(r, StartWalk(q, rest))
  BY DEF JudgeFailed, Becomes
<1> HIDE DEF q, rest
<1>6. CASE rest = {} /\ Becomes(r, Answered(q))
  <2>1. old.tried = Services /\ q.charged = Services
    BY <1>1, <1>2, <1>3, <1>4, <1>6 DEF RequestRecord, ServedBy
  <2>2. /\ Shows(Answered(q), "over", Services, Services, Answered(q).wire)
        /\ Answered(q).wire \in {{}, {s}}
    BY <1>3, <2>1, AnsweredShows
  <2> QED
    BY <1>1, <1>2, <1>6, <2>1, <2>2, GiveUpKept
<1>7. ASSUME NEW d, Becomes(r, d), Shows(d, "open", q.tried, q.charged, {})
      PROVE  KeepsPromise
  BY <1>1, <1>2, <1>3, <1>7, FailKept
<1>8. CASE Becomes(r, [q EXCEPT !.pc = "balance", !.pool = rest])
  BY <1>3, <1>7, <1>8 DEF Shows, Phase, RequestRecord
<1>9. CASE Becomes(r, StartWalk(q, rest))
  BY <1>3, <1>7, <1>9 DEF StartWalk, Shows, Phase, RequestRecord
<1> QED
  BY <1>5, <1>6, <1>8, <1>9

LEMMA StepKept ==
    ASSUME IInv, NEW r \in Requests, Step(r)
    PROVE  KeepsPromise
<1>1. CASE JudgeCommitted(r) \/ JudgeFinal(r)
  BY <1>1, AnswerGivenKept DEF JudgeCommitted, JudgeFinal, Becomes
<1>2. CASE Leave(r)
  BY <1>2, LeaveKept DEF Leave, Becomes, Phase, IInv
<1> QED
  BY <1>1, <1>2, AffinityKept, BalanceKept, OpenBucketKept, ClaimKept, DegradeKept,
     ReturnKept, JudgeFailedKept DEF Step

\* A rule serves its clients as Failover says, whatever their requests do to
\* each other through breakers, pins and health, and however tiers, pins and
\* disabled providers steer the choice (DispatchWithPriorityFailover).
THEOREM ImplementsFailover == Spec => KeepsFailover
<1>1. Init => Promise!Init
  BY DEF Init, NoRequest, Phase, Promise!Init
<1>2. IInv /\ [Next]_vars => KeepsPromise
  <2> SUFFICES ASSUME IInv, [Next]_vars
               PROVE  KeepsPromise
    OBVIOUS
  <2>1. ASSUME NEW r \in Requests, Arrive(r) \/ Buffer(r) \/ Stream(r) \/ Step(r)
        PROVE  KeepsPromise
    BY <2>1, ArriveKept, BufferKept, StreamKept, StepKept
  <2>2. CASE UNCHANGED req
    BY <2>2 DEF KeepsPromise, Promise!vars
  <2> QED
    BY <2>1, <2>2 DEF Next, Tick, HealthChanges, PinLapses, vars
<1> QED
  BY <1>1, <1>2, Invariant, PTL DEF Spec, KeepsPromise, KeepsFailover, Promise!Spec
=============================================================================
