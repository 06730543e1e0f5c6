---------------------------- MODULE HealthProofs ----------------------------
(***************************************************************************)
(* Proofs about HealthMonitor, for every recovery timeout, any number of   *)
(* concurrent callers of IsHealthy, and with or without a probe.           *)
(***************************************************************************)
EXTENDS HealthMonitor, TLAPS

\* The inductive invariant.  That a running probe has been overtaken by the
\* 429 of an open window is what ties the verdict of IsHealthy, written
\* without a lock on what it read, to the error it overwrites.
IInv ==
    /\ TypeOK
    /\ ReasonMatchesVerdict
    /\ WithinLimit => overtaken = calling

\* The ages and windows that are assigned, each in its range.
LEMMA Instants ==
    /\ 0 \in 0..RecoveryTimeout /\ RecoveryTimeout \in 0..RecoveryTimeout
    /\ 0 \in 0..(RecoveryTimeout + 1)
    /\ RecoveryTimeout + 1 \in 0..(RecoveryTimeout + 1)
    /\ ~(0 > 0)
BY HealthAssumption

LEMMA InvInit == Init => IInv
BY Instants DEF Init, IInv, TypeOK, ReasonMatchesVerdict, WithinLimit

\* recoverService leaves no reason behind, and no window.
LEMMA RecoverInv ==
    ASSUME IInv, Recover, calling' \subseteq calling,
           overtaken' = overtaken \cap calling', UNCHANGED up, byHand' \in BOOLEAN
    PROVE  IInv'
<1>1. CASE healthy
  BY <1>1 DEF IInv, TypeOK, ReasonMatchesVerdict, WithinLimit, Recover, record
<1>2. CASE ~healthy
  BY <1>2, Instants DEF IInv, TypeOK, ReasonMatchesVerdict, WithinLimit, Recover
<1> QED
  BY <1>1, <1>2

LEMMA InvStep == IInv /\ [Next]_vars => IInv'
<1> SUFFICES ASSUME IInv, [Next]_vars PROVE IInv'
  OBVIOUS
<1> USE DEF IInv, TypeOK, ReasonMatchesVerdict, WithinLimit
<1>1. ASSUME NEW c \in Callers, StartProbe(c) PROVE IInv'
  BY <1>1 DEF StartProbe, record
<1>2. ASSUME NEW c \in Callers, ProbeSucceeds(c) PROVE IInv'
  BY <1>2, RecoverInv DEF ProbeSucceeds, EndCall
<1>3. ASSUME NEW c \in Callers, ProbeFails(c) PROVE IInv'
  BY <1>3, Instants DEF ProbeFails, EndCall, ExtendRecoveryTimeout
<1>4. CASE ReportRateLimit
  BY <1>4, Instants DEF ReportRateLimit, ErrorStamp
<1>5. CASE ReportAuthError
  BY <1>5, Instants DEF ReportAuthError, ErrorStamp
<1>6. CASE ReportSuccess \/ ResetHealth
  BY <1>6, RecoverInv DEF ReportSuccess, ResetHealth
<1>7. CASE Tick
  <2>1. limitLeft' \in 0..RecoveryTimeout /\ (limitLeft' > 0 => limitLeft > 0)
    BY <1>7, HealthAssumption DEF Tick
  <2>2. errorAgo' \in 0..(RecoveryTimeout + 1)
    BY <1>7, HealthAssumption DEF Tick, RecoveryDue
  <2> QED
    BY <1>7, <2>1, <2>2 DEF Tick
<1>8. CASE Toggle
  <2>1. up' \in BOOLEAN /\ byHand' \in BOOLEAN
    BY <1>8 DEF Toggle
  <2> QED
    BY <1>8, <2>1 DEF Toggle, record
<1>9. CASE UNCHANGED vars
  BY <1>9 DEF vars, record
<1> QED
  BY <1>1, <1>2, <1>3, <1>4, <1>5, <1>6, <1>7, <1>8, <1>9 DEF Next

LEMMA Invariant == Spec => []IInv
BY InvInit, InvStep, PTL DEF Spec

\* The record of a service keeps its type, whatever overlaps.
THEOREM TypeCorrect == Spec => []TypeOK
<1>1. IInv => TypeOK
  BY DEF IInv
<1> QED
  BY <1>1, Invariant, PTL

\* The verdict of a service and its reason agree after any interleaving of
\* probes, reports and resets.
THEOREM VerdictHasReason == Spec => []ReasonMatchesVerdict
<1>1. IInv => ReasonMatchesVerdict
  BY DEF IInv
<1> QED
  BY <1>1, Invariant, PTL

\* Of the three ways health_monitor.go recovers a service, only a probe that
\* was running when the error came can end a rate limit early.
THEOREM OnlyOldProbesCutWindow == Spec => OnlyOvertakenProbesCutWindow
<1>1. ASSUME IInv, [Next]_vars, WithinLimit, healthy', ~byHand'
      PROVE  \E c \in overtaken : c \notin calling'
  <2>1. ~healthy /\ overtaken = calling
    BY <1>1 DEF IInv, ReasonMatchesVerdict, TypeOK, WithinLimit
  <2>2. PICK c \in Callers : ProbeSucceeds(c)
    BY <1>1, <2>1
       DEF Next, StartProbe, ProbeFails, ReportRateLimit, ReportAuthError,
           ReportSuccess, ResetHealth, Tick, Toggle, vars, record
  <2> QED
    BY <2>1, <2>2 DEF ProbeSucceeds, EndCall
<1> QED
  BY <1>1, Invariant, PTL DEF Spec, OnlyOvertakenProbesCutWindow
=============================================================================
