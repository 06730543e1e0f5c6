------------------------------ MODULE Circuit ------------------------------
(***************************************************************************)
(* What a circuit breaker promises to the traffic in front of it, with     *)
(* none of its counters: how often requests are let through to a service   *)
(* that is considered down.  While the circuit is shut, at most one        *)
(* request is admitted per `wait`: a full OpenDuration passes after the    *)
(* trip, after every failed probe and after every admitted probe nobody    *)
(* reported on; only a success reported during a trial shortens it.        *)
(***************************************************************************)
EXTENDS Naturals

CONSTANT OpenDuration

VARIABLES
    shut,   \* requests are refused unless admitted as a probe
    trial,  \* at least one probe was admitted since the last failure
    wait    \* ticks before the next probe may be admitted

vars == <<shut, trial, wait>>

TypeOK ==
    /\ shut \in BOOLEAN
    /\ trial \in BOOLEAN
    /\ wait \in 0..OpenDuration

Init == shut = FALSE /\ trial = FALSE /\ wait = 0

\* A probe is let through while the circuit is shut.
AdmitProbe ==
    /\ shut /\ wait = 0
    /\ trial' = TRUE
    /\ wait' = OpenDuration
    /\ UNCHANGED shut

\* A success reported during a trial: the next probe may go at once, or the
\* circuit closes.
ReportSuccess ==
    /\ shut /\ trial
    /\ wait' = 0
    /\ \/ UNCHANGED <<shut, trial>>
       \/ shut' = FALSE /\ trial' = FALSE

\* A failure trips a closed circuit, or ends a trial; a late failure reported
\* while nothing is on trial changes nothing.
ReportFailure ==
    /\ ~shut \/ trial
    /\ shut' = TRUE
    /\ trial' = FALSE
    /\ wait' = OpenDuration

Reset == shut' = FALSE /\ trial' = FALSE /\ wait' = 0

Tick == wait > 0 /\ wait' = wait - 1 /\ UNCHANGED <<shut, trial>>

Next == AdmitProbe \/ ReportSuccess \/ ReportFailure \/ Reset \/ Tick

Spec == Init /\ [][Next]_vars
=============================================================================
