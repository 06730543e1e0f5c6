------------------------------ MODULE Failover ------------------------------
(***************************************************************************)
(* What a rule promises a client whose call it serves with one of several  *)
(* services, with nothing of tiers, breakers, pins and gates: another      *)
(* service is tried only while the client has heard nothing and all that   *)
(* were tried have failed, none is tried twice, what the client hears      *)
(* comes from the one service that did not fail, and a failure is passed   *)
(* on only when there is no service left to try.                           *)
(***************************************************************************)
CONSTANTS
    Clients,    \* who calls, one call after another
    Services    \* who may serve a call

VARIABLES
    phase,      \* where the call of a client stands
    tried,      \* the services that were asked to serve it
    failed,     \* those of them that failed
    heard       \* those the client has heard of

vars == <<phase, tried, failed, heard>>

Init ==
    /\ phase = [c \in Clients |-> "idle"]
    /\ tried = [c \in Clients |-> {}]
    /\ failed = [c \in Clients |-> {}]
    /\ heard = [c \in Clients |-> {}]

Ask(c) ==
    /\ phase[c] = "idle"
    /\ phase' = [phase EXCEPT ![c] = "open"]
    /\ UNCHANGED <<tried, failed, heard>>

\* The rule may have no service it is allowed to use.
Refuse(c) ==
    /\ tried[c] = {}
    /\ phase' = [phase EXCEPT ![c] = "refused"]
    /\ UNCHANGED <<tried, failed, heard>>

Try(c, s) ==
    /\ heard[c] = {} /\ tried[c] = failed[c]
    /\ tried' = [tried EXCEPT ![c] = @ \cup {s}]
    /\ UNCHANGED <<phase, failed, heard>>

Hear(c, s) ==
    /\ heard' = [heard EXCEPT ![c] = {s}]
    /\ UNCHANGED <<phase, tried, failed>>

Fail(c, s) ==
    /\ heard[c] = {}
    /\ failed' = [failed EXCEPT ![c] = @ \cup {s}]
    /\ UNCHANGED <<phase, tried, heard>>

\* The call ends with the answer of the service.
Answer(c, s) ==
    /\ heard' \in {heard, [heard EXCEPT ![c] = {s}]}
    /\ phase' = [phase EXCEPT ![c] = "over"]
    /\ UNCHANGED <<tried, failed>>

\* It ends with the failure of the last service.
GiveUp(c, s) ==
    /\ heard[c] = {} /\ tried[c] = Services
    /\ failed' = [failed EXCEPT ![c] = Services]
    /\ heard' \in {heard, [heard EXCEPT ![c] = {s}]}
    /\ phase' = [phase EXCEPT ![c] = "over"]
    /\ UNCHANGED tried

Leave(c) ==
    /\ phase[c] \in {"over", "refused"}
    /\ phase' = [phase EXCEPT ![c] = "idle"]
    /\ tried' = [tried EXCEPT ![c] = {}]
    /\ failed' = [failed EXCEPT ![c] = {}]
    /\ heard' = [heard EXCEPT ![c] = {}]

\* What may happen to an open call: another service is tried, or the one that
\* was tried and did not fail goes on.
Serve(c) ==
    /\ phase[c] = "open"
    /\ \/ Refuse(c)
       \/ \E s \in Services \ tried[c] : Try(c, s)
       \/ \E s \in tried[c] \ failed[c] :
            Hear(c, s) \/ Fail(c, s) \/ Answer(c, s) \/ GiveUp(c, s)

Next == \E c \in Clients : Ask(c) \/ Serve(c) \/ Leave(c)

Spec == Init /\ [][Next]_vars
=============================================================================
