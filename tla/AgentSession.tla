---------------------------- MODULE AgentSession ----------------------------
(***************************************************************************)
(* What the desk promises of an agent session, with nothing of the         *)
(* processes, queues and goroutines that serve it: one at a time holds it; *)
(* work on it is begun for a user who holds it, and only while nobody else *)
(* works; the holder alone is answered, and of its own request; and once   *)
(* it is sealed nothing works on it, until a user claims it again.  Work   *)
(* that has been given up is not spoken of, though it may not be over.     *)
(***************************************************************************)
CONSTANTS
    Users,      \* who may claim the session to have work done
    Others,     \* who may hold it otherwise
    Workers     \* what may work on it

VARIABLES
    holder,     \* who holds the session, or "none"
    workers,    \* who works on it
    answer,     \* what each user was told of the request it has made, or "none"
    confused,   \* users whose requests were mixed up with others
    sealed      \* the session has been put away

vars == <<holder, workers, answer, confused, sealed>>

Init ==
    /\ holder = "none" /\ workers = {} /\ confused = {} /\ sealed = FALSE
    /\ answer = [u \in Users |-> "none"]

\* What was given up beside the session may be given up with a claim of it.
Claim(u) ==
    /\ holder = "none" /\ holder' = u
    /\ workers' \subseteq workers /\ sealed' = FALSE
    /\ UNCHANGED <<answer, confused>>

Occupy(o) ==
    /\ holder = "none" /\ holder' = o
    /\ workers' \subseteq workers
    /\ UNCHANGED <<answer, confused, sealed>>

\* Work begins for the user who holds the session.
Start(w) ==
    /\ holder \in Users
    /\ workers = {} /\ workers' = {w}
    /\ UNCHANGED <<holder, answer, confused, sealed>>

Stop ==
    /\ workers' \subseteq workers
    /\ UNCHANGED <<holder, answer, confused, sealed>>

Confuse ==
    /\ confused \subseteq confused' /\ confused' \subseteq Users
    /\ UNCHANGED <<holder, workers, answer, sealed>>

\* The holder is told a result, and work may end with it.
Answer(u, x) ==
    /\ holder = u
    /\ x \in {u, "error"} \/ u \in confused
    /\ answer' = [answer EXCEPT ![u] = x]
    /\ workers' \subseteq workers
    /\ UNCHANGED <<holder, confused, sealed>>

\* The holder lets the session go; its request is over.
Release ==
    /\ holder # "none" /\ holder' = "none"
    /\ answer' = [u \in Users |-> IF u = holder THEN "none" ELSE answer[u]]
    /\ confused' = confused \ {holder}
    /\ workers' \subseteq workers
    /\ UNCHANGED sealed

Seal ==
    /\ holder \notin Users /\ workers = {}
    /\ sealed' = TRUE
    /\ UNCHANGED <<holder, workers, answer, confused>>

Next ==
    \/ \E u \in Users : Claim(u) \/ \E x \in Users \cup Others \cup {"error"} : Answer(u, x)
    \/ \E o \in Others : Occupy(o)
    \/ \E w \in Workers : Start(w)
    \/ Stop \/ Confuse \/ Release \/ Seal

Spec == Init /\ [][Next]_vars
=============================================================================
