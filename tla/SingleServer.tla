---------------------------- MODULE SingleServer ----------------------------
(***************************************************************************)
(* What a configuration directory promises the commands that use it, with  *)
(* nothing of files, locks and signals: one server at a time, no process a *)
(* server twice, and a stop that succeeds has seen its server end, or has  *)
(* made sure that it does nothing else.  A server may go astray: the       *)
(* directory loses sight of it, and then knows of none.                    *)
(***************************************************************************)
CONSTANT
    Procs

VARIABLES
    server,     \* the server the directory knows of: one process, or none
    strays,     \* servers it has lost sight of
    others,     \* the processes that have not been a server so far
    dying,      \* processes that can only end
    stopped     \* the pairs of a stop that has succeeded and its server

vars == <<server, strays, others, dying, stopped>>

Init ==
    /\ server = {} /\ strays = {} /\ dying = {} /\ stopped = {}
    /\ others = Procs

Take(p) ==
    /\ server = {} /\ p \in others
    /\ server' = {p} /\ others' = others \ {p}
    /\ UNCHANGED <<strays, dying, stopped>>

\* A process becomes a server that the directory has not seen.
TakeUnseen(p) ==
    /\ p \in others
    /\ strays' = strays \cup {p} /\ others' = others \ {p}
    /\ UNCHANGED <<server, dying, stopped>>

GoAstray ==
    /\ server' = {} /\ strays' = strays \cup server
    /\ UNCHANGED <<others, dying, stopped>>

\* A process ends, or shuts down as a server.
Leave(p) ==
    /\ server' = server \ {p} /\ strays' = strays \ {p} /\ others' = others \ {p}
    /\ dying' = dying \ {p}
    /\ stopped' = {d \in stopped : d[1] # p}

\* A process that is or was a server is told to end.
Condemn(q) ==
    /\ q \notin others /\ dying' = dying \cup {q}
    /\ UNCHANGED <<server, strays, others, stopped>>

\* A stop succeeds: its server is one that was, and is not any more or does
\* nothing but end.
Succeed(p, q) ==
    /\ q \notin others /\ (q \in server => q \in dying)
    /\ stopped' = stopped \cup {<<p, q>>}
    /\ UNCHANGED <<server, strays, others, dying>>

\* The stop was that of a restart, which goes on to start a server.
GoOn(p) ==
    /\ stopped' = {d \in stopped : d[1] # p}
    /\ UNCHANGED <<server, strays, others, dying>>

Next ==
    \/ \E p \in Procs \ dying : Take(p) \/ TakeUnseen(p) \/ GoOn(p)
    \/ \E p \in Procs \ dying, q \in Procs : Succeed(p, q)
    \/ \E p \in Procs : Leave(p) \/ Condemn(p)
    \/ GoAstray

Spec == Init /\ [][Next]_vars
=============================================================================
