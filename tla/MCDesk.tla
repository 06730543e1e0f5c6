------------------------------- MODULE MCDesk -------------------------------
(* Desk with two messages, two processes and one turn of the agent's own. *)
EXTENDS Desk

CONSTANTS m1, m2
MCSent == <<m1, m2>>
=============================================================================
