----------------------------- MODULE MCGateway -----------------------------
(***************************************************************************)
(* Gateway for TLC.  The services are taken from a, b and c; a is the      *)
(* primary of a rule with two tiers, c the fallback of a flat one.         *)
(***************************************************************************)
EXTENDS Gateway, TLC

CONSTANTS a, b, c, k1, r1, r2

TwoTiers == [s \in Services |-> IF s = c THEN 1 ELSE 0]
Primary  == [s \in Services |-> IF s = a THEN 0 ELSE 1]

OneTier  == [s \in Services |-> 0]

NoSessions == [r \in Requests |-> NoSession]
FirstHasSession == [r \in Requests |-> IF r = r1 THEN k1 ELSE NoSession]
OneSession == [r \in Requests |-> k1]

\* Handlers are interchangeable when they share a session (safety runs only).
HandlersAlike == Permutations(Requests)
=============================================================================
