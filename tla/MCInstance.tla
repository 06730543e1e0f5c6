---------------------------- MODULE MCInstance ----------------------------
(* Instance with three processes that each may run any command. *)
EXTENDS Instance
=============================================================================
