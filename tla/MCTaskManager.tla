---- MODULE MCTaskManager ----
(* TaskManager for TLC: three tasks of one key, of which the last may retry. *)
EXTENDS TaskManager

CONSTANT key1

MCKeyOf == <<key1, key1, key1>>
MCMaxAttempts == <<1, 1, 2>>
====
