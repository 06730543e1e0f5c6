-------------------------- MODULE MCHealthMonitor --------------------------
(* HealthMonitor for TLC: see MCHealthMonitor.cfg and MCRateWindow.cfg. *)
EXTENDS HealthMonitor
=============================================================================
