--------------------------- MODULE MCBreakerUse ---------------------------
(* BreakerUse for TLC: see MCBreakerUse.cfg and MCOneProbe.cfg. *)
EXTENDS BreakerUse
=============================================================================
