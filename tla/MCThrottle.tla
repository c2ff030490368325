----------------------------- MODULE MCThrottle -----------------------------
(* Nothing but the constants of the .cfg files is needed.                   *)
EXTENDS Throttle
=============================================================================
