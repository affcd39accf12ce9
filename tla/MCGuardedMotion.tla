--------------------------- MODULE MCGuardedMotion ---------------------------
(* Model checking of GuardedMotion.  Two approvals are the fewest with which  *)
(* a late watchdog of one execution meets the next; two stream commands give  *)
(* a startup write with its recovery and a later one without.                 *)
EXTENDS GuardedMotion
=============================================================================
