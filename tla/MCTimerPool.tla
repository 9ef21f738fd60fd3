---------------------------- MODULE MCTimerPool ----------------------------
(* Instances of TimerPool for TLC. *)
EXTENDS TimerPool
=============================================================================
