----------------------------- MODULE MCTimerList ------------------------------
(* A TLC instance of TimerList. *)
EXTENDS TimerList

CONSTANTS t1, t2, t3, t4

MCTimers == {t1, t2, t3, t4}
===============================================================================
