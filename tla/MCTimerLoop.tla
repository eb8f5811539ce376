---------------------------- MODULE MCTimerLoop -----------------------------
(* Small instances of TimerLoop for TLC.                                   *)
EXTENDS TimerLoop
=============================================================================
