----------------------------- MODULE MCTimerMgr -----------------------------
(* Small instances of TimerMgr for TLC.                                    *)
EXTENDS TimerMgr, TLC

Symmetry == Permutations(Timer)

=============================================================================
