----------------------------- MODULE TimerLoop ------------------------------
(***************************************************************************)
(* The timer manager driven by the event loop of test_main.c: arm some     *)
(* timers, then check, sleep for the time check returned less a slack, and *)
(* check again until the manager is empty.  Callbacks may arm timers,      *)
(* their own among them, delete and free timers, and always return; they   *)
(* do not call check themselves.                                           *)
(***************************************************************************)
EXTENDS TimerMgr

CONSTANT Slack   \* milliseconds the loop wakes up early: 4 in the code

ASSUME SlackAssumption == Slack \in Nat

VARIABLES
  pc,     \* where the loop is
  wait,   \* its local variable time_wait
  wake,   \* when the sleep it is in ends
  read,   \* history: the clock as the check read it that gave wait
  start   \* history: the clock when the sleep began

sleeping == <<wait, wake, read, start>>
loopVars == <<vars, pc, sleeping>>

LoopInit ==
  Init /\ pc = "setup" /\ wait = 0 /\ wake = 0 /\ read = 0 /\ start = 0

(* What the setup and the callbacks do.  Bound: a timer is armed only if   *)
(* its deadline comes before the clock stops at Horizon.                   *)
ClientStep ==
  /\ pc = "setup" \/ In("check", "callback")
  /\ \/ \E t \in Timer, e \in Elapse : callback_timer_init(t, e)
     \/ \E t \in Timer : Deadline(t) < Horizon /\ timer_mgr_add_timer(t)
     \/ \E t \in Timer, d \in BOOLEAN : timer_mgr_del_timer(t, d)
     \/ \E t \in Timer : FreeTimer(t)
  /\ UNCHANGED <<pc, sleeping>>

StartLoop == pc = "setup" /\ pc' = "test" /\ UNCHANGED <<vars, sleeping>>

(* timer_mgr_is_empty *)
LoopTest ==
  /\ pc = "test"
  /\ IF tree = {}
       THEN pc' = "destroy" /\ UNCHANGED vars
       ELSE pc' = "check" /\ timer_mgr_check_timer(FALSE)
  /\ UNCHANGED sleeping

CheckStep ==
  /\ pc = "check"
  /\ CheckExpire \/ CallbackReturn
  /\ UNCHANGED <<pc, sleeping>>

MutTimeWait == CheckResult \div UsPerMs

(* In milliseconds; the subtraction is converted to a signed int.          *)
TimeWait == CheckResult \div UsPerMs - Slack

MutLoopWait ==
  /\ pc = "check"
  /\ CheckReturn
  /\ wait' = TimeWait
  /\ read' = now
  /\ pc' = IF TimeWait # 0 THEN "wait" ELSE "test"
  /\ UNCHANGED <<wake, start>>

(* Check reads the clock for the last time, and returns.  Whatever time    *)
(* passes from then on passes before LoopSleep.                            *)
LoopWait ==
  /\ pc = "check"
  /\ CheckReturn
  /\ wait' = TimeWait
  /\ read' = now
  /\ pc' = IF TimeWait > 0 THEN "wait" ELSE "test"
  /\ UNCHANGED <<wake, start>>

(* os_sleep multiplies a U32, and begins to sleep.                         *)
LoopSleep ==
  /\ pc = "wait"
  /\ pc' = "sleep"
  /\ wake' = now + ((wait * UsPerMs) % Word32)
  /\ start' = now
  /\ UNCHANGED <<vars, wait, read>>

(* os_sleep returns, not before its time.                                  *)
WakeUp ==
  /\ pc = "sleep"
  /\ now >= wake
  /\ pc' = "test"
  /\ UNCHANGED <<vars, sleeping>>

(* timer_mgr_destory: a clear of a manager that is empty, which calls no   *)
(* destroy function.                                                       *)
LoopDestroy ==
  /\ pc = "destroy"
  /\ IF depth = 0
       THEN timer_mgr_clear /\ UNCHANGED pc
       ELSE ClearReturn /\ pc' = "done"
  /\ UNCHANGED sleeping

(* Bound: the thread is not kept from its sleep so long that the clock     *)
(* would stop before the sleep ends.                                       *)
TickStep ==
  /\ pc = "wait" => now + wait * UsPerMs < Horizon
  /\ Tick
  /\ UNCHANGED <<pc, sleeping>>

LoopNext ==
  \/ ClientStep
  \/ StartLoop
  \/ LoopTest
  \/ CheckStep
  \/ LoopWait
  \/ LoopSleep
  \/ WakeUp
  \/ LoopDestroy
  \/ TickStep

(* The clock goes on, the loop does not stop, and a callback returns.      *)
LoopFairness ==
  /\ WF_loopVars(TickStep)
  /\ WF_loopVars(StartLoop)
  /\ WF_loopVars(LoopTest)
  /\ WF_loopVars(CheckStep)
  /\ WF_loopVars(LoopWait)
  /\ WF_loopVars(LoopSleep)
  /\ WF_loopVars(WakeUp)
  /\ WF_loopVars(LoopDestroy)

LoopSpec == LoopInit /\ [][LoopNext]_loopVars /\ LoopFairness

-----------------------------------------------------------------------------
(* The sleep ends after a deadline by no more than the thread was kept     *)
(* beyond the slack, between the reading of the clock (uti_timer.c:303)    *)
(* and the sleep (test_main.c:80); if that took no longer than the slack,  *)
(* the sleep ends in time, however far away the first deadline is.  The    *)
(* time left is truncated to 32 bits (uti_timer.c:329) and divided, the    *)
(* slack is subtracted from it as unsigned numbers (test_main.c:77), and   *)
(* os_sleep multiplies it again (platform.c:48).  This is the end that is  *)
(* asked for: the system may wake the thread later.                        *)
NeverOversleep ==
  pc = "sleep" =>
    \A t \in tree : wake - expire[t] <= (start - read) - Slack * UsPerMs

(* Every managed timer leaves the manager in the end: its callback is      *)
(* called or it is deleted, even when callbacks arm timers that are due at *)
(* once and of equal deadlines the last one added goes first               *)
(* (uti_timer.c:57-61, :301).                                              *)
EventuallyFired == \A t \in Timer : (t \in tree) ~> (t \notin tree)

=============================================================================
