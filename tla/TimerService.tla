---------------------------- MODULE TimerService ----------------------------
(***************************************************************************)
(* What the timer manager promises to its client: at most Capacity timers  *)
(* are pending; each has a deadline, its period after it was armed; it     *)
(* leaves when it is cancelled or its callback is called, and a callback   *)
(* is called for a timer that is due and has the earliest deadline, and    *)
(* never for one that is not pending.                                      *)
(***************************************************************************)
EXTENDS Integers, FiniteSets

CONSTANTS
  Timer,
  NULL,
  Elapse,     \* the periods, in milliseconds
  UsPerMs,    \* clock units per millisecond
  Capacity,
  Level       \* how deep callbacks can be nested

VARIABLES
  now,
  deadline,   \* of the pending timers
  running     \* the timer whose callback runs at each level, or NULL

vars == <<now, deadline, running>>

Pending == DOMAIN deadline

TypeOK ==
  /\ now \in Int
  /\ Pending \subseteq Timer
  /\ deadline \in [Pending -> Int]
  /\ running \in [Level -> Timer \cup {NULL}]

Init ==
  /\ now = 0
  /\ deadline = [t \in {} |-> 0]
  /\ running = [i \in Level |-> NULL]

Without(t) == [u \in Pending \ {t} |-> deadline[u]]

Arm(t, e) ==
  /\ t \notin Pending
  /\ Cardinality(Pending) < Capacity
  /\ deadline' = [u \in Pending \cup {t} |->
                    IF u = t THEN now + e * UsPerMs ELSE deadline[u]]
  /\ UNCHANGED <<now, running>>

Cancel(t) ==
  /\ t \in Pending
  /\ deadline' = Without(t)
  /\ UNCHANGED <<now, running>>

Fire(t, i) ==
  /\ t \in Pending
  /\ now >= deadline[t]
  /\ \A u \in Pending : deadline[t] <= deadline[u]
  /\ running[i] = NULL
  /\ deadline' = Without(t)
  /\ running' = [running EXCEPT ![i] = t]
  /\ UNCHANGED now

Return(i) ==
  /\ running[i] # NULL
  /\ running' = [running EXCEPT ![i] = NULL]
  /\ UNCHANGED <<now, deadline>>

(* The wall clock may be set to any time.                                  *)
Clock == now' \in Int /\ UNCHANGED <<deadline, running>>

Next ==
  \/ \E t \in Timer, e \in Elapse : Arm(t, e)
  \/ \E t \in Timer : Cancel(t)
  \/ \E t \in Timer, i \in Level : Fire(t, i)
  \/ \E i \in Level : Return(i)
  \/ Clock

Spec == Init /\ [][Next]_vars

=============================================================================
