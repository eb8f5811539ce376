------------------------------ MODULE TimerMgr ------------------------------
(***************************************************************************)
(* The timer manager of platform/src/uti_timer.c.                          *)
(*                                                                         *)
(* A manager keeps callback timers in a tree ordered by deadline.  It is   *)
(* single-threaded, but not sequential: timer_mgr_check_timer runs user    *)
(* callbacks in the middle of its loop over the tree, and both it and      *)
(* timer_mgr_clear run a user destroy function there.  That user code may  *)
(* call the manager again, to any depth.  So the model has a stack of      *)
(* frames, one per call of check or clear in progress, and user code runs  *)
(* when the stack is empty or its top frame is inside a callback.          *)
(*                                                                         *)
(* The tree is the set of its nodes here, first/prev/next are given by the *)
(* comparison function; module RBTree shows that the red-black tree of     *)
(* uti_rbtree.c provides exactly that.                                     *)
(***************************************************************************)
EXTENDS Integers, FiniteSets

CONSTANTS
  Timer,      \* the callback_timer_t objects
  NULL,
  Elapse,     \* the timeouts a client asks for (msElapse)
  UsPerMs,    \* clock units per unit of msElapse: 1000 in the code
  Word32,     \* 2^32 in the code, where check's result is a U32
  Watermark,  \* capacity given to timer_mgr_init
  Horizon,    \* bound: the clock stops there
  MaxDepth,   \* bound: nesting of check and clear calls
  StepsBack   \* whether gettimeofday may ever go backwards

ASSUME NullAssumption == NULL \notin Timer
ASSUME ConfigAssumption ==
  /\ UsPerMs \in Nat \ {0}
  /\ Word32 \in Nat \ {0}
  /\ Elapse \subseteq 0..Word32 - 1
  /\ Watermark \in Nat
  /\ Horizon \in Nat
  /\ MaxDepth \in Nat
  /\ StepsBack \in BOOLEAN

VARIABLES
  now,        \* what uti_get_time_s returns
  live,       \* timer objects that are allocated
  elapse,     \* msElapse of each timer
  begin,      \* timeBegin
  expire,     \* timeExpire
  tree,       \* timer_map: the timers linked in the tree
  size,       \* timer_mgr->size
  depth,      \* number of check and clear calls in progress
  frame,      \* their local variables, by depth
  lastFired   \* history: last deadline served since the clock went back, else 0

mgr  == <<tree, size>>
keys == <<elapse, begin, expire>>
vars == <<now, live, keys, mgr, depth, frame, lastFired>>

Levels == 1..MaxDepth

NoFrame == [op |-> "none", phase |-> "none", node |-> NULL, timer |-> NULL,
            destroy |-> FALSE]

(* node is node_it, timer is ptimer, destroy tells whether fun_destory is  *)
(* given (always so for clear, which has a default).                       *)
Frame == [op      : {"none", "check", "clear"},
          phase   : {"none", "loop", "callback", "destroy"},
          node    : Timer \cup {NULL},
          timer   : Timer \cup {NULL},
          destroy : BOOLEAN]

TypeOK ==
  /\ now \in Int
  /\ live \subseteq Timer
  /\ elapse \in [Timer -> Elapse \cup {0}]
  /\ begin \in [Timer -> Int]
  /\ expire \in [Timer -> Int]
  /\ tree \subseteq Timer
  /\ size \in Nat
  /\ depth \in 0..MaxDepth
  /\ frame \in [Levels -> Frame]
  /\ lastFired \in Int

-----------------------------------------------------------------------------
(* The order of the tree.                                                  *)

MutBefore(t, u) == begin[t] < begin[u]

(* uti_timer_cmp(t, u) < 0: an earlier deadline first, and of two timers   *)
(* with the same deadline the one added later.                             *)
Before(t, u) ==
  \/ expire[t] < expire[u]
  \/ expire[t] = expire[u] /\ begin[t] > begin[u]

SameKey(t, u) == expire[t] = expire[u] /\ begin[t] = begin[u]

(* The node of S that all the others follow, NULL when S is empty.         *)
Least(S) ==
  IF S = {} THEN NULL ELSE CHOOSE t \in S : \A u \in S : ~Before(u, t)

(* The node of S that follows all the others, NULL when S is empty.        *)
Greatest(S) ==
  IF S = {} THEN NULL ELSE CHOOSE t \in S : \A u \in S : ~Before(t, u)

MutFirst == Greatest(tree)

First   == Least(tree)
Next(t) == Least({u \in tree : Before(t, u)})
MutPrev(t) == Next(t)
Prev(t) == Greatest({u \in tree : Before(u, t)})

MutErased(t) == tree
Erased(t) == tree \ {t}

-----------------------------------------------------------------------------
(* Frames.                                                                 *)

Top == frame[depth]

InUserCode == depth > 0 => Top.phase \in {"callback", "destroy"}

Push(op, destroy) ==
  /\ depth < MaxDepth
  /\ depth' = depth + 1
  /\ frame' = [frame EXCEPT ![depth + 1] =
                 [op |-> op, phase |-> "loop", node |-> First,
                  timer |-> NULL, destroy |-> destroy]]

(* The innermost call goes on.                                             *)
Continue(phase, node, timer) ==
  /\ depth' = depth
  /\ frame' = [frame EXCEPT ![depth] =
                 [op |-> Top.op, phase |-> phase, node |-> node,
                  timer |-> timer, destroy |-> Top.destroy]]

Pop ==
  /\ depth' = depth - 1
  /\ frame' = [frame EXCEPT ![depth] = NoFrame]

In(op, phase) == depth > 0 /\ Top.op = op /\ Top.phase = phase

(* Timers whose memory a call in progress is going to release.             *)
Held == {frame[i].timer : i \in {j \in 1..depth : frame[j].destroy}} \ {NULL}

(* Timers that are the client's to change, add or free.                    *)
Owned == live \ (tree \cup Held)

-----------------------------------------------------------------------------
Init ==
  /\ now = 0
  /\ live = {}
  /\ elapse = [t \in Timer |-> 0]
  /\ begin = [t \in Timer |-> 0]
  /\ expire = [t \in Timer |-> 0]
  /\ tree = {}
  /\ size = 0
  /\ depth = 0
  /\ frame = [i \in Levels |-> NoFrame]
  /\ lastFired = 0

(* PMEM_ALLOC (for a timer that is not live) and callback_timer_init.      *)
callback_timer_init(t, e) ==
  /\ InUserCode
  /\ t \notin live \/ t \in Owned
  /\ live' = live \cup {t}
  /\ elapse' = [elapse EXCEPT ![t] = e]
  /\ begin' = [begin EXCEPT ![t] = 0]
  /\ expire' = [expire EXCEPT ![t] = 0]
  /\ UNCHANGED <<now, mgr, depth, frame, lastFired>>

callback_timer_reset(t) ==
  /\ InUserCode
  /\ t \in Owned
  /\ elapse' = [elapse EXCEPT ![t] = 0]
  /\ begin' = [begin EXCEPT ![t] = 0]
  /\ expire' = [expire EXCEPT ![t] = 0]
  /\ UNCHANGED <<now, live, mgr, depth, frame, lastFired>>

(* The contents of a freed object are not kept.                            *)
Release(t) ==
  /\ live' = live \ {t}
  /\ elapse' = [elapse EXCEPT ![t] = 0]
  /\ begin' = [begin EXCEPT ![t] = 0]
  /\ expire' = [expire EXCEPT ![t] = 0]

(* The client frees a timer of its own, as the callback of the test does.  *)
FreeTimer(t) ==
  /\ InUserCode
  /\ t \in Owned
  /\ Release(t)
  /\ UNCHANGED <<now, mgr, depth, frame, lastFired>>

MutDeadline(t) == now + ((elapse[t] * UsPerMs) % Word32)

(* msElapse is widened to 64 bits before it is multiplied.                 *)
Deadline(t) == now + elapse[t] * UsPerMs

MutAddDuplicate(t) ==
  /\ InUserCode
  /\ t \in Owned
  /\ size + 1 <= Watermark
  /\ begin' = [begin EXCEPT ![t] = now]
  /\ expire' = [expire EXCEPT ![t] = Deadline(t)]
  /\ tree' = tree \cup {t}
  /\ size' = size + 1
  /\ UNCHANGED <<now, live, elapse, depth, frame, lastFired>>

MutAddUncounted(t) ==
  /\ InUserCode
  /\ t \in Owned
  /\ size + 1 <= Watermark
  /\ begin' = [begin EXCEPT ![t] = now]
  /\ expire' = [expire EXCEPT ![t] = Deadline(t)]
  /\ IF \E u \in tree : SameKey(t, u)'
       THEN UNCHANGED tree
       ELSE tree' = tree \cup {t}
  /\ UNCHANGED <<now, live, elapse, size, depth, frame, lastFired>>

MutAddAboveMark(t) ==
  /\ InUserCode
  /\ t \in Owned
  /\ size <= Watermark
  /\ begin' = [begin EXCEPT ![t] = now]
  /\ expire' = [expire EXCEPT ![t] = Deadline(t)]
  /\ IF \E u \in tree : SameKey(t, u)'
       THEN UNCHANGED mgr
       ELSE tree' = tree \cup {t} /\ size' = size + 1
  /\ UNCHANGED <<now, live, elapse, depth, frame, lastFired>>

(* A timer that is refused for its key has its times overwritten all the   *)
(* same.  A call refused by the watermark changes nothing and is no step.  *)
timer_mgr_add_timer(t) ==
  /\ InUserCode
  /\ t \in Owned
  /\ size + 1 <= Watermark
  /\ begin' = [begin EXCEPT ![t] = now]
  /\ expire' = [expire EXCEPT ![t] = Deadline(t)]
  /\ IF \E u \in tree : SameKey(t, u)'
       THEN UNCHANGED mgr
       ELSE tree' = tree \cup {t} /\ size' = size + 1
  /\ UNCHANGED <<now, live, elapse, depth, frame, lastFired>>

MutDel(t, destroy) ==
  /\ InUserCode
  /\ t \in tree
  /\ tree' = Erased(t)
  /\ IF destroy THEN Release(t) ELSE UNCHANGED <<live, keys>>
  /\ UNCHANGED <<now, size, depth, frame, lastFired>>

(* The destroy function is the last thing del calls, so what user code     *)
(* does in it, it may as well do after the call.                           *)
timer_mgr_del_timer(t, destroy) ==
  /\ InUserCode
  /\ t \in tree
  /\ tree' = Erased(t)
  /\ size' = size - 1
  /\ IF destroy THEN Release(t) ELSE UNCHANGED <<live, keys>>
  /\ UNCHANGED <<now, depth, frame, lastFired>>

-----------------------------------------------------------------------------
(* timer_mgr_check_timer.                                                  *)

timer_mgr_check_timer(destroy) ==
  /\ InUserCode
  /\ Push("check", destroy)
  /\ UNCHANGED <<now, live, keys, mgr, lastFired>>

(* The loop condition of check and clear.                                  *)
MoreNodes == Top.node # NULL /\ tree # {}

(* The clock is read anew for each node, before anything else happens.     *)
CheckExpire ==
  /\ In("check", "loop")
  /\ MoreNodes
  /\ now >= expire[Top.node]
  /\ Continue("callback", Prev(Top.node), Top.node)
  /\ tree' = Erased(Top.node)
  /\ size' = size - 1
  /\ lastFired' = expire[Top.node]
  /\ UNCHANGED <<now, live, keys>>

(* The result of a check that returns now: TRUE when there is no timer,    *)
(* else the time left, truncated to a U32.                                 *)
CheckResult == IF MoreNodes THEN (expire[Top.node] - now) % Word32 ELSE 1

CheckReturn ==
  /\ In("check", "loop")
  /\ MoreNodes => now < expire[Top.node]
  /\ Pop
  /\ UNCHANGED <<now, live, keys, mgr, lastFired>>

(* After the callbacks: continue with the first node when the saved one    *)
(* is NULL; else the loop body of check falls through to its return.       *)
CheckResume ==
  IF Top.node = NULL THEN Continue("loop", First, NULL) ELSE Pop

CallbackReturn ==
  /\ In("check", "callback")
  /\ IF Top.destroy THEN Continue("destroy", Top.node, Top.timer)
                    ELSE CheckResume
  /\ UNCHANGED <<now, live, keys, mgr, lastFired>>

CheckDestroyReturn ==
  /\ In("check", "destroy")
  /\ Release(Top.timer)
  /\ CheckResume
  /\ UNCHANGED <<now, mgr, lastFired>>

-----------------------------------------------------------------------------
(* timer_mgr_clear, which timer_mgr_destory only forwards to.              *)

timer_mgr_clear ==
  /\ InUserCode
  /\ Push("clear", TRUE)
  /\ UNCHANGED <<now, live, keys, mgr, lastFired>>

(* size is left alone until the loop has ended.                            *)
ClearNode ==
  /\ In("clear", "loop")
  /\ MoreNodes
  /\ Continue("destroy", Prev(Top.node), Top.node)
  /\ tree' = Erased(Top.node)
  /\ UNCHANGED <<now, live, keys, size, lastFired>>

ClearDestroyReturn ==
  /\ In("clear", "destroy")
  /\ Release(Top.timer)
  /\ Continue("loop", IF Top.node = NULL THEN First ELSE Next(Top.node), NULL)
  /\ UNCHANGED <<now, mgr, lastFired>>

ClearReturn ==
  /\ In("clear", "loop")
  /\ ~MoreNodes
  /\ size' = 0
  /\ Pop
  /\ UNCHANGED <<now, live, keys, tree, lastFired>>

-----------------------------------------------------------------------------
(* gettimeofday: the wall clock, which an administrator may set back.      *)
Tick ==
  /\ now < Horizon
  /\ now' = now + 1
  /\ UNCHANGED <<live, keys, mgr, depth, frame, lastFired>>

StepBack ==
  /\ StepsBack
  /\ now > 0
  /\ now' = now - 1
  /\ lastFired' = 0
  /\ UNCHANGED <<live, keys, mgr, depth, frame>>

Client ==
  \/ \E t \in Timer, e \in Elapse : callback_timer_init(t, e)
  \/ \E t \in Timer : callback_timer_reset(t)
  \/ \E t \in Timer : FreeTimer(t)
  \/ \E t \in Timer : timer_mgr_add_timer(t)
  \/ \E t \in Timer, d \in BOOLEAN : timer_mgr_del_timer(t, d)
  \/ \E d \in BOOLEAN : timer_mgr_check_timer(d)
  \/ timer_mgr_clear

Manager ==
  \/ CheckExpire
  \/ CheckReturn
  \/ CallbackReturn
  \/ CheckDestroyReturn
  \/ ClearNode
  \/ ClearDestroyReturn
  \/ ClearReturn

Step == Client \/ Manager \/ Tick \/ StepBack

Spec == Init /\ [][Step]_vars

-----------------------------------------------------------------------------
(* Properties.                                                             *)

Calls(op) == {i \in 1..depth : frame[i].op = op}

(* The counter the watermark is compared with (uti_timer.c:238) is the     *)
(* number of managed timers whenever no clear is in progress.  While one   *)
(* is, whatever its destroy function adds, deletes, checks or clears, the  *)
(* counter is at least that number: a delete cannot wrap it below zero,    *)
(* and the capacity is never exceeded.                                     *)
SizeInv ==
  /\ IF Calls("clear") = {} THEN size = Cardinality(tree)
                            ELSE size >= Cardinality(tree)
  /\ size <= Watermark

(* The node that check and clear save across a callback or a destroy       *)
(* function is never a timer that this user code may delete or free: it is *)
(* always NULL.  So check never falls through to the return at             *)
(* uti_timer.c:329, which would read a timer that may be freed by then,    *)
(* and neither loop follows a stale node (uti_timer.c:212-217, :321-326).  *)
IteratorSafe ==
  \A i \in 1..depth :
     frame[i].phase \in {"callback", "destroy"} => frame[i].node = NULL

(* A timer given to a destroy function (uti_timer.c:206, :318) is          *)
(* allocated, out of the tree, and no other call in progress is going to   *)
(* destroy it as well.                                                     *)
DestroyedOnce ==
  \A i \in 1..depth :
     LET t == frame[i].timer IN
     (frame[i].destroy /\ t # NULL) =>
        /\ t \in live \ tree
        /\ \A j \in 1..depth \ {i} : frame[j].destroy => frame[j].timer # t

(* The calls of check that start a callback in this step.                  *)
Firing == {i \in 1..depth : frame[i].phase = "loop"
                              /\ frame'[i].phase = "callback"}

(* From one step back of the clock to the next, callbacks run in the order *)
(* of their deadlines, whatever timers the callbacks add and however       *)
(* checks are nested (uti_timer.c:294-330).                                *)
FiringOrder ==
  [][\A i \in Firing : expire[frame'[i].timer] >= lastFired]_vars

(* No callback runs before the period its timer asks for has elapsed, for  *)
(* every 32-bit msElapse.                                                  *)
NotEarly ==
  [][\A i \in Firing :
       LET t == frame'[i].timer IN now - begin[t] >= elapse[t] * UsPerMs]_vars

(* When check returns, no managed timer is due: neither one that was added *)
(* by a callback, nor one a nested check or clear left behind.             *)
NoneDueOnReturn ==
  [][\A i \in Calls("check") :
       (depth' < i) => \A t \in tree : now < expire[t]]_vars

(* No two managed timers have the same key, which the search tree needs,   *)
(* although add overwrites the times of a timer it then refuses and the    *)
(* clock may return to a time it has shown before (uti_timer.c:243-249).   *)
KeysDistinct == \A t, u \in tree : SameKey(t, u) => t = u

Deadlines == [t \in tree |-> expire[t]]

Running ==
  [i \in Levels |-> IF i <= depth /\ frame[i].phase = "callback"
                      THEN frame[i].timer ELSE NULL]

(* The manager implements the service: every call, also one made by a      *)
(* callback or a destroy function in the middle of check or clear, is one  *)
(* step of it or none, and capacity, deadlines and the order of callbacks  *)
(* are what the service promises.                                          *)
Service == INSTANCE TimerService WITH
  Elapse   <- Elapse \cup {0},
  Capacity <- Watermark,
  Level    <- Levels,
  deadline <- Deadlines,
  running  <- Running
ServiceSpec == Service!Spec

(* uti_timer.h:25 says of msElapse: "micro seconds will elapse before      *)
(* time-out", so the deadline would be msElapse clock units after the      *)
(* timer was added.                                                        *)
ElapseInMicroseconds == \A t \in tree : expire[t] = begin[t] + elapse[t]

=============================================================================
