---------------------------- MODULE TimerProofs -----------------------------
(***************************************************************************)
(* Proofs about the timer manager, for any number of timers, any periods,  *)
(* any watermark and any nesting of calls; and, at the end, about the      *)
(* event loop that drives it, for any word size and slack as well.         *)
(***************************************************************************)
EXTENDS TimerLoop, FiniteSetTheorems, TLAPS

-----------------------------------------------------------------------------
(* The order of the timers.                                                *)

LEMMA BeforeTransitive ==
  ASSUME NEW S, expire \in [Timer -> Int], begin \in [Timer -> Int],
         S \subseteq Timer, NEW t \in S, NEW u \in S, NEW v \in S,
         Before(t, u), Before(u, v)
  PROVE  Before(t, v) /\ ~Before(t, t)
BY DEF Before

(* A finite set of timers has one that no other is before: the set of the  *)
(* timers before it is minimal among those sets.                           *)
LEMMA LeastExists ==
  ASSUME expire \in [Timer -> Int], begin \in [Timer -> Int],
         NEW S \in SUBSET Timer, IsFiniteSet(S), S # {}
  PROVE  /\ Least(S) \in S
         /\ \A u \in S : ~Before(u, Least(S))
<1> DEFINE Below(t) == {u \in S : Before(u, t)}
           T == {Below(t) : t \in S}
<1>1. IsWellFoundedOn(StrictSubsetOrdering(S), FiniteSubsetsOf(S))
  BY FS_StrictSubsetOrderingWellFounded
<1>2. FiniteSubsetsOf(S) = SUBSET S
  BY FS_FiniteSubsetsOfFinite
<1>3. T \subseteq SUBSET S /\ T # {}
  OBVIOUS
<1>4. PICK x \in T : \A y \in T : <<y, x>> \notin StrictSubsetOrdering(S)
  <2> HIDE DEF T
  <2> QED BY <1>1, <1>2, <1>3, WFMin
<1>5. PICK t \in S : x = Below(t)
  BY <1>4
<1>6. \A u \in S : ~Before(u, t)
  <2> SUFFICES ASSUME NEW u \in S, Before(u, t) PROVE FALSE
    OBVIOUS
  <2>1. Below(u) \subseteq Below(t)
    BY BeforeTransitive
  <2>2. u \in Below(t) /\ u \notin Below(u)
    BY BeforeTransitive
  <2>3. <<Below(u), Below(t)>> \in StrictSubsetOrdering(S)
    BY <2>1, <2>2 DEF StrictSubsetOrdering
  <2> QED BY <2>3, <1>4, <1>5
<1> HIDE DEF T, Below
<1>7. Least(S) = CHOOSE s \in S : \A u \in S : ~Before(u, s)
  BY DEF Least
<1> QED BY <1>6, <1>7

(* n is the first node of the tree, or NULL when there is none.            *)
IsFirst(n) ==
  IF tree = {} THEN n = NULL
               ELSE n \in tree /\ \A u \in tree : ~Before(u, n)

LEMMA FirstNode ==
  ASSUME expire \in [Timer -> Int], begin \in [Timer -> Int],
         tree \subseteq Timer, IsFiniteSet(tree)
  PROVE  IsFirst(First)
<1>1. CASE tree = {}
  BY <1>1 DEF First, Least, IsFirst
<1>2. CASE tree # {}
  BY <1>2, LeastExists DEF First, IsFirst
<1> QED BY <1>1, <1>2

(* No node is before the first one, so its predecessor is NULL; and its    *)
(* deadline is the earliest.                                               *)
LEMMA FirstIsEarliest ==
  ASSUME expire \in [Timer -> Int], tree \subseteq Timer,
         NEW n \in tree, IsFirst(n)
  PROVE  Prev(n) = NULL /\ \A u \in tree : expire[n] <= expire[u]
<1>1. \A u \in tree : ~Before(u, n)
  BY DEF IsFirst
<1>2. {u \in tree : Before(u, n)} = {}
  BY <1>1
<1>3. Prev(n) = NULL
  BY <1>2 DEF Prev, Greatest
<1> QED BY <1>1, <1>3 DEF Before

-----------------------------------------------------------------------------
(* The inductive invariant.                                                *)

(* Managed timers are allocated, and finitely many.                        *)
TreeOK == tree \subseteq live /\ IsFiniteSet(tree)

(* Only the innermost call is in its loop, with its node the first of the  *)
(* tree; the calls around it are inside a callback or a destroy function.  *)
FrameOK(i) ==
  /\ frame[i].op \in {"check", "clear"}
  /\ frame[i].op = "clear" => frame[i].destroy
  /\ frame[i].phase \in {"loop", "callback", "destroy"}
  /\ frame[i].phase = "loop" =>
       i = depth /\ IsFirst(frame[i].node) /\ frame[i].timer = NULL
  /\ frame[i].phase = "callback" => frame[i].op = "check"
  /\ frame[i].phase = "destroy" => frame[i].destroy
  /\ frame[i].phase # "loop" => frame[i].timer \in Timer

FramesOK == \A i \in 1..depth : FrameOK(i)

(* The types, but for the lower bound of size, which SizeInv gives.        *)
TypeInv ==
  /\ now \in Int
  /\ live \subseteq Timer
  /\ elapse \in [Timer -> Elapse \cup {0}]
  /\ begin \in [Timer -> Int]
  /\ expire \in [Timer -> Int]
  /\ tree \subseteq Timer
  /\ size \in Int
  /\ depth \in 0..MaxDepth
  /\ frame \in [Levels -> Frame]
  /\ lastFired \in Int

IInv == TypeInv /\ TreeOK /\ FramesOK /\ IteratorSafe /\ DestroyedOnce

LEMMA FrameType ==
  ASSUME TypeInv, NEW i \in 1..depth
  PROVE  i \in Levels /\ frame[i] \in Frame
BY ConfigAssumption DEF TypeInv, Levels

LEMMA TypeInit == Init => IInv
<1> SUFFICES ASSUME Init PROVE IInv
  OBVIOUS
<1>1. TypeInv
  BY ConfigAssumption DEF Init, TypeInv, Levels, NoFrame, Frame
<1>2. TreeOK
  BY FS_EmptySet DEF Init, TreeOK
<1>3. FramesOK /\ IteratorSafe /\ DestroyedOnce
  BY DEF Init, FramesOK, IteratorSafe, DestroyedOnce
<1> QED BY <1>1, <1>2, <1>3 DEF IInv

(* The calls that the code makes are frames.                               *)
LEMMA ContinueType ==
  ASSUME TypeInv, depth > 0,
         NEW phase \in {"loop", "callback", "destroy"},
         NEW n \in Timer \cup {NULL}, NEW t \in Timer \cup {NULL},
         Continue(phase, n, t)
  PROVE  frame' \in [Levels -> Frame] /\ depth' \in 0..MaxDepth
<1>1. depth \in Levels /\ Top \in Frame
  BY ConfigAssumption DEF TypeInv, Levels, Top
<1>2. [op |-> Top.op, phase |-> phase, node |-> n, timer |-> t,
       destroy |-> Top.destroy] \in Frame
  BY <1>1 DEF Frame
<1> QED BY <1>1, <1>2 DEF Continue, TypeInv

LEMMA PushType ==
  ASSUME TypeInv, TreeOK, NEW op \in {"check", "clear"}, NEW d \in BOOLEAN,
         Push(op, d)
  PROVE  frame' \in [Levels -> Frame] /\ depth' \in 0..MaxDepth
<1>1. First \in Timer \cup {NULL}
  BY FirstNode DEF TypeInv, TreeOK, IsFirst
<1>2. [op |-> op, phase |-> "loop", node |-> First, timer |-> NULL,
       destroy |-> d] \in Frame
  BY <1>1 DEF Frame
<1>3. depth + 1 \in Levels
  BY ConfigAssumption DEF Push, TypeInv, Levels
<1> QED BY <1>2, <1>3, ConfigAssumption DEF Push, TypeInv

LEMMA PopType ==
  ASSUME TypeInv, depth > 0, Pop
  PROVE  frame' \in [Levels -> Frame] /\ depth' \in 0..MaxDepth
<1>1. NoFrame \in Frame
  BY DEF NoFrame, Frame
<1>2. frame' \in [Levels -> Frame]
  BY <1>1 DEF Pop, TypeInv
<1>3. depth' \in 0..MaxDepth
  BY ConfigAssumption DEF Pop, TypeInv
<1> QED BY <1>2, <1>3

(* A deadline is never before the time the timer is added.                 *)
LEMMA PeriodNat ==
  ASSUME TypeInv, NEW t \in Timer
  PROVE  elapse[t] * UsPerMs \in Nat /\ Deadline(t) = now + elapse[t] * UsPerMs
<1>1. UsPerMs \in Nat /\ \A e \in Elapse \cup {0} : e \in Nat
  BY ConfigAssumption
<1>2. elapse[t] \in Elapse \cup {0}
  BY DEF TypeInv
<1>3. elapse[t] \in Nat
  BY <1>1, <1>2
<1> QED BY <1>1, <1>3 DEF Deadline

LEMMA ReleaseType ==
  ASSUME TypeInv, NEW t \in Timer, Release(t)
  PROVE  /\ live' \subseteq Timer
         /\ elapse' \in [Timer -> Elapse \cup {0}]
         /\ begin' \in [Timer -> Int]
         /\ expire' \in [Timer -> Int]
BY DEF TypeInv, Release

(* Every step preserves the types.                                         *)
LEMMA TypeStep == IInv /\ [Step]_vars => TypeInv'
<1> SUFFICES ASSUME IInv, [Step]_vars PROVE TypeInv'
  OBVIOUS
<1> USE DEF IInv
<1>a. depth > 0 => Top.node \in Timer \cup {NULL} /\ Top.timer \in Timer \cup {NULL}
  BY FrameType DEF TypeInv, Frame, Top
<1>b. First \in Timer \cup {NULL}
  BY FirstNode DEF TypeInv, TreeOK, IsFirst
<1>c. In("check", "destroy") \/ In("clear", "destroy") => Top.timer \in Timer
  BY DEF In, Top, FramesOK, FrameOK, TypeInv
<1>1. ASSUME NEW t \in Timer, NEW e \in Elapse, callback_timer_init(t, e)
      PROVE  TypeInv'
  BY <1>1, ConfigAssumption DEF callback_timer_init, mgr, TypeInv
<1>2. ASSUME NEW t \in Timer, callback_timer_reset(t) PROVE TypeInv'
  BY <1>2 DEF callback_timer_reset, mgr, TypeInv
<1>3. ASSUME NEW t \in Timer, FreeTimer(t) PROVE TypeInv'
  BY <1>3, ReleaseType DEF FreeTimer, mgr, TypeInv
<1>4. ASSUME NEW t \in Timer, timer_mgr_add_timer(t) PROVE TypeInv'
  <2>1. Deadline(t) \in Int
    BY PeriodNat DEF TypeInv
  <2> QED BY <1>4, <2>1 DEF timer_mgr_add_timer, mgr, TypeInv
<1>5. ASSUME NEW t \in Timer, NEW d \in BOOLEAN, timer_mgr_del_timer(t, d)
      PROVE  TypeInv'
  BY <1>5 DEF timer_mgr_del_timer, Release, Erased, keys, TypeInv
<1>6. ASSUME NEW d \in BOOLEAN, timer_mgr_check_timer(d) PROVE TypeInv'
  BY <1>6, PushType DEF timer_mgr_check_timer, keys, mgr, TypeInv
<1>7. CASE timer_mgr_clear
  BY <1>7, PushType DEF timer_mgr_clear, keys, mgr, TypeInv
<1>8. CASE CheckExpire
  <2>1. depth > 0 /\ Top.node \in Timer /\ Continue("callback", Prev(Top.node), Top.node)
    BY <1>8, <1>a DEF CheckExpire, In, MoreNodes
  <2>2. Prev(Top.node) \in Timer \cup {NULL}
    BY <1>8, FrameType, FirstIsEarliest
       DEF CheckExpire, In, MoreNodes, FramesOK, FrameOK, IsFirst, Top, TypeInv
  <2>3. frame' \in [Levels -> Frame] /\ depth' \in 0..MaxDepth
    BY <2>1, <2>2, ContinueType
  <2> QED BY <1>8, <2>1, <2>3 DEF CheckExpire, Erased, keys, TypeInv
<1>9. CASE CheckReturn
  BY <1>9, PopType DEF CheckReturn, In, keys, mgr, TypeInv
<1>10. ASSUME depth > 0, CheckResume
       PROVE  frame' \in [Levels -> Frame] /\ depth' \in 0..MaxDepth
  BY <1>10, <1>b, ContinueType, PopType DEF CheckResume
<1>11. CASE CallbackReturn
  <2>1. frame' \in [Levels -> Frame] /\ depth' \in 0..MaxDepth
    BY <1>11, <1>10, <1>a, ContinueType DEF CallbackReturn, In
  <2> QED BY <1>11, <2>1 DEF CallbackReturn, keys, mgr, TypeInv
<1>12. CASE CheckDestroyReturn
  <2>1. frame' \in [Levels -> Frame] /\ depth' \in 0..MaxDepth
    BY <1>12, <1>10 DEF CheckDestroyReturn, In
  <2> QED BY <1>12, <1>c, <2>1, ReleaseType DEF CheckDestroyReturn, mgr, TypeInv
<1>13. CASE ClearNode
  <2>1. depth > 0 /\ Top.node \in Timer /\ Continue("destroy", Prev(Top.node), Top.node)
    BY <1>13, <1>a DEF ClearNode, In, MoreNodes
  <2>2. Prev(Top.node) \in Timer \cup {NULL}
    BY <1>13, FrameType, FirstIsEarliest
       DEF ClearNode, In, MoreNodes, FramesOK, FrameOK, IsFirst, Top, TypeInv
  <2>3. frame' \in [Levels -> Frame] /\ depth' \in 0..MaxDepth
    BY <2>1, <2>2, ContinueType
  <2> QED BY <1>13, <2>1, <2>3 DEF ClearNode, Erased, keys, TypeInv
<1>14. CASE ClearDestroyReturn
  <2>1. depth > 0 /\ Top.node = NULL
    BY <1>14 DEF ClearDestroyReturn, In, IteratorSafe, Top, TypeInv
  <2>2. frame' \in [Levels -> Frame] /\ depth' \in 0..MaxDepth
    BY <1>14, <1>b, <2>1, ContinueType DEF ClearDestroyReturn
  <2> QED BY <1>14, <1>c, <2>2, ReleaseType DEF ClearDestroyReturn, mgr, TypeInv
<1>15. CASE ClearReturn
  BY <1>15, PopType DEF ClearReturn, In, keys, TypeInv
<1>16. CASE Tick \/ StepBack
  BY <1>16 DEF Tick, StepBack, keys, mgr, TypeInv
<1>17. CASE UNCHANGED vars
  BY <1>17 DEF vars, keys, mgr, TypeInv
<1> QED
  BY <1>1, <1>2, <1>3, <1>4, <1>5, <1>6, <1>7, <1>8, <1>9, <1>11, <1>12, <1>13,
     <1>14, <1>15, <1>16, <1>17 DEF Step, Client, Manager

-----------------------------------------------------------------------------
(* The frames.                                                             *)

(* User code changes no frame, and no timer that is in the tree matters to *)
(* a call that is not in its loop.                                         *)
LEMMA FramesInUserCode ==
  ASSUME TypeInv, FramesOK, IteratorSafe, InUserCode,
         UNCHANGED <<depth, frame>>
  PROVE  FramesOK' /\ IteratorSafe'
<1>1. ASSUME NEW i \in 1..depth
      PROVE  frame[i].phase # "loop" /\ FrameOK(i)
  BY DEF FramesOK, FrameOK, InUserCode, Top, TypeInv
<1>2. FramesOK'
  BY <1>1 DEF FramesOK, FrameOK
<1>3. IteratorSafe'
  BY DEF IteratorSafe
<1> QED BY <1>2, <1>3

LEMMA FramesContinue ==
  ASSUME TypeInv, FramesOK, IteratorSafe, depth > 0,
         NEW phase \in {"loop", "callback", "destroy"}, NEW n, NEW t,
         Continue(phase, n, t),
         phase = "loop" => IsFirst(n)' /\ t = NULL,
         phase = "callback" => Top.op = "check",
         phase = "destroy" => Top.destroy,
         phase # "loop" => n = NULL /\ t \in Timer
  PROVE  FramesOK' /\ IteratorSafe'
<1> DEFINE f == [op |-> Top.op, phase |-> phase, node |-> n, timer |-> t,
                 destroy |-> Top.destroy]
<1>1. depth \in Levels /\ depth \in 1..depth /\ depth' = depth
  BY ConfigAssumption DEF TypeInv, Levels, Continue
<1>2. frame'[depth] = f
  BY <1>1 DEF Continue, TypeInv
<1>3. ASSUME NEW i \in 1..depth, i # depth
      PROVE  frame'[i] = frame[i] /\ frame[i].phase # "loop" /\ FrameOK(i)
  BY <1>3, <1>1, FrameType DEF Continue, TypeInv, FramesOK, FrameOK
<1>4. FrameOK(depth)'
  BY <1>1, <1>2 DEF FrameOK, FramesOK, Top
<1>5. FramesOK'
  BY <1>1, <1>3, <1>4 DEF FrameOK, FramesOK
<1>6. IteratorSafe'
  BY <1>1, <1>2, <1>3 DEF IteratorSafe
<1> QED BY <1>5, <1>6

LEMMA FramesPush ==
  ASSUME TypeInv, TreeOK, FramesOK, IteratorSafe, InUserCode,
         NEW op \in {"check", "clear"}, NEW d \in BOOLEAN,
         op = "clear" => d,
         Push(op, d), UNCHANGED <<tree, begin, expire>>
  PROVE  FramesOK' /\ IteratorSafe'
<1>1. PICK n : n = First
  OBVIOUS
<1> DEFINE f == [op |-> op, phase |-> "loop", node |-> n, timer |-> NULL,
                 destroy |-> d]
<1>2. depth + 1 \in Levels /\ depth' = depth + 1 /\ depth \in Nat
  BY ConfigAssumption DEF TypeInv, Levels, Push
<1>3. frame'[depth + 1] = f
  BY <1>1, <1>2 DEF Push, TypeInv
<1>4. ASSUME NEW i \in 1..depth
      PROVE  frame'[i] = frame[i] /\ frame[i].phase # "loop" /\ FrameOK(i)
  BY <1>2, FrameType DEF Push, TypeInv, FramesOK, FrameOK, InUserCode, Top
<1>5. IsFirst(n)
  BY <1>1, FirstNode DEF TypeInv, TreeOK
<1>6. IsFirst(n)'
  BY <1>5 DEF IsFirst, Before
<1>7. ASSUME NEW i \in 1..depth' PROVE FrameOK(i)'
  <2>1. CASE i = depth + 1
    BY <2>1, <1>2, <1>3, <1>6 DEF FrameOK
  <2>2. CASE i \in 1..depth
    BY <2>2, <1>4 DEF FrameOK
  <2> QED BY <1>2, <2>1, <2>2
<1>8. FramesOK'
  BY <1>7 DEF FramesOK
<1>9. ASSUME NEW i \in 1..depth', frame'[i].phase \in {"callback", "destroy"}
      PROVE  frame'[i].node = NULL
  <2>1. i \in 1..depth
    BY <1>9, <1>2, <1>3
  <2> QED BY <2>1, <1>4, <1>9 DEF IteratorSafe
<1> QED BY <1>8, <1>9 DEF IteratorSafe

LEMMA FramesPop ==
  ASSUME TypeInv, FramesOK, IteratorSafe, depth > 0, Pop
  PROVE  FramesOK' /\ IteratorSafe'
<1>1. depth' = depth - 1 /\ depth \in Nat
  BY ConfigAssumption DEF TypeInv, Pop
<1>2. ASSUME NEW i \in 1..depth'
      PROVE  /\ i \in 1..depth /\ frame'[i] = frame[i]
             /\ frame[i].phase # "loop" /\ FrameOK(i)
  BY <1>1, FrameType DEF Pop, TypeInv, FramesOK, FrameOK
<1>3. FramesOK'
  BY <1>2 DEF FrameOK, FramesOK
<1>4. IteratorSafe'
  BY <1>2 DEF IteratorSafe
<1> QED BY <1>3, <1>4

(* Releasing a timer that is not in the tree leaves its first node first.  *)
LEMMA FirstAfterRelease ==
  ASSUME TypeInv, TreeOK, NEW t \in Timer, t \notin tree, Release(t),
         tree' = tree, NEW n, IsFirst(n)
  PROVE  IsFirst(n)'
<1>1. \A u \in tree : expire'[u] = expire[u] /\ begin'[u] = begin[u]
  BY DEF Release, TypeInv
<1> QED BY <1>1 DEF IsFirst, Before

(* One step of a call in progress, or of user code, leaves the frames in   *)
(* order.                                                                  *)
LEMMA FramesStep == IInv /\ [Step]_vars => FramesOK' /\ IteratorSafe'
<1> SUFFICES ASSUME IInv, [Step]_vars PROVE FramesOK' /\ IteratorSafe'
  OBVIOUS
<1> USE DEF IInv
<1>a. ASSUME depth > 0
      PROVE  /\ depth \in 1..depth /\ FrameOK(depth) /\ Top \in Frame
             /\ Top.destroy /\ Top.timer # NULL => Top.timer \notin tree
  BY <1>a, FrameType, ConfigAssumption
     DEF FramesOK, Top, TypeInv, DestroyedOnce
<1>b. ASSUME InUserCode, UNCHANGED <<depth, frame>>
      PROVE  FramesOK' /\ IteratorSafe'
  BY <1>b, FramesInUserCode
<1>1. ASSUME NEW t \in Timer, NEW e \in Elapse, callback_timer_init(t, e)
      PROVE  FramesOK' /\ IteratorSafe'
  BY <1>1, <1>b DEF callback_timer_init
<1>2. ASSUME NEW t \in Timer, callback_timer_reset(t)
      PROVE  FramesOK' /\ IteratorSafe'
  BY <1>2, <1>b DEF callback_timer_reset
<1>3. ASSUME NEW t \in Timer, FreeTimer(t) PROVE FramesOK' /\ IteratorSafe'
  BY <1>3, <1>b DEF FreeTimer
<1>4. ASSUME NEW t \in Timer, timer_mgr_add_timer(t)
      PROVE  FramesOK' /\ IteratorSafe'
  BY <1>4, <1>b DEF timer_mgr_add_timer
<1>5. ASSUME NEW t \in Timer, NEW d \in BOOLEAN, timer_mgr_del_timer(t, d)
      PROVE  FramesOK' /\ IteratorSafe'
  BY <1>5, <1>b DEF timer_mgr_del_timer
<1>6. ASSUME NEW d \in BOOLEAN, timer_mgr_check_timer(d)
      PROVE  FramesOK' /\ IteratorSafe'
  BY <1>6, FramesPush DEF timer_mgr_check_timer, mgr, keys
<1>7. CASE timer_mgr_clear
  BY <1>7, FramesPush DEF timer_mgr_clear, mgr, keys
<1>8. CASE CheckExpire
  <2>1. /\ depth > 0 /\ Top.node \in tree /\ IsFirst(Top.node)
        /\ Top.op = "check"
    BY <1>8, <1>a DEF CheckExpire, In, MoreNodes, FrameOK, IsFirst, Top
  <2>2. Prev(Top.node) = NULL
    BY <2>1, FirstIsEarliest DEF TypeInv
  <2> QED BY <1>8, <2>1, <2>2, FramesContinue DEF CheckExpire, TypeInv
<1>9. CASE CheckReturn
  BY <1>9, FramesPop DEF CheckReturn, In
<1>10. ASSUME depth > 0, CheckResume, UNCHANGED <<tree, begin, expire>>
       PROVE  FramesOK' /\ IteratorSafe'
  <2>1. PICK n : n = First
    OBVIOUS
  <2>2. IsFirst(n)
    BY <2>1, FirstNode DEF TypeInv, TreeOK
  <2>3. IsFirst(n)'
    BY <1>10, <2>2 DEF IsFirst, Before
  <2>4. CASE Top.node = NULL
    BY <1>10, <2>1, <2>3, <2>4, FramesContinue DEF CheckResume
  <2>5. CASE Top.node # NULL
    BY <1>10, <2>5, FramesPop DEF CheckResume
  <2> QED BY <2>4, <2>5
<1>11. CASE CallbackReturn
  <2>1. depth > 0 /\ Top.op = "check" /\ Top.node = NULL /\ Top.timer \in Timer
    BY <1>11, <1>a DEF CallbackReturn, In, FrameOK, Top, IteratorSafe
  <2>2. CASE Top.destroy
    BY <1>11, <2>1, <2>2, FramesContinue DEF CallbackReturn
  <2>3. CASE ~Top.destroy
    BY <1>11, <2>1, <2>3, <1>10 DEF CallbackReturn, mgr, keys
  <2> QED BY <2>2, <2>3
<1>12. ASSUME depth > 0, Top.phase = "destroy", Release(Top.timer),
              Continue("loop", First, NULL), tree' = tree
       PROVE  FramesOK' /\ IteratorSafe'
  <2>1. Top.timer \in Timer /\ Top.timer \notin tree
    BY <1>12, <1>a, NullAssumption DEF FrameOK, Top
  <2>2. PICK n : n = First
    OBVIOUS
  <2>3. IsFirst(n)
    BY <2>2, FirstNode DEF TypeInv, TreeOK
  <2>4. IsFirst(n)'
    BY <1>12, <2>1, <2>3, FirstAfterRelease
  <2> QED BY <1>12, <2>2, <2>4, FramesContinue
<1>13. CASE CheckDestroyReturn
  <2>1. depth > 0 /\ Top.node = NULL /\ Top.phase = "destroy"
    BY <1>13, <1>a DEF CheckDestroyReturn, In, Top, IteratorSafe
  <2> QED BY <1>13, <2>1, <1>12 DEF CheckDestroyReturn, CheckResume, mgr
<1>14. CASE ClearNode
  <2>1. /\ depth > 0 /\ Top.node \in tree /\ IsFirst(Top.node)
        /\ Top.op = "clear" /\ Top.destroy
    BY <1>14, <1>a DEF ClearNode, In, MoreNodes, FrameOK, IsFirst, Top
  <2>2. Prev(Top.node) = NULL
    BY <2>1, FirstIsEarliest DEF TypeInv
  <2> QED BY <1>14, <2>1, <2>2, FramesContinue DEF ClearNode, TypeInv
<1>15. CASE ClearDestroyReturn
  <2>1. depth > 0 /\ Top.node = NULL /\ Top.phase = "destroy"
    BY <1>15, <1>a DEF ClearDestroyReturn, In, Top, IteratorSafe
  <2> QED BY <1>15, <2>1, <1>12 DEF ClearDestroyReturn, mgr
<1>16. CASE ClearReturn
  BY <1>16, FramesPop DEF ClearReturn, In
<1>17. CASE UNCHANGED <<mgr, keys, depth, frame>>
  <2>1. ASSUME NEW n, IsFirst(n) PROVE IsFirst(n)'
    BY <1>17, <2>1 DEF IsFirst, Before, mgr, keys
  <2>2. FramesOK'
    BY <1>17, <2>1 DEF FramesOK, FrameOK
  <2> QED BY <1>17, <2>2 DEF IteratorSafe
<1> QED
  BY <1>1, <1>2, <1>3, <1>4, <1>5, <1>6, <1>7, <1>8, <1>9, <1>11, <1>13,
     <1>14, <1>15, <1>16, <1>17
     DEF Step, Client, Manager, Tick, StepBack, vars

-----------------------------------------------------------------------------
(* Ownership of the timers.                                                *)

(* A timer that the client owns is in no tree and held by no call.         *)
LEMMA OwnedTimer ==
  ASSUME NEW t \in Timer, t \in Owned
  PROVE  /\ t \in live /\ t \notin tree
         /\ \A i \in 1..depth : frame[i].destroy => frame[i].timer # t
BY NullAssumption DEF Owned, Held

(* It is enough that no call holds a timer it did not hold before, and     *)
(* that those it holds are still allocated, and not in the tree.           *)
LEMMA HeldKept ==
  ASSUME DestroyedOnce,
         \A i \in 1..depth' :
            frame'[i].destroy /\ frame'[i].timer # NULL =>
              /\ i \in 1..depth
              /\ frame[i].destroy /\ frame'[i].timer = frame[i].timer
              /\ frame[i].timer \in live' \ tree'
  PROVE  DestroyedOnce'
BY DEF DestroyedOnce

(* The innermost call takes the timer t out of the tree.                   *)
LEMMA HeldTake ==
  ASSUME TypeInv, DestroyedOnce, TreeOK, depth > 0, NEW t \in tree,
         NEW phase \in {"callback", "destroy"}, NEW n,
         Continue(phase, n, t), tree' = tree \ {t}, live' = live
  PROVE  DestroyedOnce'
<1>1. depth \in Levels /\ depth \in 1..depth /\ depth' = depth
  BY ConfigAssumption DEF TypeInv, Levels, Continue
<1>2. frame'[depth].timer = t /\ frame'[depth].destroy = Top.destroy
  BY <1>1 DEF Continue, TypeInv
<1>3. \A i \in 1..depth : i # depth => frame'[i] = frame[i]
  BY <1>1, FrameType DEF Continue, TypeInv
<1>4. \A i \in 1..depth : frame[i].destroy => frame[i].timer # t
  BY NullAssumption DEF DestroyedOnce, TypeInv
<1>5. ASSUME NEW i \in 1..depth, frame'[i].destroy, frame'[i].timer # NULL
      PROVE  /\ frame'[i].timer \in live' \ tree'
             /\ \A j \in 1..depth \ {i} :
                   frame'[j].destroy => frame'[j].timer # frame'[i].timer
  <2>1. CASE i = depth
    BY <2>1, <1>2, <1>3, <1>4 DEF TreeOK
  <2>2. CASE i # depth
    BY <2>2, <1>1, <1>2, <1>3, <1>4, <1>5 DEF DestroyedOnce
  <2> QED BY <2>1, <2>2
<1> QED BY <1>1, <1>5 DEF DestroyedOnce

LEMMA TreeStep == IInv /\ [Step]_vars => TreeOK'
<1> SUFFICES ASSUME IInv, [Step]_vars PROVE TreeOK'
  OBVIOUS
<1> USE DEF IInv
<1>a. ASSUME NEW t \in Timer, t \notin tree,
             live' \in {live, live \cup {t}, live \ {t}}, tree' = tree
      PROVE  TreeOK'
  BY <1>a DEF TreeOK
<1>b. ASSUME NEW t \in Timer, live' \in {live, live \ {t}}, tree' = Erased(t)
      PROVE  TreeOK'
  BY <1>b, FS_RemoveElement DEF TreeOK, Erased
<1>c. ASSUME depth > 0, Top.phase = "destroy"
      PROVE  Top.timer \in Timer /\ Top.timer \notin tree
  <2>1. depth \in 1..depth /\ FrameOK(depth)
    BY <1>c DEF FramesOK, TypeInv
  <2> QED BY <1>c, <2>1, NullAssumption DEF FrameOK, Top, DestroyedOnce
<1>1. ASSUME NEW t \in Timer, NEW e \in Elapse, callback_timer_init(t, e)
      PROVE  TreeOK'
  BY <1>1, <1>a DEF callback_timer_init, mgr, Owned, TreeOK
<1>2. ASSUME NEW t \in Timer, callback_timer_reset(t) PROVE TreeOK'
  BY <1>2 DEF callback_timer_reset, mgr, TreeOK
<1>3. ASSUME NEW t \in Timer, FreeTimer(t) PROVE TreeOK'
  BY <1>3, <1>a DEF FreeTimer, Release, mgr, Owned
<1>4. ASSUME NEW t \in Timer, timer_mgr_add_timer(t) PROVE TreeOK'
  BY <1>4, FS_AddElement DEF timer_mgr_add_timer, mgr, Owned, TreeOK
<1>5. ASSUME NEW t \in Timer, NEW d \in BOOLEAN, timer_mgr_del_timer(t, d)
      PROVE  TreeOK'
  BY <1>5, <1>b DEF timer_mgr_del_timer, Release
<1>6. CASE CheckExpire \/ ClearNode
  <2>1. depth > 0 /\ Top.node \in Timer
    BY <1>6, FrameType DEF CheckExpire, ClearNode, In, MoreNodes, Top, Frame, TypeInv
  <2> QED BY <1>6, <2>1, <1>b DEF CheckExpire, ClearNode
<1>7. CASE CheckDestroyReturn \/ ClearDestroyReturn
  BY <1>7, <1>a, <1>c DEF CheckDestroyReturn, ClearDestroyReturn, In, Release, mgr
<1>8. CASE UNCHANGED <<live, tree>>
  BY <1>8 DEF TreeOK
<1> QED
  BY <1>1, <1>2, <1>3, <1>4, <1>5, <1>6, <1>7, <1>8
     DEF Step, Client, Manager, Tick, StepBack, vars, timer_mgr_check_timer,
         timer_mgr_clear, CheckReturn, CallbackReturn, ClearReturn, mgr

LEMMA HeldStep == IInv /\ [Step]_vars => DestroyedOnce'
<1> SUFFICES ASSUME IInv, [Step]_vars PROVE DestroyedOnce'
  OBVIOUS
<1> USE DEF IInv
<1>a. ASSUME NEW t \in Timer, UNCHANGED <<depth, frame>>,
             t \notin live \/ t \in Owned \/ t \in tree,
             live \ {t} \subseteq live', tree' \subseteq tree \cup {t}
      PROVE  DestroyedOnce'
  <2>1. \A i \in 1..depth : frame[i].destroy /\ frame[i].timer # NULL =>
           frame[i].timer # t /\ frame[i].timer \in live \ tree
    BY <1>a, OwnedTimer DEF DestroyedOnce
  <2> QED BY <1>a, <2>1 DEF DestroyedOnce
<1>b. ASSUME NEW op, NEW d, Push(op, d), UNCHANGED <<live, tree>>
      PROVE  DestroyedOnce'
  <2>1. depth + 1 \in Levels /\ depth' = depth + 1 /\ depth \in Nat
    BY <1>b, ConfigAssumption DEF TypeInv, Levels, Push
  <2>2. frame'[depth + 1].timer = NULL
    BY <1>b, <2>1 DEF Push, TypeInv
  <2>3. \A i \in 1..depth : frame'[i] = frame[i]
    BY <1>b, <2>1, FrameType DEF Push, TypeInv
  <2>4. \A i \in 1..depth' : i \in 1..depth \/ i = depth + 1
    BY <2>1
  <2> QED BY <1>b, <2>2, <2>3, <2>4, HeldKept DEF DestroyedOnce
<1>c. ASSUME depth > 0, Pop,
             Top.timer \notin tree, live \ {Top.timer} \subseteq live',
             Top.destroy \/ live' = live, tree' \subseteq tree
      PROVE  DestroyedOnce'
  <2>1. depth \in 1..depth /\ depth' = depth - 1 /\ depth \in Nat
    BY <1>c DEF TypeInv, Pop
  <2>2. \A i \in 1..depth' : /\ i \in 1..depth \ {depth}
                             /\ frame'[i] = frame[i]
    BY <1>c, <2>1, FrameType DEF Pop, TypeInv
  <2>3. \A i \in 1..depth' : frame[i].destroy /\ frame[i].timer # NULL =>
           frame[i].timer \in live' \ tree'
    BY <1>c, <2>1, <2>2 DEF DestroyedOnce, Top
  <2> QED BY <2>2, <2>3, HeldKept
<1>d. ASSUME depth > 0, NEW phase, NEW n, NEW t, Continue(phase, n, t),
             t \in {NULL, Top.timer},
             t # NULL => live' = live,
             live \ {Top.timer} \subseteq live',
             Top.destroy \/ live' = live, tree' = tree
      PROVE  DestroyedOnce'
  <2>1. depth \in Levels /\ depth \in 1..depth /\ depth' = depth
    BY <1>d, ConfigAssumption DEF TypeInv, Levels, Continue
  <2>2. frame'[depth].timer = t /\ frame'[depth].destroy = Top.destroy
    BY <1>d, <2>1 DEF Continue, TypeInv
  <2>3. \A i \in 1..depth : i # depth => frame'[i] = frame[i]
    BY <1>d, <2>1, FrameType DEF Continue, TypeInv
  <2>4. ASSUME NEW i \in 1..depth, frame'[i].destroy, frame'[i].timer # NULL
        PROVE  /\ frame[i].destroy /\ frame'[i].timer = frame[i].timer
               /\ frame[i].timer \in live' \ tree'
    <3>1. CASE i = depth
      BY <1>d, <2>2, <2>4, <3>1 DEF DestroyedOnce, Top
    <3>2. CASE i # depth
      BY <1>d, <2>1, <2>3, <2>4, <3>2 DEF DestroyedOnce, Top
    <3> QED BY <3>1, <3>2
  <2> QED BY <2>1, <2>4, HeldKept
<1>e. ASSUME depth > 0 PROVE depth \in 1..depth /\ FrameOK(depth)
  BY <1>e DEF FramesOK, TypeInv
<1>1. ASSUME NEW t \in Timer, NEW e \in Elapse, callback_timer_init(t, e)
      PROVE  DestroyedOnce'
  BY <1>1, <1>a DEF callback_timer_init, mgr
<1>2. ASSUME NEW t \in Timer, callback_timer_reset(t) PROVE DestroyedOnce'
  BY <1>2, <1>a DEF callback_timer_reset, mgr
<1>3. ASSUME NEW t \in Timer, FreeTimer(t) PROVE DestroyedOnce'
  BY <1>3, <1>a DEF FreeTimer, Release, mgr
<1>4. ASSUME NEW t \in Timer, timer_mgr_add_timer(t) PROVE DestroyedOnce'
  BY <1>4, <1>a DEF timer_mgr_add_timer, mgr
<1>5. ASSUME NEW t \in Timer, NEW d \in BOOLEAN, timer_mgr_del_timer(t, d)
      PROVE  DestroyedOnce'
  BY <1>5, <1>a DEF timer_mgr_del_timer, Release, Erased
<1>6. ASSUME NEW d \in BOOLEAN, timer_mgr_check_timer(d) PROVE DestroyedOnce'
  BY <1>6, <1>b DEF timer_mgr_check_timer, mgr
<1>7. CASE timer_mgr_clear
  BY <1>7, <1>b DEF timer_mgr_clear, mgr
<1>8. CASE CheckExpire \/ ClearNode
  <2>1. depth > 0 /\ Top.node \in tree
    BY <1>8, <1>e DEF CheckExpire, ClearNode, In, MoreNodes, FrameOK, IsFirst, Top
  <2> QED BY <1>8, <2>1, HeldTake DEF CheckExpire, ClearNode, Erased
<1>9. CASE CheckReturn \/ ClearReturn
  <2>1. depth > 0 /\ Top.timer \notin tree
    BY <1>9, <1>e, NullAssumption
       DEF CheckReturn, ClearReturn, In, FrameOK, Top, TypeInv
  <2> QED BY <1>9, <2>1, <1>c DEF CheckReturn, ClearReturn, mgr
<1>10. CASE CallbackReturn
  <2>1. depth > 0 /\ Top.node = NULL
    BY <1>10, <1>e DEF CallbackReturn, In, IteratorSafe, Top
  <2> QED BY <1>10, <2>1, <1>d DEF CallbackReturn, CheckResume, mgr
<1>11. CASE CheckDestroyReturn \/ ClearDestroyReturn
  <2>1. depth > 0 /\ Top.node = NULL /\ Top.destroy
    BY <1>11, <1>e
       DEF CheckDestroyReturn, ClearDestroyReturn, In, IteratorSafe, FrameOK, Top
  <2> QED
    BY <1>11, <2>1, <1>d
       DEF CheckDestroyReturn, ClearDestroyReturn, CheckResume, Release, mgr
<1>12. CASE UNCHANGED <<live, tree, depth, frame>>
  BY <1>12 DEF DestroyedOnce
<1> QED
  BY <1>1, <1>2, <1>3, <1>4, <1>5, <1>6, <1>7, <1>8, <1>9, <1>10, <1>11, <1>12
     DEF Step, Client, Manager, Tick, StepBack, vars, mgr

-----------------------------------------------------------------------------
(* The invariants.                                                         *)

LEMMA IInvStep == IInv /\ [Step]_vars => IInv'
BY TypeStep, FramesStep, TreeStep, HeldStep DEF IInv

(* The types, the order of the frames and the ownership of the timers.     *)
THEOREM Inductive == Spec => []IInv
<1>1. Init => IInv
  BY TypeInit
<1> QED BY <1>1, IInvStep, PTL DEF Spec

(* Whatever user code does in a callback or a destroy function, check and  *)
(* clear never use a node or a timer they kept from before it              *)
(* (uti_timer.c:211-217, :320-329).                                        *)
THEOREM IteratorIsSafe == Spec => []IteratorSafe
<1>1. IInv => IteratorSafe
  BY DEF IInv
<1> QED BY <1>1, Inductive, PTL

(* No timer is given to a destroy function twice, or while it is managed.  *)
THEOREM TimersDestroyedOnce == Spec => []DestroyedOnce
<1>1. IInv => DestroyedOnce
  BY DEF IInv
<1> QED BY <1>1, Inductive, PTL

-----------------------------------------------------------------------------
(* The counter.                                                            *)

LEMMA CallsKept ==
  ASSUME TypeInv, depth > 0, NEW phase, NEW n, NEW t, Continue(phase, n, t)
  PROVE  Calls("clear")' = Calls("clear")
<1>1. depth \in Levels /\ depth' = depth
  BY ConfigAssumption DEF TypeInv, Levels, Continue
<1>2. \A i \in 1..depth : frame'[i].op = frame[i].op
  BY <1>1, FrameType DEF Continue, TypeInv, Top
<1> QED BY <1>1, <1>2 DEF Calls

(* A check that returns is not a clear.                                    *)
LEMMA CallsPop ==
  ASSUME TypeInv, depth > 0, Top.op = "check", Pop
  PROVE  Calls("clear")' = Calls("clear")
<1>1. depth \in Levels /\ depth' = depth - 1 /\ depth \in Nat
  BY ConfigAssumption DEF TypeInv, Levels, Pop
<1>2. \A i \in 1..depth' : i \in 1..depth /\ frame'[i] = frame[i]
  BY <1>1, FrameType DEF Pop, TypeInv
<1>3. \A i \in 1..depth : i \in 1..depth' \/ i = depth
  BY <1>1
<1> QED BY <1>2, <1>3 DEF Calls, Top

LEMMA CallsPush ==
  ASSUME TypeInv, NEW op \in {"check", "clear"}, NEW d, Push(op, d),
         Calls("clear")' = {}
  PROVE  Calls("clear") = {}
<1>1. depth + 1 \in Levels /\ depth' = depth + 1 /\ depth \in Nat
  BY ConfigAssumption DEF TypeInv, Levels, Push
<1>2. \A i \in 1..depth : i \in 1..depth' /\ frame'[i] = frame[i]
  BY <1>1, FrameType DEF Push, TypeInv
<1> QED BY <1>2 DEF Calls

LEMMA SizeStep == IInv /\ SizeInv /\ [Step]_vars => SizeInv'
<1> SUFFICES ASSUME IInv, SizeInv, [Step]_vars PROVE SizeInv'
  OBVIOUS
<1> USE DEF IInv
<1>a. Cardinality(tree) \in Nat /\ Watermark \in Nat /\ size \in Int
  BY FS_CardinalityType, ConfigAssumption DEF TreeOK, TypeInv
<1>b. ASSUME UNCHANGED mgr, Calls("clear")' = Calls("clear") PROVE SizeInv'
  BY <1>b DEF SizeInv, mgr
<1>c. ASSUME UNCHANGED <<depth, frame>> PROVE Calls("clear")' = Calls("clear")
  BY <1>c DEF Calls
<1>d. ASSUME NEW t \in tree, tree' = tree \ {t}
      PROVE  Cardinality(tree') = Cardinality(tree) - 1 /\ Cardinality(tree') \in Nat
  BY <1>d, FS_RemoveElement, FS_CardinalityType DEF TreeOK
<1>e. ASSUME depth > 0 PROVE depth \in 1..depth /\ FrameOK(depth)
  BY <1>e DEF FramesOK, TypeInv
<1>1. ASSUME NEW t \in Timer, timer_mgr_add_timer(t) PROVE SizeInv'
  <2>1. CASE UNCHANGED mgr
    BY <1>1, <2>1, <1>b, <1>c DEF timer_mgr_add_timer
  <2>2. CASE tree' = tree \cup {t} /\ size' = size + 1
    <3>1. Cardinality(tree') = Cardinality(tree) + 1
      BY <1>1, <2>2, FS_AddElement DEF TreeOK, timer_mgr_add_timer, Owned
    <3>2. Calls("clear")' = Calls("clear") /\ size + 1 <= Watermark
      BY <1>1, <1>c DEF timer_mgr_add_timer
    <3> QED BY <2>2, <3>1, <3>2, <1>a DEF SizeInv
  <2> QED BY <1>1, <2>1, <2>2 DEF timer_mgr_add_timer
<1>2. ASSUME NEW t \in Timer, NEW d \in BOOLEAN, timer_mgr_del_timer(t, d)
      PROVE  SizeInv'
  <2>1. Calls("clear")' = Calls("clear")
    BY <1>2, <1>c DEF timer_mgr_del_timer
  <2>2. Cardinality(tree') = Cardinality(tree) - 1 /\ size' = size - 1
    BY <1>2, <1>d DEF timer_mgr_del_timer, Erased
  <2> QED BY <2>1, <2>2, <1>a DEF SizeInv
<1>3. ASSUME NEW op \in {"check", "clear"}, NEW d, Push(op, d), UNCHANGED mgr
      PROVE  SizeInv'
  BY <1>3, <1>a, CallsPush DEF SizeInv, mgr
<1>4. CASE CheckExpire
  <2>1. depth > 0 /\ Top.node \in tree
    BY <1>4, <1>e DEF CheckExpire, In, MoreNodes, FrameOK, IsFirst, Top
  <2>2. Cardinality(tree') = Cardinality(tree) - 1 /\ size' = size - 1
    BY <1>4, <2>1, <1>d DEF CheckExpire, Erased
  <2>3. Calls("clear")' = Calls("clear")
    BY <1>4, <2>1, CallsKept DEF CheckExpire
  <2> QED BY <2>2, <2>3, <1>a DEF SizeInv
<1>5. CASE CheckReturn
  BY <1>5, <1>b, CallsPop DEF CheckReturn, In
<1>6. CASE CallbackReturn \/ CheckDestroyReturn \/ ClearDestroyReturn
  <2>1. depth > 0 /\ Top.node = NULL
    BY <1>6, <1>e
       DEF CallbackReturn, CheckDestroyReturn, ClearDestroyReturn, In,
           IteratorSafe, Top
  <2>2. Calls("clear")' = Calls("clear")
    BY <1>6, <2>1, CallsKept
       DEF CallbackReturn, CheckDestroyReturn, ClearDestroyReturn, CheckResume
  <2> QED
    BY <1>6, <2>2, <1>b
       DEF CallbackReturn, CheckDestroyReturn, ClearDestroyReturn
<1>7. CASE ClearNode
  <2>1. depth > 0 /\ Top.node \in tree /\ Top.op = "clear"
    BY <1>7, <1>e DEF ClearNode, In, MoreNodes, FrameOK, IsFirst, Top
  <2>2. Cardinality(tree') = Cardinality(tree) - 1 /\ size' = size
    BY <1>7, <2>1, <1>d DEF ClearNode, Erased
  <2>3. Calls("clear")' = Calls("clear")
    BY <1>7, <2>1, CallsKept DEF ClearNode
  <2>4. Calls("clear") # {}
    BY <2>1, <1>e DEF Calls, Top
  <2> QED BY <2>2, <2>3, <2>4, <1>a DEF SizeInv
<1>8. CASE ClearReturn
  <2>1. tree = {}
    BY <1>8, <1>e, NullAssumption
       DEF ClearReturn, In, MoreNodes, FrameOK, IsFirst, Top, TypeInv
  <2>2. tree' = tree /\ size' = 0
    BY <1>8 DEF ClearReturn
  <2>3. Cardinality(tree') = 0
    BY <2>1, <2>2, FS_EmptySet
  <2> QED BY <2>2, <2>3, <1>a DEF SizeInv
<1>9. CASE UNCHANGED <<mgr, depth, frame>>
  BY <1>9, <1>b, <1>c
<1> QED
  BY <1>1, <1>2, <1>3, <1>4, <1>5, <1>6, <1>7, <1>8, <1>9
     DEF Step, Client, Manager, Tick, StepBack, vars, callback_timer_init,
         callback_timer_reset, FreeTimer, timer_mgr_check_timer, timer_mgr_clear

(* The counter that the watermark is compared with is right: see SizeInv.  *)
THEOREM SizeCorrect == Spec => []SizeInv
<1>1. Init => SizeInv
  BY FS_EmptySet, ConfigAssumption DEF Init, SizeInv, Calls
<1> QED BY <1>1, SizeStep, Inductive, PTL DEF Spec

(* Type correctness; in particular the counter never wraps below zero.     *)
THEOREM TypeCorrect == Spec => []TypeOK
<1>1. IInv /\ SizeInv => TypeOK
  BY FS_CardinalityType DEF IInv, TypeInv, TreeOK, SizeInv, TypeOK
<1> QED BY <1>1, Inductive, SizeCorrect, PTL

-----------------------------------------------------------------------------
(* The order and the time of the callbacks.                                *)

(* A managed timer has the deadline it was given when it was added.        *)
DeadlineInv == \A t \in tree : expire[t] = begin[t] + elapse[t] * UsPerMs

(* No deadline that was served since the clock went back is still to come, *)
(* and none that is pending is before it.                                  *)
OrderInv ==
  /\ 0 <= lastFired /\ lastFired <= now
  /\ \A t \in tree : lastFired <= expire[t]

(* The times of the timers in the tree change only when one is added.      *)
LEMMA KeysKept ==
  ASSUME IInv, [Step]_vars, ~\E t \in Timer : timer_mgr_add_timer(t)
  PROVE  /\ tree' \subseteq tree
         /\ \A u \in tree' : /\ expire'[u] = expire[u]
                             /\ begin'[u] = begin[u]
                             /\ elapse'[u] = elapse[u]
<1> USE DEF IInv
<1>a. ASSUME NEW t \in Timer, Release(t), tree' \subseteq tree, t \notin tree'
      PROVE  \A u \in tree' : /\ expire'[u] = expire[u]
                              /\ begin'[u] = begin[u]
                              /\ elapse'[u] = elapse[u]
  BY <1>a DEF Release, TypeInv
<1>b. ASSUME depth > 0, Top.phase = "destroy"
      PROVE  Top.timer \in Timer /\ Top.timer \notin tree
  <2>1. depth \in 1..depth /\ FrameOK(depth)
    BY <1>b DEF FramesOK, TypeInv
  <2> QED BY <1>b, <2>1, NullAssumption DEF FrameOK, Top, DestroyedOnce
<1>1. ASSUME NEW t \in Timer, NEW e \in Elapse, callback_timer_init(t, e)
      PROVE  t \notin tree /\ tree' = tree
  BY <1>1 DEF callback_timer_init, mgr, Owned, TreeOK
<1>2. ASSUME NEW t \in Timer, NEW e \in Elapse, callback_timer_init(t, e)
      PROVE  \A u \in tree : /\ expire'[u] = expire[u]
                             /\ begin'[u] = begin[u]
                             /\ elapse'[u] = elapse[u]
  BY <1>1, <1>2 DEF callback_timer_init, TypeInv
<1>3. ASSUME NEW t \in Timer, callback_timer_reset(t)
      PROVE  /\ tree' = tree
             /\ \A u \in tree : /\ expire'[u] = expire[u]
                                /\ begin'[u] = begin[u]
                                /\ elapse'[u] = elapse[u]
  BY <1>3 DEF callback_timer_reset, mgr, Owned, TypeInv
<1>4. ASSUME NEW t \in Timer, FreeTimer(t)
      PROVE  t \notin tree /\ tree' = tree /\ Release(t)
  BY <1>4 DEF FreeTimer, mgr, Owned
<1>5. ASSUME NEW t \in Timer, NEW d \in BOOLEAN, timer_mgr_del_timer(t, d)
      PROVE  /\ t \notin tree' /\ tree' \subseteq tree
             /\ UNCHANGED keys \/ Release(t)
  BY <1>5 DEF timer_mgr_del_timer, Erased
<1>6. CASE CheckDestroyReturn \/ ClearDestroyReturn
  <2>1. Top.timer \in Timer /\ Top.timer \notin tree /\ tree' = tree
    BY <1>6, <1>b DEF CheckDestroyReturn, ClearDestroyReturn, In, mgr
  <2> QED BY <1>6, <2>1, <1>a DEF CheckDestroyReturn, ClearDestroyReturn
<1>7. CASE UNCHANGED keys /\ tree' \subseteq tree
  BY <1>7 DEF keys
<1> QED
  BY <1>a, <1>1, <1>2, <1>3, <1>4, <1>5, <1>6, <1>7
     DEF Step, Client, Manager, Tick, StepBack, vars, mgr,
         timer_mgr_check_timer, timer_mgr_clear, CheckExpire, CheckReturn,
         CallbackReturn, ClearNode, ClearReturn, Erased

(* Adding a timer changes no times but its own, and it was not managed.    *)
LEMMA AddedTimer ==
  ASSUME IInv, NEW t \in Timer, timer_mgr_add_timer(t)
  PROVE  /\ t \notin tree /\ tree' \subseteq tree \cup {t}
         /\ begin'[t] = now /\ expire'[t] = Deadline(t)
         /\ UNCHANGED <<now, elapse, lastFired>>
         /\ \A u \in tree : expire'[u] = expire[u] /\ begin'[u] = begin[u]
BY DEF timer_mgr_add_timer, IInv, TypeInv, Owned, mgr

LEMMA DeadlineStep == IInv /\ DeadlineInv /\ [Step]_vars => DeadlineInv'
<1> SUFFICES ASSUME IInv, DeadlineInv, [Step]_vars PROVE DeadlineInv'
  OBVIOUS
<1>1. ASSUME NEW t \in Timer, timer_mgr_add_timer(t) PROVE DeadlineInv'
  BY <1>1, AddedTimer, PeriodNat DEF DeadlineInv, IInv
<1>2. CASE ~\E t \in Timer : timer_mgr_add_timer(t)
  BY <1>2, KeysKept DEF DeadlineInv
<1> QED BY <1>1, <1>2

(* Where a callback starts: check has found the first timer to be due.     *)
LEMMA ExpiredNode ==
  ASSUME IInv, CheckExpire
  PROVE  /\ depth > 0 /\ Top.node \in tree /\ now >= expire[Top.node]
         /\ \A u \in tree : expire[Top.node] <= expire[u]
<1>1. depth \in 1..depth /\ FrameOK(depth)
  BY DEF CheckExpire, In, IInv, FramesOK, TypeInv
<1>2. Top.node \in tree /\ IsFirst(Top.node)
  BY <1>1 DEF CheckExpire, In, MoreNodes, FrameOK, IsFirst, Top
<1> QED BY <1>2, FirstIsEarliest DEF CheckExpire, In, IInv, TypeInv

LEMMA OrderStep == IInv /\ OrderInv /\ [Step]_vars => OrderInv'
<1> SUFFICES ASSUME IInv, OrderInv, [Step]_vars PROVE OrderInv'
  OBVIOUS
<1>a. /\ now \in Int /\ lastFired \in Int /\ tree \subseteq Timer
      /\ \A t \in tree : expire[t] \in Int
  BY DEF IInv, TypeInv
<1>1. ASSUME NEW t \in Timer, timer_mgr_add_timer(t) PROVE OrderInv'
  <2>1. Deadline(t) >= now /\ Deadline(t) \in Int
    BY <1>a, PeriodNat DEF IInv
  <2> QED BY <1>1, <2>1, <1>a, AddedTimer DEF OrderInv
<1>2. CASE CheckExpire
  <2>1. ~\E t \in Timer : timer_mgr_add_timer(t)
    BY <1>2, ExpiredNode
       DEF CheckExpire, timer_mgr_add_timer, In, InUserCode
  <2>2. tree' \subseteq tree /\ \A u \in tree' : expire'[u] = expire[u]
    BY <2>1, KeysKept
  <2>3. lastFired' = expire[Top.node] /\ now' = now
    BY <1>2 DEF CheckExpire
  <2> QED BY <1>2, <1>a, <2>2, <2>3, ExpiredNode DEF OrderInv
<1>3. CASE /\ ~\E t \in Timer : timer_mgr_add_timer(t)
           /\ lastFired' = lastFired /\ now' \in {now, now + 1}
  BY <1>3, <1>a, KeysKept DEF OrderInv
<1>4. CASE StepBack
  <2>1. tree' = tree /\ expire' = expire
    BY <1>4 DEF StepBack, mgr, keys
  <2> QED BY <1>4, <1>a, <2>1 DEF StepBack, OrderInv
<1> QED
  BY <1>1, <1>2, <1>3, <1>4
     DEF Step, Client, Manager, Tick, StepBack, vars, callback_timer_init,
         callback_timer_reset, FreeTimer, timer_mgr_del_timer,
         timer_mgr_check_timer, timer_mgr_clear, CheckReturn, CallbackReturn,
         CheckDestroyReturn, ClearNode, ClearDestroyReturn, ClearReturn

(* A frame enters a callback by CheckExpire only.                          *)
LEMMA FiringStep ==
  ASSUME IInv, [Step]_vars, NEW i \in Firing
  PROVE  CheckExpire /\ frame'[i].timer = Top.node
<1> USE DEF IInv
<1>1. /\ i \in 1..depth /\ i \in Levels
      /\ frame[i].phase = "loop" /\ frame'[i].phase = "callback"
  BY FrameType DEF Firing
<1>2. i = depth /\ depth > 0 /\ Top.phase = "loop"
  BY <1>1 DEF FramesOK, FrameOK, Top, TypeInv
<1>3. ~InUserCode
  BY <1>2 DEF InUserCode
<1>4. frame' # frame
  BY <1>1
<1>5. ASSUME Pop PROVE frame'[i].phase # "callback"
  BY <1>1, <1>2, <1>5 DEF Pop, NoFrame, TypeInv
<1>6. ASSUME NEW phase, NEW n, NEW t, Continue(phase, n, t)
      PROVE  frame'[i].phase = phase /\ frame'[i].timer = t
  BY <1>1, <1>2, <1>6 DEF Continue, TypeInv
<1>7. ~Client /\ ~Tick /\ ~StepBack /\ ~UNCHANGED vars
  BY <1>3, <1>4
     DEF Client, callback_timer_init, callback_timer_reset, FreeTimer,
         timer_mgr_add_timer, timer_mgr_del_timer, timer_mgr_check_timer,
         timer_mgr_clear, Tick, StepBack, vars
<1>8. ~CheckReturn /\ ~ClearReturn
  BY <1>1, <1>5 DEF CheckReturn, ClearReturn
<1>9. ~CallbackReturn /\ ~CheckDestroyReturn /\ ~ClearDestroyReturn
  BY <1>2 DEF CallbackReturn, CheckDestroyReturn, ClearDestroyReturn, In
<1>10. ~ClearNode
  BY <1>1, <1>6 DEF ClearNode
<1>11. CheckExpire
  BY <1>7, <1>8, <1>9, <1>10 DEF Step, Manager
<1>12. frame'[i].timer = Top.node
  BY <1>6, <1>11 DEF CheckExpire
<1> QED BY <1>11, <1>12

LEMMA OrderAlways == Spec => []OrderInv
<1>1. Init => OrderInv
  BY DEF Init, OrderInv
<1> QED BY <1>1, OrderStep, Inductive, PTL DEF Spec

(* Until the clock goes back, callbacks run in the order of deadlines.     *)
THEOREM CallbacksInOrder == Spec => FiringOrder
<1>1. IInv /\ OrderInv /\ [Step]_vars =>
        [\A i \in Firing : expire[frame'[i].timer] >= lastFired]_vars
  <2> SUFFICES ASSUME IInv, OrderInv, [Step]_vars, NEW i \in Firing
               PROVE  expire[frame'[i].timer] >= lastFired
    OBVIOUS
  <2>1. frame'[i].timer = Top.node /\ Top.node \in tree
    BY FiringStep, ExpiredNode
  <2>2. lastFired <= expire[Top.node]
    BY <2>1 DEF OrderInv
  <2>3. lastFired \in Int /\ expire[Top.node] \in Int
    BY <2>1 DEF IInv, TypeInv
  <2> QED BY <2>1, <2>2, <2>3
<1> QED BY <1>1, Inductive, OrderAlways, PTL DEF Spec, FiringOrder

(* No callback runs before the period of its timer has elapsed.            *)
THEOREM CallbacksNotEarly == Spec => NotEarly
<1>1. Init => DeadlineInv
  BY DEF Init, DeadlineInv
<1>2. IInv /\ DeadlineInv /\ [Step]_vars =>
        [\A i \in Firing :
           LET t == frame'[i].timer IN now - begin[t] >= elapse[t] * UsPerMs]_vars
  <2> SUFFICES ASSUME IInv, DeadlineInv, [Step]_vars, NEW i \in Firing
               PROVE  LET t == frame'[i].timer IN
                        now - begin[t] >= elapse[t] * UsPerMs
    OBVIOUS
  <2> DEFINE t == frame'[i].timer
  <2>1. t \in tree /\ now >= expire[t]
    BY FiringStep, ExpiredNode
  <2> HIDE DEF t
  <2>2. expire[t] = begin[t] + elapse[t] * UsPerMs /\ elapse[t] * UsPerMs \in Nat
    BY <2>1, PeriodNat DEF DeadlineInv, IInv, TypeInv
  <2>3. now - begin[t] >= elapse[t] * UsPerMs
    <3> DEFINE p == elapse[t] * UsPerMs
    <3>1. expire[t] = begin[t] + p /\ p \in Nat
      BY <2>2
    <3>2. now \in Int /\ begin[t] \in Int
      BY <2>1 DEF IInv, TypeInv
    <3> HIDE DEF p
    <3>3. now - begin[t] >= p
      BY <2>1, <3>1, <3>2
    <3> QED BY <3>3 DEF p
  <2> QED BY <2>3 DEF t
<1> QED BY <1>1, <1>2, DeadlineStep, Inductive, PTL DEF Spec, NotEarly

(* When check returns, no managed timer is due.                            *)
THEOREM CheckLeavesNoneDue == Spec => NoneDueOnReturn
<1>1. IInv /\ [Step]_vars =>
        [\A i \in Calls("check") : (depth' < i) => \A t \in tree : now < expire[t]]_vars
  <2> SUFFICES ASSUME IInv, [Step]_vars, NEW i \in Calls("check"), depth' < i,
                      NEW t \in tree
               PROVE  now < expire[t]
    OBVIOUS
  <2>1. depth \in 1..depth /\ FrameOK(depth) /\ i \in 1..depth
    BY DEF IInv, TypeInv, FramesOK, Calls
  <2>2. depth' # depth /\ depth' # depth + 1
    BY <2>1
  <2>3. ~Push("clear", TRUE) /\ ~Push("check", TRUE) /\ ~Push("check", FALSE)
    BY <2>2 DEF Push
  <2>4. CheckReturn \/ ClearReturn \/
        ((CallbackReturn \/ CheckDestroyReturn) /\ Top.node # NULL)
    BY <2>2, <2>3
       DEF Step, Client, Manager, Tick, StepBack, vars, callback_timer_init,
           callback_timer_reset, FreeTimer, timer_mgr_add_timer,
           timer_mgr_del_timer, timer_mgr_check_timer, timer_mgr_clear,
           CheckExpire, CallbackReturn, CheckDestroyReturn, CheckResume,
           ClearNode, ClearDestroyReturn, Continue
  <2>5. CASE CheckReturn
    <3>1. Top.node \in tree /\ IsFirst(Top.node) /\ now < expire[Top.node]
      BY <2>1, <2>5, NullAssumption
         DEF CheckReturn, In, MoreNodes, FrameOK, IsFirst, Top, IInv, TypeInv
    <3>2. expire[Top.node] <= expire[t]
      BY <3>1, FirstIsEarliest DEF IInv, TypeInv
    <3> QED BY <3>1, <3>2 DEF IInv, TypeInv
  <2>6. CASE ClearReturn
    BY <2>1, <2>6, NullAssumption
       DEF ClearReturn, In, MoreNodes, FrameOK, IsFirst, Top, IInv, TypeInv
  <2>7. CASE (CallbackReturn \/ CheckDestroyReturn) /\ Top.node # NULL
    BY <2>1, <2>7
       DEF CallbackReturn, CheckDestroyReturn, In, IInv, IteratorSafe, Top
  <2> QED BY <2>4, <2>5, <2>6, <2>7
<1> QED BY <1>1, Inductive, PTL DEF Spec, NoneDueOnReturn

(* Two managed timers never have the same key, as the search tree needs.   *)
THEOREM KeysAreDistinct == Spec => []KeysDistinct
<1>1. Init => KeysDistinct
  BY DEF Init, KeysDistinct
<1>2. IInv /\ KeysDistinct /\ [Step]_vars => KeysDistinct'
  <2> SUFFICES ASSUME IInv, KeysDistinct, [Step]_vars PROVE KeysDistinct'
    OBVIOUS
  <2>1. ASSUME NEW t \in Timer, timer_mgr_add_timer(t) PROVE KeysDistinct'
    <3>1. \A u \in tree : expire'[u] = expire[u] /\ begin'[u] = begin[u]
      BY <2>1, AddedTimer
    <3>2. tree' = tree \/ ~\E u \in tree : SameKey(t, u)'
      BY <2>1 DEF timer_mgr_add_timer, mgr
    <3>3. tree' \subseteq tree \cup {t}
      BY <2>1, AddedTimer
    <3> QED BY <3>1, <3>2, <3>3 DEF KeysDistinct, SameKey
  <2>2. CASE ~\E t \in Timer : timer_mgr_add_timer(t)
    BY <2>2, KeysKept DEF KeysDistinct, SameKey
  <2> QED BY <2>1, <2>2
<1> QED BY <1>1, <1>2, Inductive, PTL DEF Spec

-----------------------------------------------------------------------------
(* The manager implements the service.                                     *)

LEMMA ServiceCardinality == \A S : Service!Cardinality(S) = Cardinality(S)
BY DEF Cardinality, Service!Cardinality

LEMMA RunningType == TypeInv => Running \in [Levels -> Timer \cup {NULL}]
BY DEF TypeInv, Running, Frame

LEMMA RunningPush ==
  ASSUME TypeInv, NEW op, NEW d, Push(op, d)
  PROVE  Running' = Running
<1>1. depth + 1 \in Levels /\ depth' = depth + 1 /\ depth \in Nat
  BY ConfigAssumption DEF TypeInv, Levels, Push
<1>2. frame'[depth + 1].phase = "loop"
  BY <1>1 DEF Push, TypeInv
<1>3. \A i \in Levels : i # depth + 1 => frame'[i] = frame[i]
  BY <1>1 DEF Push, TypeInv
<1>4. \A i \in Levels : i <= depth' <=> i <= depth \/ i = depth + 1
  BY <1>1 DEF Levels
<1>5. \A i \in Levels : i <= depth => i # depth + 1
  BY <1>1 DEF Levels
<1> QED BY <1>2, <1>3, <1>4, <1>5 DEF Running

LEMMA RunningPop ==
  ASSUME TypeInv, depth > 0, Pop
  PROVE  Running' = [Running EXCEPT ![depth] = NULL]
<1>1. depth \in Levels /\ depth' = depth - 1 /\ depth \in Nat
  BY ConfigAssumption DEF TypeInv, Levels, Pop
<1>2. \A i \in Levels : i # depth => frame'[i] = frame[i]
  BY <1>1 DEF Pop, TypeInv
<1>3. \A i \in Levels : i <= depth' <=> i <= depth /\ i # depth
  BY <1>1 DEF Levels
<1> QED BY <1>1, <1>2, <1>3 DEF Running

LEMMA RunningContinue ==
  ASSUME TypeInv, depth > 0, NEW phase, NEW n, NEW t, Continue(phase, n, t)
  PROVE  Running' = [Running EXCEPT ![depth] =
                       IF phase = "callback" THEN t ELSE NULL]
<1>1. depth \in Levels /\ depth' = depth /\ depth \in Nat
  BY ConfigAssumption DEF TypeInv, Levels, Continue
<1>2. frame'[depth].phase = phase /\ frame'[depth].timer = t
  BY <1>1 DEF Continue, TypeInv
<1>3. \A i \in Levels : i # depth => frame'[i] = frame[i]
  BY <1>1 DEF Continue, TypeInv
<1>4. depth <= depth
  BY <1>1
<1> DEFINE r == IF phase = "callback" THEN t ELSE NULL
           R == [Running EXCEPT ![depth] = r]
<1>5. \A i \in Levels : Running'[i] = R[i]
  BY <1>1, <1>2, <1>3, <1>4 DEF Running
<1>6. Running' = [i \in Levels |-> Running'[i]] /\ R = [i \in Levels |-> R[i]]
  BY DEF Running
<1> QED BY <1>5, <1>6

(* At most one timer leaves the tree in a step that adds none.             *)
LEMMA DeadlinesRemove ==
  ASSUME IInv, [Step]_vars, ~\E t \in Timer : timer_mgr_add_timer(t),
         NEW t \in tree, tree' = tree \ {t}
  PROVE  Deadlines' = Service!Without(t)
BY KeysKept DEF Deadlines, Service!Without, Service!Pending

LEMMA DeadlinesSame ==
  ASSUME IInv, [Step]_vars, ~\E t \in Timer : timer_mgr_add_timer(t),
         tree' = tree
  PROVE  Deadlines' = Deadlines
BY KeysKept DEF Deadlines

(* Every step of the manager is a step of the service, or none.            *)
LEMMA ServiceStep ==
  IInv /\ SizeInv /\ [Step]_vars => [Service!Next]_(Service!vars)
<1> SUFFICES ASSUME IInv, SizeInv, [Step]_vars
             PROVE  Service!Next \/ UNCHANGED Service!vars
  OBVIOUS
<1> USE DEF IInv
<1>a. ASSUME ~\E t \in Timer : timer_mgr_add_timer(t), tree' = tree,
             now' = now, Running' = Running
      PROVE  UNCHANGED Service!vars
  BY <1>a, DeadlinesSame DEF Service!vars
<1>b. ASSUME UNCHANGED <<depth, frame>> PROVE Running' = Running
  BY <1>b DEF Running
<1>c. ASSUME ~\E t \in Timer : timer_mgr_add_timer(t), tree' = tree,
             now' = now, NEW i \in Levels,
             Running' = [Running EXCEPT ![i] = NULL]
      PROVE  Service!Next \/ UNCHANGED Service!vars
  <2>1. CASE Running[i] = NULL
    <3>1. Running' = Running
      BY <1>c, <2>1, RunningType
    <3> QED BY <3>1, <1>a, <1>c
  <2>2. CASE Running[i] # NULL
    <3>1. Deadlines' = Deadlines
      BY <1>c, DeadlinesSame
    <3>2. Service!Return(i)
      BY <1>c, <2>2, <3>1 DEF Service!Return
    <3> QED BY <3>2 DEF Service!Next
  <2> QED BY <2>1, <2>2
<1>1. ASSUME NEW t \in Timer, timer_mgr_add_timer(t)
      PROVE  Service!Next \/ UNCHANGED Service!vars
  <2>1. Running' = Running /\ now' = now
    BY <1>1, <1>b DEF timer_mgr_add_timer
  <2>2. CASE tree' = tree
    <3>1. Deadlines' = Deadlines
      BY <1>1, <2>2, AddedTimer DEF Deadlines
    <3> QED BY <2>1, <3>1 DEF Service!vars
  <2>3. CASE tree' = tree \cup {t}
    <3>1. t \notin tree /\ elapse[t] \in Elapse \cup {0}
      BY <1>1, AddedTimer DEF TypeInv
    <3>2. Cardinality(tree) < Watermark
      <4>1. size + 1 <= Watermark /\ size >= Cardinality(tree)
        BY <1>1, FS_CardinalityType DEF timer_mgr_add_timer, SizeInv, TreeOK
      <4> QED
        BY <4>1, FS_CardinalityType, ConfigAssumption DEF TreeOK, TypeInv
    <3>3. Deadlines' = [u \in tree \cup {t} |->
                          IF u = t THEN now + elapse[t] * UsPerMs
                                   ELSE Deadlines[u]]
      BY <1>1, <2>3, <3>1, AddedTimer DEF Deadlines, Deadline
    <3>4. DOMAIN Deadlines = tree
      BY DEF Deadlines
    <3>5. Service!Arm(t, elapse[t])
      BY <2>1, <3>1, <3>2, <3>3, <3>4, ServiceCardinality
         DEF Service!Arm, Service!Pending
    <3> QED BY <3>1, <3>5 DEF Service!Next
  <2> QED BY <1>1, <2>2, <2>3 DEF timer_mgr_add_timer, mgr
<1>2. ASSUME ~\E u \in Timer : timer_mgr_add_timer(u),
             NEW t \in tree, tree' = tree \ {t}, now' = now, Running' = Running
      PROVE  Service!Next
  <2>1. Deadlines' = Service!Without(t) /\ t \in Timer /\ t \in DOMAIN Deadlines
    BY <1>2, DeadlinesRemove DEF Deadlines, TypeInv
  <2>2. Service!Cancel(t)
    BY <1>2, <2>1 DEF Service!Cancel, Service!Pending
  <2> QED BY <2>1, <2>2 DEF Service!Next
<1>3. CASE CheckExpire
  <2> DEFINE t == Top.node
  <2>1. /\ depth \in Levels /\ t \in tree /\ t \in Timer
        /\ now >= expire[t] /\ \A u \in tree : expire[t] <= expire[u]
    BY <1>3, ExpiredNode, ConfigAssumption DEF TypeInv, Levels
  <2>2. ~\E u \in Timer : timer_mgr_add_timer(u)
    BY <1>3 DEF CheckExpire, timer_mgr_add_timer, In, InUserCode
  <2>3. tree' = tree \ {t} /\ now' = now
    BY <1>3 DEF CheckExpire, Erased
  <2>4. Deadlines' = Service!Without(t)
    BY <2>1, <2>2, <2>3, DeadlinesRemove
  <2>5. Running' = [Running EXCEPT ![depth] = t]
    BY <1>3, <2>1, ExpiredNode, RunningContinue DEF CheckExpire
  <2>6. Running[depth] = NULL
    BY <1>3, <2>1 DEF Running, CheckExpire, In, Top
  <2>7. DOMAIN Deadlines = tree /\ \A u \in tree : Deadlines[u] = expire[u]
    BY DEF Deadlines
  <2>8. Service!Fire(t, depth)
    <3> HIDE DEF t
    <3> QED
      BY <2>1, <2>3, <2>4, <2>5, <2>6, <2>7 DEF Service!Fire, Service!Pending
  <2> QED BY <2>1, <2>8 DEF Service!Next
<1>4. ASSUME ~\E t \in Timer : timer_mgr_add_timer(t), ~CheckExpire, Step
      PROVE  Service!Next \/ UNCHANGED Service!vars
  <2>a. depth > 0 => depth \in Levels /\ depth \in 1..depth /\ FrameOK(depth)
    BY ConfigAssumption DEF TypeInv, Levels, FramesOK
  <2>1. CASE \/ \E t \in Timer, e \in Elapse : callback_timer_init(t, e)
             \/ \E t \in Timer : callback_timer_reset(t) \/ FreeTimer(t)
    BY <1>4, <2>1, <1>a, <1>b
       DEF callback_timer_init, callback_timer_reset, FreeTimer, mgr
  <2>2. ASSUME NEW t \in Timer, NEW d \in BOOLEAN, timer_mgr_del_timer(t, d)
        PROVE  Service!Next
    BY <1>4, <2>2, <1>2, <1>b DEF timer_mgr_del_timer, Erased
  <2>3. CASE (\E d \in BOOLEAN : timer_mgr_check_timer(d)) \/ timer_mgr_clear
    BY <1>4, <2>3, <1>a, RunningPush
       DEF timer_mgr_check_timer, timer_mgr_clear, mgr
  <2>4. CASE CheckReturn \/ ClearReturn
    BY <1>4, <2>4, <2>a, <1>c, RunningPop DEF CheckReturn, ClearReturn, In, mgr
  <2>5. CASE CallbackReturn \/ CheckDestroyReturn \/ ClearDestroyReturn
    <3>1. depth > 0 /\ Top.node = NULL /\ tree' = tree /\ now' = now
      BY <2>5, <2>a
         DEF CallbackReturn, CheckDestroyReturn, ClearDestroyReturn, In,
             IteratorSafe, Top, mgr
    <3>2. Running' = [Running EXCEPT ![depth] = NULL]
      BY <2>5, <3>1, RunningContinue
         DEF CallbackReturn, CheckDestroyReturn, ClearDestroyReturn, CheckResume
    <3> QED BY <1>4, <3>1, <3>2, <2>a, <1>c
  <2>6. CASE ClearNode
    <3>1. depth > 0 /\ Top.node \in tree
      BY <2>6, <2>a DEF ClearNode, In, MoreNodes, FrameOK, IsFirst, Top
    <3>2. Running' = [Running EXCEPT ![depth] = NULL]
      BY <2>6, <3>1, RunningContinue DEF ClearNode
    <3>3. Running[depth] = NULL
      BY <2>6, <3>1, <2>a DEF Running, ClearNode, In, Top
    <3>4. Running' = Running
      BY <3>1, <3>2, <3>3, <2>a, RunningType
    <3> QED BY <1>4, <2>6, <3>1, <3>4, <1>2 DEF ClearNode, Erased
  <2>7. CASE Tick \/ StepBack
    <3>1. now' \in Int /\ Running' = Running /\ tree' = tree
      BY <2>7, <1>b DEF Tick, StepBack, mgr, TypeInv
    <3>2. Service!Clock
      BY <1>4, <3>1, DeadlinesSame DEF Service!Clock
    <3> QED BY <3>2 DEF Service!Next
  <2> QED
    BY <1>4, <2>1, <2>2, <2>3, <2>4, <2>5, <2>6, <2>7 DEF Step, Client, Manager
<1>5. CASE UNCHANGED vars
  BY <1>5, <1>b DEF vars, mgr, keys, Deadlines, Service!vars
<1> QED BY <1>1, <1>3, <1>4, <1>5

(* The manager implements the service that its client relies on.           *)
THEOREM ManagerImplementsService == Spec => ServiceSpec
<1>1. Init => Service!Init
  <2> SUFFICES ASSUME Init PROVE Service!Init
    OBVIOUS
  <2>1. Deadlines = [t \in {} |-> 0]
    BY DEF Init, Deadlines
  <2>2. Running = [i \in Levels |-> NULL]
    BY DEF Init, Running, Levels
  <2> QED BY <2>1, <2>2 DEF Init, Service!Init
<1> QED BY <1>1, ServiceStep, Inductive, SizeCorrect, PTL
        DEF Spec, ServiceSpec, Service!Spec

-----------------------------------------------------------------------------
(* The loop.                                                               *)

(* The wait is at least the slack shorter than the time from the reading   *)
(* of the clock to the deadline of t, and fits in a word.                  *)
WaitFits(t) ==
  /\ wait * UsPerMs + Slack * UsPerMs <= expire[t] - read
  /\ 0 <= wait * UsPerMs /\ wait * UsPerMs < Word32

(* Outside a call of check the loop is in no frame; and inside it is in    *)
(* the one frame of that call, which returns only in LoopWait.             *)
LoopInv ==
  /\ IInv
  /\ pc \in {"setup", "test", "wait", "sleep"} => depth = 0
  /\ pc = "check" => depth = 1
  /\ wait \in Int /\ read \in Int
  /\ pc = "wait" => \A t \in tree : WaitFits(t)
  /\ NeverOversleep

(* The loop makes the steps of the manager or leaves it alone.             *)
LEMMA LoopStep == [LoopNext]_loopVars => [Step]_vars
<1> SUFFICES ASSUME [LoopNext]_loopVars PROVE [Step]_vars
  OBVIOUS
<1>1. CASE ClientStep
  BY <1>1 DEF ClientStep, Step, Client
<1>2. CASE StartLoop \/ LoopSleep \/ WakeUp \/ UNCHANGED loopVars
  BY <1>2 DEF StartLoop, LoopSleep, WakeUp, loopVars
<1>3. CASE LoopTest
  BY <1>3 DEF LoopTest, Step, Client
<1>4. CASE CheckStep \/ LoopWait \/ LoopDestroy \/ TickStep
  BY <1>4 DEF CheckStep, LoopWait, LoopDestroy, TickStep, Step, Client, Manager
<1> QED BY <1>1, <1>2, <1>3, <1>4 DEF LoopNext

(* Neither truncation to a word nor division rounds up.                    *)
LEMMA RoundsDown ==
  ASSUME NEW d \in Nat, NEW w \in Nat \ {0}, NEW u \in Nat \ {0}, NEW s \in Nat,
         NEW q, q = (d % w) \div u - s
  PROVE  q \in Int /\ q * u + s * u <= d /\ q * u < w
<1> DEFINE r == d % w
           p == r \div u
<1>1. r \in Nat /\ r <= d /\ r < w
  OBVIOUS
<1>2. q = p - s
  OBVIOUS
<1> HIDE DEF r
<1>3. p \in Nat /\ p * u <= r
  BY <1>1
<1> HIDE DEF p
<1>4. q * u = p * u - s * u /\ s * u \in Nat /\ p * u \in Nat
  BY <1>2, <1>3
<1>5. q \in Int /\ q * u \in Int
  BY <1>2, <1>3
<1> DEFINE a == p * u
           b == s * u
           c == q * u
<1>6. c = a - b /\ a \in Nat /\ b \in Nat /\ a <= r
  BY <1>3, <1>4
<1>7. c + b <= d /\ c < w
  <2> HIDE DEF a, b, c
  <2> QED BY <1>1, <1>6
<1> QED BY <1>5, <1>7

(* Check returned with its node the first of the tree and not yet due, so  *)
(* the time it returned is not more than the time left to any deadline.    *)
LEMMA WaitIsShort ==
  ASSUME LoopInv, LoopWait
  PROVE  /\ TimeWait \in Int
         /\ pc' = "wait" => \A t \in tree : WaitFits(t)'
<1>1. CheckResult \in Int
  <2>1. CASE MoreNodes
    <3>1. FrameOK(depth) /\ In("check", "loop")
      BY DEF LoopInv, LoopWait, CheckReturn, In, IInv, FramesOK, TypeInv
    <3>2. Top.node \in tree
      BY <2>1, <3>1 DEF FrameOK, In, Top, IsFirst, MoreNodes
    <3>3. expire[Top.node] \in Int /\ now \in Int
      BY <3>2 DEF LoopInv, IInv, TypeInv
    <3> QED BY <2>1, <3>3, ConfigAssumption DEF CheckResult
  <2> QED BY <2>1 DEF CheckResult
<1>2. TimeWait \in Int
  BY <1>1, ConfigAssumption, SlackAssumption DEF TimeWait
<1>3. ASSUME pc' = "wait", NEW t \in tree PROVE WaitFits(t)'
  <2>1. depth \in 1..depth /\ FrameOK(depth) /\ In("check", "loop")
    BY DEF LoopInv, LoopWait, CheckReturn, In, IInv, FramesOK, TypeInv
  <2>2. IsFirst(Top.node) /\ tree # {}
    BY <1>3, <2>1 DEF FrameOK, In, Top
  <2> DEFINE n == Top.node
  <2>3. n \in tree /\ n # NULL
    BY <2>2, NullAssumption DEF IsFirst, LoopInv, IInv, TypeInv
  <2>4. MoreNodes /\ now < expire[n]
    BY <2>3 DEF MoreNodes, LoopWait, CheckReturn
  <2>5. expire[n] <= expire[t] /\ expire[n] \in Int /\ expire[t] \in Int /\ now \in Int
    BY <1>3, <2>2, <2>3, FirstIsEarliest DEF LoopInv, IInv, TypeInv
  <2>6. CheckResult = (expire[n] - now) % Word32
    BY <2>4 DEF CheckResult
  <2>7. wait' = TimeWait /\ read' = now /\ expire' = expire /\ TimeWait > 0
    BY <1>3 DEF LoopWait, CheckReturn, keys
  <2> DEFINE d == expire[n] - now
  <2>8. d \in Nat
    BY <2>4, <2>5
  <2>9. TimeWait = (d % Word32) \div UsPerMs - Slack
    BY <2>6 DEF TimeWait
  <2> HIDE DEF d
  <2>10. TimeWait * UsPerMs + Slack * UsPerMs <= d /\ TimeWait * UsPerMs < Word32
    BY <2>8, <2>9, RoundsDown, ConfigAssumption, SlackAssumption
  <2>11. /\ TimeWait * UsPerMs \in Int /\ Slack * UsPerMs \in Int
         /\ 0 <= TimeWait * UsPerMs
    BY <1>2, <2>7, ConfigAssumption, SlackAssumption
  <2> DEFINE a == TimeWait * UsPerMs
             b == Slack * UsPerMs
  <2>12. a + b <= expire[t] - now
    <3>1. a \in Int /\ b \in Int /\ a + b <= d
      BY <2>10, <2>11
    <3>2. d <= expire[t] - now
      BY <2>5 DEF d
    <3> HIDE DEF a, b, n
    <3> QED BY <2>5, <2>8, <3>1, <3>2
  <2> HIDE DEF n
  <2> QED BY <2>7, <2>10, <2>11, <2>12 DEF WaitFits
<1> QED BY <1>2, <1>3

(* From there the sleep is as long as the wait, and begins when it begins. *)
LEMMA SleepIsShort ==
  ASSUME LoopInv, LoopSleep
  PROVE  NeverOversleep'
<1> SUFFICES ASSUME NEW t \in tree
             PROVE  wake' - expire[t] <= (start' - read) - Slack * UsPerMs
  BY DEF NeverOversleep, LoopSleep, vars, mgr, keys
<1>1. /\ wake' = now + ((wait * UsPerMs) % Word32) /\ start' = now /\ WaitFits(t)
      /\ wait \in Int /\ read \in Int /\ now \in Int /\ expire[t] \in Int
  BY DEF LoopSleep, LoopInv, IInv, TypeInv
<1> DEFINE a == wait * UsPerMs
           b == Slack * UsPerMs
           e == expire[t]
<1>2. a \in Int /\ b \in Int /\ Word32 \in Nat \ {0}
  BY <1>1, ConfigAssumption, SlackAssumption
<1>3. a + b <= e - read /\ 0 <= a /\ a < Word32 /\ wake' = now + (a % Word32)
  BY <1>1 DEF WaitFits
<1>4. e \in Int
  BY <1>1
<1> HIDE DEF a, b, e
<1>5. a % Word32 = a
  BY <1>2, <1>3
<1>6. wake' - e <= (now - read) - b
  BY <1>1, <1>2, <1>3, <1>4, <1>5
<1> QED BY <1>1, <1>6 DEF b, e

LEMMA LoopInvStep == LoopInv /\ [LoopNext]_loopVars => LoopInv'
<1> SUFFICES ASSUME LoopInv, [LoopNext]_loopVars PROVE LoopInv'
  OBVIOUS
<1>a. IInv'
  BY LoopStep, IInvStep DEF LoopInv
<1>b. depth \in Nat /\ 1..depth = {i \in Nat : 1 <= i /\ i <= depth}
  BY ConfigAssumption DEF LoopInv, IInv, TypeInv
<1>1. CASE ClientStep
  <2>1. /\ pc \notin {"wait", "sleep"} /\ depth' = depth
        /\ pc' = pc /\ UNCHANGED sleeping
    BY <1>1 DEF ClientStep, LoopInv, In, callback_timer_init,
                timer_mgr_add_timer, timer_mgr_del_timer, FreeTimer
  <2> QED BY <2>1, <1>a DEF LoopInv, NeverOversleep, sleeping
<1>2. CASE StartLoop \/ TickStep \/ UNCHANGED loopVars
  <2>1. UNCHANGED <<depth, tree, expire, sleeping>>
    BY <1>2 DEF StartLoop, TickStep, Tick, loopVars, vars, mgr, keys
  <2>2. \/ pc = "setup" /\ pc' = "test"
        \/ UNCHANGED pc
    BY <1>2 DEF StartLoop, TickStep, loopVars
  <2> QED BY <2>1, <2>2, <1>a DEF LoopInv, NeverOversleep, WaitFits, sleeping
<1>3. CASE LoopTest
  <2>1. /\ UNCHANGED sleeping
        /\ \/ pc' = "destroy"
           \/ pc' = "check" /\ depth' = depth + 1
    BY <1>3 DEF LoopTest, timer_mgr_check_timer, Push
  <2> QED BY <2>1, <1>3, <1>a DEF LoopInv, NeverOversleep, LoopTest, sleeping
<1>4. CASE CheckStep
  <2>1. pc = "check" /\ pc' = "check" /\ UNCHANGED sleeping
    BY <1>4 DEF CheckStep
  <2>2. CASE CheckExpire
    BY <2>1, <2>2, <1>a DEF CheckExpire, Continue, LoopInv, NeverOversleep, sleeping
  <2>3. CASE CallbackReturn
    <3>1. Top.node = NULL
      BY <2>3, <1>b DEF CallbackReturn, In, LoopInv, IInv, IteratorSafe, Top
    <3>2. depth' = depth
      BY <2>3, <3>1 DEF CallbackReturn, CheckResume, Continue
    <3> QED BY <2>1, <3>2, <1>a DEF LoopInv, NeverOversleep, sleeping
  <2> QED BY <1>4, <2>2, <2>3 DEF CheckStep
<1>5. CASE LoopWait
  <2>1. depth' = 0 /\ pc' \in {"wait", "test"} /\ tree' = tree
    BY <1>5, <1>b DEF LoopWait, CheckReturn, Pop, LoopInv, mgr
  <2>2. wait' = TimeWait /\ read' = now /\ now \in Int
    BY <1>5 DEF LoopWait, LoopInv, IInv, TypeInv
  <2> QED BY <1>5, <2>1, <2>2, <1>a, WaitIsShort DEF LoopInv, NeverOversleep
<1>6. CASE LoopSleep
  <2>1. pc = "wait" /\ pc' = "sleep" /\ UNCHANGED <<depth, wait, read>>
    BY <1>6 DEF LoopSleep, vars
  <2> QED BY <1>6, <2>1, <1>a, SleepIsShort DEF LoopInv
<1>7. CASE WakeUp
  BY <1>7, <1>a DEF WakeUp, vars, LoopInv, NeverOversleep, sleeping
<1>8. CASE LoopDestroy
  <2>1. pc' \in {"destroy", "done"} /\ UNCHANGED sleeping
    BY <1>8 DEF LoopDestroy
  <2> QED BY <2>1, <1>a DEF LoopInv, NeverOversleep, sleeping
<1> QED BY <1>1, <1>2, <1>3, <1>4, <1>5, <1>6, <1>7, <1>8 DEF LoopNext

(* The loop of test_main.c:74-82 asks for a sleep that ends after no       *)
(* deadline by more than the thread was kept beyond the slack: neither the *)
(* truncation of the time left (uti_timer.c:329) nor the unsigned          *)
(* arithmetic on it makes it longer, whatever timers the callbacks add and *)
(* delete.                                                                 *)
THEOREM LoopNeverOversleeps == LoopSpec => []NeverOversleep
<1>1. LoopInit => LoopInv
  BY TypeInit DEF LoopInit, Init, LoopInv, NeverOversleep
<1>2. LoopInv => NeverOversleep
  BY DEF LoopInv
<1> QED BY <1>1, <1>2, LoopInvStep, PTL DEF LoopSpec

=============================================================================
