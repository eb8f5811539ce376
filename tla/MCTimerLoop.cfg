\* Two timers; the periods 3 and 4 last 6 and 8 clock units, and 8 does not
\* fit in a word.  CHECK_DEADLOCK: the loop ends and the clock stops at Horizon.
SPECIFICATION LoopSpec
CONSTANTS
  Timer = {t1, t2}
  NULL = NULL
  Elapse = {0, 3, 4}
  UsPerMs = 2
  Word32 = 7
  Watermark = 2
  Horizon = 9
  MaxDepth = 1
  StepsBack = FALSE
  Slack = 1
INVARIANTS NeverOversleep
PROPERTIES EventuallyFired
CHECK_DEADLOCK FALSE
