\* One timer that is due two clock units after it is armed.
SPECIFICATION Spec
CONSTANTS
  Timer = {t1}
  NULL = NULL
  Elapse = {1}
  UsPerMs = 2
  Word32 = 4
  Watermark = 1
  Horizon = 2
  MaxDepth = 1
  StepsBack = FALSE
INVARIANTS ElapseInMicroseconds
