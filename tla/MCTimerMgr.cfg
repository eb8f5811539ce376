\* Two levels of nesting, and the clock may go back at any time.
SPECIFICATION Spec
CONSTANTS
  Timer = {t1, t2, t3}
  NULL = NULL
  Elapse = {0, 1, 3}
  UsPerMs = 2
  Word32 = 4
  Watermark = 2
  Horizon = 2
  MaxDepth = 2
  StepsBack = TRUE
SYMMETRY Symmetry
INVARIANTS TypeOK SizeInv IteratorSafe DestroyedOnce KeysDistinct
PROPERTIES FiringOrder NotEarly NoneDueOnReturn ServiceSpec
