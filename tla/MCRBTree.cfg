\* Ten different keys, the fewest with which the repairs of an insertion and of
\* an erasure both climb two levels.
SPECIFICATION Spec
CONSTANTS
  Node = {1, 2, 3, 4, 5, 6, 7, 8, 9, 10, 11}
  NULL = NULL
  Key <- MCKey
  Expire <- MCExpire
INVARIANTS TypeOK SearchTree RedBlack NoNullDeref TraversalCorrect
PROPERTIES SetSpec ClimbsOrEnds
