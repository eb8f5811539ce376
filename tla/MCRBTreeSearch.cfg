\* Five different keys, of three expiry times.
SPECIFICATION Spec
CONSTANTS
  Node = {1, 2, 3, 4, 5, 6}
  NULL = NULL
  Key <- MCKey
  Expire <- MCExpire
INVARIANTS SearchFindsFirst
