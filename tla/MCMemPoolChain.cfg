\* Every request is large, so the blocks hold list nodes: up to 26 nodes, of
\* which only five are searched for a vacant one, in a chain of nine blocks.
SPECIFICATION Spec
CONSTANTS
  Chunk = {c1, c2, c3}
  File = {}
  NULL = NULL
  Size = 8
  Alignment = 2
  PoolHeader = 4
  DataHeader = 2
  LargeNode = 2
  CleanupNode = 2
  PageMax = 4
  SizeMod = 32
  Request = {9}
  DataSize = {}
  MaxBlocks = 9
SYMMETRY Symmetry
INVARIANTS SearchBounded
