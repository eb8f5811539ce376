\* Two blocks, of which a node or two requests take the room; 5 is large.
SPECIFICATION Spec
CONSTANTS
  Chunk = {c1, c2}
  File = {f1}
  NULL = NULL
  Size = 8
  Alignment = 2
  PoolHeader = 4
  DataHeader = 2
  LargeNode = 2
  CleanupNode = 2
  PageMax = 4
  SizeMod = 32
  Request = {1, 4, 5}
  DataSize = {0, 1, 5}
  MaxBlocks = 2
SYMMETRY Symmetry
INVARIANTS TypeOK Disjoint ChunksOwned WalksLiveMemory FilesClosedOnce
