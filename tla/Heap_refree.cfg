SPECIFICATION Spec
CONSTANTS
  HeapStart = 1024
  PageSize = 96
  MaxPages = 2
  Sizes = {16, 40}
  DoubleFree = TRUE
INVARIANT Linked
INVARIANT Tiled
INVARIANT Coalesced
