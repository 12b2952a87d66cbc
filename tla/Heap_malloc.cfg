SPECIFICATION Spec
CONSTANTS
  HeapStart = 1024
  PageSize = 128
  MaxPages = 3
  Sizes = {0, 1, 17, 100}
  DoubleFree = FALSE
INVARIANT HeapTypeOK
INVARIANT PayloadsHeld
PROPERTY KeepsPromise
