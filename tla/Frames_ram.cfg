SPECIFICATION Spec
CONSTANTS
  Threads = {p, q}
  NoThread = none
  FirstFree = 3
  LastFrame = 9
  PageSize = 2
  ByteBits = 2
INVARIANT FramesAreInRam
