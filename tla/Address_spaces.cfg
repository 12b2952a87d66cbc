CONSTANTS
    Entries = 3
    Tables = 3
    MinRam = 19
    RamSizes = {17, 25}
    Spaces = {s1, s2}
    Kernel = kernel
    HeapStart = 21
    HeapPages = 2
    TestAddr = 23
    Mmio <- MCMmio
    UserPages = {27}
    MapPages = {24}
    MapTargets = {12}
    MaxHeld = 3
SPECIFICATION Spec
CHECK_DEADLOCK FALSE
SYMMETRY MCSymmetry
INVARIANTS RamIsIdentity KernelIsShared OwnedOnce NothingLost ProcessesApart
PROPERTIES MapMovesOnePage ImplementsMappings
