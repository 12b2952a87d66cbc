SPECIFICATION Spec
CONSTANTS
    Main <- MCMain
    ARP_MAX_INLINE_LIBS = 2
    Files = {"a", "l", "m"}
    Contents <- MCContents
    Names = {"v", "w"}
    ARP_MAX_IMPORTED_LIBS = 2
    MaxCalls = 6
INVARIANTS LoadedAsWritten LibrariesRunOnce
CHECK_DEADLOCK FALSE
