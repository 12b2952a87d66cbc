CONSTANTS
    CommandSlots = {1, 2}
    Ports = {1}
    MaxFailures = 1
    MaxFiles = 4
    MaxCalls = 5
    SectorOf <- MCSectorOf
    Sectors = 2
    MaxInodes = 3
    InodeSectorOf <- MCInodeSectorOf
    InodeSectors = 2
    DataSectors = {1}
    Paths <- MCPaths
SPECIFICATION Spec
INVARIANTS SignedHasRoot FilesHaveInodes
PROPERTY EntriesSurvive
CHECK_DEADLOCK FALSE
