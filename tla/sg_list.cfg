SPECIFICATION Spec
CONSTANTS
    UINT = 256
    ALIGN = 4
    DESC = 2
    SgPlists <- MCSgPlists
    DataPlists <- MCDataPlists
    Sizes <- MCSizes
    MallocFails = TRUE
INVARIANTS EntriesArePhysical EntriesTile OnlyLastOverruns
PROPERTIES ApportionsBuffer
