SPECIFICATION S2mmSpec
CONSTANTS
    UINT = 256
    ALIGN = 4
    DESC = 2
    SgPlists <- MCSgPlists
    DataPlists <- MCDataPlists
    Sizes = {1, 3}
    MallocFails = FALSE
    IRQ_FIELD = 8
    WaitIrq = {FALSE}
    Timeouts = {FALSE}
    OneEach = TRUE
    SofDma = FALSE
    MaxTransfers = 1
INVARIANTS PolledIsPacket
