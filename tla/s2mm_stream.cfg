SPECIFICATION S2mmSpec
CONSTANTS
    UINT = 256
    ALIGN = 4
    DESC = 2
    SgPlists <- MCSgPlists
    DataPlists <- MCDataPlists
    Sizes = {1, 3}
    MallocFails = FALSE
    IRQ_FIELD = 3
    WaitIrq = {TRUE, FALSE}
    Timeouts = {TRUE}
    OneEach = FALSE
    SofDma = TRUE
    MaxTransfers = 2
INVARIANTS DmaStaysInList FreshSuccess EndMeansAll DequeuedIsNthPacket
CHECK_DEADLOCK FALSE
