SPECIFICATION SystemFairSpec
CONSTANTS
    UINT = 256
    ALIGN = 4
    DESC = 2
    SgPlists <- MCSgPlists
    DataPlists <- MCDataPlists
    Sizes = {1, 3}
    MallocFails = FALSE
    IRQ_FIELD = 8
    WaitIrq = {TRUE}
    Timeouts = {FALSE, TRUE}
    OneEach = TRUE
    SofDma = FALSE
    MaxTransfers = 2
    PAGE = 8
    MaxPages = 4
    None = none
 
PROPERTIES WaitMeansDone WaitMeansPackets WaitEnds
CHECK_DEADLOCK FALSE
