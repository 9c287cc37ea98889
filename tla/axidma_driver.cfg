SPECIFICATION FairSpec
CONSTANTS
    Writers = {w1}
    Bases = {b1, b2}
    Lines = {l0, l1}
    DmaLine = l0
    NoIrq = none
    Unmapped = NULL
    Failures = {"sysfs", "irq", "mapping", "register", "ioremap"}
    MaxUsers = 1
    MaxDevices = 2
INVARIANTS HandlerSafe NoFault EnableIsTrue NeverDangling ExitClean NoInterruptLost
PROPERTIES InterruptDelivered
CHECK_DEADLOCK FALSE
