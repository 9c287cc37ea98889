SPECIFICATION Spec
CONSTANTS
    Failures = {"device", "controller", "irq", "uio"}
    Reads = 3
INVARIANTS HandlerSafe ReleasedOnce ReadsAreTicks
PROPERTIES ReadReturns
CHECK_DEADLOCK FALSE
