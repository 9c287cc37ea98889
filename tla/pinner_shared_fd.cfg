SPECIFICATION Spec
CONSTANTS
    Files = {f1, f2}
    Threads = {t1, t2, t3}
    Pins = {p1, p2}
    Pages = {g1}
    Magics = {m1}
    UMagics = {u1, u2}
    MaxPages = 1
    MaxRefs = 4
    Failures <- NoFailures
    SharedFd = TRUE
    RmmodBusy = FALSE
    None = None
SYMMETRY Symmetry
PROPERTIES OnlyOwnPinnings
CHECK_DEADLOCK FALSE
