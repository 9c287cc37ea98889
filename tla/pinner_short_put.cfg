SPECIFICATION Spec
CONSTANTS
    Files = {f1, f2}
    Threads = {t1, t2}
    Pins = {p1, p2}
    Pages = {g1, g2}
    Magics = {m1}
    UMagics = {u1}
    MaxPages = 2
    MaxRefs = 4
    Failures <- GupOnly
    SharedFd = FALSE
    RmmodBusy = FALSE
    None = None
SYMMETRY Symmetry
INVARIANTS PutsOnlyHeldPages
CHECK_DEADLOCK FALSE
