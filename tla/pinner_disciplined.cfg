SPECIFICATION Spec
CONSTANTS
    Files = {f1, f2}
    Threads = {t1, t2}
    Pins = {p1, p2}
    Pages = {g1, g2, g3}
    Magics = {m1, m2}
    UMagics = {u1, u2}
    MaxPages = 2
    MaxRefs = 4
    Failures <- HandledFailures
    SharedFd = FALSE
    RmmodBusy = FALSE
    None = None
SYMMETRY Symmetry
INVARIANTS RefsExact NoFault QuietMeansClean PinAllOrNothing
PROPERTIES OnlyOwnPinnings ImplementsService
