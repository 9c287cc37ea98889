SPECIFICATION FairSpec
CONSTANTS
    Files = {f1, f2}
    Threads = {t1, t2}
    Pins = {p1, p2}
    Pages = {g1}
    Magics = {m1}
    UMagics = {u1}
    MaxPages = 1
    MaxRefs = 2
    Failures <- UndoFailures
    SharedFd = FALSE
    RmmodBusy = TRUE
    None = None
INVARIANTS TypeOK UsersExclusive
PROPERTIES CallsReturn
CHECK_DEADLOCK FALSE
