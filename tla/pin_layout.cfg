SPECIFICATION Spec
CONSTANTS
    PAGE_SIZE = 4
    PINNER_MAX_PAGES = 3
    ULONG = 40
    UINT = 21
    Frames = {2, 5}
INVARIANT ScatterlistIsBuffer
