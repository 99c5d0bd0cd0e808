\* Two threads: is an allocated page new?
CONSTANTS
    p1 = p1
    p2 = p2
    p3 = p3
    b1 = b1
    NULL = NULL
    Procs = {t1, t2}
    FreePages <- ThreeFree
    BootPages <- OneBoot
    Uses = {"kmem"}
    Counter = 6
SPECIFICATION PageSpec
INVARIANTS
    AllocatedPageIsNew
