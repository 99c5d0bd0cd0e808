\* The heap: pages of 16 bytes, three bufctls or small objects to a slab, two
\* large ones.  Two processes, address spaces of two pages.  One thread
\* that allocates and frees pages for two queues.
CONSTANTS
    NFreeLists = 5
    KHeapSize = 12
    PhysPages = 10
    StaticTags = 16
    BlockTags = 8
    PGSIZE = 16
    AllocSizes = {4, 8}
    SlabSize = 4
    SlabPtrSize = 5
    BufctlSize = 4
    kSmallSlabMax = 6
    MinEntries = 2
    Requests = {3, 8, 40}
    MaxLive = 3
    Maps = {m1, m2}
    First = m1
    UserPages = 2
    Objs = {1, 2, 3, 4}
    Anons = {1, 2, 3}
    Values = {0, 1}
    UserMemory = 9
    Levels = 1
    Fanout = 1
    Sizes = {1, 2}
    MaxCalls = 3
    NULL = NULL
    Procs = {t1}
    FreePages <- ThreeFree
    BootPages <- OneBoot
    Uses = {"kmem", "active"}
    Counter = 6
SPECIFICATION Spec
INVARIANTS
    TagReserve
    ArenasIntact
    
    ObjectsDisjoint
    SlabCounts
    
    TranslationsCurrent
    Bookkeeping
    EveryPageOnOneQueue
    AllocatedPageIsNew
PROPERTIES
    ImplementsAddressSpaces
CHECK_DEADLOCK FALSE
