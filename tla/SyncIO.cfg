\* Two CPUs with one thread each.
CONSTANTS
    c1 = c1
    c2 = c2
    t1 = t1
    t2 = t2
    q1 = q1
    q2 = q2
    CPUs = {c1, c2}
    Threads = {t1, t2}
    Waitqs = {q1, q2}
    DirtyLocks = {}
    Idle = Idle
    CpuOf <- TwoCPUs
    MaxCount = 2
    Sync <- OwnSem
SPECIFICATION SyncSpec
INVARIANTS
    StackOutlivesRequest
    ResultStored
CHECK_DEADLOCK FALSE
