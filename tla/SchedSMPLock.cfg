\* Two CPUs with one thread each: the lock protocol of the scheduler.
CONSTANTS
    c1 = c1
    c2 = c2
    t1 = t1
    t2 = t2
    t3 = t3
    q1 = q1
    q2 = q2
    CPUs = {c1, c2}
    Threads = {t1, t2}
    Waitqs = {q1}
    DirtyLocks = {}
    Idle = Idle
    CpuOf <- TwoCPUs
SPECIFICATION SchedSpec
INVARIANTS
    SelfLockProtocol
CHECK_DEADLOCK FALSE
