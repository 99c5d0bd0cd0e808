\* Two CPUs, t1 and t3 on c1 and t2 on c2, one mutex.
CONSTANTS
    c1 = c1
    c2 = c2
    t1 = t1
    t2 = t2
    t3 = t3
    q1 = q1
    q2 = q2
    CPUs = {c1, c2}
    Threads = {t1, t2, t3}
    Waitqs = {q1}
    DirtyLocks = {}
    Idle = Idle
    CpuOf <- TwoCPUs
SPECIFICATION MutexSpec
INVARIANTS
    MutualExclusion
CHECK_DEADLOCK FALSE
