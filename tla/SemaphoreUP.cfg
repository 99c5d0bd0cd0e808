\* One CPU, three threads, one semaphore, initialised locks.
CONSTANTS
    c1 = c1
    c2 = c2
    t1 = t1
    t2 = t2
    t3 = t3
    q1 = q1
    q2 = q2
    CPUs = {c1}
    Threads = {t1, t2, t3}
    Waitqs = {q1}
    DirtyLocks = {}
    Idle = Idle
    CpuOf <- OneCPU
    MaxCount = 1
SPECIFICATION FairSemSpec
INVARIANTS
    SelfLockProtocol
PROPERTIES
    QueuedThreadRuns
    SignalledWaitReturns
