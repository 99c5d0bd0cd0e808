\* Two CPUs, t1 and t3 on c1 and t2 on c2, one semaphore.
CONSTANTS
    c1 = c1
    c2 = c2
    t1 = t1
    t2 = t2
    t3 = t3
    q1 = q1
    q2 = q2
    CPUs = {c1, c2}
    Threads = {t1, t2, t3}
    Waitqs = {q1}
    DirtyLocks = {t1}
    Idle = Idle
    CpuOf <- TwoCPUs
    MaxCount = 1
SPECIFICATION SemSpec
INVARIANTS
    SchedTypeOK
    LinkedOnce
    ThreadPlaced
    InterruptsRunningThread
    NoMissedReschedule
    AwaitSucceeds
    WakeupsBalance
    SignalFindsWaiter
PROPERTIES
    ImplementsFifoSemaphore
CHECK_DEADLOCK FALSE
