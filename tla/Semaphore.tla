------------------------------ MODULE Semaphore ------------------------------
(***************************************************************************)
(* semaphore_wait and semaphore_signal of kern/task.c, on top of the       *)
(* scheduler and the wait queues of Sched.  A semaphore is identified with *)
(* the wait queue embedded in it.  Threads wait and signal; interrupt      *)
(* handlers signal (a disk driver's completion callback does).             *)
(***************************************************************************)
EXTENDS Sched, Integers, FiniteSets

CONSTANT MaxCount  \* bound on count, so that signals stay finitely many

ASSUME SemAssumption ==
    MaxCount \in Nat /\ IsFiniteSet(Contexts) /\ Idle \notin Waitqs

VARIABLE count     \* semaphore->count, an atomic_int

vars == <<schedVars, count>>

SemInit == SchedInit /\ count = [q \in Waitqs |-> 0]

\* semaphore_wait: the count is decremented under wq.lock.  The result is not
\* negative: unlock and return.
SemTake(t) ==
    /\ AwaitNotNeeded(t)
    /\ count[arg[t]] - 1 >= 0
    /\ count' = [count EXCEPT ![arg[t]] = @ - 1]

\* The result is negative: waitq_await_locked, with wq.lock still held.
SemBlock(t) ==
    /\ AwaitLockWq(t)
    /\ count[arg[t]] - 1 < 0
    /\ count' = [count EXCEPT ![arg[t]] = @ - 1]

\* semaphore_signal: an atomic increment without wq.lock, and a wake-up if the
\* result says that somebody waits.
SemSignal_Strict(a, q) ==  \* mutant: < for <=
    /\ At(a, Home(a))
    /\ count[q] < MaxCount
    /\ count' = [count EXCEPT ![q] = @ + 1]
    /\ IF count[q] + 1 < 0 THEN WakeCall(a, q) ELSE UNCHANGED schedVars
SemSignal_Eager(a, q) ==   \* mutant: <= 1 for <= 0
    /\ At(a, Home(a))
    /\ count[q] < MaxCount
    /\ count' = [count EXCEPT ![q] = @ + 1]
    /\ IF count[q] + 1 <= 1 THEN WakeCall(a, q) ELSE UNCHANGED schedVars
SemSignal(a, q) ==
    /\ At(a, Home(a))
    /\ count[q] < MaxCount
    /\ count' = [count EXCEPT ![q] = @ + 1]
    /\ IF count[q] + 1 <= 0 THEN WakeCall(a, q) ELSE UNCHANGED schedVars

\* The steps of the scheduler and the wait queues themselves.
SchedStep ==
    \/ \E t \in Threads : ThreadStep(t)
    \/ \E a \in Contexts : WakeStep(a)
    \/ \E t \in Threads, q \in Waitqs : AwaitCall(t, q)
    \/ \E c \in CPUs : IntrStep(c) \/ DeviceIntr(c)
    \/ \E c \in CPUs, t \in Threads : ThreadStart(c, t)

SemNext ==
    \/ SchedStep /\ UNCHANGED count
    \/ \E t \in Threads : SemTake(t) \/ SemBlock(t)
    \/ \E a \in Contexts, q \in Waitqs : SemSignal(a, q)

SemSpec == SemInit /\ [][SemNext]_vars

SemFairness ==
    /\ \A t \in Threads : /\ SF_vars(ThreadStep(t) /\ UNCHANGED count)
                          /\ WF_vars(SemTake(t) \/ SemBlock(t))
    /\ \A a \in Contexts : WF_vars(WakeStep(a) /\ UNCHANGED count)
    /\ \A c \in CPUs : /\ WF_vars(CpuReschedule(c) /\ UNCHANGED count)
                       /\ SF_vars(IntrReturn(c) /\ UNCHANGED count)
                       /\ SF_vars(TimerIntr(c) /\ UNCHANGED count)
                       /\ SF_vars(ReschedIntr(c) /\ UNCHANGED count)

FairSemSpec == SemSpec /\ SemFairness

------------------------------------------------------------------------------
SemTypeOK == SchedTypeOK /\ count \in [Waitqs -> Int]

\* The contexts that have incremented q's count and still owe it a wake-up.
Waking(q) == {a \in Contexts : pc[a] \in {"wakecall", "wake"} /\ arg[a] = q}

\* The threads that have decremented q's count and wait for a wake-up; the one
\* that holds wq.lock is about to queue itself.
Blocked(q) == Len(waiters[q]) + (IF wqlock[q] THEN 1 ELSE 0)

Deficit(q) == IF count[q] < 0 THEN -count[q] ELSE 0

\* The increments happen outside wq.lock ("can there be a race condition here?",
\* semaphore_signal), yet blocked threads and owed wake-ups always balance: the
\* blocked threads are those the count says, plus one for each wake-up owed.
WakeupsBalance ==
    \A q \in Waitqs : Blocked(q) = Deficit(q) + Cardinality(Waking(q))

\* So a signal that decides to wake somebody finds somebody: waitq_wake_one's
\* "sent event with no waiters" is never printed for a semaphore.
SignalFindsWaiter ==
    \A a \in Contexts :
        pc[a] = "wake" /\ ~wqlock[arg[a]] => waiters[arg[a]] # <<>>

\* Semaphores are counting semaphores with first-come-first-served wake-up and
\* no barging.  A wait is decided when the count is decremented, and granted
\* when waitq_wake_one takes the thread off the queue.
PermitsOf(q) == (IF count[q] > 0 THEN count[q] ELSE 0) + Cardinality(Waking(q))
QueueOf(q) ==
    IF wqlock[q]
    THEN Append(waiters[q], CHOOSE t \in Threads : pc[t] = "locked" /\ arg[t] = q)
    ELSE waiters[q]
WantOf(t) ==
    IF \/ pc[t] \in {"awaitcall", "await", "locked"}
       \/ t \in Range(waiters[arg[t]])
    THEN arg[t] ELSE Idle

Abstract == INSTANCE FifoSemaphore WITH
    Procs <- Threads, Sems <- Waitqs, None <- Idle,
    permits <- [q \in Waitqs |-> PermitsOf(q)],
    queue <- [q \in Waitqs |-> QueueOf(q)],
    want <- [t \in Threads |-> WantOf(t)]

ImplementsFifoSemaphore == Abstract!Spec

\* A wake-up that is owed reaches the foremost waiter, whose wait returns.
SignalledWaitReturns ==
    \A t \in Threads, q \in Waitqs :
        (waiters[q] # <<>> /\ Head(waiters[q]) = t /\ Waking(q) # {}) ~> pc[t] = "run"
=============================================================================
