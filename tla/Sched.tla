-------------------------------- MODULE Sched --------------------------------
(***************************************************************************)
(* The thread scheduler and the wait queues of the SCAL/UX kernel:         *)
(* kern/task.c (thread_resume, sched_next, sched_timeslice,                *)
(* sched_reschedule, waitq_await, waitq_wake_one), the interrupt entry     *)
(* point handle_int of x86_64/intr.c and md_switch of x86_64/machdep.c.    *)
(*                                                                         *)
(* Two kinds of context execute code.  A thread t executes when its CPU's  *)
(* curthread is t and no interrupt is being served there.  A CPU c stands  *)
(* for whatever borrows the current thread's stack: an interrupt handler,  *)
(* or thread_resume called by the code that creates threads.               *)
(*                                                                         *)
(* Steps.  Code between two steps of one context is atomic.  sched_lock    *)
(* always protects a short section entered with interrupts off in which    *)
(* no other lock is taken, so such a section is one step.  wq->lock and    *)
(* thread->lock are explicit: the first is held while the second is spun   *)
(* for.  A context with interrupts off cannot be interrupted or switched   *)
(* out except by its own call of sched_reschedule.                         *)
(***************************************************************************)
EXTENDS Naturals, Sequences, Functions

CONSTANTS
    CPUs,        \* cpus[0 .. ncpu-1]
    Threads,     \* the threads thread_new creates; idle threads are not in it
    Waitqs,      \* the wait queues embedded in semaphores and mutexes
    CpuOf,       \* thread->cpu, chosen by nextcpu() in thread_new
    DirtyLocks,  \* threads whose thread->lock, which thread_new leaves
                 \* uninitialised, may read as held
    Idle         \* stands for a CPU's own idle thread

ASSUME SchedAssumption ==
    /\ CpuOf \in [Threads -> CPUs]
    /\ DirtyLocks \subseteq Threads
    /\ Idle \notin Threads
    /\ CPUs \cap Threads = {}
    /\ Waitqs # {}

VARIABLES
    curthread,   \* cpu->curthread
    runqueue,    \* cpu->runqueue, head first
    timeslicer,  \* cpu->timeslicer.state = kCalloutPending
    preempted,   \* cpu->preempted
    ipi,         \* a reschedule IPI is pending at the CPU's local APIC
    state,       \* thread->state
    tlock,       \* thread->lock is held
    wqres,       \* thread->wqres
    waiters,     \* wq->waiters, head first
    wqlock,      \* wq->lock is held
    pc,          \* where each context is
    arg,         \* the wait queue argument of the call a context is in
    wakee        \* the local thrd of a context's waitq_wake_one

cpuVars    == <<curthread, runqueue, timeslicer, preempted, ipi>>
threadVars == <<state, tlock, wqres>>
wqVars     == <<waiters, wqlock>>
ctxVars    == <<pc, arg, wakee>>
schedVars  == <<cpuVars, threadVars, wqVars, ctxVars>>

Contexts == Threads \cup CPUs

ThreadStates == {"Runnable", "Running", "Waiting", "Exiting"}

\* Places in a thread's code.  Interrupts are on in OpenPcs and off elsewhere.
OpenPcs == {"run",        \* outside the scheduler and the wait queues
            "awaitcall",  \* has called waitq_await or semaphore_wait
            "wakecall"}   \* has called waitq_wake_one
ThreadPcs == OpenPcs \cup
           {"new",        \* made by thread_new, not resumed yet
            "await",      \* spins for wq->lock in order to wait
            "locked",     \* holds wq->lock, spins for its own thread->lock
            "parked",     \* on wq->waiters, about to call sched_reschedule
            "resumed",    \* sched_reschedule has switched it out, or returned
            "wake",       \* spins for wq->lock in order to wake
            "took",       \* has removed wakee from wq->waiters
            "yield"}      \* about to call sched_reschedule in thread_resume

\* Places in the code a CPU runs on the current thread's stack.
CpuPcs == {"none",        \* nothing: the current thread's own code executes
           "intr",        \* in a device's interrupt handler
           "wake", "took",\* as above, called from that handler
           "iret",        \* in the timer or the reschedule IPI's handler
           "resched"}     \* about to call sched_reschedule

cpu(a) == IF a \in CPUs THEN a ELSE CpuOf[a]

\* Context a executes.  For a thread this is curthread() == a outside interrupts.
Executing(a) ==
    IF a \in CPUs THEN pc[a] # "none"
    ELSE curthread[CpuOf[a]] = a /\ pc[CpuOf[a]] = "none"

At(a, l) == Executing(a) /\ pc[a] = l

Goto(a, l) == pc' = [pc EXCEPT ![a] = l]

\* Where the code that uses the wait queues is, when it is context a.
Home(a) == IF a \in CPUs THEN "intr" ELSE "run"

\* The CPU accepts interrupts.
IntrEnabled_NoCli(c) == pc[c] = "none"  \* mutant: md_intr_disable left out
IntrEnabled(c) ==
    /\ pc[c] = "none"
    /\ curthread[c] # Idle => pc[curthread[c]] \in OpenPcs

------------------------------------------------------------------------------
\* After _start and smp_init: every CPU is in its idle thread, interrupts on,
\* no thread has been resumed.
SchedInit ==
    /\ curthread = [c \in CPUs |-> Idle]
    /\ runqueue = [c \in CPUs |-> <<>>]
    /\ timeslicer = [c \in CPUs |-> FALSE]
    /\ preempted = [c \in CPUs |-> FALSE]
    /\ ipi = [c \in CPUs |-> FALSE]
    /\ state = [t \in Threads |-> "Runnable"]
    /\ tlock \in {f \in [Threads -> BOOLEAN] :
                      \A t \in Threads : f[t] => t \in DirtyLocks}
    /\ wqres = [t \in Threads |-> "none"]
    /\ waiters = [q \in Waitqs |-> <<>>]
    /\ wqlock = [q \in Waitqs |-> FALSE]
    /\ pc = [a \in Contexts |-> IF a \in CPUs THEN "none" ELSE "new"]
    /\ arg = [a \in Contexts |-> CHOOSE q \in Waitqs : TRUE]
    /\ wakee = [a \in Contexts |-> Idle]

------------------------------------------------------------------------------
\* The scheduler's sections under sched_lock.

\* The runqueue of c once sched_reschedule has dealt with the old thread: it
\* is put at the tail if it is Running, that is if it merely yields.
Requeued_Dropped(c) == runqueue[c]  \* mutant: the old thread is forgotten
Requeued_AtHead(c) ==               \* mutant: INSERT_HEAD for INSERT_TAIL
    IF curthread[c] # Idle /\ state[curthread[c]] = "Running"
    THEN <<curthread[c]>> \o runqueue[c]
    ELSE runqueue[c]
Requeued_Runnable(c) ==             \* mutant: a Runnable thread is queued again
    IF curthread[c] # Idle /\ state[curthread[c]] # "Waiting"
    THEN Append(runqueue[c], curthread[c])
    ELSE runqueue[c]
Requeued(c) ==
    IF curthread[c] # Idle /\ state[curthread[c]] = "Running"
    THEN Append(runqueue[c], curthread[c])
    ELSE runqueue[c]

\* The candidate sched_next selects from the queue q.
sched_next_Null(q) ==  \* mutant: no fallback to cpu->idlethread
    IF q = <<>> THEN "NULL" ELSE Head(q)
sched_next(q) == IF q = <<>> THEN Idle ELSE Head(q)

\* The threads' locks once sched_reschedule has released the old thread's.
Unlocked_Never(c) == tlock  \* mutant: the scheduler does not unlock
Unlocked(c) ==
    [t \in Threads |-> tlock[t] /\ ~(t = curthread[c] /\ state[t] = "Waiting")]

\* sched_reschedule on CPU c.  A Waiting thread's lock is released here; a
\* thread that is already Runnable again is left alone.  The idle thread is
\* always Running and never queued.
sched_reschedule(c) ==
    LET q == Requeued(c)
        next == sched_next(q)
    IN  /\ runqueue' = [runqueue EXCEPT ![c] = IF q = <<>> THEN q ELSE Tail(q)]
        /\ tlock' = Unlocked(c)
        /\ state' = [t \in Threads |-> IF t = next THEN "Running" ELSE state[t]]
        /\ curthread' = [curthread EXCEPT ![c] = next]
        /\ timeslicer' = [timeslicer EXCEPT ![c] = TRUE]
        /\ UNCHANGED <<preempted, ipi, wqres>>

\* The section of thread_resume: t becomes Runnable, at the head of its queue.
MakeRunnable(t) ==
    /\ state' = [state EXCEPT ![t] = "Runnable"]
    /\ runqueue' = [runqueue EXCEPT ![CpuOf[t]] = <<t>> \o @]

------------------------------------------------------------------------------
\* Waiting: waitq_await and waitq_await_locked.

\* Thread t calls waitq_await (or semaphore_wait) on q.
AwaitCall(t, q) ==
    /\ At(t, "run")
    /\ Goto(t, "awaitcall")
    /\ arg' = [arg EXCEPT ![t] = q]
    /\ UNCHANGED <<cpuVars, threadVars, wqVars, wakee>>

\* md_intr_disable.
AwaitEnter(t) ==
    /\ At(t, "awaitcall")
    /\ Goto(t, "await")
    /\ UNCHANGED <<cpuVars, threadVars, wqVars, arg, wakee>>

\* spinlock_lock(&wq->lock) succeeds.
AwaitLockWq(t) ==
    /\ At(t, "await")
    /\ ~wqlock[arg[t]]
    /\ wqlock' = [wqlock EXCEPT ![arg[t]] = TRUE]
    /\ Goto(t, "locked")
    /\ UNCHANGED <<cpuVars, threadVars, waiters, arg, wakee>>

\* The caller finds under wq->lock that it need not wait, and unlocks it.
AwaitNotNeeded(t) ==
    /\ At(t, "await")
    /\ ~wqlock[arg[t]]
    /\ Goto(t, "run")
    /\ UNCHANGED <<cpuVars, threadVars, wqVars, arg, wakee>>

AwaitEnqueue_AtHead(t) ==   \* mutant: INSERT_HEAD for INSERT_TAIL
    /\ At(t, "locked")
    /\ ~tlock[t]
    /\ tlock' = [tlock EXCEPT ![t] = TRUE]
    /\ waiters' = [waiters EXCEPT ![arg[t]] = <<t>> \o @]
    /\ state' = [state EXCEPT ![t] = "Waiting"]
    /\ wqlock' = [wqlock EXCEPT ![arg[t]] = FALSE]
    /\ Goto(t, "parked")
    /\ UNCHANGED <<cpuVars, wqres, arg, wakee>>
AwaitEnqueue_NoState(t) ==  \* mutant: thread->state is left Running
    /\ At(t, "locked")
    /\ ~tlock[t]
    /\ tlock' = [tlock EXCEPT ![t] = TRUE]
    /\ waiters' = [waiters EXCEPT ![arg[t]] = Append(@, t)]
    /\ wqlock' = [wqlock EXCEPT ![arg[t]] = FALSE]
    /\ Goto(t, "parked")
    /\ UNCHANGED <<cpuVars, state, wqres, arg, wakee>>

\* waitq_await_locked up to the release of wq->lock.
AwaitEnqueue(t) ==
    /\ At(t, "locked")
    /\ ~tlock[t]
    /\ tlock' = [tlock EXCEPT ![t] = TRUE]
    /\ waiters' = [waiters EXCEPT ![arg[t]] = Append(@, t)]
    /\ state' = [state EXCEPT ![t] = "Waiting"]
    /\ wqlock' = [wqlock EXCEPT ![arg[t]] = FALSE]
    /\ Goto(t, "parked")
    /\ UNCHANGED <<cpuVars, wqres, arg, wakee>>

\* waitq_await_locked's call of sched_reschedule.
AwaitReschedule(t) ==
    /\ At(t, "parked")
    /\ sched_reschedule(CpuOf[t])
    /\ Goto(t, "resumed")
    /\ UNCHANGED <<wqVars, arg, wakee>>

\* The call returns wqres, with interrupts on again.
AwaitReturn(t) ==
    /\ At(t, "resumed")
    /\ Goto(t, "run")
    /\ UNCHANGED <<cpuVars, threadVars, wqVars, arg, wakee>>

------------------------------------------------------------------------------
\* Waking: waitq_wake_one and thread_resume.

\* Context a calls waitq_wake_one on q: a thread with interrupts on, or an
\* interrupt handler.
WakeCall(a, q) ==
    /\ IF a \in CPUs THEN At(a, "intr") /\ Goto(a, "wake")
                     ELSE At(a, "run") /\ Goto(a, "wakecall")
    /\ arg' = [arg EXCEPT ![a] = q]
    /\ UNCHANGED <<cpuVars, threadVars, wqVars, wakee>>

\* md_intr_disable.
WakeEnter(t) ==
    /\ At(t, "wakecall")
    /\ Goto(t, "wake")
    /\ UNCHANGED <<cpuVars, threadVars, wqVars, arg, wakee>>

WakeRemove_Last(a) ==  \* mutant: TAILQ_LAST for TAILQ_FIRST
    LET q == waiters[arg[a]]
    IN  /\ At(a, "wake")
        /\ ~wqlock[arg[a]]
        /\ q # <<>>
        /\ waiters' = [waiters EXCEPT ![arg[a]] = SubSeq(q, 1, Len(q) - 1)]
        /\ wakee' = [wakee EXCEPT ![a] = q[Len(q)]]
        /\ Goto(a, "took")
        /\ UNCHANGED <<cpuVars, threadVars, wqlock, arg>>

\* The section of waitq_wake_one under wq->lock when there is a waiter.
WakeRemove(a) ==
    /\ At(a, "wake")
    /\ ~wqlock[arg[a]]
    /\ waiters[arg[a]] # <<>>
    /\ waiters' = [waiters EXCEPT ![arg[a]] = Tail(@)]
    /\ wakee' = [wakee EXCEPT ![a] = Head(waiters[arg[a]])]
    /\ Goto(a, "took")
    /\ UNCHANGED <<cpuVars, threadVars, wqlock, arg>>

\* The same when there is none: the warning is printed and 0 returned.
WakeNobody(a) ==
    /\ At(a, "wake")
    /\ ~wqlock[arg[a]]
    /\ waiters[arg[a]] = <<>>
    /\ Goto(a, Home(a))
    /\ UNCHANGED <<cpuVars, threadVars, wqVars, arg, wakee>>

\* The pending IPIs once thread_resume has told t's CPU, unless it is this one.
Notified_Never(t, here) == ipi  \* mutant: md_ipi_resched left out
Notified(t, here) == IF here THEN ipi ELSE [ipi EXCEPT ![CpuOf[t]] = TRUE]

\* wqres is set and thread_resume called.  A thread of this CPU preempts the
\* caller at once, or at the end of the interrupt; another CPU gets an IPI.
ThreadResume(a) ==
    LET t == wakee[a]
        here == CpuOf[t] = cpu(a)
    IN  /\ At(a, "took")
        /\ MakeRunnable(t)
        /\ wqres' = [wqres EXCEPT ![t] = "success"]
        /\ IF here /\ a \notin CPUs THEN Goto(a, "yield")
                                    ELSE Goto(a, Home(a))
        /\ preempted' = IF here /\ a \in CPUs
                        THEN [preempted EXCEPT ![a] = TRUE] ELSE preempted
        /\ ipi' = Notified(t, here)
        /\ wakee' = [wakee EXCEPT ![a] = Idle]
        /\ UNCHANGED <<curthread, timeslicer, tlock, wqVars, arg>>

\* thread_resume's call of sched_reschedule.
YieldReschedule(t) ==
    /\ At(t, "yield")
    /\ sched_reschedule(CpuOf[t])
    /\ Goto(t, "run")
    /\ UNCHANGED <<wqVars, arg, wakee>>

\* The code running on c, the boot code or a thread, resumes the new thread t.
ThreadStart(c, t) ==
    /\ IntrEnabled(c)
    /\ curthread[c] # Idle => pc[curthread[c]] = "run"
    /\ pc[t] = "new"
    /\ MakeRunnable(t)
    /\ ipi' = Notified(t, CpuOf[t] = c)
    /\ pc' = [pc EXCEPT ![t] = "run",
                        ![c] = IF CpuOf[t] = c THEN "resched" ELSE @]
    /\ UNCHANGED <<curthread, timeslicer, preempted, tlock, wqres, wqVars, arg, wakee>>

------------------------------------------------------------------------------
\* Interrupts: handle_int.

\* The LAPIC timer fires: callout_interrupt takes the timeslicer off the
\* callout queue and calls sched_timeslice.
TimerIntr(c) ==
    /\ IntrEnabled(c)
    /\ timeslicer[c]
    /\ timeslicer' = [timeslicer EXCEPT ![c] = FALSE]
    /\ preempted' = [preempted EXCEPT ![c] = TRUE]
    /\ Goto(c, "iret")
    /\ UNCHANGED <<curthread, runqueue, ipi, threadVars, wqVars, arg, wakee>>

\* kIntNumReschedule: its handler is sched_timeslice.
ReschedIntr(c) ==
    /\ IntrEnabled(c)
    /\ ipi[c]
    /\ ipi' = [ipi EXCEPT ![c] = FALSE]
    /\ preempted' = [preempted EXCEPT ![c] = TRUE]
    /\ Goto(c, "iret")
    /\ UNCHANGED <<curthread, runqueue, timeslicer, threadVars, wqVars, arg, wakee>>

\* A device interrupt, whose handler may wake any number of threads.
DeviceIntr(c) ==
    /\ IntrEnabled(c)
    /\ Goto(c, "intr")
    /\ UNCHANGED <<cpuVars, threadVars, wqVars, arg, wakee>>

\* The end of handle_int.
IntrReturn(c) ==
    /\ pc[c] \in {"intr", "iret"}
    /\ Goto(c, IF preempted[c] THEN "resched" ELSE "none")
    /\ preempted' = [preempted EXCEPT ![c] = FALSE]
    /\ UNCHANGED <<curthread, runqueue, timeslicer, ipi, threadVars, wqVars, arg, wakee>>

\* The sched_reschedule called by handle_int or by ThreadStart.
CpuReschedule(c) ==
    /\ pc[c] = "resched"
    /\ sched_reschedule(c)
    /\ Goto(c, "none")
    /\ UNCHANGED <<wqVars, arg, wakee>>

------------------------------------------------------------------------------
\* The steps that are the same whatever the wait queues are used for.
ThreadStep(t) ==
    \/ AwaitEnter(t) \/ AwaitEnqueue(t) \/ AwaitReschedule(t) \/ AwaitReturn(t)
    \/ WakeEnter(t) \/ YieldReschedule(t)

WakeStep(a) == WakeRemove(a) \/ WakeNobody(a) \/ ThreadResume(a)

IntrStep(c) == TimerIntr(c) \/ ReschedIntr(c) \/ IntrReturn(c) \/ CpuReschedule(c)

\* Every use of the wait queues: what semaphores and mutexes refine.
SchedNext ==
    \/ \E t \in Threads : ThreadStep(t) \/ AwaitLockWq(t) \/ AwaitNotNeeded(t)
    \/ \E a \in Contexts : WakeStep(a)
    \/ \E t \in Threads, q \in Waitqs : AwaitCall(t, q)
    \/ \E a \in Contexts, q \in Waitqs : WakeCall(a, q)
    \/ \E c \in CPUs : IntrStep(c) \/ DeviceIntr(c)
    \/ \E c \in CPUs, t \in Threads : ThreadStart(c, t)

SchedSpec == SchedInit /\ [][SchedNext]_schedVars

\* Fairness.  Code that executes keeps executing; a thread that is given the
\* CPU time and again makes progress, since a slice lasts a second.  Interrupt
\* handlers end, and a pending interrupt is taken when interrupts are on time
\* and again, however briefly: the local APIC keeps it pending.
SchedFairness ==
    /\ \A t \in Threads : /\ SF_schedVars(ThreadStep(t))
                          /\ WF_schedVars(AwaitLockWq(t) \/ AwaitNotNeeded(t))
    /\ \A a \in Contexts : WF_schedVars(WakeStep(a))
    /\ \A c \in CPUs : /\ WF_schedVars(CpuReschedule(c))
                       /\ SF_schedVars(IntrReturn(c))
                       /\ SF_schedVars(TimerIntr(c))
                       /\ SF_schedVars(ReschedIntr(c))

FairSchedSpec == SchedSpec /\ SchedFairness

------------------------------------------------------------------------------
SchedTypeOK ==
    /\ curthread \in [CPUs -> Threads \cup {Idle}]
    /\ runqueue \in [CPUs -> Seq(Threads)]
    /\ timeslicer \in [CPUs -> BOOLEAN]
    /\ preempted \in [CPUs -> BOOLEAN]
    /\ ipi \in [CPUs -> BOOLEAN]
    /\ state \in [Threads -> ThreadStates]
    /\ tlock \in [Threads -> BOOLEAN]
    /\ wqres \in [Threads -> {"none", "success"}]
    /\ waiters \in [Waitqs -> Seq(Threads)]
    /\ wqlock \in [Waitqs -> BOOLEAN]
    /\ pc \in [Contexts -> ThreadPcs \cup CpuPcs]
    /\ \A t \in Threads : pc[t] \in ThreadPcs
    /\ \A c \in CPUs : pc[c] \in CpuPcs
    /\ arg \in [Contexts -> Waitqs]
    /\ wakee \in [Contexts -> Threads \cup {Idle}]

\* thread.queue links a thread into at most one list, once: a run queue (of the
\* thread's own CPU) or one wait queue.  A second TAILQ_INSERT of a linked
\* thread would corrupt both lists.
LinkedOnce ==
    /\ \A c \in CPUs : IsInjective(runqueue[c])
    /\ \A q \in Waitqs : IsInjective(waiters[q])
    /\ \A c \in CPUs : \A t \in Range(runqueue[c]) : CpuOf[t] = c
    /\ \A q, r \in Waitqs : q # r => Range(waiters[q]) \cap Range(waiters[r]) = {}
    /\ \A c \in CPUs, q \in Waitqs : Range(runqueue[c]) \cap Range(waiters[q]) = {}

\* No thread is lost and none runs twice: a started thread is on its CPU's run
\* queue exactly while it is Runnable, or Running but switched out (a preempted
\* thread keeps the state Running); it is Waiting exactly while it is on a wait
\* queue or in the hands of a waker; and a CPU's curthread is one of the CPU's
\* own threads and is Running, or has just parked itself.
ThreadPlaced ==
    \A t \in Threads :
        /\ t \in Range(runqueue[CpuOf[t]]) <=>
               \/ state[t] = "Runnable" /\ pc[t] # "new"
               \/ state[t] = "Running" /\ curthread[CpuOf[t]] # t
        /\ state[t] = "Waiting" <=> \/ \E q \in Waitqs : t \in Range(waiters[q])
                                    \/ \E a \in Contexts : wakee[a] = t
        /\ \A c \in CPUs : curthread[c] = t =>
               CpuOf[t] = c /\ (state[t] = "Running" \/ pc[t] = "parked")

\* handle_int's assert(curthread()->state == kThreadRunning): whoever else
\* changes thread states meanwhile, an interrupt finds a Running thread.
InterruptsRunningThread ==
    \A c \in CPUs : pc[c] \in {"intr", "wake", "took", "iret"} =>
        curthread[c] = Idle \/ state[curthread[c]] = "Running"

\* A CPU never idles beside a runnable thread unnoticed: an IPI is on its way
\* or the CPU is about to reschedule.
NoMissedReschedule ==
    \A c \in CPUs : curthread[c] = Idle /\ runqueue[c] # <<>> =>
        ipi[c] \/ preempted[c] \/ pc[c] = "resched"

\* waitq_await's result: a thread that is back from sched_reschedule was woken
\* (semaphore_wait asserts kWQSuccess, mutex_lock is fatal otherwise).
AwaitSucceeds ==
    \A t \in Threads : At(t, "resumed") => wqres[t] = "success"

\* "if you are about to wait, you shall lock yourself and let Scheduler unlock
\* you" (sched_reschedule): thread->lock is held from the enqueueing to the
\* sched_reschedule that follows, and at no other time.
SelfLockProtocol == \A t \in Threads : tlock[t] <=> pc[t] = "parked"

\* A queued thread gets the CPU, although thread_resume queues at the head and
\* interrupt handlers may wake threads again and again.
QueuedThreadRuns ==
    \A t \in Threads :
        t \in Range(runqueue[CpuOf[t]]) ~> curthread[CpuOf[t]] = t

------------------------------------------------------------------------------
\* The inductive invariant behind LinkedOnce and ThreadPlaced.

ClosedPcs == {"await", "locked", "parked", "wake", "took", "yield"}

\* A thread runs its interrupts-off code undisturbed, and code that borrows a
\* thread's stack found the thread with interrupts on.
UninterruptedInv ==
    /\ \A t \in Threads : pc[t] \in ClosedPcs =>
           curthread[CpuOf[t]] = t /\ pc[CpuOf[t]] = "none"
    /\ \A c \in CPUs : pc[c] # "none" /\ curthread[c] # Idle =>
           pc[curthread[c]] \in OpenPcs

\* A woken thread is in the hands of one waker, and off every wait queue.
WakeeInv ==
    /\ \A a \in Contexts : wakee[a] # Idle <=> pc[a] = "took"
    /\ \A a, b \in Contexts : wakee[a] = wakee[b] /\ wakee[a] # Idle => a = b
    /\ \A a \in Contexts, q \in Waitqs : wakee[a] \notin Range(waiters[q])

\* What a thread's place in the code says about its state.
StateInv ==
    \A t \in Threads :
        /\ state[t] # "Exiting"
        /\ state[t] = "Waiting" => pc[t] \in {"parked", "resumed"}
        /\ pc[t] = "parked" => state[t] # "Running"
        /\ pc[t] = "new" => state[t] = "Runnable" /\ curthread[CpuOf[t]] # t

\* A thread that has queued itself and no longer waits was woken.
WokenInv ==
    \A t \in Threads : pc[t] \in {"parked", "resumed"} /\ state[t] # "Waiting" =>
        wqres[t] = "success"

\* A thread on a wait queue got there by a waitq_await on that queue.
WaitsOnArg == \A q \in Waitqs : \A t \in Range(waiters[q]) : arg[t] = q

\* wq->lock is held by the one thread that is between taking it in order to
\* wait and queueing itself.
WqLockInv ==
    /\ \A q \in Waitqs :
           wqlock[q] <=> \E t \in Threads : pc[t] = "locked" /\ arg[t] = q
    /\ \A t, u \in Threads :
           pc[t] = "locked" /\ pc[u] = "locked" /\ arg[t] = arg[u] => t = u

SchedInv ==
    /\ SchedTypeOK
    /\ LinkedOnce
    /\ ThreadPlaced
    /\ UninterruptedInv
    /\ WakeeInv
    /\ StateInv
    /\ WqLockInv
=============================================================================
