-------------------------------- MODULE Mutex --------------------------------
(***************************************************************************)
(* mutex_lock and mutex_unlock of kern/task.c, on top of the scheduler and *)
(* the wait queues of Sched.  A mutex is identified with the wait queue    *)
(* embedded in it.  Every thread locks and unlocks mutexes, one at a time; *)
(* interrupt handlers use none, so that device interrupts are left out.    *)
(***************************************************************************)
EXTENDS Sched

VARIABLES
    mcount,  \* mutex->count: threads that hold or want the mutex
    owner,   \* mutex->owner, Idle standing for NULL
    mpc,     \* where each thread is in its use of a mutex
    mtx      \* which mutex it is

mutexVars == <<mcount, owner, mpc, mtx>>
vars      == <<schedVars, mutexVars>>

MutexPcs == {"out",      \* uses no mutex
             "acquire",  \* in mutex_lock, has incremented count
             "in",       \* has returned from mutex_lock
             "release"}  \* in mutex_unlock, has cleared owner

MutexInit ==
    /\ SchedInit
    /\ mcount = [q \in Waitqs |-> 0]
    /\ owner = [q \in Waitqs |-> Idle]
    /\ mpc = [t \in Threads |-> "out"]
    /\ mtx = [t \in Threads |-> CHOOSE q \in Waitqs : TRUE]

\* mutex_lock: the count is incremented without wq.lock; a thread that was not
\* the first calls waitq_await.
MutexLock_NoWait(t, q) ==  \* mutant: > for >=
    /\ At(t, "run")
    /\ mpc[t] = "out"
    /\ mcount' = [mcount EXCEPT ![q] = @ + 1]
    /\ IF mcount[q] > 1 THEN AwaitCall(t, q) ELSE UNCHANGED schedVars
    /\ mpc' = [mpc EXCEPT ![t] = "acquire"]
    /\ mtx' = [mtx EXCEPT ![t] = q]
    /\ UNCHANGED owner
MutexLock(t, q) ==
    /\ At(t, "run")
    /\ mpc[t] = "out"
    /\ mcount' = [mcount EXCEPT ![q] = @ + 1]
    /\ IF mcount[q] >= 1 THEN AwaitCall(t, q) ELSE UNCHANGED schedVars
    /\ mpc' = [mpc EXCEPT ![t] = "acquire"]
    /\ mtx' = [mtx EXCEPT ![t] = q]
    /\ UNCHANGED owner

\* The end of mutex_lock; the assertion is that the exchange succeeds.
MutexAcquired(t) ==
    /\ At(t, "run")
    /\ mpc[t] = "acquire"
    /\ owner[mtx[t]] = Idle
    /\ owner' = [owner EXCEPT ![mtx[t]] = t]
    /\ mpc' = [mpc EXCEPT ![t] = "in"]
    /\ UNCHANGED <<schedVars, mcount, mtx>>

\* mutex_unlock gives up ownership; again the exchange is asserted to succeed.
MutexDisown(t) ==
    /\ At(t, "run")
    /\ mpc[t] = "in"
    /\ owner[mtx[t]] = t
    /\ owner' = [owner EXCEPT ![mtx[t]] = Idle]
    /\ mpc' = [mpc EXCEPT ![t] = "release"]
    /\ UNCHANGED <<schedVars, mcount, mtx>>

\* The end of mutex_unlock: the count is decremented, and a waiter woken if
\* there is one according to the count.
MutexUnlock(t) ==
    /\ At(t, "run")
    /\ mpc[t] = "release"
    /\ mcount' = [mcount EXCEPT ![mtx[t]] = @ - 1]
    /\ IF mcount[mtx[t]] > 1 THEN WakeCall(t, mtx[t]) ELSE UNCHANGED schedVars
    /\ mpc' = [mpc EXCEPT ![t] = "out"]
    /\ UNCHANGED <<owner, mtx>>

\* The steps of the scheduler and the wait queues themselves.
SchedStep ==
    \/ \E t \in Threads : ThreadStep(t) \/ AwaitLockWq(t)
    \/ \E a \in Contexts : WakeStep(a)
    \/ \E c \in CPUs : IntrStep(c)
    \/ \E c \in CPUs, t \in Threads : ThreadStart(c, t)

MutexStep(t) == MutexAcquired(t) \/ MutexDisown(t) \/ MutexUnlock(t)

MutexNext ==
    \/ SchedStep /\ UNCHANGED mutexVars
    \/ \E t \in Threads : MutexStep(t)
    \/ \E t \in Threads, q \in Waitqs : MutexLock(t, q)

MutexSpec == MutexInit /\ [][MutexNext]_vars

\* A thread that is given the CPU time and again finishes what it does with a
\* mutex, critical section included; nobody has to lock one.
MutexFairness ==
    /\ \A t \in Threads :
           /\ SF_vars((ThreadStep(t) \/ AwaitLockWq(t)) /\ UNCHANGED mutexVars)
           /\ SF_vars(MutexStep(t))
    /\ \A a \in Contexts : WF_vars(WakeStep(a) /\ UNCHANGED mutexVars)
    /\ \A c \in CPUs : /\ WF_vars(CpuReschedule(c) /\ UNCHANGED mutexVars)
                       /\ SF_vars(IntrReturn(c) /\ UNCHANGED mutexVars)
                       /\ SF_vars(TimerIntr(c) /\ UNCHANGED mutexVars)
                       /\ SF_vars(ReschedIntr(c) /\ UNCHANGED mutexVars)

FairMutexSpec == MutexSpec /\ MutexFairness

------------------------------------------------------------------------------
MutexTypeOK ==
    /\ mcount \in [Waitqs -> Nat]
    /\ owner \in [Waitqs -> Threads \cup {Idle}]
    /\ mpc \in [Threads -> MutexPcs]
    /\ mtx \in [Threads -> Waitqs]

\* Threads that own q or are past its gate: mutex_lock's wait is over, or was
\* not needed, and count has not been decremented yet.
Holders(q) ==
    {t \in Threads : /\ mtx[t] = q
                     /\ \/ mpc[t] \in {"in", "release"}
                        \/ mpc[t] = "acquire" /\ pc[t] = "run"}

\* Mutual exclusion, and the two assertions on owner: it is NULL when mutex_lock
\* sets it and the caller when mutex_unlock clears it.
MutualExclusion ==
    \A q \in Waitqs :
        /\ \A t, u \in Holders(q) : t = u
        /\ \A t \in Holders(q) : owner[q] = IF mpc[t] = "in" THEN t ELSE Idle

\* "can't rely on mutexes until scheduling is up" (common_init): once it is up,
\* a thread that calls mutex_lock acquires the mutex, if those that hold it let
\* it go.
LockAcquired ==
    \A t \in Threads : mpc[t] = "acquire" ~> mpc[t] = "in"
------------------------------------------------------------------------------
\* The inductive invariant behind MutualExclusion.

\* Where a thread may be in the wait queues' code while it uses a mutex.
MutexPcInv ==
    /\ \A t \in Threads :
           /\ mpc[t] = "out" => pc[t] \in {"new", "run", "wakecall", "wake", "took", "yield"}
           /\ mpc[t] = "acquire" => pc[t] \in {"run", "awaitcall", "await", "locked",
                                              "parked", "resumed"}
           /\ mpc[t] \in {"in", "release"} => pc[t] = "run"
           /\ mpc[t] = "acquire" /\ pc[t] # "run" => arg[t] = mtx[t]
    /\ \A c \in CPUs : pc[c] \in {"none", "iret", "resched"}

\* The right to hold q: a thread has it from the end of its wait in mutex_lock
\* until it has decremented count, and the waker it then becomes passes it on.
HasTurn(t, q) ==
    \/ /\ mtx[t] = q
       /\ \/ mpc[t] \in {"in", "release"}
          \/ mpc[t] = "acquire" /\ pc[t] = "run"
          \/ /\ mpc[t] = "acquire" /\ pc[t] \in {"parked", "resumed"}
             /\ t \notin Range(waiters[q])
    \/ pc[t] \in {"wakecall", "wake"} /\ arg[t] = q

\* There is one turn at most, and none while the count is zero.
OneTurn ==
    /\ \A q \in Waitqs : \A t, u \in Threads : HasTurn(t, q) /\ HasTurn(u, q) => t = u
    /\ \A q \in Waitqs : \A t \in Threads : HasTurn(t, q) => mcount[q] # 0

\* The owner is the thread that has returned from mutex_lock.
OwnerInv ==
    /\ \A t \in Threads : mpc[t] = "in" => owner[mtx[t]] = t
    /\ \A q \in Waitqs : owner[q] # Idle => mpc[owner[q]] = "in" /\ mtx[owner[q]] = q

MutexInv == MutexTypeOK /\ MutexPcInv /\ OneTurn /\ OwnerInv
=============================================================================
