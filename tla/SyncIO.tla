------------------------------- MODULE SyncIO -------------------------------
(***************************************************************************)
(* Synchronous disk I/O: commonIO and complete_sync of devicekit/DKDisk.m  *)
(* on top of Semaphore.  A thread submits a request whose completion       *)
(* refers to a semaphore and a result on the thread's own stack, and waits *)
(* for the semaphore; the drive's interrupt handler stores the result and  *)
(* signals.  The drive is a set of pending requests (NVMeQueue shows how   *)
(* the driver makes it one).  Requests that commonIO refuses change        *)
(* nothing and are left out.                                               *)
(***************************************************************************)
EXTENDS Semaphore

CONSTANT Sync  \* Sync[t]: the wait queue of the semaphore on t's stack

ASSUME SyncAssumption == Sync \in Injection(Threads, Waitqs)

VARIABLES
    io,       \* per thread: "out" of commonIO, "submitted", "waiting"
    pending,  \* threads whose request is with the drive
    result,   \* sync.result of each thread: has it been stored?
    sync      \* per CPU: the thread whose complete_sync has stored the result and
              \* has not signalled yet, or Idle

ioVars == <<io, pending, result, sync>>
allVars == <<vars, ioVars>>

SyncInit ==
    /\ SemInit
    /\ io = [t \in Threads |-> "out"]
    /\ pending = {}
    /\ result = [t \in Threads |-> FALSE]
    /\ sync = [c \in CPUs |-> Idle]

\* commonIO initialises sync and submits the request.
commonIO(t) ==
    /\ At(t, "run")
    /\ io[t] = "out"
    /\ io' = [io EXCEPT ![t] = "submitted"]
    /\ result' = [result EXCEPT ![t] = FALSE]
    /\ count' = [count EXCEPT ![Sync[t]] = 0]
    /\ waiters' = [waiters EXCEPT ![Sync[t]] = <<>>]
    /\ wqlock' = [wqlock EXCEPT ![Sync[t]] = FALSE]
    /\ pending' = pending \cup {t}
    /\ UNCHANGED <<cpuVars, threadVars, ctxVars, sync>>

\* It calls semaphore_wait ...
IoWait(t) ==
    /\ AwaitCall(t, Sync[t])
    /\ io[t] = "submitted"
    /\ io' = [io EXCEPT ![t] = "waiting"]
    /\ UNCHANGED <<count, pending, result, sync>>

\* ... and returns the result; sync is gone with the stack frame.
IoReturn(t) ==
    /\ At(t, "run")
    /\ io[t] = "waiting"
    /\ io' = [io EXCEPT ![t] = "out"]
    /\ UNCHANGED <<vars, pending, result, sync>>

\* complete_sync, called by the interrupt handler on c when the drive is done
\* with t's request: the result is stored ...
complete_sync_Lost(c, t) ==  \* mutant: the result is not stored
    /\ At(c, "intr")
    /\ sync[c] = Idle
    /\ t \in pending
    /\ pending' = pending \ {t}
    /\ sync' = [sync EXCEPT ![c] = t]
    /\ UNCHANGED <<vars, io, result>>
complete_sync_Twice(c, t) == \* mutant: the request stays with the drive
    /\ At(c, "intr")
    /\ sync[c] = Idle
    /\ t \in pending
    /\ result' = [result EXCEPT ![t] = TRUE]
    /\ sync' = [sync EXCEPT ![c] = t]
    /\ UNCHANGED <<vars, io, pending>>
complete_sync(c, t) ==
    /\ At(c, "intr")
    /\ sync[c] = Idle
    /\ t \in pending
    /\ pending' = pending \ {t}
    /\ result' = [result EXCEPT ![t] = TRUE]
    /\ sync' = [sync EXCEPT ![c] = t]
    /\ UNCHANGED <<vars, io>>

\* ... and the semaphore signalled.
CompleteSignal(c) ==
    /\ sync[c] # Idle
    /\ SemSignal(c, Sync[sync[c]])
    /\ sync' = [sync EXCEPT ![c] = Idle]
    /\ UNCHANGED <<io, pending, result>>

\* The drive interrupts c because it is done with some request.
DriveIntr(c) ==
    /\ pending # {}
    /\ DeviceIntr(c)
    /\ UNCHANGED <<count, ioVars>>

\* The steps of scheduler, wait queues and semaphores.
Machine(c) ==
    /\ IntrStep(c)
    /\ pc[c] = "intr" => sync[c] = Idle
    /\ UNCHANGED <<count, ioVars>>
ThreadRun(t) ==
    \/ ThreadStep(t) /\ UNCHANGED <<count, ioVars>>
    \/ (SemTake(t) \/ SemBlock(t)) /\ UNCHANGED ioVars
    \/ IoWait(t) \/ IoReturn(t)

SyncNext ==
    \/ \E t \in Threads : ThreadRun(t) \/ commonIO(t)
    \/ \E c \in CPUs : WakeStep(c) /\ UNCHANGED <<count, ioVars>>
    \/ \E c \in CPUs : Machine(c) \/ DriveIntr(c) \/ CompleteSignal(c)
    \/ \E c \in CPUs, t \in Threads : complete_sync(c, t)
    \/ \E c \in CPUs, t \in Threads : ThreadStart(c, t) /\ UNCHANGED <<count, ioVars>>

SyncSpec == SyncInit /\ [][SyncNext]_allVars

------------------------------------------------------------------------------
SyncTypeOK ==
    /\ SemTypeOK
    /\ io \in [Threads -> {"out", "submitted", "waiting"}]
    /\ pending \subseteq Threads
    /\ result \in [Threads -> BOOLEAN]
    /\ sync \in [CPUs -> Threads \cup {Idle}]

\* "must ensure not to do so before the operation is completed"
\* (dk_diskio_completion): whoever still uses the semaphore or the result on a
\* thread's stack - the drive, complete_sync or waitq_wake_one - the thread has
\* not returned from commonIO.
StackOutlivesRequest ==
    \A t \in Threads :
        \/ t \in pending
        \/ \E c \in CPUs : sync[c] = t
        \/ \E a \in Contexts : pc[a] = "wake" /\ arg[a] = Sync[t]
        => io[t] # "out" /\ ~(io[t] = "waiting" /\ pc[t] = "run")

\* A read that returns returns the result of its own request.
ResultStored ==
    \A t \in Threads : io[t] = "waiting" /\ pc[t] = "run" => result[t]

\* Why they hold.  The request is with the drive, or with the handler that has
\* stored its result and has not signalled.
InDrive(t) == t \in pending \/ \E c \in CPUs : sync[c] = t

\* A handler has signalled, and is about to take t off its wait queue.
BeingWoken(t) == \E c \in CPUs : pc[c] = "wake" /\ arg[c] = Sync[t]

\* The thread has submitted its request and not decremented the count yet, or has
\* decremented it and not been taken off the wait queue.
AboutToWait(t) == io[t] = "submitted" \/ pc[t] \in {"awaitcall", "await"}
Asleep(t)      == pc[t] = "locked" \/ t \in Range(waiters[Sync[t]])

AwaitPcs == {"awaitcall", "await", "locked", "parked", "resumed"}

\* Threads only wait, each on its own semaphore, handlers only signal, and no two
\* of them at a time for the same request.
SyncPlaces ==
    /\ \A t \in Threads :
           /\ pc[t] \in {"new", "run"} \cup AwaitPcs
           /\ pc[t] \in AwaitPcs => io[t] = "waiting" /\ arg[t] = Sync[t]
           /\ pc[t] = "new" => io[t] = "out"
    /\ \A c \in CPUs : sync[c] # Idle =>
           pc[c] = "intr" /\ sync[c] \notin pending /\ result[sync[c]]
    /\ \A c, d \in CPUs :
           /\ sync[c] # Idle /\ sync[c] = sync[d] => c = d
           /\ pc[c] = "wake" /\ pc[d] = "wake" /\ arg[c] = arg[d] => c = d

\* The one signal a request gets is still to come, is in the count, is under way
\* as a wake-up, or has ended the wait.
SignalAccounted(t) ==
    /\ AboutToWait(t) =>
           /\ ~BeingWoken(t)
           /\ IF InDrive(t) THEN count[Sync[t]] = 0 ELSE count[Sync[t]] = 1 /\ result[t]
    /\ Asleep(t) =>
           IF InDrive(t) THEN count[Sync[t]] = -1 /\ ~BeingWoken(t)
                         ELSE BeingWoken(t) /\ result[t]
    /\ ~AboutToWait(t) /\ ~Asleep(t) =>
           ~InDrive(t) /\ ~BeingWoken(t) /\ (io[t] = "waiting" => result[t])

SyncInv ==
    /\ SchedInv /\ WaitsOnArg /\ SyncTypeOK /\ SyncPlaces
    /\ \A t \in Threads : SignalAccounted(t)
=============================================================================
