---------------------------- MODULE SyncIOProofs ----------------------------
(***************************************************************************)
(* Proofs about SyncIO: the semaphore and the result on a thread's stack   *)
(* outlive every use that the drive and the interrupt handlers make of     *)
(* them, for any number of CPUs and threads.                               *)
(***************************************************************************)
EXTENDS SyncIO, SchedProofs

\* What the invariant says of types.
LEMMA SyncTypes ==
    ASSUME SyncInv
    PROVE  /\ pc \in [Contexts -> ThreadPcs \cup CpuPcs] /\ arg \in [Contexts -> Waitqs]
           /\ waiters \in [Waitqs -> Seq(Threads)] /\ wqlock \in [Waitqs -> BOOLEAN]
           /\ count \in [Waitqs -> Int]
           /\ io \in [Threads -> {"out", "submitted", "waiting"}]
           /\ pending \subseteq Threads /\ result \in [Threads -> BOOLEAN]
           /\ sync \in [CPUs -> Threads \cup {Idle}]
           /\ \A t \in Threads : t \in Contexts /\ t \notin CPUs /\ t # Idle /\ Sync[t] \in Waitqs
           /\ \A c \in CPUs : c \in Contexts
           /\ \A t, u \in Threads : Sync[t] = Sync[u] => t = u
<1>1. /\ \A t \in Threads : Sync[t] \in Waitqs
      /\ \A t, u \in Threads : Sync[t] = Sync[u] => t = u
  BY SyncAssumption DEF Injection, IsInjective
<1> QED  BY <1>1, SchedAssumption DEF SyncInv, SyncTypeOK, SemTypeOK, SchedTypeOK, Contexts

\* Nobody but t ever waits on the semaphore on t's stack.
LEMMA OwnQueue ==
    ASSUME SyncInv, NEW t \in Threads
    PROVE  /\ Range(waiters[Sync[t]]) \subseteq {t}
           /\ t \in Range(waiters[Sync[t]]) => pc[t] \in {"parked", "resumed"}
           /\ wqlock[Sync[t]] <=> pc[t] = "locked"
<1>1. ASSUME NEW u \in Range(waiters[Sync[t]])
      PROVE  u = t /\ pc[u] \in {"parked", "resumed"}
  <2>1. u \in Threads /\ pc[u] \in {"parked", "resumed"}
    BY <1>1, SyncTypes, QueuedParked DEF SyncInv
  <2>2. arg[u] = Sync[t]  BY <1>1, SyncTypes DEF SyncInv, WaitsOnArg
  <2>3. arg[u] = Sync[u]  BY <2>1 DEF SyncInv, SyncPlaces, AwaitPcs
  <2> QED  BY <2>1, <2>2, <2>3, SyncTypes
<1>2. wqlock[Sync[t]] => pc[t] = "locked"
  <2> SUFFICES ASSUME wqlock[Sync[t]] PROVE pc[t] = "locked"  OBVIOUS
  <2>1. PICK u \in Threads : pc[u] = "locked" /\ arg[u] = Sync[t]
    BY SyncTypes DEF SyncInv, SchedInv, WqLockInv
  <2>2. arg[u] = Sync[u]  BY <2>1 DEF SyncInv, SyncPlaces, AwaitPcs
  <2>3. u = t  BY <2>1, <2>2, SyncTypes
  <2> QED  BY <2>1, <2>3
<1>3. pc[t] = "locked" => wqlock[Sync[t]]
  <2> SUFFICES ASSUME pc[t] = "locked" PROVE wqlock[Sync[t]]  OBVIOUS
  <2>1. arg[t] = Sync[t]  BY DEF SyncInv, SyncPlaces, AwaitPcs
  <2> QED  BY <2>1, SyncTypes DEF SyncInv, SchedInv, WqLockInv
<1> QED  BY <1>1, <1>2, <1>3

\* commonIO initialises a semaphore that nobody uses: to the scheduler and the wait
\* queues it does nothing.
LEMMA InitNobodyUses ==
    ASSUME SyncInv, NEW t \in Threads, commonIO(t)
    PROVE  UNCHANGED schedVars
<1>1. pc[t] = "run" /\ waiters' = [waiters EXCEPT ![Sync[t]] = <<>>]
      /\ wqlock' = [wqlock EXCEPT ![Sync[t]] = FALSE]
  BY DEF commonIO, At
<1>2. t \notin Range(waiters[Sync[t]]) /\ wqlock[Sync[t]] = FALSE
  BY <1>1, OwnQueue, SyncTypes
<1>3. waiters[Sync[t]] = <<>>
  <2>1. Range(waiters[Sync[t]]) = {}  BY <1>2, OwnQueue
  <2>2. waiters[Sync[t]] \in Seq(Threads)  BY SyncTypes
  <2> SUFFICES ASSUME waiters[Sync[t]] # <<>> PROVE FALSE  OBVIOUS
  <2> QED  BY <2>1, <2>2, PopQueue
<1>4. waiters' = waiters /\ wqlock' = wqlock  BY <1>1, <1>2, <1>3, SyncTypes
<1> QED  BY <1>4 DEF commonIO, schedVars, wqVars

\* Synchronous I/O uses the scheduler and the wait queues as Sched allows.
LEMMA SyncStepIsSchedStep == SyncInv /\ [SyncNext]_allVars => [SchedNext]_schedVars
<1> SUFFICES ASSUME SyncInv, [SyncNext]_allVars PROVE [SchedNext]_schedVars  OBVIOUS
<1>1. \A t \in Threads : Sync[t] \in Waitqs  BY SyncTypes
<1>2. ASSUME NEW t \in Threads, ThreadRun(t) PROVE [SchedNext]_schedVars
  BY <1>1, <1>2 DEF ThreadRun, SemTake, SemBlock, IoWait, IoReturn, SchedNext, vars
<1>3. ASSUME NEW t \in Threads, commonIO(t) PROVE [SchedNext]_schedVars
  BY <1>3, InitNobodyUses
<1>4. ASSUME NEW c \in CPUs, CompleteSignal(c) PROVE [SchedNext]_schedVars
  <2>1. Sync[sync[c]] \in Waitqs /\ c \in Contexts  BY <1>4, SyncTypes DEF CompleteSignal
  <2> QED  BY <1>4, <2>1 DEF CompleteSignal, SemSignal, SchedNext
<1>5. ASSUME NEW c \in CPUs, Machine(c) \/ DriveIntr(c) \/ WakeStep(c)
      PROVE  [SchedNext]_schedVars
  BY <1>5 DEF Machine, DriveIntr, SchedNext, Contexts
<1>6. ASSUME NEW c \in CPUs, NEW t \in Threads, complete_sync(c, t) \/ ThreadStart(c, t)
      PROVE  [SchedNext]_schedVars
  BY <1>6 DEF complete_sync, SchedNext, vars
<1>7. CASE UNCHANGED allVars  BY <1>7 DEF allVars, vars
<1> QED  BY <1>2, <1>3, <1>4, <1>5, <1>6, <1>7 DEF SyncNext

\* The variables keep their types.
LEMMA SyncTypeNext ==
    ASSUME SyncInv, [SyncNext]_allVars, SchedTypeOK' PROVE SyncTypeOK'
<1>1. count' \in [Waitqs -> Int]
  <2>1. ASSUME NEW t \in Threads, ThreadRun(t) PROVE count' \in [Waitqs -> Int]
    BY <2>1, SyncTypes DEF ThreadRun, SemTake, SemBlock, IoWait, IoReturn, vars
  <2>2. ASSUME NEW t \in Threads, commonIO(t) PROVE count' \in [Waitqs -> Int]
    BY <2>2, SyncTypes DEF commonIO
  <2>3. ASSUME NEW c \in CPUs, Machine(c) \/ DriveIntr(c) \/ CompleteSignal(c)
        PROVE  count' \in [Waitqs -> Int]
    BY <2>3, SyncTypes DEF Machine, DriveIntr, CompleteSignal, SemSignal
  <2> QED  BY <2>1, <2>2, <2>3, SyncTypes DEF SyncNext, complete_sync, vars, allVars
<1>2. /\ io' \in [Threads -> {"out", "submitted", "waiting"}]
      /\ pending' \subseteq Threads /\ result' \in [Threads -> BOOLEAN]
      /\ sync' \in [CPUs -> Threads \cup {Idle}]
  <2>1. ASSUME NEW t \in Threads, ThreadRun(t) \/ commonIO(t)
        PROVE  /\ io' \in [Threads -> {"out", "submitted", "waiting"}]
               /\ pending' \subseteq Threads /\ result' \in [Threads -> BOOLEAN]
               /\ sync' \in [CPUs -> Threads \cup {Idle}]
    BY <2>1, SyncTypes DEF ThreadRun, commonIO, IoWait, IoReturn, ioVars
  <2>2. ASSUME NEW c \in CPUs, Machine(c) \/ DriveIntr(c) \/ CompleteSignal(c)
        PROVE  /\ io' \in [Threads -> {"out", "submitted", "waiting"}]
               /\ pending' \subseteq Threads /\ result' \in [Threads -> BOOLEAN]
               /\ sync' \in [CPUs -> Threads \cup {Idle}]
    BY <2>2, SyncTypes DEF Machine, DriveIntr, CompleteSignal, ioVars
  <2>3. ASSUME NEW c \in CPUs, NEW t \in Threads, complete_sync(c, t)
        PROVE  /\ io' \in [Threads -> {"out", "submitted", "waiting"}]
               /\ pending' \subseteq Threads /\ result' \in [Threads -> BOOLEAN]
               /\ sync' \in [CPUs -> Threads \cup {Idle}]
    BY <2>3, SyncTypes DEF complete_sync
  <2>4. CASE UNCHANGED ioVars  BY <2>4, SyncTypes DEF ioVars
  <2> QED  BY <2>1, <2>2, <2>3, <2>4 DEF SyncNext, ioVars, allVars
<1> QED  BY <1>1, <1>2 DEF SyncTypeOK, SemTypeOK
------------------------------------------------------------------------------
\* The invariant, step by step.

\* A thread whose request and semaphore the step leaves alone.
LEMMA AccountKept ==
    ASSUME NEW u, SignalAccounted(u),
           InDrive(u)' <=> InDrive(u), BeingWoken(u)' <=> BeingWoken(u),
           AboutToWait(u)' <=> AboutToWait(u), Asleep(u)' <=> Asleep(u),
           count'[Sync[u]] = count[Sync[u]], result'[u] = result[u], io'[u] = io[u]
    PROVE  SignalAccounted(u)'
BY DEF SignalAccounted

\* A step on which nothing depends.
LEMMA SyncMoves ==
    ASSUME SyncInv, UNCHANGED <<waiters, arg, count, ioVars>>,
           \A t \in Threads :
               /\ pc'[t] \in {"new", "run"} \cup AwaitPcs
               /\ pc'[t] \in AwaitPcs => pc[t] \in AwaitPcs
               /\ pc'[t] = "new" => pc[t] = "new"
               /\ pc'[t] \in {"awaitcall", "await"} <=> pc[t] \in {"awaitcall", "await"}
               /\ pc'[t] = "locked" <=> pc[t] = "locked",
           \A c \in CPUs : /\ pc'[c] = "wake" <=> pc[c] = "wake"
                           /\ sync[c] # Idle => pc'[c] = pc[c]
    PROVE  SyncPlaces' /\ \A t \in Threads : SignalAccounted(t)'
<1>1. UNCHANGED <<io, pending, result, sync>>  BY DEF ioVars
<1>2. SyncPlaces'  BY <1>1 DEF SyncInv, SyncPlaces
<1>3. ASSUME NEW t \in Threads PROVE SignalAccounted(t)'
  <2>1. /\ InDrive(t)' <=> InDrive(t)
        /\ BeingWoken(t)' <=> BeingWoken(t)
        /\ AboutToWait(t)' <=> AboutToWait(t)
        /\ Asleep(t)' <=> Asleep(t)
    BY <1>1 DEF InDrive, BeingWoken, AboutToWait, Asleep
  <2>2. SignalAccounted(t)  BY DEF SyncInv
  <2> QED  BY <1>1, <2>1, <2>2, AccountKept
<1> QED  BY <1>2, <1>3

\* Steps that touch neither a frame nor a semaphore keep SyncInv.
LEMMA SyncQuiet ==
    ASSUME SyncInv, NEW a \in Contexts, QuietStep(a), UNCHANGED <<count, ioVars>>,
           a \in CPUs /\ pc[a] = "intr" => sync[a] = Idle
    PROVE  SyncPlaces' /\ \A t \in Threads : SignalAccounted(t)'
<1>1. UNCHANGED <<waiters, wqlock, arg>>  BY QuietEffect DEF SyncInv
<1>2. PICK l : pc' = [pc EXCEPT ![a] = l] /\ QuietEdge(a, l)  BY QuietEffect DEF SyncInv
<1>3. \A b \in Contexts : pc'[b] = IF b = a THEN l ELSE pc[b]  BY <1>2, SyncTypes
<1>4. \A t \in Threads : pc[t] \in {"new", "run"} \cup AwaitPcs  BY DEF SyncInv, SyncPlaces
<1>5. ASSUME NEW t \in Threads
      PROVE  /\ pc'[t] \in {"new", "run"} \cup AwaitPcs
             /\ pc'[t] \in AwaitPcs => pc[t] \in AwaitPcs
             /\ pc'[t] = "new" => pc[t] = "new"
             /\ pc'[t] \in {"awaitcall", "await"} <=> pc[t] \in {"awaitcall", "await"}
             /\ pc'[t] = "locked" <=> pc[t] = "locked"
  <2>1. CASE t = a
    <3>1. pc'[t] = l /\ t \notin CPUs /\ pc[t] \in {"new", "run"} \cup AwaitPcs
      BY <1>3, <1>4, <2>1, SyncTypes
    <3>2. \/ pc[t] = "awaitcall" /\ l = "await"
          \/ pc[t] = "parked" /\ l = "resumed"
          \/ pc[t] = "resumed" /\ l = "run"
          \/ pc[t] \in {"wakecall", "yield", "took"}
      BY <1>2, <2>1, <3>1 DEF QuietEdge
    <3>3. pc[t] \notin {"wakecall", "yield", "took"}  BY <3>1 DEF AwaitPcs
    <3> QED  BY <3>1, <3>2, <3>3 DEF AwaitPcs
  <2>2. CASE t # a
    <3>1. pc'[t] = pc[t]  BY <1>3, <2>2, SyncTypes
    <3> QED  BY <1>4, <3>1
  <2> QED  BY <2>1, <2>2
<1>6. ASSUME NEW c \in CPUs
      PROVE  /\ pc'[c] = "wake" <=> pc[c] = "wake"
             /\ sync[c] # Idle => pc'[c] = pc[c]
  <2>1. CASE c = a
    <3>1. pc'[c] = l  BY <1>3, <2>1
    <3>2. l # "wake" /\ pc[c] # "wake"  BY <1>2, <2>1 DEF QuietEdge
    <3>3. sync[c] # Idle => pc[c] = "intr"  BY DEF SyncInv, SyncPlaces
    <3> QED  BY <2>1, <3>1, <3>2, <3>3
  <2>2. CASE c # a
    <3>1. pc'[c] = pc[c]  BY <1>3, <2>2, SyncTypes
    <3> QED  BY <3>1
  <2> QED  BY <2>1, <2>2
<1> QED  BY <1>1, <1>5, <1>6, SyncMoves

\* A new thread runs.
LEMMA SyncStart ==
    ASSUME SyncInv, NEW c \in CPUs, NEW t \in Threads, ThreadStart(c, t),
           UNCHANGED <<count, ioVars>>
    PROVE  SyncPlaces' /\ \A u \in Threads : SignalAccounted(u)'
<1>1. /\ pc[t] = "new" /\ pc[c] = "none" /\ UNCHANGED <<waiters, arg>>
      /\ pc' = [pc EXCEPT ![t] = "run",
                          ![c] = IF CpuOf[t] = c THEN "resched" ELSE @]
  BY DEF ThreadStart, IntrEnabled, wqVars
<1>2. \A u \in Threads : pc'[u] = IF u = t THEN "run" ELSE pc[u]  BY <1>1, SyncTypes
<1>3. \A d \in CPUs : d # c => pc'[d] = pc[d]  BY <1>1, SyncTypes
<1>4. pc'[c] # "wake"  BY <1>1, SyncTypes
<1>5. sync[c] = Idle  BY <1>1 DEF SyncInv, SyncPlaces
<1>6. \A u \in Threads : pc[u] \in {"new", "run"} \cup AwaitPcs  BY DEF SyncInv, SyncPlaces
<1>7. ASSUME NEW u \in Threads
      PROVE  /\ pc'[u] \in {"new", "run"} \cup AwaitPcs
             /\ pc'[u] \in AwaitPcs => pc[u] \in AwaitPcs
             /\ pc'[u] = "new" => pc[u] = "new"
             /\ pc'[u] \in {"awaitcall", "await"} <=> pc[u] \in {"awaitcall", "await"}
             /\ pc'[u] = "locked" <=> pc[u] = "locked"
  <2>1. CASE u = t
    <3>1. pc'[u] = "run" /\ pc[u] = "new"  BY <1>1, <1>2, <2>1
    <3> QED  BY <3>1 DEF AwaitPcs
  <2>2. CASE u # t
    <3>1. pc'[u] = pc[u]  BY <1>2, <2>2
    <3> QED  BY <1>6, <3>1
  <2> QED  BY <2>1, <2>2
<1>8. \A d \in CPUs : /\ pc'[d] = "wake" <=> pc[d] = "wake"
                      /\ sync[d] # Idle => pc'[d] = pc[d]
  BY <1>1, <1>3, <1>4, <1>5
<1> QED  BY <1>1, <1>7, <1>8, SyncMoves

\* The step of one thread: what it means for the handlers and the other threads.
LEMMA SyncThread ==
    ASSUME SyncInv, NEW t \in Threads, NEW l \in {"run"} \cup AwaitPcs,
           pc' = [pc EXCEPT ![t] = l], UNCHANGED sync, pending' \subseteq pending \cup {t},
           l \in AwaitPcs => io'[t] = "waiting" /\ arg'[t] = Sync[t],
           \A b \in Contexts : b # t => arg'[b] = arg[b],
           \A u \in Threads : u # t =>
               /\ u \in pending <=> u \in pending'
               /\ result'[u] = result[u] /\ io'[u] = io[u]
               /\ count'[Sync[u]] = count[Sync[u]] /\ waiters'[Sync[u]] = waiters[Sync[u]],
           result'[t] = result[t] \/ ~InDrive(t), pending' = pending \/ ~InDrive(t)
    PROVE  /\ SyncPlaces'
           /\ \A u \in Threads : u # t => SignalAccounted(u)'
           /\ BeingWoken(t)' <=> BeingWoken(t)
<1>1. \A b \in Contexts : pc'[b] = IF b = t THEN l ELSE pc[b]  BY SyncTypes
<1>2. \A c \in CPUs : c # t /\ c \in Contexts /\ pc'[c] = pc[c] /\ arg'[c] = arg[c]
  BY <1>1, SyncTypes
<1>3. ASSUME NEW u \in Threads, u # t PROVE pc'[u] = pc[u] /\ arg'[u] = arg[u]
  BY <1>1, <1>3, SyncTypes
<1>4. pc'[t] = l  BY <1>1, SyncTypes
<1>5. ASSUME NEW u \in Threads PROVE BeingWoken(u)' <=> BeingWoken(u)
  BY <1>2 DEF BeingWoken
<1>6. ASSUME NEW u \in Threads, u # t PROVE SignalAccounted(u)'
  <2>1. /\ InDrive(u)' <=> InDrive(u)
        /\ AboutToWait(u)' <=> AboutToWait(u)
        /\ Asleep(u)' <=> Asleep(u)
    BY <1>3, <1>6 DEF InDrive, AboutToWait, Asleep
  <2>2. SignalAccounted(u)  BY DEF SyncInv
  <2> QED  BY <1>5, <1>6, <2>1, <2>2, AccountKept
<1>7. ASSUME NEW u \in Threads
      PROVE  /\ pc'[u] \in {"new", "run"} \cup AwaitPcs
             /\ pc'[u] \in AwaitPcs => io'[u] = "waiting" /\ arg'[u] = Sync[u]
             /\ pc'[u] = "new" => io'[u] = "out"
  <2>1. CASE u = t  BY <1>4, <2>1 DEF AwaitPcs
  <2>2. CASE u # t  BY <1>3, <2>2 DEF SyncInv, SyncPlaces
  <2> QED  BY <2>1, <2>2
<1>8. ASSUME NEW c \in CPUs, sync'[c] # Idle
      PROVE  pc'[c] = "intr" /\ sync'[c] \notin pending' /\ result'[sync'[c]]
  <2>1. /\ sync[c] \in Threads /\ pc[c] = "intr" /\ sync[c] \notin pending /\ result[sync[c]]
    BY <1>8, SyncTypes DEF SyncInv, SyncPlaces
  <2>2. sync[c] = t => InDrive(t)  BY DEF InDrive
  <2> QED  BY <1>2, <2>1, <2>2
<1>9. \A c, d \in CPUs :
          /\ sync'[c] # Idle /\ sync'[c] = sync'[d] => c = d
          /\ pc'[c] = "wake" /\ pc'[d] = "wake" /\ arg'[c] = arg'[d] => c = d
  BY <1>2 DEF SyncInv, SyncPlaces
<1> QED  BY <1>5, <1>6, <1>7, <1>8, <1>9 DEF SyncPlaces

\* commonIO submits a request.
LEMMA SyncSubmit ==
    ASSUME SyncInv, NEW t \in Threads, commonIO(t)
    PROVE  SyncPlaces' /\ \A u \in Threads : SignalAccounted(u)'
<1>1. /\ pc[t] = "run" /\ io[t] = "out" /\ io' = [io EXCEPT ![t] = "submitted"]
      /\ result' = [result EXCEPT ![t] = FALSE] /\ count' = [count EXCEPT ![Sync[t]] = 0]
      /\ pending' = pending \cup {t} /\ UNCHANGED sync
  BY DEF commonIO, At
<1>2. UNCHANGED <<pc, arg, waiters>>  BY InitNobodyUses DEF schedVars, wqVars, ctxVars
<1>3. ~AboutToWait(t) /\ ~Asleep(t)  BY <1>1, OwnQueue DEF AboutToWait, Asleep
<1>4. ~InDrive(t) /\ ~BeingWoken(t)  BY <1>3 DEF SyncInv, SignalAccounted
<1>5. pc' = [pc EXCEPT ![t] = "run"]  BY <1>1, <1>2, SyncTypes
<1>6. \A u \in Threads : u # t => /\ result'[u] = result[u] /\ io'[u] = io[u]
                                  /\ count'[Sync[u]] = count[Sync[u]]
  BY <1>1, SyncTypes
<1>7. /\ SyncPlaces' /\ \A u \in Threads : u # t => SignalAccounted(u)'
      /\ BeingWoken(t)' <=> BeingWoken(t)
  BY <1>1, <1>2, <1>4, <1>5, <1>6, SyncThread DEF AwaitPcs
<1>8. InDrive(t)' /\ ~Asleep(t)' /\ count'[Sync[t]] = 0 /\ ~BeingWoken(t)' /\ AboutToWait(t)'
  <2>1. count'[Sync[t]] = 0 /\ io'[t] = "submitted"  BY <1>1, SyncTypes
  <2> QED  BY <1>1, <1>2, <1>3, <1>4, <1>7, <2>1 DEF InDrive, AboutToWait, Asleep
<1>9. SignalAccounted(t)'  BY <1>8 DEF SignalAccounted
<1> QED  BY <1>7, <1>9

\* It calls semaphore_wait.
LEMMA SyncWait ==
    ASSUME SyncInv, NEW t \in Threads, IoWait(t)
    PROVE  SyncPlaces' /\ \A u \in Threads : SignalAccounted(u)'
<1>1. /\ pc[t] = "run" /\ io[t] = "submitted" /\ io' = [io EXCEPT ![t] = "waiting"]
      /\ pc' = [pc EXCEPT ![t] = "awaitcall"] /\ arg' = [arg EXCEPT ![t] = Sync[t]]
      /\ UNCHANGED <<count, pending, result, sync, waiters>>
  BY DEF IoWait, AwaitCall, At, Goto, wqVars
<1>2. /\ \A u \in Threads : io'[u] = IF u = t THEN "waiting" ELSE io[u]
      /\ \A b \in Contexts : arg'[b] = IF b = t THEN Sync[t] ELSE arg[b]
      /\ pc'[t] = "awaitcall" /\ t \in Contexts
  BY <1>1, SyncTypes
<1>3. /\ SyncPlaces' /\ \A u \in Threads : u # t => SignalAccounted(u)'
      /\ BeingWoken(t)' <=> BeingWoken(t)
  BY <1>1, <1>2, SyncThread DEF AwaitPcs
<1>4. AboutToWait(t) /\ ~Asleep(t)  BY <1>1, OwnQueue DEF AboutToWait, Asleep
<1>5. AboutToWait(t)' /\ ~Asleep(t)' /\ (InDrive(t)' <=> InDrive(t))
  BY <1>1, <1>2, <1>4 DEF AboutToWait, Asleep, InDrive
<1>6. SignalAccounted(t)'  BY <1>1, <1>3, <1>4, <1>5 DEF SyncInv, SignalAccounted
<1> QED  BY <1>3, <1>6

\* It returns.
LEMMA SyncReturn ==
    ASSUME SyncInv, NEW t \in Threads, IoReturn(t)
    PROVE  SyncPlaces' /\ \A u \in Threads : SignalAccounted(u)'
<1>1. /\ pc[t] = "run" /\ io[t] = "waiting" /\ io' = [io EXCEPT ![t] = "out"]
      /\ UNCHANGED <<pc, arg, count, pending, result, sync, waiters>>
  BY DEF IoReturn, At, vars, schedVars, wqVars, ctxVars
<1>2. \A u \in Threads : io'[u] = IF u = t THEN "out" ELSE io[u]  BY <1>1, SyncTypes
<1>3. pc' = [pc EXCEPT ![t] = "run"]  BY <1>1, SyncTypes
<1>4. /\ SyncPlaces' /\ \A u \in Threads : u # t => SignalAccounted(u)'
      /\ BeingWoken(t)' <=> BeingWoken(t)
  BY <1>1, <1>2, <1>3, SyncThread DEF AwaitPcs
<1>5. ~AboutToWait(t) /\ ~Asleep(t)  BY <1>1, OwnQueue DEF AboutToWait, Asleep
<1>6. ~AboutToWait(t)' /\ ~Asleep(t)' /\ (InDrive(t)' <=> InDrive(t)) /\ io'[t] = "out"
  BY <1>1, <1>2, <1>5 DEF AboutToWait, Asleep, InDrive
<1>7. SignalAccounted(t)'  BY <1>4, <1>5, <1>6 DEF SyncInv, SignalAccounted
<1> QED  BY <1>4, <1>7

\* semaphore_wait finds that the signal has come, ...
LEMMA SyncTake ==
    ASSUME SyncInv, NEW t \in Threads, SemTake(t), UNCHANGED ioVars
    PROVE  SyncPlaces' /\ \A u \in Threads : SignalAccounted(u)'
<1>1. arg[t] = Sync[t] /\ pc[t] = "await" /\ io[t] = "waiting"
  BY DEF SemTake, AwaitNotNeeded, At, SyncInv, SyncPlaces, AwaitPcs
<1>2. /\ pc' = [pc EXCEPT ![t] = "run"] /\ UNCHANGED <<arg, waiters, io, pending, result, sync>>
      /\ count[Sync[t]] - 1 >= 0 /\ count' = [count EXCEPT ![Sync[t]] = count[Sync[t]] - 1]
  BY <1>1 DEF SemTake, AwaitNotNeeded, Goto, wqVars, ioVars
<1>3. \A u \in Threads : u # t => count'[Sync[u]] = count[Sync[u]]  BY <1>2, SyncTypes
<1>4. /\ SyncPlaces' /\ \A u \in Threads : u # t => SignalAccounted(u)'
      /\ BeingWoken(t)' <=> BeingWoken(t)
  BY <1>2, <1>3, SyncThread DEF AwaitPcs
<1>5. AboutToWait(t) /\ ~Asleep(t)  BY <1>1, OwnQueue DEF AboutToWait, Asleep
<1>6. ~BeingWoken(t) /\ ~InDrive(t) /\ result[t]
  BY <1>2, <1>5 DEF SyncInv, SignalAccounted
<1>7. pc'[t] = "run"  BY <1>2, SyncTypes
<1>8. ~AboutToWait(t)' /\ ~Asleep(t)' /\ ~InDrive(t)'
  BY <1>1, <1>2, <1>5, <1>6, <1>7 DEF AboutToWait, Asleep, InDrive
<1>9. SignalAccounted(t)'  BY <1>2, <1>4, <1>6, <1>8 DEF SignalAccounted
<1> QED  BY <1>4, <1>9

\* ... or that it has not.
LEMMA SyncBlock ==
    ASSUME SyncInv, NEW t \in Threads, SemBlock(t), UNCHANGED ioVars
    PROVE  SyncPlaces' /\ \A u \in Threads : SignalAccounted(u)'
<1>1. arg[t] = Sync[t] /\ pc[t] = "await" /\ io[t] = "waiting"
  BY DEF SemBlock, AwaitLockWq, At, SyncInv, SyncPlaces, AwaitPcs
<1>2. /\ pc' = [pc EXCEPT ![t] = "locked"] /\ UNCHANGED <<arg, waiters, io, pending, result, sync>>
      /\ count[Sync[t]] - 1 < 0 /\ count' = [count EXCEPT ![Sync[t]] = count[Sync[t]] - 1]
  BY <1>1 DEF SemBlock, AwaitLockWq, Goto, ioVars
<1>3. \A u \in Threads : u # t => count'[Sync[u]] = count[Sync[u]]  BY <1>2, SyncTypes
<1>4. /\ SyncPlaces' /\ \A u \in Threads : u # t => SignalAccounted(u)'
      /\ BeingWoken(t)' <=> BeingWoken(t)
  BY <1>1, <1>2, <1>3, SyncThread DEF AwaitPcs
<1>5. AboutToWait(t)  BY <1>1 DEF AboutToWait
<1>6. ~BeingWoken(t) /\ InDrive(t) /\ count[Sync[t]] = 0
  BY <1>2, <1>5 DEF SyncInv, SignalAccounted
<1>7. pc'[t] = "locked" /\ count'[Sync[t]] = -1  BY <1>2, <1>6, SyncTypes
<1>8. ~AboutToWait(t)' /\ Asleep(t)' /\ InDrive(t)'
  BY <1>1, <1>2, <1>6, <1>7 DEF AboutToWait, Asleep, InDrive
<1>9. SignalAccounted(t)'  BY <1>4, <1>6, <1>7, <1>8 DEF SignalAccounted
<1> QED  BY <1>4, <1>9

\* The thread joins the wait queue.
LEMMA SyncEnqueue ==
    ASSUME SyncInv, NEW t \in Threads, AwaitEnqueue(t), UNCHANGED <<count, ioVars>>
    PROVE  SyncPlaces' /\ \A u \in Threads : SignalAccounted(u)'
<1>1. arg[t] = Sync[t] /\ pc[t] = "locked" /\ io[t] = "waiting"
  BY DEF AwaitEnqueue, At, SyncInv, SyncPlaces, AwaitPcs
<1>2. /\ pc' = [pc EXCEPT ![t] = "parked"] /\ UNCHANGED <<arg, count, io, pending, result, sync>>
      /\ waiters' = [waiters EXCEPT ![Sync[t]] = Append(waiters[Sync[t]], t)]
  BY <1>1 DEF AwaitEnqueue, Goto, ioVars
<1>3. \A u \in Threads : u # t => waiters'[Sync[u]] = waiters[Sync[u]]  BY <1>2, SyncTypes
<1>4. /\ SyncPlaces' /\ \A u \in Threads : u # t => SignalAccounted(u)'
      /\ BeingWoken(t)' <=> BeingWoken(t)
  BY <1>1, <1>2, <1>3, SyncThread DEF AwaitPcs
<1>5. t \in Range(waiters'[Sync[t]])
  <2>1. waiters'[Sync[t]] = Append(waiters[Sync[t]], t) /\ waiters[Sync[t]] \in Seq(Threads)
    BY <1>2, SyncTypes
  <2> QED  BY <2>1, AppendQueue
<1>6. pc'[t] = "parked"  BY <1>2, SyncTypes
<1>7. Asleep(t) /\ Asleep(t)' /\ ~AboutToWait(t)' /\ (InDrive(t)' <=> InDrive(t))
  BY <1>1, <1>2, <1>5, <1>6 DEF Asleep, AboutToWait, InDrive
<1>8. SignalAccounted(t)'  BY <1>2, <1>4, <1>7 DEF SyncInv, SignalAccounted
<1> QED  BY <1>4, <1>8

\* waitq_wake_one takes the thread off the queue: its wait is over.
LEMMA SyncWake ==
    ASSUME SyncInv, NEW c \in CPUs, WakeRemove(c), UNCHANGED <<count, ioVars>>
    PROVE  SyncPlaces' /\ \A u \in Threads : SignalAccounted(u)'
<1>q. PICK q \in Waitqs : q = arg[c]  BY SyncTypes
<1>1. /\ pc[c] = "wake" /\ pc' = [pc EXCEPT ![c] = "took"] /\ waiters[q] # <<>>
      /\ waiters' = [waiters EXCEPT ![q] = Tail(waiters[q])]
      /\ UNCHANGED <<arg, count, io, pending, result, sync>>
  BY <1>q DEF WakeRemove, At, Goto, ioVars
<1>2. waiters[q] \in Seq(Threads) /\ c \in Contexts  BY SyncTypes
<1>h. PICK h \in Threads : h = Head(waiters[q])  BY <1>1, <1>2, PopQueue
<1>3. h \in Range(waiters[q]) /\ h \notin Range(Tail(waiters[q]))
  BY <1>1, <1>2, <1>h, PopQueue DEF SyncInv, SchedInv, LinkedOnce
<1>4. h \in Threads /\ pc[h] \in {"parked", "resumed"} /\ arg[h] = q
  BY <1>2, <1>3, QueuedParked DEF SyncInv, WaitsOnArg
<1>5. q = Sync[h]  BY <1>4 DEF SyncInv, SyncPlaces, AwaitPcs
<1>6. BeingWoken(h) /\ Asleep(h)  BY <1>q, <1>1, <1>3, <1>5 DEF BeingWoken, Asleep
<1>7. ~InDrive(h) /\ result[h]  BY <1>4, <1>6 DEF SyncInv, SignalAccounted
<1>8. \A b \in Contexts : pc'[b] = IF b = c THEN "took" ELSE pc[b]  BY <1>1, SyncTypes
<1>9. \A t \in Threads : pc'[t] = pc[t]  BY <1>8, SyncTypes
<1>10. \A d \in CPUs : pc'[d] = IF d = c THEN "took" ELSE pc[d]  BY <1>8, SyncTypes
<1>11. SyncPlaces'
  <2>1. sync[c] = Idle  BY <1>1 DEF SyncInv, SyncPlaces
  <2>2. \A d \in CPUs : sync[d] # Idle => pc'[d] = pc[d]  BY <1>10, <2>1
  <2>3. \A d \in CPUs : pc'[d] = "wake" => pc[d] = "wake"  BY <1>10
  <2> QED  BY <1>1, <1>9, <2>2, <2>3 DEF SyncInv, SyncPlaces
<1>12. ASSUME NEW u \in Threads, u # h PROVE SignalAccounted(u)'
  <2>1. Sync[u] # q /\ Sync[u] \in Waitqs  BY <1>4, <1>5, <1>12, SyncTypes
  <2>2. waiters'[Sync[u]] = waiters[Sync[u]]  BY <1>1, <2>1, SyncTypes
  <2>3. /\ InDrive(u)' <=> InDrive(u)
        /\ AboutToWait(u)' <=> AboutToWait(u)
        /\ Asleep(u)' <=> Asleep(u)
    BY <1>1, <1>9, <2>2 DEF InDrive, AboutToWait, Asleep
  <2>4. BeingWoken(u)' <=> BeingWoken(u)  BY <1>q, <1>1, <1>10, <2>1 DEF BeingWoken
  <2>5. SignalAccounted(u)  BY DEF SyncInv
  <2> QED  BY <1>1, <2>3, <2>4, <2>5, AccountKept
<1>13. SignalAccounted(h)'
  <2>1. waiters'[Sync[h]] = Tail(waiters[q])  BY <1>1, <1>2, <1>5, SyncTypes
  <2>2. ~Asleep(h)'  BY <1>3, <1>4, <1>9, <2>1 DEF Asleep
  <2>3. io[h] = "waiting"  BY <1>4 DEF SyncInv, SyncPlaces, AwaitPcs
  <2>4. ~AboutToWait(h)'  BY <1>1, <1>4, <1>9, <2>3 DEF AboutToWait
  <2>5. ~InDrive(h)'  BY <1>1, <1>7 DEF InDrive
  <2>6. ~BeingWoken(h)'
    <3>1. \A d \in CPUs : pc[d] = "wake" /\ arg[d] = q => d = c
      BY <1>q, <1>1 DEF SyncInv, SyncPlaces
    <3> QED  BY <1>1, <1>5, <1>10, <3>1 DEF BeingWoken
  <2> QED  BY <1>1, <1>7, <2>2, <2>4, <2>5, <2>6 DEF SignalAccounted
<1> QED  BY <1>4, <1>11, <1>12, <1>13

\* It never finds the queue of a semaphore on a stack empty.
LEMMA SyncNobody ==
    ASSUME SyncInv, NEW c \in CPUs, WakeNobody(c), UNCHANGED <<count, ioVars>>
    PROVE  SyncPlaces' /\ \A u \in Threads : SignalAccounted(u)'
<1>1. /\ pc[c] = "wake" /\ pc' = [pc EXCEPT ![c] = "intr"] /\ waiters[arg[c]] = <<>>
      /\ ~wqlock[arg[c]] /\ UNCHANGED <<waiters, arg, count, io, pending, result, sync>>
  BY DEF WakeNobody, At, Goto, Home, ioVars, wqVars
<1>2. ASSUME NEW u \in Threads, arg[c] = Sync[u] PROVE FALSE
  <2>1. BeingWoken(u)  BY <1>1, <1>2 DEF BeingWoken
  <2>2. Asleep(u)  BY <2>1 DEF SyncInv, SignalAccounted
  <2>3. u \notin Range(waiters[Sync[u]])  BY <1>1, <1>2, EmptyQueue
  <2>4. pc[u] # "locked"  BY <1>1, <1>2, OwnQueue
  <2> QED  BY <2>2, <2>3, <2>4 DEF Asleep
<1>3. \A b \in Contexts : pc'[b] = IF b = c THEN "intr" ELSE pc[b]  BY <1>1, SyncTypes
<1>4. \A t \in Threads : pc'[t] = pc[t]  BY <1>3, SyncTypes
<1>5. \A d \in CPUs : pc'[d] = IF d = c THEN "intr" ELSE pc[d]  BY <1>3, SyncTypes
<1>6. SyncPlaces'
  <2>1. \A d \in CPUs : pc[d] = "intr" => pc'[d] = "intr"  BY <1>5
  <2>2. \A d \in CPUs : pc'[d] = "wake" => pc[d] = "wake"  BY <1>5
  <2> QED  BY <1>1, <1>4, <2>1, <2>2 DEF SyncInv, SyncPlaces
<1>7. ASSUME NEW u \in Threads PROVE SignalAccounted(u)'
  <2>1. /\ InDrive(u)' <=> InDrive(u)
        /\ AboutToWait(u)' <=> AboutToWait(u)
        /\ Asleep(u)' <=> Asleep(u)
    BY <1>1, <1>4 DEF InDrive, AboutToWait, Asleep
  <2>2. BeingWoken(u)' <=> BeingWoken(u)  BY <1>1, <1>2, <1>5 DEF BeingWoken
  <2>3. SignalAccounted(u)  BY DEF SyncInv
  <2> QED  BY <1>1, <2>1, <2>2, <2>3, AccountKept
<1> QED  BY <1>6, <1>7

\* The handler stores the result.
LEMMA SyncStore ==
    ASSUME SyncInv, NEW c \in CPUs, NEW t \in Threads, complete_sync(c, t)
    PROVE  SyncPlaces' /\ \A u \in Threads : SignalAccounted(u)'
<1>1. /\ pc[c] = "intr" /\ sync[c] = Idle /\ t \in pending /\ pending' = pending \ {t}
      /\ result' = [result EXCEPT ![t] = TRUE] /\ sync' = [sync EXCEPT ![c] = t]
      /\ UNCHANGED <<pc, arg, waiters, count, io>>
  BY DEF complete_sync, At, vars, schedVars, wqVars, ctxVars
<1>2. /\ \A d \in CPUs : sync'[d] = IF d = c THEN t ELSE sync[d]
      /\ \A u \in Threads : result'[u] = IF u = t THEN TRUE ELSE result[u]
  BY <1>1, SyncTypes
<1>3. \A d \in CPUs : sync[d] # t  BY <1>1, SyncTypes DEF SyncInv, SyncPlaces
<1>4. t # Idle  BY SyncTypes
<1>5. SyncPlaces'
  <2>1. ASSUME NEW d \in CPUs, sync'[d] # Idle
        PROVE  pc'[d] = "intr" /\ sync'[d] \notin pending' /\ result'[sync'[d]]
    <3>1. CASE d = c
      <4>1. sync'[d] = t /\ result'[t] = TRUE  BY <1>2, <3>1
      <4> QED  BY <1>1, <3>1, <4>1
    <3>2. CASE d # c
      <4>1. sync[d] \in Threads /\ pc[d] = "intr" /\ sync[d] \notin pending /\ result[sync[d]]
        BY <1>2, <2>1, <3>2, SyncTypes DEF SyncInv, SyncPlaces
      <4> QED  BY <1>1, <1>2, <3>2, <4>1
    <3> QED  BY <3>1, <3>2
  <2>2. \A d, e \in CPUs : sync'[d] # Idle /\ sync'[d] = sync'[e] => d = e
    BY <1>2, <1>3, <1>4 DEF SyncInv, SyncPlaces
  <2> QED  BY <1>1, <2>1, <2>2 DEF SyncInv, SyncPlaces
<1>6. ASSUME NEW u \in Threads PROVE SignalAccounted(u)'
  <2>1. InDrive(u)' <=> InDrive(u)
    <3>1. CASE u = t  BY <1>1, <1>2, <3>1 DEF InDrive
    <3>2. CASE u # t
      <4>1. \A d \in CPUs : sync'[d] = u <=> sync[d] = u  BY <1>1, <1>2, <3>2, SyncTypes
      <4> QED  BY <1>1, <3>2, <4>1 DEF InDrive
    <3> QED  BY <3>1, <3>2
  <2>2. /\ BeingWoken(u)' <=> BeingWoken(u)
        /\ AboutToWait(u)' <=> AboutToWait(u)
        /\ Asleep(u)' <=> Asleep(u)
    BY <1>1 DEF BeingWoken, AboutToWait, Asleep
  <2>3. result[u] => result'[u]  BY <1>2
  <2>4. SignalAccounted(u)  BY DEF SyncInv
  <2> QED  BY <1>1, <2>1, <2>2, <2>3, <2>4 DEF SignalAccounted
<1> QED  BY <1>5, <1>6

\* The handler signals: the count says so, or the thread is woken.
LEMMA SyncSignal ==
    ASSUME SyncInv, NEW c \in CPUs, CompleteSignal(c)
    PROVE  SyncPlaces' /\ \A u \in Threads : SignalAccounted(u)'
<1>t. PICK t \in Threads : t = sync[c]  BY SyncTypes DEF CompleteSignal
<1>s. PICK s \in Waitqs : s = Sync[t]  BY SyncTypes
<1>1. /\ t # Idle /\ pc[c] = "intr" /\ count' = [count EXCEPT ![s] = count[s] + 1]
      /\ sync' = [sync EXCEPT ![c] = Idle] /\ UNCHANGED <<io, pending, result, waiters>>
      /\ IF count[s] + 1 <= 0 THEN WakeCall(c, s) ELSE UNCHANGED schedVars
  BY <1>t, <1>s DEF CompleteSignal, SemSignal, At, Home, WakeCall, wqVars, schedVars
<1>2. t \notin pending /\ result[t] /\ c \in Contexts
  BY <1>t, <1>1, SyncTypes DEF SyncInv, SyncPlaces
<1>3. \A d \in CPUs : d # c => sync[d] # t  BY <1>t, <1>1 DEF SyncInv, SyncPlaces
<1>4. InDrive(t)  BY <1>t DEF InDrive
<1>5. \/ AboutToWait(t) /\ ~Asleep(t) /\ count[s] = 0 /\ ~BeingWoken(t)
      \/ Asleep(t) /\ ~AboutToWait(t) /\ count[s] = -1 /\ ~BeingWoken(t)
  BY <1>s, <1>4 DEF SyncInv, SignalAccounted
<1>6. /\ \A d \in CPUs : sync'[d] = IF d = c THEN Idle ELSE sync[d]
      /\ \A u \in Threads : u # t => count'[Sync[u]] = count[Sync[u]]
      /\ count'[s] = count[s] + 1
  BY <1>t, <1>s, <1>1, SyncTypes
<1>7. ~InDrive(t)'  BY <1>1, <1>2, <1>3, <1>6, SyncTypes DEF InDrive
<1>8. ASSUME NEW u \in Threads, u # t PROVE InDrive(u)' <=> InDrive(u)
  <2>1. \A d \in CPUs : sync'[d] = u <=> sync[d] = u  BY <1>t, <1>6, <1>8, SyncTypes
  <2> QED  BY <1>1, <2>1 DEF InDrive
<1>9. CASE AboutToWait(t) /\ ~Asleep(t) /\ count[s] = 0 /\ ~BeingWoken(t)
  <2>1. UNCHANGED <<pc, arg>>  BY <1>1, <1>9 DEF schedVars, ctxVars
  <2>2. SyncPlaces'  BY <1>1, <1>6, <2>1 DEF SyncInv, SyncPlaces
  <2>3. ASSUME NEW u \in Threads
        PROVE  /\ BeingWoken(u)' <=> BeingWoken(u)
               /\ AboutToWait(u)' <=> AboutToWait(u)
               /\ Asleep(u)' <=> Asleep(u)
    BY <1>1, <2>1 DEF BeingWoken, AboutToWait, Asleep
  <2>4. ASSUME NEW u \in Threads, u # t PROVE SignalAccounted(u)'
    BY <1>1, <1>6, <1>8, <2>3, <2>4, AccountKept DEF SyncInv
  <2>5. count'[Sync[t]] = 1 /\ result'[t]  BY <1>s, <1>1, <1>2, <1>6, <1>9
  <2>6. SignalAccounted(t)'  BY <1>2, <1>7, <1>9, <2>3, <2>5 DEF SignalAccounted
  <2> QED  BY <2>2, <2>4, <2>6
<1>10. CASE Asleep(t) /\ ~AboutToWait(t) /\ count[s] = -1 /\ ~BeingWoken(t)
  <2>1. pc' = [pc EXCEPT ![c] = "wake"] /\ arg' = [arg EXCEPT ![c] = s]
    BY <1>1, <1>10 DEF WakeCall, Goto
  <2>2. /\ \A d \in CPUs : /\ pc'[d] = IF d = c THEN "wake" ELSE pc[d]
                           /\ arg'[d] = IF d = c THEN s ELSE arg[d]
        /\ \A u \in Threads : pc'[u] = pc[u] /\ arg'[u] = arg[u]
    BY <1>2, <2>1, SyncTypes
  <2>3. \A d \in CPUs : ~(pc[d] = "wake" /\ arg[d] = s)  BY <1>s, <1>10 DEF BeingWoken
  <2>4. SyncPlaces'
    <3>1. \A d, e \in CPUs :
              pc'[d] = "wake" /\ pc'[e] = "wake" /\ arg'[d] = arg'[e] => d = e
      BY <2>2, <2>3 DEF SyncInv, SyncPlaces
    <3>2. \A d \in CPUs : sync'[d] # Idle =>
              pc'[d] = "intr" /\ sync'[d] \notin pending' /\ result'[sync'[d]]
      BY <1>1, <1>6, <2>2 DEF SyncInv, SyncPlaces
    <3>3. \A d, e \in CPUs : sync'[d] # Idle /\ sync'[d] = sync'[e] => d = e
      BY <1>6 DEF SyncInv, SyncPlaces
    <3> QED  BY <1>1, <2>2, <3>1, <3>2, <3>3 DEF SyncInv, SyncPlaces
  <2>5. ASSUME NEW u \in Threads, u # t PROVE SignalAccounted(u)'
    <3>1. Sync[u] # s  BY <1>s, <2>5, SyncTypes
    <3>2. BeingWoken(u)' <=> BeingWoken(u)  BY <1>1, <2>2, <3>1 DEF BeingWoken
    <3>3. (AboutToWait(u)' <=> AboutToWait(u)) /\ (Asleep(u)' <=> Asleep(u))
      BY <1>1, <2>2 DEF AboutToWait, Asleep
    <3> QED  BY <1>1, <1>6, <1>8, <2>5, <3>2, <3>3, AccountKept DEF SyncInv
  <2>6. BeingWoken(t)'  BY <1>s, <2>2 DEF BeingWoken
  <2>7. Asleep(t)' /\ ~AboutToWait(t)'  BY <1>1, <1>2, <1>10, <2>2 DEF AboutToWait, Asleep
  <2>8. SignalAccounted(t)'  BY <1>1, <1>2, <1>7, <2>6, <2>7 DEF SignalAccounted
  <2> QED  BY <2>4, <2>5, <2>8
<1> QED  BY <1>5, <1>9, <1>10

\* Every step of a reader, a handler or the scheduler keeps SyncInv.
LEMMA SyncNextInv == SyncInv /\ [SyncNext]_allVars => SyncInv'
<1> SUFFICES ASSUME SyncInv, [SyncNext]_allVars PROVE SyncInv'  OBVIOUS
<1>1. [SchedNext]_schedVars  BY SyncStepIsSchedStep
<1>2. SchedInv' /\ WaitsOnArg'  BY <1>1, NextInv, WaitsOnArgNext DEF SyncInv
<1>3. SyncTypeOK'  BY <1>2, SyncTypeNext DEF SchedInv
<1> SUFFICES SyncPlaces' /\ \A u \in Threads : SignalAccounted(u)'
  BY <1>2, <1>3 DEF SyncInv
<1>4. ASSUME NEW t \in Threads, ThreadStep(t), UNCHANGED <<count, ioVars>>
      PROVE  SyncPlaces' /\ \A u \in Threads : SignalAccounted(u)'
  <2>1. CASE AwaitEnqueue(t)  BY <1>4, <2>1, SyncEnqueue
  <2>2. CASE ~AwaitEnqueue(t)
    <3>1. QuietStep(t) /\ t \in Contexts /\ t \notin CPUs
      BY <1>4, <2>2, SyncTypes DEF ThreadStep, QuietStep
    <3> QED  BY <1>4, <3>1, SyncQuiet
  <2> QED  BY <2>1, <2>2
<1>5. ASSUME NEW t \in Threads, ThreadRun(t) \/ commonIO(t)
      PROVE  SyncPlaces' /\ \A u \in Threads : SignalAccounted(u)'
  BY <1>4, <1>5, SyncTake, SyncBlock, SyncWait, SyncReturn, SyncSubmit DEF ThreadRun
<1>6. ASSUME NEW c \in CPUs, WakeStep(c), UNCHANGED <<count, ioVars>>
      PROVE  SyncPlaces' /\ \A u \in Threads : SignalAccounted(u)'
  <2>1. CASE ThreadResume(c)
    <3>1. c \in Contexts /\ QuietStep(c) /\ pc[c] # "intr"
      BY <2>1 DEF QuietStep, ThreadResume, At, Contexts
    <3> QED  BY <1>6, <3>1, SyncQuiet
  <2> QED  BY <1>6, <2>1, SyncWake, SyncNobody DEF WakeStep
<1>7. ASSUME NEW c \in CPUs, Machine(c) \/ DriveIntr(c) \/ CompleteSignal(c)
      PROVE  SyncPlaces' /\ \A u \in Threads : SignalAccounted(u)'
  <2>1. CASE Machine(c) \/ DriveIntr(c)
    <3>1. c \in Contexts /\ QuietStep(c)  BY <2>1 DEF QuietStep, Machine, DriveIntr, Contexts
    <3>2. UNCHANGED <<count, ioVars>> /\ (pc[c] = "intr" => sync[c] = Idle)
      BY <2>1 DEF Machine, DriveIntr, DeviceIntr, IntrEnabled
    <3> QED  BY <3>1, <3>2, SyncQuiet
  <2> QED  BY <1>7, <2>1, SyncSignal
<1>8. CASE UNCHANGED allVars
  <2>1. UNCHANGED <<waiters, arg, count, ioVars, pc>>
    BY <1>8 DEF allVars, vars, schedVars, wqVars, ctxVars
  <2>2. \A t \in Threads : pc[t] \in {"new", "run"} \cup AwaitPcs  BY DEF SyncInv, SyncPlaces
  <2> QED  BY <2>1, <2>2, SyncMoves
<1> QED  BY <1>5, <1>6, <1>7, <1>8, SyncStore, SyncStart DEF SyncNext

\* At the start no thread is in commonIO.
LEMMA SyncInitInv == SyncInit => SyncInv
<1> SUFFICES ASSUME SyncInit PROVE SyncInv  OBVIOUS
<1>1. SchedInv /\ WaitsOnArg  BY InitInv, WaitsOnArgInit DEF SyncInit, SemInit
<1>2. SyncTypeOK  BY <1>1 DEF SyncInit, SemInit, SyncTypeOK, SemTypeOK, SchedInv
<1>3. /\ \A t \in Threads : pc[t] = "new" /\ io[t] = "out" /\ t # Idle /\ t \notin CPUs
      /\ \A c \in CPUs : pc[c] = "none" /\ sync[c] = Idle
      /\ \A q \in Waitqs : waiters[q] = <<>>
      /\ \A t \in Threads : Sync[t] \in Waitqs
      /\ pending = {}
  BY SchedAssumption, SyncAssumption
  DEF SyncInit, SemInit, SchedInit, Contexts, Injection
<1>4. SyncPlaces  BY <1>3 DEF SyncPlaces, AwaitPcs
<1>5. ASSUME NEW t \in Threads PROVE SignalAccounted(t)
  <2>1. ~AboutToWait(t)  BY <1>3 DEF AboutToWait
  <2>2. ~Asleep(t)  BY <1>3, EmptyQueue DEF Asleep
  <2>3. ~InDrive(t) /\ ~BeingWoken(t)  BY <1>3 DEF InDrive, BeingWoken
  <2> QED  BY <1>3, <2>1, <2>2, <2>3 DEF SignalAccounted
<1> QED  BY <1>1, <1>2, <1>4, <1>5 DEF SyncInv

\* Synchronous reads keep the invariant of the scheduler and their own.
THEOREM SyncInvariant == SyncSpec => []SyncInv
BY SyncInitInv, SyncNextInv, PTL DEF SyncSpec

\* commonIO passes the drive the address of a semaphore and a result on its own
\* stack, and returns only when neither the drive, nor complete_sync, nor the
\* waitq_wake_one it calls, uses them any more, whichever CPU they run on.
THEOREM StackSafe == SyncSpec => []StackOutlivesRequest
<1>1. SyncInv => StackOutlivesRequest
  <2> SUFFICES ASSUME SyncInv, NEW t \in Threads,
                      \/ t \in pending
                      \/ \E c \in CPUs : sync[c] = t
                      \/ \E a \in Contexts : pc[a] = "wake" /\ arg[a] = Sync[t]
               PROVE  io[t] # "out" /\ ~(io[t] = "waiting" /\ pc[t] = "run")
    BY DEF StackOutlivesRequest
  <2>1. \A u \in Threads : pc[u] # "wake"  BY DEF SyncInv, SyncPlaces, AwaitPcs
  <2>2. InDrive(t) \/ BeingWoken(t)  BY <2>1 DEF InDrive, BeingWoken, Contexts
  <2>3. AboutToWait(t) \/ Asleep(t)  BY <2>2 DEF SyncInv, SignalAccounted
  <2>4. CASE AboutToWait(t)
    BY <2>4 DEF AboutToWait, SyncInv, SyncPlaces, AwaitPcs
  <2>5. CASE Asleep(t)
    <3>1. pc[t] \in {"locked", "parked", "resumed"}  BY <2>5, OwnQueue DEF Asleep
    <3> QED  BY <3>1 DEF SyncInv, SyncPlaces, AwaitPcs
  <2> QED  BY <2>3, <2>4, <2>5
<1> QED  BY <1>1, SyncInvariant, PTL

\* A read that returns, returns the result its own request was completed with.
THEOREM ReadsReturnResults == SyncSpec => []ResultStored
<1>1. SyncInv => ResultStored
  <2> SUFFICES ASSUME SyncInv, NEW t \in Threads, io[t] = "waiting", pc[t] = "run"
               PROVE  result[t]
    BY DEF ResultStored
  <2>1. ~AboutToWait(t) /\ ~Asleep(t)  BY OwnQueue DEF AboutToWait, Asleep
  <2> QED  BY <2>1 DEF SyncInv, SignalAccounted
<1> QED  BY <1>1, SyncInvariant, PTL
=============================================================================
