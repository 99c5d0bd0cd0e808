--------------------------- MODULE SemaphoreProofs ---------------------------
(***************************************************************************)
(* Proofs about Semaphore: whatever the order in which threads and         *)
(* interrupt handlers increment the count, outside wq.lock, and deliver    *)
(* their wake-ups, every blocked thread and every owed wake-up is counted. *)
(***************************************************************************)
EXTENDS Semaphore, SchedProofs, FiniteSetTheorems

\* Semaphores use the wait queues as Sched allows.
LEMMA SemStepIsSchedStep == [SemNext]_vars => [SchedNext]_schedVars
<1> SUFFICES ASSUME [SemNext]_vars PROVE [SchedNext]_schedVars  OBVIOUS
<1>1. CASE SchedStep  BY <1>1 DEF SchedStep, SchedNext
<1>2. ASSUME NEW t \in Threads, SemTake(t) \/ SemBlock(t) PROVE SchedNext
  BY <1>2 DEF SemTake, SemBlock, SchedNext
<1>3. ASSUME NEW a \in Contexts, NEW q \in Waitqs, SemSignal(a, q)
      PROVE  [SchedNext]_schedVars
  BY <1>3 DEF SemSignal, SchedNext
<1>4. CASE UNCHANGED vars  BY <1>4 DEF vars
<1> QED  BY <1>1, <1>2, <1>3, <1>4 DEF SemNext

\* Every behaviour of the semaphores is one of the scheduler and the wait queues.
THEOREM SemaphoresUseSched == SemSpec => SchedSpec
<1>1. SemInit => SchedInit  BY DEF SemInit
<1> QED  BY <1>1, SemStepIsSchedStep, PTL DEF SemSpec, SchedSpec

\* The semaphores' variables keep their types.
THEOREM SemTypeCorrect == SemSpec => []SemTypeOK
<1>1. SemInit => count \in [Waitqs -> Int]  BY DEF SemInit
<1>2. count \in [Waitqs -> Int] /\ [SemNext]_vars => (count \in [Waitqs -> Int])'
  BY DEF SemNext, SemTake, SemBlock, SemSignal, vars
<1>3. SchedTypeOK /\ count \in [Waitqs -> Int] => SemTypeOK  BY DEF SemTypeOK
<1> QED  BY <1>1, <1>2, <1>3, SemaphoresUseSched, TypeCorrect, PTL DEF SemSpec
------------------------------------------------------------------------------
WakePcs == {"wakecall", "wake"}

\* Wake-ups owed are finitely many.
LEMMA WakingFinite ==
    ASSUME NEW q
    PROVE  /\ IsFiniteSet(Waking(q))
           /\ Cardinality(Waking(q)) \in Nat
           /\ \A a \in Waking(q) : Cardinality(Waking(q)) # 0
<1>1. Waking(q) \subseteq Contexts  BY DEF Waking
<1>2. IsFiniteSet(Waking(q))  BY <1>1, SemAssumption, FS_Subset
<1> QED  BY <1>2, FS_CardinalityType, FS_EmptySet

\* A step that moves one context elsewhere than in or out of a wake-up.
LEMMA BalanceKept ==
    ASSUME WakeupsBalance, SchedTypeOK,
           UNCHANGED <<count, waiters, wqlock>>,
           NEW a \in Contexts, NEW l, Goto(a, l),
           pc[a] \in WakePcs <=> l \in WakePcs,
           arg' = arg \/ (pc[a] \notin WakePcs /\ \E q \in Waitqs : arg' = [arg EXCEPT ![a] = q])
    PROVE  WakeupsBalance'
<1>1. ASSUME NEW q \in Waitqs PROVE Waking(q)' = Waking(q)
  <2>1. ASSUME NEW b \in Contexts
        PROVE  /\ pc'[b] \in WakePcs <=> pc[b] \in WakePcs
               /\ pc[b] \in WakePcs => arg'[b] = arg[b]
    BY DEF Goto, SchedTypeOK
  <2> QED  BY <2>1 DEF Waking, WakePcs
<1>2. \A q \in Waitqs : Blocked(q)' = Blocked(q) /\ Deficit(q)' = Deficit(q)
  BY DEF Blocked, Deficit
<1> QED  BY <1>1, <1>2 DEF WakeupsBalance

\* A step that leaves every context's place, as far as wake-ups go, as it is.
LEMMA BalanceUnchanged ==
    ASSUME WakeupsBalance, UNCHANGED <<count, waiters, wqlock, arg>>,
           \A b \in Contexts : pc'[b] \in WakePcs <=> pc[b] \in WakePcs
    PROVE  WakeupsBalance'
<1>1. \A q \in Waitqs : Waking(q)' = Waking(q)  BY DEF Waking, WakePcs
<1>2. \A q \in Waitqs : Blocked(q)' = Blocked(q) /\ Deficit(q)' = Deficit(q)
  BY DEF Blocked, Deficit
<1> QED  BY <1>1, <1>2 DEF WakeupsBalance

\* semaphore_wait: the count goes down as the thread takes wq.lock to wait.
LEMMA BalanceBlock ==
    ASSUME SchedInv, WakeupsBalance, count \in [Waitqs -> Int],
           NEW t \in Threads, SemBlock(t)
    PROVE  WakeupsBalance'
<1> DEFINE s == arg[t]
<1>1. /\ s \in Waitqs /\ t \in Contexts /\ ~wqlock[s] /\ wqlock' = [wqlock EXCEPT ![s] = TRUE]
      /\ UNCHANGED <<waiters, arg>> /\ pc' = [pc EXCEPT ![t] = "locked"]
      /\ count[s] - 1 < 0 /\ count' = [count EXCEPT ![s] = count[s] - 1]
      /\ pc[t] = "await"
  BY DEF SemBlock, AwaitLockWq, At, Goto, SchedInv, SchedTypeOK, Contexts
<1>2. pc \in [Contexts -> ThreadPcs \cup CpuPcs] /\ wqlock \in [Waitqs -> BOOLEAN]
      /\ \A q \in Waitqs : Len(waiters[q]) \in Nat
  BY LenProperties DEF SchedInv, SchedTypeOK
<1>3. \A q \in Waitqs : Waking(q)' = Waking(q)
  BY <1>1, <1>2 DEF Waking
<1> SUFFICES ASSUME NEW q \in Waitqs
             PROVE  Blocked(q)' = Deficit(q)' + Cardinality(Waking(q)')
  BY DEF WakeupsBalance
<1>4. Blocked(q) = Deficit(q) + Cardinality(Waking(q)) /\ Cardinality(Waking(q)) \in Nat
  BY WakingFinite DEF WakeupsBalance
<1> HIDE DEF s
<1>5. CASE q = s
  <2>1. Blocked(q)' = Blocked(q) + 1  BY <1>1, <1>2, <1>5 DEF Blocked
  <2>2. Deficit(q)' = Deficit(q) + 1 /\ Deficit(q) \in Int
    BY <1>1, <1>5 DEF Deficit
  <2> QED  BY <1>3, <1>4, <2>1, <2>2
<1>6. CASE q # s
  <2>1. Blocked(q)' = Blocked(q) /\ Deficit(q)' = Deficit(q)
    BY <1>1, <1>2, <1>6 DEF Blocked, Deficit
  <2> QED  BY <1>3, <1>4, <2>1
<1> QED  BY <1>5, <1>6

\* The thread that holds wq.lock in order to wait joins the queue.
LEMMA BalanceEnqueue ==
    ASSUME SchedInv, WakeupsBalance, UNCHANGED count,
           NEW t \in Threads, AwaitEnqueue(t)
    PROVE  WakeupsBalance'
<1> DEFINE s == arg[t]
<1>1. /\ s \in Waitqs /\ t \in Contexts /\ wqlock' = [wqlock EXCEPT ![s] = FALSE]
      /\ waiters' = [waiters EXCEPT ![s] = Append(waiters[s], t)]
      /\ UNCHANGED arg /\ pc' = [pc EXCEPT ![t] = "parked"] /\ pc[t] = "locked"
  BY DEF AwaitEnqueue, At, Goto, SchedInv, SchedTypeOK, Contexts
<1>2. pc \in [Contexts -> ThreadPcs \cup CpuPcs] /\ wqlock \in [Waitqs -> BOOLEAN]
      /\ waiters \in [Waitqs -> Seq(Threads)]
      /\ \A q \in Waitqs : Len(waiters[q]) \in Nat
  BY LenProperties DEF SchedInv, SchedTypeOK
<1>3. wqlock[s]  BY <1>1 DEF SchedInv, WqLockInv
<1>4. \A q \in Waitqs : Waking(q)' = Waking(q)
  BY <1>1, <1>2 DEF Waking
<1>5. Len(Append(waiters[s], t)) = Len(waiters[s]) + 1
  BY <1>1, <1>2, AppendProperties
<1> HIDE DEF s
<1>6. ASSUME NEW q \in Waitqs PROVE Blocked(q)' = Blocked(q)
  <2>1. CASE q = s
    <3>1. waiters'[q] = Append(waiters[s], t) /\ ~wqlock'[q]  BY <1>1, <1>2, <2>1
    <3> QED  BY <1>2, <1>3, <1>5, <2>1, <3>1 DEF Blocked
  <2>2. CASE q # s  BY <1>1, <1>2, <2>2 DEF Blocked
  <2> QED  BY <2>1, <2>2
<1>7. \A q \in Waitqs : Deficit(q)' = Deficit(q)  BY DEF Deficit
<1> QED  BY <1>4, <1>6, <1>7 DEF WakeupsBalance

\* semaphore_signal: the count goes up, and a wake-up is owed if it was negative.
LEMMA BalanceSignal ==
    ASSUME SchedInv, WakeupsBalance, count \in [Waitqs -> Int],
           NEW a \in Contexts, NEW s \in Waitqs, SemSignal(a, s)
    PROVE  WakeupsBalance'
<1>1. /\ count' = [count EXCEPT ![s] = count[s] + 1]
      /\ pc[a] = Home(a) /\ pc[a] \notin WakePcs
      /\ IF count[s] + 1 <= 0 THEN WakeCall(a, s) ELSE UNCHANGED schedVars
  BY DEF SemSignal, At, Home, WakePcs
<1>2. UNCHANGED <<waiters, wqlock>>
  BY <1>1 DEF WakeCall, wqVars, schedVars
<1>3. pc \in [Contexts -> ThreadPcs \cup CpuPcs] /\ arg \in [Contexts -> Waitqs]
  BY DEF SchedInv, SchedTypeOK
<1>4. \A q \in Waitqs : Blocked(q)' = Blocked(q)  BY <1>2 DEF Blocked
<1> SUFFICES ASSUME NEW q \in Waitqs
             PROVE  Blocked(q)' = Deficit(q)' + Cardinality(Waking(q)')
  BY DEF WakeupsBalance
<1>5. /\ Blocked(q) = Deficit(q) + Cardinality(Waking(q))
      /\ Cardinality(Waking(q)) \in Nat /\ IsFiniteSet(Waking(q))
      /\ Deficit(q) \in Int
  BY WakingFinite DEF WakeupsBalance, Deficit
<1>6. q # s => Deficit(q)' = Deficit(q)  BY <1>1 DEF Deficit
<1>7. CASE count[s] + 1 <= 0
  <2>1. PICK l \in WakePcs : pc' = [pc EXCEPT ![a] = l] /\ arg' = [arg EXCEPT ![a] = s]
    BY <1>1, <1>7 DEF WakeCall, WakePcs, Goto
  <2>2. CASE q = s
    <3>1. Waking(q)' = Waking(q) \cup {a} /\ a \notin Waking(q)
      BY <1>1, <1>3, <2>1, <2>2 DEF Waking, WakePcs
    <3>2. Cardinality(Waking(q)') = Cardinality(Waking(q)) + 1
      BY <1>5, <3>1, FS_AddElement
    <3>3. Deficit(q)' = Deficit(q) - 1  BY <1>1, <1>7, <2>2 DEF Deficit
    <3> QED  BY <1>4, <1>5, <3>2, <3>3
  <2>3. CASE q # s
    <3>1. Waking(q)' = Waking(q)
      BY <1>1, <1>3, <2>1, <2>3 DEF Waking, WakePcs
    <3> QED  BY <1>4, <1>5, <1>6, <2>3, <3>1
  <2> QED  BY <2>2, <2>3
<1>8. CASE ~(count[s] + 1 <= 0)
  <2>1. Waking(q)' = Waking(q)  BY <1>1, <1>8 DEF Waking, schedVars, ctxVars
  <2>2. q = s => Deficit(q)' = Deficit(q)  BY <1>1, <1>8 DEF Deficit
  <2> QED  BY <1>4, <1>5, <1>6, <2>1, <2>2
<1> QED  BY <1>7, <1>8

\* waitq_wake_one takes a waiter off the queue, and owes nothing any more.
LEMMA BalanceRemove ==
    ASSUME SchedInv, WakeupsBalance, count \in [Waitqs -> Int], UNCHANGED count,
           NEW a \in Contexts, WakeRemove(a)
    PROVE  WakeupsBalance'
<1> DEFINE s == arg[a]
<1>1. /\ s \in Waitqs /\ UNCHANGED <<wqlock, arg>> /\ waiters[s] # <<>>
      /\ waiters' = [waiters EXCEPT ![s] = Tail(waiters[s])]
      /\ pc' = [pc EXCEPT ![a] = "took"] /\ pc[a] = "wake"
  BY DEF WakeRemove, At, Goto, SchedInv, SchedTypeOK
<1>2. pc \in [Contexts -> ThreadPcs \cup CpuPcs]
      /\ waiters \in [Waitqs -> Seq(Threads)]
      /\ \A q \in Waitqs : Len(waiters[q]) \in Nat
  BY LenProperties DEF SchedInv, SchedTypeOK
<1>3. Len(Tail(waiters[s])) = Len(waiters[s]) - 1  BY <1>1, <1>2, PopQueue
<1> SUFFICES ASSUME NEW q \in Waitqs
             PROVE  Blocked(q)' = Deficit(q)' + Cardinality(Waking(q)')
  BY DEF WakeupsBalance
<1>4. Deficit(q)' = Deficit(q)  BY DEF Deficit
<1>5. /\ Blocked(q) = Deficit(q) + Cardinality(Waking(q))
      /\ Cardinality(Waking(q)) \in Nat /\ IsFiniteSet(Waking(q))
  BY WakingFinite DEF WakeupsBalance
<1>6. CASE q = s
  <2>1. Waking(q)' = Waking(q) \ {a} /\ a \in Waking(q)
    BY <1>1, <1>2, <1>6 DEF Waking
  <2>2. Cardinality(Waking(q)') = Cardinality(Waking(q)) - 1
    BY <1>5, <2>1, FS_RemoveElement
  <2> HIDE DEF s
  <2>3. Blocked(q)' = Blocked(q) - 1  BY <1>1, <1>2, <1>3, <1>6 DEF Blocked
  <2>4. Deficit(q) \in Int  BY DEF Deficit
  <2> QED  BY <1>4, <1>5, <2>2, <2>3, <2>4
<1>7. CASE q # s
  <2>1. Waking(q)' = Waking(q)  BY <1>1, <1>2, <1>7 DEF Waking
  <2>2. Blocked(q)' = Blocked(q)  BY <1>1, <1>2, <1>7 DEF Blocked
  <2> QED  BY <1>4, <1>5, <2>1, <2>2
<1> QED  BY <1>6, <1>7

\* Every step keeps the balance.
LEMMA BalanceNext ==
    SchedInv /\ count \in [Waitqs -> Int] /\ WakeupsBalance /\ [SemNext]_vars
        => WakeupsBalance'
<1> SUFFICES ASSUME SchedInv, count \in [Waitqs -> Int], WakeupsBalance, [SemNext]_vars
             PROVE  WakeupsBalance'
  OBVIOUS
<1>1. SchedTypeOK /\ pc \in [Contexts -> ThreadPcs \cup CpuPcs]
  BY DEF SchedInv, SchedTypeOK
<1>2. \A t \in Threads : t \in Contexts /\ t \notin CPUs  BY SchedAssumption DEF Contexts
<1>3. \A c \in CPUs : c \in Contexts  BY DEF Contexts
<1>4. ASSUME NEW t \in Threads, ThreadStep(t), UNCHANGED count PROVE WakeupsBalance'
  <2>1. CASE AwaitEnqueue(t)  BY <1>4, <2>1, BalanceEnqueue
  <2>2. CASE AwaitReschedule(t)
    BY <1>1, <1>2, <1>4, <2>2, BalanceKept DEF AwaitReschedule, wqVars, At, WakePcs
  <2>3. CASE YieldReschedule(t)
    BY <1>1, <1>2, <1>4, <2>3, BalanceKept DEF YieldReschedule, wqVars, At, WakePcs
  <2>4. CASE AwaitEnter(t) \/ AwaitReturn(t) \/ WakeEnter(t)
    BY <1>1, <1>2, <1>4, <2>4, BalanceKept
    DEF AwaitEnter, AwaitReturn, WakeEnter, wqVars, At, WakePcs
  <2> QED  BY <1>4, <2>1, <2>2, <2>3, <2>4 DEF ThreadStep
<1>5. ASSUME NEW a \in Contexts, WakeStep(a), UNCHANGED count PROVE WakeupsBalance'
  <2>1. CASE WakeRemove(a)  BY <1>5, <2>1, BalanceRemove
  <2>2. CASE WakeNobody(a)
    <3> DEFINE s == arg[a]
    <3>1. s \in Waitqs /\ waiters[s] = <<>> /\ ~wqlock[s] /\ a \in Waking(s)
      BY <1>1, <2>2 DEF WakeNobody, At, SchedTypeOK, Waking
    <3>2. Blocked(s) = 0  BY <3>1, EmptySeq DEF Blocked
    <3>3. Cardinality(Waking(s)) \in Nat /\ Cardinality(Waking(s)) # 0
      BY <3>1, WakingFinite
    <3>4. Deficit(s) \in Nat  BY <3>1 DEF Deficit
    <3>5. Blocked(s) = Deficit(s) + Cardinality(Waking(s))  BY <3>1 DEF WakeupsBalance
    <3> QED  BY <3>2, <3>3, <3>4, <3>5
  <2>3. CASE ThreadResume(a)
    <3>1. PICK l \in {"yield", "run", "intr"} : Goto(a, l)
      BY <2>3 DEF ThreadResume, Home
    <3> QED  BY <1>1, <1>5, <2>3, <3>1, BalanceKept DEF ThreadResume, wqVars, At, WakePcs
  <2> QED  BY <1>5, <2>1, <2>2, <2>3 DEF WakeStep
<1>6. ASSUME NEW t \in Threads, NEW q \in Waitqs, AwaitCall(t, q), UNCHANGED count
      PROVE  WakeupsBalance'
  BY <1>1, <1>2, <1>6, BalanceKept DEF AwaitCall, wqVars, At, WakePcs
<1>7. ASSUME NEW c \in CPUs, IntrStep(c) \/ DeviceIntr(c), UNCHANGED count
      PROVE  WakeupsBalance'
  <2>1. CASE CpuReschedule(c)
    BY <1>1, <1>3, <1>7, <2>1, BalanceKept DEF CpuReschedule, wqVars, WakePcs
  <2>2. CASE IntrReturn(c)
    BY <1>1, <1>3, <1>7, <2>2, BalanceKept DEF IntrReturn, wqVars, WakePcs
  <2>3. CASE TimerIntr(c) \/ ReschedIntr(c) \/ DeviceIntr(c)
    BY <1>1, <1>3, <1>7, <2>3, BalanceKept
    DEF TimerIntr, ReschedIntr, DeviceIntr, IntrEnabled, wqVars, WakePcs
  <2> QED  BY <1>7, <2>1, <2>2, <2>3 DEF IntrStep
<1>8. ASSUME NEW c \in CPUs, NEW t \in Threads, ThreadStart(c, t), UNCHANGED count
      PROVE  WakeupsBalance'
  <2>1. /\ pc[t] = "new" /\ pc[c] = "none" /\ UNCHANGED <<waiters, wqlock, arg>>
        /\ pc' = [pc EXCEPT ![t] = "run",
                            ![c] = IF CpuOf[t] = c THEN "resched" ELSE @]
    BY <1>8 DEF ThreadStart, IntrEnabled, wqVars
  <2>2. \A b \in Contexts : pc'[b] \in WakePcs <=> pc[b] \in WakePcs
    BY <1>1, <1>2, <1>3, <2>1 DEF WakePcs
  <2> QED  BY <1>8, <2>1, <2>2, BalanceUnchanged
<1>9. ASSUME NEW t \in Threads, SemTake(t) PROVE WakeupsBalance'
  <2>1. /\ count[arg[t]] - 1 >= 0 /\ count' = [count EXCEPT ![arg[t]] = count[arg[t]] - 1]
        /\ UNCHANGED <<waiters, wqlock, arg>> /\ pc[t] = "await"
        /\ pc' = [pc EXCEPT ![t] = "run"] /\ arg[t] \in Waitqs
    BY <1>1, <1>2, <1>9 DEF SemTake, AwaitNotNeeded, At, Goto, wqVars, SchedTypeOK
  <2>2. \A q \in Waitqs : Waking(q)' = Waking(q)
    BY <1>1, <1>2, <2>1 DEF Waking
  <2>3. \A q \in Waitqs : Deficit(q)' = Deficit(q) /\ Blocked(q)' = Blocked(q)
    BY <2>1 DEF Deficit, Blocked
  <2> QED  BY <2>2, <2>3 DEF WakeupsBalance
<1>10. CASE UNCHANGED vars
  BY <1>10, BalanceUnchanged DEF vars, schedVars, wqVars, ctxVars
<1> QED  BY <1>4, <1>5, <1>6, <1>7, <1>8, <1>9, <1>10, BalanceBlock, BalanceSignal
         DEF SemNext, SchedStep

\* semaphore_signal's increment races with semaphore_wait's decrement ("can there
\* be a race condition here?"), but no wake-up is lost or spurious: the number of
\* blocked threads is what the count says plus the wake-ups under way.
THEOREM WakeupsBalanced == SemSpec => []WakeupsBalance
<1>1. SemInit => WakeupsBalance
  <2> SUFFICES ASSUME SemInit, NEW q \in Waitqs
               PROVE  Blocked(q) = Deficit(q) + Cardinality(Waking(q))
    BY DEF WakeupsBalance
  <2>1. Waking(q) = {}  BY DEF SemInit, SchedInit, Waking
  <2>2. Blocked(q) = 0  BY EmptySeq DEF SemInit, SchedInit, Blocked
  <2>3. Deficit(q) = 0  BY DEF SemInit, Deficit
  <2> QED  BY <2>1, <2>2, <2>3, FS_EmptySet
<1>2. SemTypeOK => count \in [Waitqs -> Int]  BY DEF SemTypeOK
<1> QED  BY <1>1, <1>2, BalanceNext, SemaphoresUseSched, SchedInvariant, SemTypeCorrect, PTL
         DEF SemSpec

\* A wake-up that is owed has somebody to go to.
LEMMA OwedToSomebody == SemTypeOK /\ WakeupsBalance => SignalFindsWaiter
<1> SUFFICES ASSUME SemTypeOK, WakeupsBalance,
                    NEW a \in Contexts, pc[a] = "wake", ~wqlock[arg[a]],
                    waiters[arg[a]] = <<>>
             PROVE  FALSE
  BY DEF SignalFindsWaiter
<1> DEFINE s == arg[a]
<1>1. s \in Waitqs /\ count[s] \in Int  BY DEF SemTypeOK, SchedTypeOK
<1>2. a \in Waking(s)  BY DEF Waking
<1>3. Cardinality(Waking(s)) \in Nat /\ Cardinality(Waking(s)) # 0
  BY <1>2, WakingFinite
<1>4. Blocked(s) = 0  BY EmptySeq DEF Blocked
<1>5. Deficit(s) \in Nat  BY <1>1 DEF Deficit
<1>6. Blocked(s) = Deficit(s) + Cardinality(Waking(s))
  BY <1>1 DEF WakeupsBalance
<1> QED  BY <1>3, <1>4, <1>5, <1>6

\* So waitq_wake_one never finds an empty queue when semaphore_signal calls it,
\* and the warning it would print stays unprinted.
THEOREM SignalsFindWaiters == SemSpec => []SignalFindsWaiter
BY OwedToSomebody, SemTypeCorrect, WakeupsBalanced, PTL
------------------------------------------------------------------------------
\* Refinement: semaphores implement FifoSemaphore.

WaitPcs == {"awaitcall", "await", "locked"}

\* The thread that holds wq.lock in order to wait, P and A being pc and arg.
LEMMA TheLocker ==
    ASSUME NEW P, NEW A, NEW q, NEW t \in Threads, P[t] = "locked", A[t] = q,
           \A u \in Threads : P[u] = "locked" /\ A[u] = q => u = t
    PROVE  (CHOOSE u \in Threads : P[u] = "locked" /\ A[u] = q) = t
OBVIOUS

\* The abstract queue ends with the thread that is about to queue itself.
LEMMA QueueKept ==
    ASSUME SchedInv, SchedInv', NEW q \in Waitqs, UNCHANGED <<waiters, wqlock>>,
           \A t \in Threads : pc[t] = "locked" => pc'[t] = "locked" /\ arg'[t] = arg[t]
    PROVE  QueueOf(q)' = QueueOf(q)
<1>1. CASE wqlock[q]
  <2>1. PICK t \in Threads : pc[t] = "locked" /\ arg[t] = q
    BY <1>1 DEF SchedInv, WqLockInv
  <2>2. \A u \in Threads : pc[u] = "locked" /\ arg[u] = q => u = t
    BY <2>1 DEF SchedInv, WqLockInv
  <2>3. \A u \in Threads : pc'[u] = "locked" /\ arg'[u] = q => u = t
    BY <2>1 DEF SchedInv, WqLockInv
  <2>4. (CHOOSE u \in Threads : pc[u] = "locked" /\ arg[u] = q) = t
    BY <2>1, <2>2, TheLocker
  <2>5. (CHOOSE u \in Threads : pc'[u] = "locked" /\ arg'[u] = q) = t
    BY <2>1, <2>3, TheLocker
  <2>6. QueueOf(q) = Append(waiters[q], t)  BY <1>1, <2>4 DEF QueueOf
  <2>7. QueueOf(q)' = Append(waiters'[q], t)  BY <1>1, <2>5 DEF QueueOf
  <2> QED  BY <2>6, <2>7
<1>2. CASE ~wqlock[q]  BY <1>2 DEF QueueOf
<1> QED  BY <1>1, <1>2

\* The length of the abstract queue is the number of blocked threads.
LEMMA QueueLength ==
    ASSUME SchedInv, NEW q \in Waitqs, ~wqlock[q]
    PROVE  QueueOf(q) = waiters[q] /\ Len(QueueOf(q)) = Blocked(q)
<1>1. Len(waiters[q]) \in Nat  BY LenProperties DEF SchedInv, SchedTypeOK
<1> QED  BY <1>1 DEF QueueOf, Blocked

\* A thread that wants a semaphore and is not queued for it.
LEMMA NotQueued ==
    ASSUME SchedInv, WaitsOnArg, NEW t \in Threads, pc[t] \in {"awaitcall", "await"}
    PROVE  ~Abstract!Queued(t)
<1> SUFFICES ASSUME NEW q \in Waitqs, NEW i \in DOMAIN QueueOf(q), QueueOf(q)[i] = t
             PROVE  FALSE
  BY DEF Abstract!Queued
<1>1. t \notin Range(waiters[q])  BY QueuedParked
<1>2. waiters[q] \in Seq(Threads)  BY DEF SchedInv, SchedTypeOK
<1>3. CASE wqlock[q]
  <2>1. PICK u \in Threads : pc[u] = "locked" /\ arg[u] = q
    BY <1>3 DEF SchedInv, WqLockInv
  <2>2. \A v \in Threads : pc[v] = "locked" /\ arg[v] = q => v = u
    BY <2>1 DEF SchedInv, WqLockInv
  <2>3. QueueOf(q) = Append(waiters[q], u)  BY <1>3, <2>1, <2>2, TheLocker DEF QueueOf
  <2>4. Range(QueueOf(q)) = Range(waiters[q]) \cup {u}  BY <1>2, <2>3, AppendQueue
  <2>5. t \in Range(QueueOf(q))  BY DEF Range
  <2> QED  BY <1>1, <2>1, <2>4, <2>5
<1>4. CASE ~wqlock[q]  BY <1>1, <1>4 DEF QueueOf, Range
<1> QED  BY <1>3, <1>4

\* A step that no semaphore notices.
LEMMA AbstractStutter ==
    ASSUME SchedInv, SchedInv', UNCHANGED <<waiters, wqlock, arg, count>>,
           \A b \in Contexts : /\ pc'[b] \in WakePcs <=> pc[b] \in WakePcs
                               /\ pc'[b] \in WaitPcs <=> pc[b] \in WaitPcs
                               /\ pc'[b] = "locked" <=> pc[b] = "locked"
    PROVE  UNCHANGED Abstract!vars
<1>1. \A t \in Threads : t \in Contexts  BY DEF Contexts
<1>2. \A q \in Waitqs : QueueOf(q)' = QueueOf(q)  BY <1>1, QueueKept
<1>3. \A q \in Waitqs : Waking(q)' = Waking(q)  BY DEF Waking, WakePcs
<1>4. \A q \in Waitqs : PermitsOf(q)' = PermitsOf(q)  BY <1>3 DEF PermitsOf
<1>5. \A t \in Threads : WantOf(t)' = WantOf(t)  BY <1>1 DEF WantOf, WaitPcs
<1> QED  BY <1>2, <1>4, <1>5 DEF Abstract!vars

\* semaphore_wait is called.
LEMMA AbstractWait ==
    ASSUME SchedInv, SchedInv', NEW t \in Threads, NEW s \in Waitqs, AwaitCall(t, s),
           UNCHANGED count
    PROVE  Abstract!Wait(t, s)
<1>1. /\ pc[t] = "run" /\ pc' = [pc EXCEPT ![t] = "awaitcall"]
      /\ arg' = [arg EXCEPT ![t] = s] /\ UNCHANGED <<waiters, wqlock>>
      /\ Executing(t)
  BY DEF AwaitCall, At, Goto, wqVars
<1>2. /\ pc \in [Contexts -> ThreadPcs \cup CpuPcs] /\ arg \in [Contexts -> Waitqs]
      /\ \A u \in Threads : u \in Contexts
  BY DEF SchedInv, SchedTypeOK, Contexts
<1>3. \A q \in Waitqs : t \notin Range(waiters[q])  BY <1>1, ExecutingNotQueued
<1>4. \A b \in Contexts : /\ b # t => pc'[b] = pc[b] /\ arg'[b] = arg[b]
                          /\ pc'[t] = "awaitcall" /\ arg'[t] = s
  BY <1>1, <1>2
<1>5. \A q \in Waitqs : QueueOf(q)' = QueueOf(q)  BY <1>1, <1>2, <1>4, QueueKept
<1>6. \A q \in Waitqs : Waking(q)' = Waking(q)  BY <1>1, <1>2, <1>4 DEF Waking
<1>7. \A q \in Waitqs : PermitsOf(q)' = PermitsOf(q)  BY <1>6 DEF PermitsOf
<1>8. WantOf(t) = Idle  BY <1>1, <1>2, <1>3 DEF WantOf
<1>9. \A u \in Threads : WantOf(u)' = IF u = t THEN s ELSE WantOf(u)
  BY <1>1, <1>2, <1>4 DEF WantOf
<1> QED  BY <1>5, <1>7, <1>8, <1>9 DEF Abstract!Wait

\* It finds a permit that no waiter is owed.
LEMMA AbstractTake ==
    ASSUME SchedInv, SchedInv', WaitsOnArg, WakeupsBalance, count \in [Waitqs -> Int],
           NEW t \in Threads, SemTake(t)
    PROVE  Abstract!Take(t)
<1> DEFINE s == arg[t]
<1>1. /\ pc[t] = "await" /\ pc' = [pc EXCEPT ![t] = "run"] /\ Executing(t)
      /\ UNCHANGED <<arg, waiters, wqlock>> /\ ~wqlock[s]
      /\ count[s] - 1 >= 0 /\ count' = [count EXCEPT ![s] = count[s] - 1]
  BY DEF SemTake, AwaitNotNeeded, At, Goto, wqVars
<1>2. /\ pc \in [Contexts -> ThreadPcs \cup CpuPcs] /\ s \in Waitqs
      /\ \A u \in Threads : u \in Contexts
  BY DEF SchedInv, SchedTypeOK, Contexts
<1>3. \A q \in Waitqs : t \notin Range(waiters[q])  BY <1>1, ExecutingNotQueued
<1>4. \A b \in Contexts : pc'[b] = IF b = t THEN "run" ELSE pc[b]  BY <1>1, <1>2
<1>5. \A q \in Waitqs : QueueOf(q)' = QueueOf(q)  BY <1>1, <1>2, <1>4, QueueKept
<1>6. \A q \in Waitqs : Waking(q)' = Waking(q)  BY <1>1, <1>2, <1>4 DEF Waking
<1>7. Cardinality(Waking(s)) \in Nat  BY WakingFinite
<1>8. WantOf(t) = s /\ s # Idle  BY <1>1, <1>2, SemAssumption DEF WantOf
<1>9. \A u \in Threads : WantOf(u)' = IF u = t THEN Idle ELSE WantOf(u)
  BY <1>1, <1>2, <1>3, <1>4 DEF WantOf
<1>10. ~Abstract!Queued(t)  BY <1>1, NotQueued
<1> HIDE DEF s
<1>11. PermitsOf(s) > Len(QueueOf(s))
  <2>1. Blocked(s) = Deficit(s) + Cardinality(Waking(s)) /\ Len(QueueOf(s)) = Blocked(s)
    BY <1>1, <1>2, QueueLength DEF WakeupsBalance
  <2>2. Deficit(s) = 0 /\ count[s] \in Int  BY <1>1, <1>2 DEF Deficit
  <2> QED  BY <1>1, <1>7, <2>1, <2>2 DEF PermitsOf
<1>12. \A q \in Waitqs : PermitsOf(q)' = IF q = s THEN PermitsOf(s) - 1 ELSE PermitsOf(q)
  <2>1. count'[s] = count[s] - 1 /\ count[s] \in Int
        /\ \A q \in Waitqs : q # s => count'[q] = count[q]
    BY <1>1, <1>2
  <2> QED  BY <1>1, <1>2, <1>6, <1>7, <2>1 DEF PermitsOf
<1> QED  BY <1>2, <1>5, <1>8, <1>9, <1>10, <1>11, <1>12 DEF Abstract!Take

\* It finds none: the thread is queued as soon as the count says so, under wq.lock.
LEMMA AbstractBlock ==
    ASSUME SchedInv, SchedInv', WaitsOnArg, WakeupsBalance, count \in [Waitqs -> Int],
           NEW t \in Threads, SemBlock(t)
    PROVE  Abstract!Block(t)
<1> DEFINE s == arg[t]
<1>1. /\ pc[t] = "await" /\ pc' = [pc EXCEPT ![t] = "locked"]
      /\ UNCHANGED <<arg, waiters>> /\ ~wqlock[s] /\ wqlock' = [wqlock EXCEPT ![s] = TRUE]
      /\ count[s] - 1 < 0 /\ count' = [count EXCEPT ![s] = count[s] - 1]
  BY DEF SemBlock, AwaitLockWq, At, Goto
<1>2. /\ pc \in [Contexts -> ThreadPcs \cup CpuPcs] /\ s \in Waitqs
      /\ wqlock \in [Waitqs -> BOOLEAN]
      /\ \A u \in Threads : u \in Contexts
  BY DEF SchedInv, SchedTypeOK, Contexts
<1>3. \A b \in Contexts : pc'[b] = IF b = t THEN "locked" ELSE pc[b]  BY <1>1, <1>2
<1>4. \A q \in Waitqs : Waking(q)' = Waking(q)  BY <1>1, <1>2, <1>3 DEF Waking
<1>5. \A q \in Waitqs : wqlock'[q] = IF q = s THEN TRUE ELSE wqlock[q]  BY <1>1, <1>2
<1>6. ASSUME NEW q \in Waitqs PROVE QueueOf(q)' = IF q = s THEN Append(QueueOf(s), t)
                                                  ELSE QueueOf(q)
  <2>1. CASE q = s
    <3>1. \A u \in Threads : pc'[u] = "locked" /\ arg'[u] = s => u = t
      BY <1>1, <1>2, <1>3 DEF SchedInv, WqLockInv
    <3>2. (CHOOSE u \in Threads : pc'[u] = "locked" /\ arg'[u] = s) = t
      BY <1>1, <1>2, <1>3, <3>1, TheLocker
    <3>3. QueueOf(s)' = Append(waiters'[s], t)  BY <1>1, <1>2, <1>5, <3>2 DEF QueueOf
    <3>4. QueueOf(s) = waiters[s]  BY <1>1 DEF QueueOf
    <3> QED  BY <1>1, <2>1, <3>3, <3>4
  <2>2. CASE q # s
    <3>1. CASE wqlock[q]
      <4>1. PICK v \in Threads : pc[v] = "locked" /\ arg[v] = q
        BY <3>1 DEF SchedInv, WqLockInv
      <4>2. \A u \in Threads : pc[u] = "locked" /\ arg[u] = q => u = v
        BY <4>1 DEF SchedInv, WqLockInv
      <4>3. (CHOOSE u \in Threads : pc[u] = "locked" /\ arg[u] = q) = v
        BY <4>1, <4>2, TheLocker
      <4>4. /\ pc'[v] = "locked" /\ arg'[v] = q
            /\ \A u \in Threads : pc'[u] = "locked" /\ arg'[u] = q => u = v
        BY <1>1, <1>2, <1>3, <2>2, <4>1, <4>2
      <4>5. (CHOOSE u \in Threads : pc'[u] = "locked" /\ arg'[u] = q) = v
        BY <4>4, TheLocker
      <4>6. QueueOf(q) = Append(waiters[q], v)  BY <3>1, <4>3 DEF QueueOf
      <4>7. QueueOf(q)' = Append(waiters'[q], v)  BY <1>5, <2>2, <3>1, <4>5 DEF QueueOf
      <4> QED  BY <1>1, <2>2, <4>6, <4>7
    <3>2. CASE ~wqlock[q]  BY <1>1, <1>5, <2>2, <3>2 DEF QueueOf
    <3> QED  BY <3>1, <3>2
  <2> QED  BY <2>1, <2>2
<1>7. Cardinality(Waking(s)) \in Nat  BY WakingFinite
<1>8. WantOf(t) = s /\ s # Idle  BY <1>1, <1>2, SemAssumption DEF WantOf
<1>9. \A u \in Threads : WantOf(u)' = WantOf(u)
  BY <1>1, <1>2, <1>3 DEF WantOf
<1>10. ~Abstract!Queued(t)  BY <1>1, NotQueued
<1> HIDE DEF s
<1>11. PermitsOf(s) <= Len(QueueOf(s))
  <2>1. Blocked(s) = Deficit(s) + Cardinality(Waking(s)) /\ Len(QueueOf(s)) = Blocked(s)
    BY <1>1, <1>2, QueueLength DEF WakeupsBalance
  <2>2. Deficit(s) \in Nat /\ count[s] \in Int  BY <1>1, <1>2 DEF Deficit
  <2> QED  BY <1>1, <1>7, <2>1, <2>2 DEF PermitsOf
<1>12. \A q \in Waitqs : PermitsOf(q)' = PermitsOf(q)
  <2>1. count'[s] = count[s] - 1 /\ count[s] \in Int
        /\ \A q \in Waitqs : q # s => count'[q] = count[q]
    BY <1>1, <1>2
  <2> QED  BY <1>1, <1>2, <1>4, <1>7, <2>1 DEF PermitsOf
<1> QED  BY <1>2, <1>6, <1>8, <1>9, <1>10, <1>11, <1>12 DEF Abstract!Block

\* The thread that was counted as queued queues itself: nothing changes.
LEMMA AbstractEnqueue ==
    ASSUME SchedInv, SchedInv', NEW t \in Threads, AwaitEnqueue(t), UNCHANGED count
    PROVE  UNCHANGED Abstract!vars
<1> DEFINE s == arg[t]
<1>1. /\ s \in Waitqs /\ t \in Contexts /\ wqlock' = [wqlock EXCEPT ![s] = FALSE]
      /\ waiters' = [waiters EXCEPT ![s] = Append(waiters[s], t)]
      /\ UNCHANGED arg /\ pc' = [pc EXCEPT ![t] = "parked"] /\ pc[t] = "locked"
  BY DEF AwaitEnqueue, At, Goto, SchedInv, SchedTypeOK, Contexts
<1>2. /\ pc \in [Contexts -> ThreadPcs \cup CpuPcs] /\ wqlock \in [Waitqs -> BOOLEAN]
      /\ waiters \in [Waitqs -> Seq(Threads)]
      /\ \A u \in Threads : u \in Contexts
  BY DEF SchedInv, SchedTypeOK, Contexts
<1>3. wqlock[s] /\ \A u \in Threads : pc[u] = "locked" /\ arg[u] = s => u = t
  BY <1>1 DEF SchedInv, WqLockInv
<1>4. \A b \in Contexts : pc'[b] = IF b = t THEN "parked" ELSE pc[b]  BY <1>1, <1>2
<1>5. \A q \in Waitqs : Waking(q)' = Waking(q)  BY <1>1, <1>2, <1>4 DEF Waking
<1>6. \A q \in Waitqs : PermitsOf(q)' = PermitsOf(q)  BY <1>5 DEF PermitsOf
<1>7. ASSUME NEW q \in Waitqs PROVE QueueOf(q)' = QueueOf(q)
  <2>1. CASE q = s
    <3>1. (CHOOSE u \in Threads : pc[u] = "locked" /\ arg[u] = s) = t
      BY <1>1, <1>3, TheLocker
    <3>2. QueueOf(q) = Append(waiters[s], t)  BY <1>3, <2>1, <3>1 DEF QueueOf
    <3>3. ~wqlock'[q] /\ waiters'[q] = Append(waiters[s], t)  BY <1>1, <1>2, <2>1
    <3> QED  BY <3>2, <3>3 DEF QueueOf
  <2>2. CASE q # s
    <3>1. wqlock'[q] = wqlock[q] /\ waiters'[q] = waiters[q]  BY <1>1, <1>2, <2>2
    <3>2. CASE wqlock[q]
      <4>1. PICK v \in Threads : pc[v] = "locked" /\ arg[v] = q
        BY <3>2 DEF SchedInv, WqLockInv
      <4>2. \A u \in Threads : pc[u] = "locked" /\ arg[u] = q => u = v
        BY <4>1 DEF SchedInv, WqLockInv
      <4>3. (CHOOSE u \in Threads : pc[u] = "locked" /\ arg[u] = q) = v
        BY <4>1, <4>2, TheLocker
      <4>4. /\ pc'[v] = "locked" /\ arg'[v] = q
            /\ \A u \in Threads : pc'[u] = "locked" /\ arg'[u] = q => u = v
        BY <1>1, <1>2, <1>4, <2>2, <4>1, <4>2
      <4>5. (CHOOSE u \in Threads : pc'[u] = "locked" /\ arg'[u] = q) = v
        BY <4>4, TheLocker
      <4>6. QueueOf(q) = Append(waiters[q], v)  BY <3>2, <4>3 DEF QueueOf
      <4>7. QueueOf(q)' = Append(waiters'[q], v)  BY <3>1, <3>2, <4>5 DEF QueueOf
      <4> QED  BY <3>1, <4>6, <4>7
    <3>3. CASE ~wqlock[q]  BY <3>1, <3>3 DEF QueueOf
    <3> QED  BY <3>2, <3>3
  <2> QED  BY <2>1, <2>2
<1>8. ASSUME NEW u \in Threads PROVE WantOf(u)' = WantOf(u)
  <2>1. Range(Append(waiters[s], t)) = Range(waiters[s]) \cup {t}  BY <1>1, <1>2, AppendQueue
  <2>2. CASE u = t
    <3>1. t \in Range(waiters'[arg'[t]])  BY <1>1, <1>2, <2>1
    <3> QED  BY <1>1, <2>2, <3>1 DEF WantOf
  <2>3. CASE u # t
    <3>1. arg[u] \in Waitqs  BY DEF SchedInv, SchedTypeOK, Contexts
    <3>2. u \in Range(waiters'[arg'[u]]) <=> u \in Range(waiters[arg[u]])
      BY <1>1, <1>2, <2>1, <2>3, <3>1
    <3> QED  BY <1>1, <1>2, <1>4, <2>3, <3>2 DEF WantOf
  <2> QED  BY <2>2, <2>3
<1> QED  BY <1>6, <1>7, <1>8 DEF Abstract!vars

\* waitq_wake_one gives the foremost waiter the permit its signal made.
LEMMA AbstractGrant ==
    ASSUME SchedInv, SchedInv', WaitsOnArg, count \in [Waitqs -> Int], UNCHANGED count,
           NEW a \in Contexts, WakeRemove(a)
    PROVE  Abstract!Grant(arg[a])
<1> DEFINE s == arg[a]
           h == Head(waiters[s])
<1>1. /\ s \in Waitqs /\ UNCHANGED <<wqlock, arg>> /\ waiters[s] # <<>> /\ ~wqlock[s]
      /\ waiters' = [waiters EXCEPT ![s] = Tail(waiters[s])]
      /\ pc' = [pc EXCEPT ![a] = "took"] /\ pc[a] = "wake"
  BY DEF WakeRemove, At, Goto, SchedInv, SchedTypeOK
<1>2. /\ pc \in [Contexts -> ThreadPcs \cup CpuPcs] /\ waiters \in [Waitqs -> Seq(Threads)]
      /\ arg \in [Contexts -> Waitqs] /\ \A u \in Threads : u \in Contexts
  BY DEF SchedInv, SchedTypeOK, Contexts
<1>3. /\ Range(waiters[s]) = Range(Tail(waiters[s])) \cup {h}
      /\ h \notin Range(Tail(waiters[s]))
  BY <1>1, <1>2, PopQueue DEF SchedInv, LinkedOnce
<1>4. h \in Range(waiters[s])  BY <1>3
<1>5. h \in Threads /\ pc[h] \in {"parked", "resumed"} /\ arg[h] = s
  BY <1>1, <1>4, QueuedParked DEF WaitsOnArg
<1>6. \A b \in Contexts : pc'[b] = IF b = a THEN "took" ELSE pc[b]  BY <1>1, <1>2
<1>7. \A q \in Waitqs : waiters'[q] = IF q = s THEN Tail(waiters[s]) ELSE waiters[q]
  BY <1>1, <1>2
<1>8. ASSUME NEW q \in Waitqs
      PROVE  QueueOf(q)' = IF q = s THEN Tail(QueueOf(s)) ELSE QueueOf(q)
  <2>1. CASE q = s  BY <1>1, <1>7, <2>1 DEF QueueOf
  <2>2. CASE q # s /\ wqlock[q]
    <3>1. PICK v \in Threads : pc[v] = "locked" /\ arg[v] = q
      BY <2>2 DEF SchedInv, WqLockInv
    <3>2. \A u \in Threads : pc[u] = "locked" /\ arg[u] = q => u = v
      BY <3>1 DEF SchedInv, WqLockInv
    <3>3. (CHOOSE u \in Threads : pc[u] = "locked" /\ arg[u] = q) = v
      BY <3>1, <3>2, TheLocker
    <3>4. /\ pc'[v] = "locked" /\ arg'[v] = q
          /\ \A u \in Threads : pc'[u] = "locked" /\ arg'[u] = q => u = v
      BY <1>1, <1>2, <1>6, <3>1, <3>2
    <3>5. (CHOOSE u \in Threads : pc'[u] = "locked" /\ arg'[u] = q) = v
      BY <3>4, TheLocker
    <3>6. QueueOf(q) = Append(waiters[q], v)  BY <2>2, <3>3 DEF QueueOf
    <3>7. QueueOf(q)' = Append(waiters'[q], v)  BY <1>1, <2>2, <3>5 DEF QueueOf
    <3> QED  BY <1>7, <2>2, <3>6, <3>7
  <2>3. CASE q # s /\ ~wqlock[q]  BY <1>1, <1>7, <2>3 DEF QueueOf
  <2> QED  BY <2>1, <2>2, <2>3
<1>9. ASSUME NEW u \in Threads
      PROVE  WantOf(u)' = IF u = h THEN Idle ELSE WantOf(u)
  <2>1. arg'[u] = arg[u] /\ arg[u] \in Waitqs  BY <1>1, <1>2
  <2>2. CASE u = h
    <3>1. u # a  BY <1>1, <1>5, <2>2
    <3>2. pc'[u] \notin {"awaitcall", "await", "locked"}  BY <1>2, <1>5, <1>6, <2>2, <3>1
    <3>3. u \notin Range(waiters'[arg'[u]])  BY <1>3, <1>5, <1>7, <2>1, <2>2
    <3> QED  BY <2>2, <3>2, <3>3 DEF WantOf
  <2>3. CASE u # h
    <3>1. u \in Range(waiters'[arg'[u]]) <=> u \in Range(waiters[arg[u]])
      BY <1>3, <1>7, <2>1, <2>3
    <3>2. pc'[u] \in {"awaitcall", "await", "locked"}
             <=> pc[u] \in {"awaitcall", "await", "locked"}
      BY <1>1, <1>2, <1>6
    <3> QED  BY <2>1, <2>3, <3>1, <3>2 DEF WantOf
  <2> QED  BY <2>2, <2>3
<1>10. ASSUME NEW q \in Waitqs
       PROVE  PermitsOf(q)' = IF q = s THEN PermitsOf(s) - 1 ELSE PermitsOf(q)
  <2>1. CASE q = s
    <3>1. Waking(q)' = Waking(q) \ {a} /\ a \in Waking(q)
      BY <1>1, <1>2, <1>6, <2>1 DEF Waking
    <3>2. Cardinality(Waking(q)') = Cardinality(Waking(q)) - 1 /\ Cardinality(Waking(q)) \in Nat
      BY <3>1, WakingFinite, FS_RemoveElement
    <3> QED  BY <2>1, <3>2 DEF PermitsOf
  <2>2. CASE q # s
    <3>1. Waking(q)' = Waking(q)  BY <1>1, <1>2, <1>6, <2>2 DEF Waking
    <3> QED  BY <2>2, <3>1 DEF PermitsOf
  <2> QED  BY <2>1, <2>2
<1>11. PermitsOf(s) > 0
  <2>1. a \in Waking(s)  BY <1>1 DEF Waking
  <2>2. Cardinality(Waking(s)) \in Nat /\ Cardinality(Waking(s)) # 0  BY <2>1, WakingFinite
  <2>3. count[s] \in Int  BY <1>1
  <2> HIDE DEF s
  <2> QED  BY <2>2, <2>3 DEF PermitsOf
<1>12. QueueOf(s) = waiters[s]  BY <1>1 DEF QueueOf
<1> HIDE DEF s, h
<1>13. s \in Waitqs /\ waiters[s] # <<>>  BY <1>1
<1>14. Abstract!Grant(s)
  BY <1>5, <1>8, <1>9, <1>10, <1>11, <1>12, <1>13 DEF Abstract!Grant, h
<1> QED  BY <1>14 DEF s

\* semaphore_signal makes a permit, in the count or as a wake-up under way.
LEMMA AbstractSignal ==
    ASSUME SchedInv, SchedInv', count \in [Waitqs -> Int],
           NEW a \in Contexts, NEW s \in Waitqs, SemSignal(a, s)
    PROVE  Abstract!Signal(s)
<1>1. /\ count' = [count EXCEPT ![s] = count[s] + 1] /\ At(a, Home(a))
      /\ pc[a] = Home(a) /\ pc[a] \notin WakePcs
      /\ IF count[s] + 1 <= 0 THEN WakeCall(a, s) ELSE UNCHANGED schedVars
  BY DEF SemSignal, At, Home, WakePcs
<1>2. UNCHANGED <<waiters, wqlock>>  BY <1>1 DEF WakeCall, wqVars, schedVars
<1>3. /\ pc \in [Contexts -> ThreadPcs \cup CpuPcs] /\ arg \in [Contexts -> Waitqs]
      /\ \A u \in Threads : u \in Contexts /\ u \notin CPUs
  BY SchedAssumption DEF SchedInv, SchedTypeOK, Contexts
<1>4. PICK l \in WakePcs \cup {pc[a]} :
        /\ l \in WakePcs <=> count[s] + 1 <= 0
        /\ \A b \in Contexts : pc'[b] = IF b = a THEN l ELSE pc[b]
        /\ \A b \in Contexts : b # a => arg'[b] = arg[b]
        /\ l \in WakePcs => arg'[a] = s
  <2>1. CASE count[s] + 1 <= 0
    <3>1. PICK l \in WakePcs : pc' = [pc EXCEPT ![a] = l] /\ arg' = [arg EXCEPT ![a] = s]
      BY <1>1, <2>1 DEF WakeCall, WakePcs, Goto
    <3> QED  BY <1>3, <2>1, <3>1
  <2>2. CASE ~(count[s] + 1 <= 0)  BY <1>1, <2>2 DEF schedVars, ctxVars
  <2> QED  BY <2>1, <2>2
<1>5. pc[a] # "locked" /\ pc[a] \notin {"awaitcall", "await"}  BY <1>1 DEF Home
<1>6. \A q \in Waitqs : QueueOf(q)' = QueueOf(q)  BY <1>2, <1>3, <1>4, <1>5, QueueKept
<1>7. ASSUME NEW u \in Threads PROVE WantOf(u)' = WantOf(u)
  <2>1. CASE u # a  BY <1>2, <1>3, <1>4, <2>1 DEF WantOf
  <2>2. CASE u = a
    <3>1. pc[a] = "run"  BY <1>1, <1>3, <2>2 DEF Home
    <3>2. \A q \in Waitqs : u \notin Range(waiters[q])
      BY <1>1, <2>2, <3>1, ExecutingNotQueued DEF At
    <3>3. arg[u] \in Waitqs /\ arg'[u] \in Waitqs
      BY DEF SchedInv, SchedTypeOK, Contexts
    <3>4. pc'[u] \notin {"awaitcall", "await", "locked"}
      BY <1>4, <2>2, <3>1 DEF WakePcs
    <3> QED  BY <1>2, <2>2, <3>1, <3>2, <3>3, <3>4 DEF WantOf
  <2> QED  BY <2>1, <2>2
<1>8. ASSUME NEW q \in Waitqs
      PROVE  PermitsOf(q)' = IF q = s THEN PermitsOf(s) + 1 ELSE PermitsOf(q)
  <2>1. CASE q = s /\ l \in WakePcs
    <3>1. Waking(q)' = Waking(q) \cup {a} /\ a \notin Waking(q)
      BY <1>1, <1>4, <2>1 DEF Waking, WakePcs
    <3>2. Cardinality(Waking(q)') = Cardinality(Waking(q)) + 1 /\ Cardinality(Waking(q)) \in Nat
      BY <3>1, WakingFinite, FS_AddElement
    <3>3. count[q] \in Int /\ count'[q] = count[q] + 1 /\ count[q] + 1 <= 0
      BY <1>1, <1>4, <2>1
    <3> QED  BY <2>1, <3>2, <3>3 DEF PermitsOf
  <2>2. CASE q # s \/ l \notin WakePcs
    <3>1. Waking(q)' = Waking(q)  BY <1>1, <1>4, <2>2 DEF Waking, WakePcs
    <3>2. Cardinality(Waking(q)) \in Nat  BY WakingFinite
    <3>3. CASE q = s
      <4>1. count[q] \in Int /\ count'[q] = count[q] + 1 /\ count[q] + 1 > 0
        BY <1>1, <1>4, <2>2, <3>3
      <4> QED  BY <3>1, <3>2, <3>3, <4>1 DEF PermitsOf
    <3>4. CASE q # s  BY <1>1, <3>1, <3>4 DEF PermitsOf
    <3> QED  BY <3>3, <3>4
  <2> QED  BY <2>1, <2>2
<1> QED  BY <1>6, <1>7, <1>8 DEF Abstract!Signal

\* At first there are no permits and nobody waits.
LEMMA AbstractInit == SemInit => Abstract!Init
<1> SUFFICES ASSUME SemInit PROVE Abstract!Init  OBVIOUS
<1>1. \A t \in Threads : t \in Contexts /\ t \notin CPUs /\ pc[t] = "new" /\ arg[t] \in Waitqs
  BY SchedAssumption DEF SemInit, SchedInit, Contexts
<1>2. \A q \in Waitqs : Waking(q) = {}  BY DEF SemInit, SchedInit, Waking
<1>3. \A q \in Waitqs : PermitsOf(q) = 0  BY <1>2, FS_EmptySet DEF SemInit, PermitsOf
<1>4. \A q \in Waitqs : QueueOf(q) = <<>>  BY DEF SemInit, SchedInit, QueueOf
<1>5. \A t \in Threads : WantOf(t) = Idle
  BY <1>1, EmptyQueue DEF SemInit, SchedInit, WantOf
<1> QED  BY <1>3, <1>4, <1>5 DEF Abstract!Init

\* Every step of the semaphores is a step of the abstract ones, or none.
LEMMA AbstractNext ==
    ASSUME SchedInv, SchedInv', WaitsOnArg, SemTypeOK, WakeupsBalance, [SemNext]_vars
    PROVE  [Abstract!Next]_(Abstract!vars)
<1>1. count \in [Waitqs -> Int] /\ pc \in [Contexts -> ThreadPcs \cup CpuPcs]
      /\ arg \in [Contexts -> Waitqs]
  BY DEF SemTypeOK, SchedTypeOK
<1>2. \A t \in Threads : t \in Contexts /\ t \notin CPUs  BY SchedAssumption DEF Contexts
<1>3. \A c \in CPUs : c \in Contexts  BY DEF Contexts
<1>4. ASSUME NEW a \in Contexts, QuietStep(a), UNCHANGED count PROVE UNCHANGED Abstract!vars
  <2>1. PICK l : pc' = [pc EXCEPT ![a] = l] /\ QuietEdge(a, l)  BY <1>4, QuietEffect
  <2>2. /\ l \in WakePcs <=> pc[a] \in WakePcs
        /\ l \in WaitPcs <=> pc[a] \in WaitPcs
        /\ l = "locked" <=> pc[a] = "locked"
    BY <2>1 DEF QuietEdge, WakePcs, WaitPcs
  <2>3. UNCHANGED <<waiters, wqlock, arg>>  BY <1>4, QuietEffect
  <2>4. \A b \in Contexts : /\ pc'[b] \in WakePcs <=> pc[b] \in WakePcs
                            /\ pc'[b] \in WaitPcs <=> pc[b] \in WaitPcs
                            /\ pc'[b] = "locked" <=> pc[b] = "locked"
    BY <1>1, <2>1, <2>2
  <2> QED  BY <1>4, <2>3, <2>4, AbstractStutter
<1>5. ASSUME NEW c \in CPUs, NEW t \in Threads, ThreadStart(c, t), UNCHANGED count
      PROVE  UNCHANGED Abstract!vars
  <2>1. /\ pc[t] = "new" /\ pc[c] = "none" /\ UNCHANGED <<waiters, wqlock, arg>>
        /\ pc' = [pc EXCEPT ![t] = "run",
                            ![c] = IF CpuOf[t] = c THEN "resched" ELSE @]
    BY <1>5 DEF ThreadStart, IntrEnabled, wqVars
  <2>2. \A b \in Contexts : /\ pc'[b] \in WakePcs <=> pc[b] \in WakePcs
                            /\ pc'[b] \in WaitPcs <=> pc[b] \in WaitPcs
                            /\ pc'[b] = "locked" <=> pc[b] = "locked"
    BY <1>1, <1>2, <1>3, <2>1 DEF WakePcs, WaitPcs
  <2> QED  BY <1>5, <2>1, <2>2, AbstractStutter
<1>6. ASSUME NEW t \in Threads, ThreadStep(t), UNCHANGED count PROVE UNCHANGED Abstract!vars
  BY <1>2, <1>4, <1>6, AbstractEnqueue DEF ThreadStep, QuietStep
<1>7. ASSUME NEW a \in Contexts, WakeStep(a), UNCHANGED count
      PROVE  UNCHANGED Abstract!vars \/ \E s \in Waitqs : Abstract!Grant(s)
  <2>1. ~WakeNobody(a)  BY <1>7, OwedToSomebody DEF WakeNobody, At, SignalFindsWaiter
  <2>2. CASE WakeRemove(a)  BY <1>1, <1>7, <2>2, AbstractGrant
  <2>3. CASE ThreadResume(a)  BY <1>4, <1>7, <2>3 DEF QuietStep
  <2> QED  BY <1>7, <2>1, <2>2, <2>3 DEF WakeStep
<1>8. ASSUME NEW t \in Threads, NEW s \in Waitqs, AwaitCall(t, s), UNCHANGED count
      PROVE  Abstract!Wait(t, s)
  BY <1>8, AbstractWait
<1>9. ASSUME NEW c \in CPUs, IntrStep(c) \/ DeviceIntr(c), UNCHANGED count
      PROVE  UNCHANGED Abstract!vars
  BY <1>3, <1>4, <1>9 DEF QuietStep
<1>10. ASSUME NEW t \in Threads, SemTake(t) \/ SemBlock(t)
       PROVE  Abstract!Take(t) \/ Abstract!Block(t)
  BY <1>1, <1>10, AbstractTake, AbstractBlock
<1>11. ASSUME NEW a \in Contexts, NEW s \in Waitqs, SemSignal(a, s) PROVE Abstract!Signal(s)
  BY <1>1, <1>11, AbstractSignal
<1>12. CASE UNCHANGED vars
  BY <1>12, AbstractStutter DEF vars, schedVars, wqVars, ctxVars
<1> QED  BY <1>5, <1>6, <1>7, <1>8, <1>9, <1>10, <1>11, <1>12
         DEF SemNext, SchedStep, Abstract!Next

\* The kernel's semaphores are counting semaphores whose permits go to the
\* waiters first come first served, and no newcomer takes one that a waiter is
\* owed, however many CPUs, threads and interrupt handlers use them.
THEOREM SemaphoresAreFifo == SemSpec => ImplementsFifoSemaphore
<1>1. SemInit => WaitsOnArg  BY WaitsOnArgInit DEF SemInit
<1>2. SchedInv /\ WaitsOnArg /\ [SemNext]_vars => WaitsOnArg'
  BY WaitsOnArgNext, SemStepIsSchedStep
<1>3. SchedInv /\ SchedInv' /\ WaitsOnArg /\ SemTypeOK /\ WakeupsBalance /\ [SemNext]_vars
        => [Abstract!Next]_(Abstract!vars)
  BY AbstractNext
<1> QED  BY <1>1, <1>2, <1>3, AbstractInit, SemaphoresUseSched, SchedInvariant,
            SemTypeCorrect, WakeupsBalanced, PTL
         DEF SemSpec, ImplementsFifoSemaphore, Abstract!Spec
=============================================================================
