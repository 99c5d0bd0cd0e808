----------------------------- MODULE MutexProofs -----------------------------
(***************************************************************************)
(* Proofs about Mutex: mutual exclusion, although the count is changed     *)
(* outside wq.lock and wake-ups may be lost.  The right to the mutex is    *)
(* followed through the wait queue: from the thread that unlocks to the    *)
(* waker that it becomes and on to the thread that the waker takes off     *)
(* the queue.                                                              *)
(***************************************************************************)
EXTENDS Mutex, SchedProofs

\* The mutex a thread uses is a mutex.
LEMMA MtxType == MutexSpec => [](mtx \in [Threads -> Waitqs])
<1>1. MutexInit => mtx \in [Threads -> Waitqs]
  <2> DEFINE q0 == CHOOSE q \in Waitqs : TRUE
  <2>1. q0 \in Waitqs  BY SchedAssumption
  <2>2. MutexInit => mtx = [t \in Threads |-> q0]  BY DEF MutexInit
  <2> HIDE DEF q0
  <2> QED  BY <2>1, <2>2
<1>2. mtx \in [Threads -> Waitqs] /\ [MutexNext]_vars => (mtx \in [Threads -> Waitqs])'
  BY DEF MutexNext, MutexStep, MutexAcquired, MutexDisown, MutexUnlock, MutexLock,
         mutexVars, vars
<1> QED  BY <1>1, <1>2, PTL DEF MutexSpec

\* Mutexes use the wait queues as Sched allows.
LEMMA MutexStepIsSchedStep ==
    mtx \in [Threads -> Waitqs] /\ [MutexNext]_vars => [SchedNext]_schedVars
<1> SUFFICES ASSUME mtx \in [Threads -> Waitqs], [MutexNext]_vars
             PROVE  [SchedNext]_schedVars
  OBVIOUS
<1>1. CASE SchedStep  BY <1>1 DEF SchedStep, SchedNext
<1>2. ASSUME NEW t \in Threads, MutexStep(t) PROVE [SchedNext]_schedVars
  <2>1. t \in Contexts /\ mtx[t] \in Waitqs  BY DEF Contexts
  <2>2. CASE MutexUnlock(t)  BY <2>1, <2>2 DEF MutexUnlock, SchedNext
  <2> QED  BY <1>2, <2>2 DEF MutexStep, MutexAcquired, MutexDisown
<1>3. ASSUME NEW t \in Threads, NEW q \in Waitqs, MutexLock(t, q)
      PROVE  [SchedNext]_schedVars
  BY <1>3 DEF MutexLock, SchedNext
<1>4. CASE UNCHANGED vars  BY <1>4 DEF vars
<1> QED  BY <1>1, <1>2, <1>3, <1>4 DEF MutexNext

\* Every behaviour of the mutexes is one of the scheduler and the wait queues.
THEOREM MutexesUseSched == MutexSpec => SchedSpec
<1>1. MutexInit => SchedInit  BY DEF MutexInit
<1> QED  BY <1>1, MtxType, MutexStepIsSchedStep, PTL DEF MutexSpec, SchedSpec
------------------------------------------------------------------------------
\* A step outside mutex_lock and mutex_unlock that gives nobody a turn.
LEMMA TurnsKept ==
    ASSUME MutexInv, UNCHANGED mutexVars, MutexPcInv',
           \A t \in Threads, q \in Waitqs : HasTurn(t, q)' => HasTurn(t, q)
    PROVE  MutexInv'
<1>1. MutexTypeOK'  BY DEF MutexInv, MutexTypeOK, mutexVars
<1>2. OneTurn'  BY DEF MutexInv, OneTurn, mutexVars
<1>3. OwnerInv'  BY DEF MutexInv, OwnerInv, mutexVars
<1> QED  BY <1>1, <1>2, <1>3 DEF MutexInv

\* A context moves on and the wait queues stay as they are.
LEMMA MutexMove ==
    ASSUME SchedInv, MutexInv, UNCHANGED <<mutexVars, waiters, arg>>,
           NEW a \in Contexts, NEW l, pc' = [pc EXCEPT ![a] = l],
           a \in CPUs => l \in {"none", "iret", "resched"},
           a \notin CPUs => \/ QuietEdge(a, l)
                            \/ pc[a] = "wake" /\ l = "run"
                            \/ pc[a] = "await" /\ l = "locked"
                            \/ pc[a] = "new" /\ l = "run"
    PROVE  MutexInv'
<1>1. pc \in [Contexts -> ThreadPcs \cup CpuPcs] /\ Contexts = Threads \cup CPUs
      /\ \A t \in Threads : t \notin CPUs
  BY SchedAssumption DEF SchedInv, SchedTypeOK, Contexts
<1>2. MutexPcInv /\ MutexTypeOK  BY DEF MutexInv
<1>3. UNCHANGED <<mcount, owner, mpc, mtx>>  BY DEF mutexVars
<1>4. MutexPcInv'
  BY <1>1, <1>2, <1>3 DEF MutexPcInv, MutexTypeOK, MutexPcs, QuietEdge
<1>5. ASSUME NEW t \in Threads, NEW q \in Waitqs, HasTurn(t, q)' PROVE HasTurn(t, q)
  <2>1. CASE t # a
    <3>1. pc'[t] = pc[t]  BY <1>1, <2>1
    <3> QED  BY <1>3, <1>5, <3>1 DEF HasTurn
  <2>2. CASE t = a
    <3>1. pc'[t] = l /\ t \notin CPUs  BY <1>1, <2>2
    <3> QED  BY <1>2, <1>3, <1>5, <2>2, <3>1
             DEF HasTurn, QuietEdge, MutexPcInv, MutexTypeOK, MutexPcs
  <2> QED  BY <2>1, <2>2
<1> QED  BY <1>4, <1>5, TurnsKept

\* A thread queues itself: it had no turn, and has none.
LEMMA MutexEnqueue ==
    ASSUME SchedInv, MutexInv, UNCHANGED mutexVars, NEW t \in Threads, AwaitEnqueue(t)
    PROVE  MutexInv'
<1> DEFINE s == arg[t]
<1>1. /\ pc \in [Contexts -> ThreadPcs \cup CpuPcs] /\ t \in Contexts /\ t \notin CPUs
      /\ Threads \subseteq Contexts /\ CPUs \subseteq Contexts
      /\ waiters \in [Waitqs -> Seq(Threads)] /\ s \in Waitqs
  BY SchedAssumption DEF SchedInv, SchedTypeOK, Contexts
<1>2. /\ pc[t] = "locked" /\ pc' = [pc EXCEPT ![t] = "parked"] /\ UNCHANGED arg
      /\ waiters' = [waiters EXCEPT ![s] = Append(waiters[s], t)]
  BY DEF AwaitEnqueue, At, Goto
<1>3. MutexPcInv /\ MutexTypeOK /\ UNCHANGED <<mcount, owner, mpc, mtx>>
  BY DEF MutexInv, mutexVars
<1>4. mpc[t] = "acquire" /\ mtx[t] = s
  BY <1>2, <1>3 DEF MutexPcInv, MutexTypeOK, MutexPcs
<1>5. Range(Append(waiters[s], t)) = Range(waiters[s]) \cup {t}  BY <1>1, AppendQueue
<1>6. t \in Range(waiters'[s]) /\ \A q \in Waitqs : Range(waiters[q]) \subseteq Range(waiters'[q])
  <2>1. waiters'[s] = Append(waiters[s], t) /\ \A q \in Waitqs : q # s => waiters'[q] = waiters[q]
    BY <1>1, <1>2
  <2> QED  BY <1>5, <2>1
<1>7. MutexPcInv'
  BY <1>1, <1>2, <1>3, <1>4 DEF MutexPcInv
<1> HIDE DEF s
<1>8. ASSUME NEW u \in Threads, NEW q \in Waitqs, HasTurn(u, q)' PROVE HasTurn(u, q)
  <2>1. CASE u = t
    <3>1. pc'[u] = "parked" /\ mtx'[u] = s /\ mpc'[u] = "acquire"
      BY <1>1, <1>2, <1>3, <1>4, <2>1
    <3> QED  BY <1>6, <1>8, <2>1, <3>1 DEF HasTurn
  <2>2. CASE u # t
    <3>1. pc'[u] = pc[u]  BY <1>1, <1>2, <2>2
    <3> QED  BY <1>2, <1>3, <1>6, <1>8, <3>1 DEF HasTurn
  <2> QED  BY <2>1, <2>2
<1> QED  BY <1>7, <1>8, TurnsKept

\* waitq_wake_one passes the waker's turn on to the thread it takes off the queue.
LEMMA MutexWake ==
    ASSUME SchedInv, WaitsOnArg, MutexInv, UNCHANGED mutexVars,
           NEW a \in Contexts, WakeRemove(a)
    PROVE  MutexInv'
<1> DEFINE s == arg[a]
           h == Head(waiters[s])
<1>1. /\ pc \in [Contexts -> ThreadPcs \cup CpuPcs] /\ Contexts = Threads \cup CPUs
      /\ \A t \in Threads : t \notin CPUs
      /\ waiters \in [Waitqs -> Seq(Threads)] /\ s \in Waitqs
      /\ \A q \in Waitqs : IsInjective(waiters[q])
  BY SchedAssumption DEF SchedInv, SchedTypeOK, LinkedOnce, Contexts
<1>2. /\ pc[a] = "wake" /\ pc' = [pc EXCEPT ![a] = "took"] /\ UNCHANGED arg
      /\ waiters[s] # <<>> /\ waiters' = [waiters EXCEPT ![s] = Tail(waiters[s])]
  BY DEF WakeRemove, At, Goto
<1>3. MutexPcInv /\ MutexTypeOK /\ OneTurn /\ OwnerInv /\ UNCHANGED <<mcount, owner, mpc, mtx>>
  BY DEF MutexInv, mutexVars
<1>4. a \in Threads  BY <1>1, <1>2, <1>3 DEF MutexPcInv
<1>5. h \in Range(waiters[s]) /\ Range(Tail(waiters[s])) = Range(waiters[s]) \ {h}
  BY <1>1, <1>2, PopQueue
<1>6. h \in Threads /\ arg[h] = s /\ pc[h] \in {"parked", "resumed"}
  BY <1>1, <1>5, QueuedParked DEF WaitsOnArg
<1>7. mpc[h] = "acquire" /\ mtx[h] = s
  BY <1>3, <1>6 DEF MutexPcInv, MutexTypeOK, MutexPcs
<1>8. HasTurn(a, s)  BY <1>2 DEF HasTurn
<1>9. MutexPcInv'  BY <1>1, <1>2, <1>3, <1>4 DEF MutexPcInv, MutexTypeOK, MutexPcs
<1>10. waiters'[s] = Tail(waiters[s]) /\ \A q \in Waitqs : q # s => waiters'[q] = waiters[q]
  BY <1>1, <1>2
<1> HIDE DEF s, h
<1>11. ASSUME NEW u \in Threads, NEW q \in Waitqs, HasTurn(u, q)'
       PROVE  u # a /\ (HasTurn(u, q) \/ (u = h /\ q = s))
  <2>1. CASE u = a
    <3>1. pc'[u] = "took" /\ mpc'[u] = "out"
      BY <1>1, <1>2, <1>3, <1>4, <2>1 DEF MutexPcInv, MutexTypeOK, MutexPcs
    <3> QED  BY <1>11, <3>1 DEF HasTurn
  <2>2. CASE u # a
    <3>1. pc'[u] = pc[u]  BY <1>1, <1>2, <2>2
    <3>2. u # h \/ q # s => (u \in Range(waiters'[q]) <=> u \in Range(waiters[q]))
      BY <1>5, <1>10
    <3> QED  BY <1>2, <1>3, <1>11, <2>2, <3>1, <3>2 DEF HasTurn
  <2> QED  BY <2>1, <2>2
<1>12. OneTurn'
  <2>1. ASSUME NEW q \in Waitqs, NEW t \in Threads, NEW u \in Threads,
               HasTurn(t, q)', HasTurn(u, q)'
        PROVE  t = u
    <3>1. q = s => t = h /\ u = h  BY <1>3, <1>4, <1>8, <1>11, <2>1 DEF OneTurn
    <3>2. q # s => t = u  BY <1>3, <1>11, <2>1 DEF OneTurn
    <3> QED  BY <3>1, <3>2
  <2>2. ASSUME NEW q \in Waitqs, NEW t \in Threads, HasTurn(t, q)' PROVE mcount'[q] # 0
    BY <1>3, <1>4, <1>8, <1>11, <2>2 DEF OneTurn
  <2> QED  BY <2>1, <2>2 DEF OneTurn
<1>13. MutexTypeOK' /\ OwnerInv'  BY <1>3 DEF MutexTypeOK, OwnerInv
<1> QED  BY <1>9, <1>12, <1>13 DEF MutexInv

\* mutex_lock: a thread that finds the count zero has the turn, as nobody else
\* does; one that does not has to wait for it.
LEMMA MutexLockInv ==
    ASSUME SchedInv, MutexInv, NEW t \in Threads, NEW r \in Waitqs, MutexLock(t, r)
    PROVE  MutexInv'
<1>1. /\ pc \in [Contexts -> ThreadPcs \cup CpuPcs] /\ arg \in [Contexts -> Waitqs]
      /\ Contexts = Threads \cup CPUs
      /\ \A u \in Threads : u \notin CPUs
  BY SchedAssumption DEF SchedInv, SchedTypeOK, Contexts
<1>2. MutexPcInv /\ MutexTypeOK /\ OneTurn /\ OwnerInv  BY DEF MutexInv
<1>3. /\ pc[t] = "run" /\ mpc[t] = "out" /\ UNCHANGED <<owner, waiters>>
      /\ mcount' = [mcount EXCEPT ![r] = mcount[r] + 1]
      /\ mpc' = [mpc EXCEPT ![t] = "acquire"] /\ mtx' = [mtx EXCEPT ![t] = r]
      /\ mcount[r] >= 1 => /\ pc' = [pc EXCEPT ![t] = "awaitcall"]
                           /\ arg' = [arg EXCEPT ![t] = r]
      /\ ~(mcount[r] >= 1) => UNCHANGED <<pc, arg>>
  BY DEF MutexLock, AwaitCall, At, Goto, schedVars, wqVars, ctxVars
<1>4. mcount \in [Waitqs -> Nat] /\ mpc \in [Threads -> MutexPcs] /\ mtx \in [Threads -> Waitqs]
  BY <1>2 DEF MutexTypeOK
<1>5. MutexTypeOK'  BY <1>2, <1>3 DEF MutexTypeOK, MutexPcs
<1>6. /\ mpc'[t] = "acquire" /\ mtx'[t] = r
      /\ \A u \in Threads : u # t => /\ mpc'[u] = mpc[u] /\ mtx'[u] = mtx[u]
                                     /\ pc'[u] = pc[u] /\ arg'[u] = arg[u]
      /\ \A c \in CPUs : pc'[c] = pc[c]
      /\ mcount[r] >= 1 => pc'[t] = "awaitcall" /\ arg'[t] = r
      /\ ~(mcount[r] >= 1) => pc'[t] = "run"
  BY <1>1, <1>3, <1>4
<1>7. MutexPcInv'  BY <1>2, <1>6 DEF MutexPcInv
<1>8. OwnerInv'
  <2>1. \A q \in Waitqs : owner[q] # Idle => owner[q] \in Threads /\ owner[q] # t
    BY <1>2, <1>3 DEF OwnerInv, MutexTypeOK
  <2> QED  BY <1>2, <1>3, <1>6, <2>1 DEF OwnerInv, MutexTypeOK
<1>9. /\ \A u \in Threads, q \in Waitqs : u # t /\ HasTurn(u, q)' => HasTurn(u, q)
      /\ \A q \in Waitqs : HasTurn(t, q)' => q = r /\ ~(mcount[r] >= 1)
  BY <1>3, <1>6 DEF HasTurn
<1>10. \A u \in Threads : mcount[r] = 0 => ~HasTurn(u, r)  BY <1>2 DEF OneTurn
<1>11. mcount[r] \in Nat /\ mcount'[r] = mcount[r] + 1
       /\ \A q \in Waitqs : q # r => mcount'[q] = mcount[q]
  BY <1>3, <1>4
<1>12. OneTurn'
  <2>1. ASSUME NEW q \in Waitqs, NEW u \in Threads, NEW v \in Threads,
               HasTurn(u, q)', HasTurn(v, q)'
        PROVE  u = v
    BY <1>2, <1>9, <1>10, <1>11, <2>1 DEF OneTurn
  <2>2. ASSUME NEW q \in Waitqs, NEW u \in Threads, HasTurn(u, q)' PROVE mcount'[q] # 0
    BY <1>2, <1>9, <1>11, <2>2 DEF OneTurn
  <2> QED  BY <2>1, <2>2 DEF OneTurn
<1> QED  BY <1>5, <1>7, <1>8, <1>12 DEF MutexInv

\* The end of mutex_lock and the beginning of mutex_unlock set and clear owner.
LEMMA MutexOwnerInv ==
    ASSUME SchedInv, MutexInv, NEW t \in Threads, MutexAcquired(t) \/ MutexDisown(t)
    PROVE  MutexInv'
<1> DEFINE r == mtx[t]
<1>1. MutexPcInv /\ MutexTypeOK /\ OneTurn /\ OwnerInv  BY DEF MutexInv
<1>2. /\ UNCHANGED <<pc, arg, waiters, mcount, mtx>> /\ pc[t] = "run"
      /\ \/ /\ mpc[t] = "acquire" /\ mpc' = [mpc EXCEPT ![t] = "in"]
            /\ owner[r] = Idle /\ owner' = [owner EXCEPT ![r] = t]
         \/ /\ mpc[t] = "in" /\ mpc' = [mpc EXCEPT ![t] = "release"]
            /\ owner[r] = t /\ owner' = [owner EXCEPT ![r] = Idle]
  BY DEF MutexAcquired, MutexDisown, At, schedVars, wqVars, ctxVars
<1>3. r \in Waitqs /\ mpc \in [Threads -> MutexPcs] /\ owner \in [Waitqs -> Threads \cup {Idle}]
  BY <1>1 DEF MutexTypeOK
<1>4. MutexTypeOK'  BY <1>1, <1>2 DEF MutexTypeOK, MutexPcs
<1>5. MutexPcInv'  BY <1>1, <1>2, <1>3 DEF MutexPcInv
<1>6. \A u \in Threads, q \in Waitqs : HasTurn(u, q)' <=> HasTurn(u, q)
  BY <1>2, <1>3 DEF HasTurn
<1>7. OneTurn'  BY <1>1, <1>2, <1>6 DEF OneTurn
<1>8. ASSUME NEW u \in Threads, mpc[u] = "in", mtx[u] = r PROVE u = t
  BY <1>1, <1>2, <1>3, <1>8 DEF OneTurn, HasTurn
<1>9. OwnerInv'
  <2>1. ASSUME NEW u \in Threads, mpc'[u] = "in" PROVE owner'[mtx'[u]] = u
    <3>1. CASE u = t  BY <1>2, <1>3, <2>1, <3>1
    <3>2. CASE u # t
      <4>1. mpc[u] = "in" /\ mtx[u] # r  BY <1>2, <1>3, <1>8, <2>1, <3>2
      <4> QED  BY <1>1, <1>2, <1>3, <4>1 DEF OwnerInv, MutexTypeOK
    <3> QED  BY <3>1, <3>2
  <2>2. ASSUME NEW q \in Waitqs, owner'[q] # Idle
        PROVE  mpc'[owner'[q]] = "in" /\ mtx'[owner'[q]] = q
    <3>1. CASE q = r  BY <1>2, <1>3, <2>2, <3>1
    <3>2. CASE q # r
      <4>1. owner'[q] = owner[q] /\ owner[q] # t /\ owner[q] \in Threads
        BY <1>1, <1>2, <1>3, <2>2, <3>2 DEF OwnerInv
      <4> QED  BY <1>1, <1>2, <1>3, <2>2, <4>1 DEF OwnerInv
    <3> QED  BY <3>1, <3>2
  <2> QED  BY <2>1, <2>2 DEF OwnerInv
<1> QED  BY <1>4, <1>5, <1>7, <1>9 DEF MutexInv

\* The end of mutex_unlock: the turn ends, or the thread keeps it as a waker.
LEMMA MutexUnlockInv ==
    ASSUME SchedInv, MutexInv, NEW t \in Threads, MutexUnlock(t)
    PROVE  MutexInv'
<1> DEFINE r == mtx[t]
<1>1. /\ pc \in [Contexts -> ThreadPcs \cup CpuPcs] /\ arg \in [Contexts -> Waitqs]
      /\ Contexts = Threads \cup CPUs
      /\ \A u \in Threads : u \notin CPUs
  BY SchedAssumption DEF SchedInv, SchedTypeOK, Contexts
<1>2. MutexPcInv /\ MutexTypeOK /\ OneTurn /\ OwnerInv  BY DEF MutexInv
<1>3. /\ pc[t] = "run" /\ mpc[t] = "release" /\ UNCHANGED <<owner, waiters, mtx>>
      /\ mcount' = [mcount EXCEPT ![r] = mcount[r] - 1]
      /\ mpc' = [mpc EXCEPT ![t] = "out"]
      /\ mcount[r] > 1 => /\ pc' = [pc EXCEPT ![t] = "wakecall"]
                          /\ arg' = [arg EXCEPT ![t] = r]
      /\ ~(mcount[r] > 1) => UNCHANGED <<pc, arg>>
  BY <1>1 DEF MutexUnlock, WakeCall, At, Goto, schedVars, wqVars, ctxVars
<1>4. mcount \in [Waitqs -> Nat] /\ mpc \in [Threads -> MutexPcs] /\ r \in Waitqs
  BY <1>2 DEF MutexTypeOK
<1>5. HasTurn(t, r) /\ mcount[r] \in Nat /\ mcount[r] # 0
  BY <1>2, <1>3, <1>4 DEF HasTurn, OneTurn
<1>6. MutexTypeOK'
  <2>1. mcount[r] - 1 \in Nat  BY <1>5
  <2> QED  BY <1>2, <1>3, <1>4, <2>1 DEF MutexTypeOK, MutexPcs
<1>7. /\ mpc'[t] = "out"
      /\ \A u \in Threads : u # t => /\ mpc'[u] = mpc[u]
                                     /\ pc'[u] = pc[u] /\ arg'[u] = arg[u]
      /\ \A c \in CPUs : pc'[c] = pc[c]
      /\ mcount[r] > 1 => pc'[t] = "wakecall" /\ arg'[t] = r
      /\ ~(mcount[r] > 1) => pc'[t] = "run"
  BY <1>1, <1>3, <1>4
<1>8. MutexPcInv'  BY <1>2, <1>3, <1>7 DEF MutexPcInv
<1>9. OwnerInv'
  <2>1. \A q \in Waitqs : owner[q] # Idle => owner[q] \in Threads /\ owner[q] # t
    BY <1>2, <1>3 DEF OwnerInv, MutexTypeOK
  <2> QED  BY <1>2, <1>3, <1>7, <2>1 DEF OwnerInv, MutexTypeOK
<1>10. /\ \A u \in Threads, q \in Waitqs : u # t /\ HasTurn(u, q)' => HasTurn(u, q)
       /\ \A q \in Waitqs : HasTurn(t, q)' => q = r /\ mcount[r] > 1
  BY <1>3, <1>7 DEF HasTurn
<1>11. mcount'[r] = mcount[r] - 1 /\ \A q \in Waitqs : q # r => mcount'[q] = mcount[q]
  BY <1>3, <1>4
<1>12. \A u \in Threads : u # t => ~HasTurn(u, r)  BY <1>2, <1>4, <1>5 DEF OneTurn
<1> HIDE DEF r
<1>13. OneTurn'
  <2>1. ASSUME NEW q \in Waitqs, NEW u \in Threads, NEW v \in Threads,
               HasTurn(u, q)', HasTurn(v, q)'
        PROVE  u = v
    BY <1>2, <1>10, <1>12, <2>1 DEF OneTurn
  <2>2. ASSUME NEW q \in Waitqs, NEW u \in Threads, HasTurn(u, q)' PROVE mcount'[q] # 0
    <3>1. CASE q = r  BY <1>5, <1>10, <1>11, <1>12, <2>2, <3>1
    <3>2. CASE q # r  BY <1>2, <1>10, <1>11, <2>2, <3>2 DEF OneTurn
    <3> QED  BY <3>1, <3>2
  <2> QED  BY <2>1, <2>2 DEF OneTurn
<1> QED  BY <1>6, <1>8, <1>9, <1>13 DEF MutexInv

\* At first nobody has a turn.
LEMMA MutexInitInv == MutexInit => MutexInv
<1> SUFFICES ASSUME MutexInit PROVE MutexInv  OBVIOUS
<1> DEFINE q0 == CHOOSE q \in Waitqs : TRUE
<1>1. q0 \in Waitqs  BY SchedAssumption
<1>2. /\ mcount = [q \in Waitqs |-> 0] /\ owner = [q \in Waitqs |-> Idle]
      /\ mpc = [t \in Threads |-> "out"] /\ mtx = [t \in Threads |-> q0]
      /\ pc = [a \in Contexts |-> IF a \in CPUs THEN "none" ELSE "new"]
  BY DEF MutexInit, SchedInit
<1> HIDE DEF q0
<1>3. \A t \in Threads : t \in Contexts /\ t \notin CPUs  BY SchedAssumption DEF Contexts
<1>4. \A c \in CPUs : c \in Contexts  BY DEF Contexts
<1>5. MutexTypeOK  BY <1>1, <1>2 DEF MutexTypeOK, MutexPcs
<1>6. MutexPcInv  BY <1>2, <1>3, <1>4 DEF MutexPcInv
<1>7. OneTurn  BY <1>2, <1>3 DEF OneTurn, HasTurn
<1>8. OwnerInv  BY <1>2 DEF OwnerInv
<1> QED  BY <1>5, <1>6, <1>7, <1>8 DEF MutexInv

\* Every step keeps the invariant.
LEMMA MutexNextInv ==
    SchedInv /\ WaitsOnArg /\ MutexInv /\ [MutexNext]_vars => MutexInv'
<1> SUFFICES ASSUME SchedInv, WaitsOnArg, MutexInv, [MutexNext]_vars PROVE MutexInv'
  OBVIOUS
<1>1. \A t \in Threads : t \in Contexts /\ t \notin CPUs  BY SchedAssumption DEF Contexts
<1>2. \A c \in CPUs : c \in Contexts  BY DEF Contexts
<1>3. pc \in [Contexts -> ThreadPcs \cup CpuPcs] /\ MutexPcInv
  BY DEF SchedInv, SchedTypeOK, MutexInv
<1>4. ASSUME NEW t \in Threads, ThreadStep(t) \/ AwaitLockWq(t), UNCHANGED mutexVars
      PROVE  MutexInv'
  <2>1. CASE AwaitEnqueue(t)  BY <1>4, <2>1, MutexEnqueue
  <2>2. CASE AwaitLockWq(t)
    BY <1>1, <1>4, <2>2, MutexMove DEF AwaitLockWq, At, Goto
  <2>3. CASE QuietStep(t)
    <3>1. UNCHANGED <<waiters, arg>> /\ \E l : pc' = [pc EXCEPT ![t] = l] /\ QuietEdge(t, l)
      BY <1>1, <2>3, QuietEffect
    <3> QED  BY <1>1, <1>4, <3>1, MutexMove
  <2> QED  BY <1>4, <2>1, <2>2, <2>3 DEF ThreadStep, QuietStep
<1>5. ASSUME NEW a \in Contexts, WakeStep(a), UNCHANGED mutexVars PROVE MutexInv'
  <2>1. pc[a] \in {"wake", "took"}  BY <1>5 DEF WakeStep, WakeRemove, WakeNobody, ThreadResume, At
  <2>2. a \notin CPUs  BY <1>3, <2>1 DEF MutexPcInv
  <2>3. CASE WakeRemove(a)  BY <1>5, <2>3, MutexWake
  <2>4. CASE WakeNobody(a)
    BY <1>5, <2>2, <2>4, MutexMove DEF WakeNobody, At, Goto, Home, wqVars
  <2>5. CASE ThreadResume(a)
    <3>1. QuietStep(a)  BY <2>5 DEF QuietStep
    <3>2. UNCHANGED <<waiters, arg>> /\ \E l : pc' = [pc EXCEPT ![a] = l] /\ QuietEdge(a, l)
      BY <3>1, QuietEffect
    <3> QED  BY <1>5, <2>2, <3>2, MutexMove
  <2> QED  BY <1>5, <2>3, <2>4, <2>5 DEF WakeStep
<1>6. ASSUME NEW c \in CPUs, IntrStep(c), UNCHANGED mutexVars PROVE MutexInv'
  <2>1. UNCHANGED <<waiters, arg>>
        /\ \E l \in {"none", "iret", "resched"} : pc' = [pc EXCEPT ![c] = l]
    BY <1>6 DEF IntrStep, TimerIntr, ReschedIntr, IntrReturn, CpuReschedule, Goto, wqVars
  <2> QED  BY <1>2, <1>6, <2>1, MutexMove
<1>7. ASSUME NEW c \in CPUs, NEW t \in Threads, ThreadStart(c, t), UNCHANGED mutexVars
      PROVE  MutexInv'
  <2>1. /\ pc[t] = "new" /\ UNCHANGED <<waiters, arg>>
        /\ \A u \in Threads : pc'[u] = IF u = t THEN "run" ELSE pc[u]
        /\ \A d \in CPUs : pc'[d] \in {pc[d], "resched"}
    BY <1>1, <1>2, <1>3, <1>7 DEF ThreadStart, wqVars
  <2>2. mpc[t] = "out" /\ UNCHANGED <<mcount, owner, mpc, mtx>>
    BY <1>3, <1>7, <2>1 DEF MutexInv, MutexTypeOK, MutexPcs, MutexPcInv, mutexVars
  <2>3. MutexPcInv'  BY <1>3, <2>1, <2>2 DEF MutexPcInv
  <2>4. \A u \in Threads, q \in Waitqs : HasTurn(u, q)' => HasTurn(u, q)
    BY <2>1, <2>2 DEF HasTurn
  <2> QED  BY <1>7, <2>3, <2>4, TurnsKept
<1>8. CASE UNCHANGED vars
  <2>1. UNCHANGED <<mutexVars, mcount, owner, mpc, mtx, pc, arg, waiters>>
    BY <1>8 DEF vars, mutexVars, schedVars, wqVars, ctxVars
  <2> QED  BY <1>3, <2>1, TurnsKept DEF MutexPcInv, HasTurn
<1> QED  BY <1>4, <1>5, <1>6, <1>7, <1>8, MutexLockInv, MutexOwnerInv, MutexUnlockInv
         DEF MutexNext, MutexStep, SchedStep

\* mutex_lock returns to one thread at a time, and the assertions on owner in
\* mutex_lock and mutex_unlock hold, for any number of CPUs, threads and mutexes.
THEOREM MutexesExclude == MutexSpec => []MutualExclusion
<1>1. ASSUME MutexInv PROVE MutualExclusion
  <2> SUFFICES ASSUME NEW q \in Waitqs
               PROVE  /\ \A t, u \in Holders(q) : t = u
                      /\ \A t \in Holders(q) : owner[q] = IF mpc[t] = "in" THEN t ELSE Idle
    BY DEF MutualExclusion
  <2>1. \A t \in Holders(q) : t \in Threads /\ HasTurn(t, q) /\ mtx[t] = q
    BY DEF Holders, HasTurn
  <2>2. \A t, u \in Holders(q) : t = u  BY <1>1, <2>1 DEF MutexInv, OneTurn
  <2>3. ASSUME NEW t \in Holders(q), owner[q] # Idle PROVE owner[q] = t /\ mpc[t] = "in"
    <3>1. owner[q] \in Threads /\ mpc[owner[q]] = "in" /\ mtx[owner[q]] = q
      BY <1>1, <2>3 DEF MutexInv, OwnerInv, MutexTypeOK
    <3>2. owner[q] \in Holders(q)  BY <3>1 DEF Holders
    <3> QED  BY <2>2, <2>3, <3>1, <3>2
  <2>4. ASSUME NEW t \in Holders(q), mpc[t] = "in" PROVE owner[q] = t
    BY <1>1, <2>1, <2>4 DEF MutexInv, OwnerInv
  <2> QED  BY <2>2, <2>3, <2>4
<1>2. MutexInit => WaitsOnArg  BY WaitsOnArgInit DEF MutexInit
<1>3. mtx \in [Threads -> Waitqs] /\ SchedInv /\ WaitsOnArg /\ [MutexNext]_vars => WaitsOnArg'
  BY MutexStepIsSchedStep, WaitsOnArgNext
<1> QED  BY <1>1, <1>2, <1>3, MutexInitInv, MutexNextInv, MtxType, MutexesUseSched,
            SchedInvariant, PTL
         DEF MutexSpec
=============================================================================
