----------------------------- MODULE SchedProofs -----------------------------
(***************************************************************************)
(* Proofs about Sched: the queues of threads stay well formed, whatever    *)
(* the number of CPUs, threads and wait queues, and whoever wakes whom.    *)
(***************************************************************************)
EXTENDS Sched, SequenceTheorems, TLAPS

------------------------------------------------------------------------------
\* What the operations of queue.h do to queues, as sequences: whose members they
\* have, and that no element is on a queue twice.

\* TAILQ_INSERT_TAIL of an element that is not on the queue.
LEMMA AppendQueue ==
    ASSUME NEW S, NEW s \in Seq(S), NEW e \in S
    PROVE  /\ Append(s, e) \in Seq(S)
           /\ Append(s, e) # <<>>
           /\ Range(Append(s, e)) = Range(s) \cup {e}
           /\ IsInjective(s) /\ e \notin Range(s) => IsInjective(Append(s, e))
<1> DEFINE a == Append(s, e)
<1>1. /\ a \in Seq(S) /\ a # <<>> /\ Len(a) = Len(s) + 1 /\ Len(s) \in Nat
      /\ DOMAIN a = 1 .. Len(a) /\ DOMAIN s = 1 .. Len(s)
      /\ \A i \in 1 .. Len(s) : a[i] = s[i]
      /\ a[Len(s) + 1] = e
  BY AppendProperties, LenProperties
<1> HIDE DEF a
<1>2. Range(a) = Range(s) \cup {e}
  <2>1. ASSUME NEW i \in DOMAIN a PROVE a[i] \in Range(s) \cup {e}
    <3>1. i \in DOMAIN s \/ i = Len(s) + 1  BY <1>1
    <3> QED  BY <3>1, <1>1 DEF Range
  <2>2. ASSUME NEW i \in DOMAIN s PROVE s[i] \in Range(a)
    <3>1. i \in DOMAIN a /\ a[i] = s[i]  BY <1>1
    <3> QED  BY <3>1 DEF Range
  <2>3. e \in Range(a)
    <3>1. Len(s) + 1 \in DOMAIN a  BY <1>1
    <3> QED  BY <3>1, <1>1 DEF Range
  <2> QED  BY <2>1, <2>2, <2>3 DEF Range
<1>3. ASSUME IsInjective(s), e \notin Range(s) PROVE IsInjective(a)
  <2>1. \A i \in DOMAIN s : s[i] # e  BY <1>3 DEF Range
  <2> QED  BY <1>1, <1>3, <2>1 DEF IsInjective
<1> QED  BY <1>1, <1>2, <1>3 DEF a

\* TAILQ_INSERT_HEAD of an element that is not on the queue.
LEMMA PushQueue ==
    ASSUME NEW S, NEW s \in Seq(S), NEW e \in S
    PROVE  /\ <<e>> \o s \in Seq(S)
           /\ Range(<<e>> \o s) = Range(s) \cup {e}
           /\ IsInjective(s) /\ e \notin Range(s) => IsInjective(<<e>> \o s)
<1> DEFINE a == <<e>> \o s
<1>1. /\ a \in Seq(S) /\ Len(a) = Len(s) + 1 /\ Len(s) \in Nat
      /\ DOMAIN a = 1 .. Len(a) /\ DOMAIN s = 1 .. Len(s)
      /\ \A i \in 1 .. Len(s) : a[i + 1] = s[i]
      /\ a[1] = e
  <2>1. <<e>> \in Seq(S) /\ Len(<<e>>) = 1 /\ <<e>>[1] = e  OBVIOUS
  <2>2. a \in Seq(S) /\ Len(a) = 1 + Len(s) /\ Len(s) \in Nat
    BY <2>1, ConcatProperties, LenProperties
  <2>3. \A i \in 1 .. 1 + Len(s) : a[i] = IF i <= 1 THEN <<e>>[i] ELSE s[i - 1]
    BY <2>1, ConcatProperties
  <2>4. DOMAIN a = 1 .. Len(a) /\ DOMAIN s = 1 .. Len(s)
    BY <2>2, LenProperties
  <2> HIDE DEF a
  <2> QED  BY <2>1, <2>2, <2>3, <2>4
<1> HIDE DEF a
<1>2. Range(a) = Range(s) \cup {e}
  <2>1. ASSUME NEW i \in DOMAIN a PROVE a[i] \in Range(s) \cup {e}
    <3>1. i = 1 \/ (i - 1 \in DOMAIN s /\ a[i] = s[i - 1])
      <4>1. CASE i = 1  BY <4>1
      <4>2. CASE i # 1
        <5>1. i - 1 \in 1 .. Len(s) /\ (i - 1) + 1 = i  BY <1>1, <4>2
        <5> QED  BY <5>1, <1>1
      <4> QED  BY <4>1, <4>2
    <3> QED  BY <3>1, <1>1 DEF Range
  <2>2. ASSUME NEW i \in DOMAIN s PROVE s[i] \in Range(a)
    <3>1. i + 1 \in DOMAIN a /\ a[i + 1] = s[i]  BY <1>1
    <3> QED  BY <3>1 DEF Range
  <2>3. e \in Range(a)
    <3>1. 1 \in DOMAIN a  BY <1>1
    <3> QED  BY <3>1, <1>1 DEF Range
  <2> QED  BY <2>1, <2>2, <2>3 DEF Range
<1>3. ASSUME IsInjective(s), e \notin Range(s) PROVE IsInjective(a)
  <2>1. \A i \in DOMAIN s : s[i] # e  BY <1>3 DEF Range
  <2>2. \A i \in DOMAIN a : i # 1 => i - 1 \in DOMAIN s /\ a[i] = s[i - 1]
    <3> TAKE i \in DOMAIN a
    <3> HAVE i # 1
    <3>1. i - 1 \in 1 .. Len(s) /\ (i - 1) + 1 = i  BY <1>1
    <3> QED  BY <3>1, <1>1
  <2>3. SUFFICES ASSUME NEW i \in DOMAIN a, NEW j \in DOMAIN a, a[i] = a[j]
                 PROVE  i = j
    BY DEF IsInjective
  <2>4. CASE i = 1 \/ j = 1  BY <2>1, <2>2, <2>3, <2>4, <1>1
  <2>5. CASE i # 1 /\ j # 1
    <3>1. i - 1 = j - 1  BY <2>2, <2>3, <2>5, <1>3 DEF IsInjective
    <3>2. i \in Int /\ j \in Int  BY <1>1
    <3> QED  BY <3>1, <3>2
  <2> QED  BY <2>4, <2>5
<1> QED  BY <1>1, <1>2, <1>3 DEF a

\* TAILQ_REMOVE of the first element.
LEMMA PopQueue ==
    ASSUME NEW S, NEW s \in Seq(S), s # <<>>
    PROVE  /\ Tail(s) \in Seq(S)
           /\ Head(s) \in S
           /\ Head(s) \in Range(s)
           /\ Len(Tail(s)) = Len(s) - 1
           /\ IsInjective(s) => /\ IsInjective(Tail(s))
                                /\ Range(Tail(s)) = Range(s) \ {Head(s)}
<1> DEFINE r == Tail(s)
<1>1. /\ r \in Seq(S) /\ Head(s) \in S /\ Len(r) = Len(s) - 1
      /\ Len(s) \in Nat \ {0} /\ Len(r) \in Nat
      /\ DOMAIN r = 1 .. Len(r) /\ DOMAIN s = 1 .. Len(s)
      /\ \A i \in 1 .. Len(r) : r[i] = s[i + 1]
  BY HeadTailProperties, LenProperties, EmptySeq
<1>2. Head(s) = s[1]  OBVIOUS
<1> HIDE DEF r
<1>3. Head(s) \in Range(s)
  <2>1. 1 \in DOMAIN s  BY <1>1
  <2> QED  BY <2>1, <1>2 DEF Range
<1>4. ASSUME IsInjective(s)
      PROVE  IsInjective(r) /\ Range(r) = Range(s) \ {Head(s)}
  <2>1. \A i \in DOMAIN r : i + 1 \in DOMAIN s /\ r[i] = s[i + 1] /\ i + 1 # 1
    BY <1>1
  <2>2. IsInjective(r)
    <3> SUFFICES ASSUME NEW i \in DOMAIN r, NEW j \in DOMAIN r, r[i] = r[j]
                 PROVE  i = j
      BY DEF IsInjective
    <3>1. i + 1 = j + 1  BY <2>1, <1>4 DEF IsInjective
    <3>2. i \in Int /\ j \in Int  BY <1>1
    <3> QED  BY <3>1, <3>2
  <2>3. ASSUME NEW x \in Range(r) PROVE x \in Range(s) \ {Head(s)}
    <3>1. PICK i \in DOMAIN r : r[i] = x  BY DEF Range
    <3>2. i + 1 \in DOMAIN s /\ s[i + 1] = x /\ i + 1 # 1  BY <2>1, <3>1
    <3>3. 1 \in DOMAIN s  BY <1>1
    <3>4. x # s[1]  BY <3>2, <3>3, <1>4 DEF IsInjective
    <3> QED  BY <3>2, <3>4, <1>2 DEF Range
  <2>4. ASSUME NEW x \in Range(s), x # Head(s) PROVE x \in Range(r)
    <3>1. PICK i \in DOMAIN s : s[i] = x  BY DEF Range
    <3>2. i # 1  BY <3>1, <2>4, <1>2
    <3>3. i - 1 \in DOMAIN r /\ (i - 1) + 1 = i  BY <3>2, <1>1
    <3>4. r[i - 1] = x  BY <3>3, <3>1, <1>1
    <3> QED  BY <3>3, <3>4 DEF Range
  <2> QED  BY <2>2, <2>3, <2>4
<1> QED  BY <1>1, <1>3, <1>4 DEF r

\* An empty queue has no members.
LEMMA EmptyQueue ==
    ASSUME NEW S
    PROVE  /\ <<>> \in Seq(S)
           /\ Range(<<>>) = {}
           /\ IsInjective(<<>>)
<1>1. DOMAIN <<>> = {}  OBVIOUS
<1> QED  BY <1>1, EmptySeq DEF Range, IsInjective

\* The members of a queue of elements of S are elements of S.
LEMMA QueueMembers ==
    ASSUME NEW S, NEW s \in Seq(S)
    PROVE  Range(s) \subseteq S
BY RangeOfSeq

------------------------------------------------------------------------------
\* sched_reschedule takes the next thread off the run queue, after putting the
\* old one at its tail if it is Running.
LEMMA RescheduleEffect ==
    ASSUME SchedInv, NEW c \in CPUs, sched_reschedule(c)
    PROVE  LET old == curthread[c]
               nx == curthread'[c]
               again == IF old # Idle /\ state[old] = "Running" THEN {old} ELSE {}
           IN  /\ curthread' \in [CPUs -> Threads \cup {Idle}]
               /\ \A d \in CPUs : d # c => curthread'[d] = curthread[d]
               /\ runqueue' \in [CPUs -> Seq(Threads)]
               /\ \A d \in CPUs : d # c => runqueue'[d] = runqueue[d]
               /\ IsInjective(runqueue'[c])
               /\ Range(runqueue'[c]) = (Range(runqueue[c]) \cup again) \ {nx}
               /\ nx # Idle => nx \in Range(runqueue[c]) \cup again
               /\ nx = Idle => runqueue'[c] = <<>>
               /\ state' = [t \in Threads |-> IF t = nx THEN "Running" ELSE state[t]]
<1> DEFINE old == curthread[c]
           again == IF old # Idle /\ state[old] = "Running" THEN {old} ELSE {}
           q == Requeued(c)
<1>1. /\ curthread \in [CPUs -> Threads \cup {Idle}]
      /\ runqueue \in [CPUs -> Seq(Threads)]
      /\ IsInjective(runqueue[c])
  BY DEF SchedInv, SchedTypeOK, LinkedOnce
<1>2. q \in Seq(Threads) /\ IsInjective(q) /\ Range(q) = Range(runqueue[c]) \cup again
  <2>1. CASE old # Idle /\ state[old] = "Running"
    <3>1. old \in Threads /\ CpuOf[old] = c /\ old \notin Range(runqueue[c])
      BY <1>1, <2>1 DEF SchedInv, ThreadPlaced
    <3>2. q = Append(runqueue[c], old)  BY <2>1 DEF Requeued
    <3> QED  BY <1>1, <2>1, <3>1, <3>2, AppendQueue
  <2>2. CASE ~(old # Idle /\ state[old] = "Running")
    <3>1. q = runqueue[c]  BY <2>2 DEF Requeued
    <3> QED  BY <1>1, <2>2, <3>1
  <2> QED  BY <2>1, <2>2
<1>3. /\ runqueue' = [runqueue EXCEPT ![c] = IF q = <<>> THEN q ELSE Tail(q)]
      /\ curthread' = [curthread EXCEPT ![c] = IF q = <<>> THEN Idle ELSE Head(q)]
      /\ state' = [t \in Threads |-> IF t = (IF q = <<>> THEN Idle ELSE Head(q))
                                     THEN "Running" ELSE state[t]]
  BY DEF sched_reschedule, sched_next
<1> HIDE DEF q, again
<1>4. CASE q = <<>>
  <2>1. runqueue'[c] = <<>> /\ curthread'[c] = Idle  BY <1>1, <1>3, <1>4
  <2>2. Range(runqueue[c]) \cup again = {}  BY <1>2, <1>4, EmptyQueue
  <2> QED  BY <1>1, <1>3, <1>4, <2>1, <2>2, EmptyQueue DEF again
<1>5. CASE q # <<>>
  <2>1. /\ Tail(q) \in Seq(Threads) /\ Head(q) \in Threads /\ Head(q) \in Range(q)
        /\ IsInjective(Tail(q)) /\ Range(Tail(q)) = Range(q) \ {Head(q)}
    BY <1>2, <1>5, PopQueue
  <2>2. runqueue'[c] = Tail(q) /\ curthread'[c] = Head(q)  BY <1>1, <1>3, <1>5
  <2>3. Head(q) # Idle  BY <2>1, SchedAssumption
  <2> QED  BY <1>1, <1>2, <1>3, <1>5, <2>1, <2>2, <2>3 DEF again
<1> QED  BY <1>4, <1>5

\* The three calls of sched_reschedule: by a thread that has parked itself, by
\* a thread that has resumed another, and on a borrowed stack.
LEMMA RescheduleInv ==
    ASSUME SchedInv, NEW c \in CPUs, sched_reschedule(c),
           NEW a \in Contexts, NEW l \in {"resumed", "run", "none"},
           \/ a \in Threads /\ At(a, "parked") /\ l = "resumed"
           \/ a \in Threads /\ At(a, "yield") /\ l = "run"
           \/ a \in CPUs /\ pc[a] = "resched" /\ l = "none",
           cpu(a) = c,
           Goto(a, l), UNCHANGED <<wqVars, arg, wakee>>
    PROVE  SchedInv'
<1> DEFINE old == curthread[c]
           nx == curthread'[c]
           again == IF old # Idle /\ state[old] = "Running" THEN {old} ELSE {}
<1>1. /\ curthread' \in [CPUs -> Threads \cup {Idle}]
      /\ \A d \in CPUs : d # c => curthread'[d] = curthread[d]
      /\ runqueue' \in [CPUs -> Seq(Threads)]
      /\ \A d \in CPUs : d # c => runqueue'[d] = runqueue[d]
      /\ IsInjective(runqueue'[c])
      /\ Range(runqueue'[c]) = (Range(runqueue[c]) \cup again) \ {nx}
      /\ nx # Idle => nx \in Range(runqueue[c]) \cup again
      /\ state' = [t \in Threads |-> IF t = nx THEN "Running" ELSE state[t]]
  BY RescheduleEffect
<1>2. /\ timeslicer' = [timeslicer EXCEPT ![c] = TRUE]
      /\ tlock' = Unlocked(c)
      /\ UNCHANGED <<preempted, ipi, wqres, waiters, wqlock, arg, wakee>>
      /\ pc' = [pc EXCEPT ![a] = l]
  BY DEF sched_reschedule, wqVars, Goto
<1>3. SchedTypeOK /\ LinkedOnce /\ ThreadPlaced /\ UninterruptedInv
      /\ WakeeInv /\ StateInv /\ WqLockInv
  BY DEF SchedInv
<1>4. old # Idle => /\ old \in Threads /\ CpuOf[old] = c
                    /\ old \in Range(runqueue[c]) <=> state[old] = "Runnable"
  <2> SUFFICES ASSUME old # Idle
               PROVE  /\ old \in Threads /\ CpuOf[old] = c
                      /\ old \in Range(runqueue[c]) <=> state[old] = "Runnable"
    OBVIOUS
  <2>1. old \in Threads  BY <1>3 DEF SchedTypeOK
  <2>2. CpuOf[old] = c  BY <1>3, <2>1 DEF ThreadPlaced
  <2>3. pc[old] # "new"  BY <1>3, <2>1, <2>2 DEF StateInv
  <2> QED  BY <1>3, <2>1, <2>2, <2>3 DEF ThreadPlaced
<1>5. nx # Idle => /\ nx \in Threads /\ CpuOf[nx] = c
                   /\ state[nx] \in {"Runnable", "Running"} /\ pc[nx] # "new"
                   /\ nx \notin Range(runqueue'[c])
  <2> SUFFICES ASSUME nx # Idle
               PROVE  /\ nx \in Threads /\ CpuOf[nx] = c
                      /\ state[nx] \in {"Runnable", "Running"} /\ pc[nx] # "new"
                      /\ nx \notin Range(runqueue'[c])
    OBVIOUS
  <2>1. nx \in Threads /\ nx \notin Range(runqueue'[c])  BY <1>1
  <2>2. CASE nx \in Range(runqueue[c])
    <3>1. CpuOf[nx] = c  BY <1>3, <2>2 DEF LinkedOnce
    <3>2. \/ state[nx] = "Runnable" /\ pc[nx] # "new"
          \/ state[nx] = "Running"
      BY <1>3, <2>1, <2>2, <3>1 DEF ThreadPlaced
    <3>3. pc[nx] = "new" => state[nx] = "Runnable"  BY <1>3, <2>1 DEF StateInv
    <3> QED  BY <2>1, <3>1, <3>2, <3>3
  <2>3. CASE nx \in again
    <3>1. nx = old /\ state[nx] = "Running"  BY <2>3
    <3>2. pc[nx] = "new" => state[nx] = "Runnable"  BY <1>3, <2>1 DEF StateInv
    <3> QED  BY <1>4, <2>1, <3>1, <3>2
  <2> QED  BY <1>1, <2>2, <2>3
<1>6. a \notin Threads => a = c
  BY DEF cpu, Contexts
<1> HIDE DEF nx, again
<1>7. SchedTypeOK'
  <2>1. tlock' \in [Threads -> BOOLEAN]
    BY <1>2, <1>3 DEF SchedTypeOK, Unlocked
  <2>2. state' \in [Threads -> ThreadStates]
    BY <1>1, <1>3 DEF SchedTypeOK, ThreadStates
  <2>3. /\ pc' \in [Contexts -> ThreadPcs \cup CpuPcs]
        /\ \A t \in Threads : pc'[t] \in ThreadPcs
        /\ \A d \in CPUs : pc'[d] \in CpuPcs
    BY <1>2, <1>3, SchedAssumption
    DEF SchedTypeOK, ThreadPcs, CpuPcs, OpenPcs, Contexts
  <2> QED  BY <1>1, <1>2, <1>3, <2>1, <2>2, <2>3 DEF SchedTypeOK
<1>8. /\ a \in Threads => a = old /\ CpuOf[a] = c
      /\ a \notin Threads => a = c /\ (old # Idle => pc[old] \in OpenPcs)
      /\ \A t \in Threads : t # old => pc'[t] = pc[t]
      /\ pc'[c] = "none"
      /\ \A d \in CPUs : d # c => pc'[d] = pc[d]
  <2>1. ASSUME a \in Threads PROVE a = old /\ CpuOf[a] = c /\ pc[c] = "none"
    BY <2>1, SchedAssumption DEF At, Executing, cpu
  <2>2. ASSUME a \notin Threads
        PROVE  a = c /\ l = "none" /\ (old # Idle => pc[old] \in OpenPcs)
    BY <2>2, <1>3, <1>6 DEF UninterruptedInv
  <2> QED  BY <2>1, <2>2, <1>2, <1>3, SchedAssumption DEF SchedTypeOK, Contexts
<1>9. LinkedOnce'
  <2>1. Range(runqueue'[c]) \subseteq Range(runqueue[c]) \cup again  BY <1>1
  <2>2. \A t \in again : CpuOf[t] = c /\ state[t] = "Running" /\ t \in Threads
    BY <1>4 DEF again
  <2>3. \A t \in Threads, q \in Waitqs : t \in Range(waiters[q]) => state[t] = "Waiting"
    BY <1>3 DEF ThreadPlaced
  <2>4. \A d \in CPUs : IsInjective(runqueue'[d])
    BY <1>1, <1>3 DEF LinkedOnce
  <2>5. \A d \in CPUs : \A t \in Range(runqueue'[d]) : CpuOf[t] = d
    BY <1>1, <1>3, <2>1, <2>2 DEF LinkedOnce
  <2>6. \A d \in CPUs, q \in Waitqs : Range(runqueue'[d]) \cap Range(waiters[q]) = {}
    BY <1>1, <1>3, <2>1, <2>2, <2>3 DEF LinkedOnce
  <2> QED  BY <1>2, <1>3, <2>4, <2>5, <2>6 DEF LinkedOnce
<1>10. ThreadPlaced'
  <2> SUFFICES ASSUME NEW t \in Threads
               PROVE  /\ t \in Range(runqueue'[CpuOf[t]]) <=>
                            \/ state'[t] = "Runnable" /\ pc'[t] # "new"
                            \/ state'[t] = "Running" /\ curthread'[CpuOf[t]] # t
                      /\ state'[t] = "Waiting" <=>
                            \/ \E q \in Waitqs : t \in Range(waiters'[q])
                            \/ \E b \in Contexts : wakee'[b] = t
                      /\ \A d \in CPUs : curthread'[d] = t =>
                            CpuOf[t] = d /\ (state'[t] = "Running" \/ pc'[t] = "parked")
    BY DEF ThreadPlaced
  <2>0. CpuOf[t] \in CPUs /\ t # Idle /\ t \in Contexts
    BY SchedAssumption DEF Contexts
  <2>1. /\ t \in Range(runqueue[CpuOf[t]]) <=>
               \/ state[t] = "Runnable" /\ pc[t] # "new"
               \/ state[t] = "Running" /\ curthread[CpuOf[t]] # t
        /\ state[t] = "Waiting" <=> \/ \E q \in Waitqs : t \in Range(waiters[q])
                                    \/ \E b \in Contexts : wakee[b] = t
        /\ \A d \in CPUs : curthread[d] = t =>
               CpuOf[t] = d /\ (state[t] = "Running" \/ pc[t] = "parked")
    BY <1>3 DEF ThreadPlaced
  <2>2. UNCHANGED <<waiters, wakee>>  BY <1>2
  <2>3. CASE t = nx
    <3>1. CpuOf[t] = c /\ state[t] # "Waiting" /\ t \notin Range(runqueue'[c])
      BY <1>5, <2>0, <2>3
    <3>2. state'[t] = "Running" /\ curthread'[c] = t  BY <1>1, <2>3 DEF nx
    <3>3. \A d \in CPUs : curthread'[d] = t => d = c  BY <1>1, <2>1, <3>1
    <3> QED  BY <2>1, <2>2, <3>1, <3>2, <3>3
  <2>4. CASE t # nx
    <3>1. state'[t] = state[t]  BY <1>1, <2>4
    <3>2. CASE CpuOf[t] # c
      <4>1. t # old  BY <1>4, <2>0, <3>2
      <4>2. pc'[t] = pc[t]  BY <1>8, <4>1
      <4>3. \A d \in CPUs : curthread'[d] = t => curthread[d] = t
        BY <1>1, <2>4 DEF nx
      <4>4. /\ runqueue'[CpuOf[t]] = runqueue[CpuOf[t]]
            /\ curthread'[CpuOf[t]] = curthread[CpuOf[t]]
        BY <1>1, <2>0, <3>2
      <4> QED  BY <2>1, <2>2, <3>1, <4>2, <4>3, <4>4
    <3>3. CASE CpuOf[t] = c
      <4>1. \A d \in CPUs : curthread'[d] # t  BY <1>1, <2>1, <2>4, <3>3 DEF nx
      <4>2. t \in Range(runqueue'[c]) <=> t \in Range(runqueue[c]) \/ t \in again
        BY <1>1, <2>4
      <4>3. CASE t = old
        <5>1. t \in again <=> state[t] = "Running"  BY <2>0, <4>3 DEF again
        <5>2. pc[t] # "new"  BY <1>3, <3>3, <4>3 DEF StateInv
        <5>3. pc'[t] # "new"  BY <1>2, <1>3, <2>0, <5>2 DEF SchedTypeOK
        <5>4. t \in Range(runqueue[c]) <=> state[t] = "Runnable"
          BY <1>4, <2>0, <4>3
        <5> QED  BY <2>0, <2>1, <2>2, <3>1, <3>3, <4>1, <4>2, <5>1, <5>3, <5>4
      <4>4. CASE t # old
        <5>1. t \notin again  BY <4>4 DEF again
        <5>2. pc'[t] = pc[t]  BY <1>8, <4>4
        <5> QED  BY <2>0, <2>1, <2>2, <3>1, <3>3, <4>1, <4>2, <4>4, <5>1, <5>2
      <4> QED  BY <4>3, <4>4
    <3> QED  BY <3>2, <3>3
  <2> QED  BY <2>3, <2>4
<1>11. UninterruptedInv'
  <2>1. ASSUME NEW t \in Threads, pc'[t] \in ClosedPcs
        PROVE  curthread'[CpuOf[t]] = t /\ pc'[CpuOf[t]] = "none"
    <3>1. CpuOf[t] \in CPUs /\ t \in Contexts  BY SchedAssumption DEF Contexts
    <3>2. t # old
      <4>1. SUFFICES ASSUME t = old PROVE FALSE  OBVIOUS
      <4>2. CASE a \in Threads
        <5>1. l \in {"resumed", "run"} /\ pc'[t] = l
          BY <1>2, <1>3, <1>8, <3>1, <4>1, <4>2, SchedAssumption DEF SchedTypeOK
        <5> QED  BY <5>1, <2>1 DEF ClosedPcs
      <4>3. CASE a \notin Threads
        <5>1. pc'[t] = pc[t] /\ old # Idle
          BY <1>2, <1>3, <1>8, <3>1, <4>1, <4>3, SchedAssumption DEF SchedTypeOK
        <5> QED  BY <5>1, <1>8, <2>1, <4>1, <4>3 DEF ClosedPcs, OpenPcs
      <4> QED  BY <4>2, <4>3
    <3>3. pc[t] \in ClosedPcs  BY <1>8, <2>1, <3>2
    <3>4. curthread[CpuOf[t]] = t /\ pc[CpuOf[t]] = "none"
      BY <1>3, <3>3 DEF UninterruptedInv
    <3>5. CpuOf[t] # c  BY <3>2, <3>4
    <3> QED  BY <1>1, <1>8, <3>1, <3>4, <3>5
  <2>2. ASSUME NEW d \in CPUs, pc'[d] # "none", curthread'[d] # Idle
        PROVE  pc'[curthread'[d]] \in OpenPcs
    <3>1. d # c /\ pc[d] # "none" /\ curthread'[d] = curthread[d]
      BY <1>1, <1>8, <2>2
    <3>2. curthread[d] \in Threads /\ CpuOf[curthread[d]] = d
      BY <1>3, <2>2, <3>1 DEF SchedTypeOK, ThreadPlaced
    <3>3. curthread[d] # old  BY <1>4, <2>2, <3>1, <3>2
    <3> QED  BY <1>3, <1>8, <2>2, <3>1, <3>2, <3>3 DEF UninterruptedInv
  <2> QED  BY <2>1, <2>2 DEF UninterruptedInv
<1>12. WakeeInv'
  <2>1. \A b \in Contexts : pc'[b] = "took" <=> pc[b] = "took"
    BY <1>2, <1>3 DEF SchedTypeOK, At
  <2> QED  BY <1>2, <1>3, <2>1 DEF WakeeInv
<1>13. StateInv'
  <2> SUFFICES ASSUME NEW t \in Threads
               PROVE  /\ state'[t] # "Exiting"
                      /\ state'[t] = "Waiting" => pc'[t] \in {"parked", "resumed"}
                      /\ pc'[t] = "parked" => state'[t] # "Running"
                      /\ pc'[t] = "new" =>
                             state'[t] = "Runnable" /\ curthread'[CpuOf[t]] # t
    BY DEF StateInv
  <2>0. CpuOf[t] \in CPUs /\ t \in Contexts /\ t # Idle
    BY SchedAssumption DEF Contexts
  <2>1. /\ state[t] # "Exiting"
        /\ state[t] = "Waiting" => pc[t] \in {"parked", "resumed"}
        /\ pc[t] = "parked" => state[t] # "Running"
        /\ pc[t] = "new" => state[t] = "Runnable" /\ curthread[CpuOf[t]] # t
    BY <1>3 DEF StateInv
  <2>2. CASE t = old /\ a \in Threads
    <3>1. pc'[t] = l /\ l \in {"resumed", "run"} /\ a = t
      BY <1>2, <1>3, <1>8, <2>0, <2>2, SchedAssumption DEF SchedTypeOK
    <3>2. pc[t] = "yield" => state[t] # "Waiting"  BY <2>1
    <3>3. l = "run" => pc[t] = "yield"  BY <3>1, SchedAssumption DEF At
    <3> QED  BY <1>1, <2>1, <3>1, <3>2, <3>3
  <2>3. CASE ~(t = old /\ a \in Threads)
    <3>1. pc'[t] = pc[t]
      BY <1>2, <1>3, <1>8, <2>0, <2>3, SchedAssumption DEF SchedTypeOK
    <3>2. t = nx => pc[t] # "new"  BY <1>5, <2>0
    <3>3. t = nx => pc[t] # "parked"
      <4>1. pc[t] = "parked" => t = curthread[CpuOf[t]] /\ pc[CpuOf[t]] = "none"
        BY <1>3 DEF UninterruptedInv, ClosedPcs
      <4>2. SUFFICES ASSUME t = nx, pc[t] = "parked" PROVE FALSE  OBVIOUS
      <4>3. CpuOf[t] = c  BY <1>5, <2>0, <4>2
      <4>4. t = old /\ a \notin Threads /\ pc[c] = "none"  BY <2>3, <4>1, <4>2, <4>3
      <4> QED  BY <1>8, <4>4, <4>2, <2>0 DEF OpenPcs
    <3>4. curthread'[CpuOf[t]] = t => t = nx \/ curthread[CpuOf[t]] = t
      BY <1>1, <2>0 DEF nx
    <3> QED  BY <1>1, <2>1, <3>1, <3>2, <3>3, <3>4
  <2> QED  BY <2>2, <2>3
<1>14. WqLockInv'
  <2>1. \A t \in Threads : pc'[t] = "locked" <=> pc[t] = "locked"
    BY <1>2, <1>3 DEF SchedTypeOK, At, Contexts
  <2> QED  BY <1>2, <1>3, <2>1 DEF WqLockInv
<1> QED  BY <1>7, <1>9, <1>10, <1>11, <1>12, <1>13, <1>14 DEF SchedInv

\* Steps that only move one executing context along its code.
LEMMA MoveInv ==
    ASSUME SchedInv, NEW a \in Contexts, Executing(a),
           NEW l,
           \/ /\ a \in Threads
              /\ pc[a] \in {"run", "awaitcall", "await", "resumed", "wakecall", "wake"}
              /\ l \in {"run", "awaitcall", "await", "wakecall", "wake"}
           \/ a \in CPUs /\ pc[a] \in {"intr", "wake"} /\ l \in {"intr", "wake"},
           Goto(a, l),
           NEW q \in Waitqs,
           arg' = arg \/ arg' = [arg EXCEPT ![a] = q],
           UNCHANGED <<cpuVars, threadVars, wqVars, wakee>>
    PROVE  SchedInv'
<1>1. /\ UNCHANGED <<curthread, runqueue, timeslicer, preempted, ipi>>
      /\ UNCHANGED <<state, tlock, wqres, waiters, wqlock, wakee>>
      /\ pc' = [pc EXCEPT ![a] = l]
  BY DEF cpuVars, threadVars, wqVars, Goto
<1>2. SchedTypeOK /\ LinkedOnce /\ ThreadPlaced /\ UninterruptedInv
      /\ WakeeInv /\ StateInv /\ WqLockInv
  BY DEF SchedInv
<1>3. /\ \A b \in Contexts : b # a => pc'[b] = pc[b] /\ arg'[b] = arg[b]
      /\ pc'[a] = l
  BY <1>1, <1>2 DEF SchedTypeOK
<1>4. a \in Threads => /\ a \notin CPUs /\ curthread[CpuOf[a]] = a
                       /\ pc[CpuOf[a]] = "none" /\ state[a] = "Running"
  BY <1>2, SchedAssumption DEF Executing, ThreadPlaced, Contexts
<1>5. SchedTypeOK'
  <2>1. /\ pc' \in [Contexts -> ThreadPcs \cup CpuPcs]
        /\ \A t \in Threads : pc'[t] \in ThreadPcs
        /\ \A d \in CPUs : pc'[d] \in CpuPcs
    BY <1>1, <1>2, SchedAssumption
    DEF SchedTypeOK, ThreadPcs, CpuPcs, OpenPcs, Contexts
  <2>2. arg' \in [Contexts -> Waitqs]  BY <1>2 DEF SchedTypeOK
  <2> QED  BY <1>1, <1>2, <2>1, <2>2 DEF SchedTypeOK
<1>6. LinkedOnce'  BY <1>1, <1>2 DEF LinkedOnce
<1>7. ThreadPlaced'
  <2>1. \A t \in Threads : /\ pc'[t] = "new" <=> pc[t] = "new"
                           /\ pc[t] = "parked" => pc'[t] = "parked"
    BY <1>3, SchedAssumption DEF Contexts
  <2> QED  BY <1>1, <1>2, <2>1 DEF ThreadPlaced
<1>8. UninterruptedInv'
  <2>1. ASSUME NEW t \in Threads, pc'[t] \in ClosedPcs
        PROVE  curthread'[CpuOf[t]] = t /\ pc'[CpuOf[t]] = "none"
    <3>1. CpuOf[t] \in CPUs /\ t \in Contexts /\ CpuOf[t] \in Contexts
      BY SchedAssumption DEF Contexts
    <3>2. curthread[CpuOf[t]] = t /\ pc[CpuOf[t]] = "none"
      BY <1>2, <1>3, <1>4, <2>1, <3>1 DEF UninterruptedInv
    <3>3. a # CpuOf[t]  BY <1>4, <3>1, <3>2
    <3> QED  BY <1>1, <1>3, <3>1, <3>2, <3>3
  <2>2. ASSUME NEW d \in CPUs, pc'[d] # "none", curthread'[d] # Idle
        PROVE  pc'[curthread'[d]] \in OpenPcs
    <3>1. curthread[d] \in Threads /\ CpuOf[curthread[d]] = d /\ d \in Contexts
          /\ curthread[d] \in Contexts /\ curthread[d] \notin CPUs
      BY <1>1, <1>2, <2>2, SchedAssumption DEF SchedTypeOK, ThreadPlaced, Contexts
    <3>2. pc[d] # "none"  BY <1>3, <2>2, <3>1
    <3>3. curthread[d] # a  BY <1>4, <3>1, <3>2
    <3> QED  BY <1>1, <1>2, <1>3, <2>2, <3>1, <3>2, <3>3 DEF UninterruptedInv
  <2> QED  BY <2>1, <2>2 DEF UninterruptedInv
<1>9. WakeeInv'
  <2>1. \A b \in Contexts : pc'[b] = "took" <=> pc[b] = "took"  BY <1>3
  <2> QED  BY <1>1, <1>2, <2>1 DEF WakeeInv
<1>10. StateInv'
  BY <1>1, <1>2, <1>3, <1>4, SchedAssumption DEF StateInv, Contexts
<1>11. WqLockInv'
  <2>1. \A t \in Threads : /\ pc'[t] = "locked" <=> pc[t] = "locked"
                           /\ pc[t] = "locked" => arg'[t] = arg[t]
    BY <1>3, SchedAssumption DEF Contexts
  <2> QED  BY <1>1, <1>2, <2>1 DEF WqLockInv
<1> QED  BY <1>5, <1>6, <1>7, <1>8, <1>9, <1>10, <1>11 DEF SchedInv

\* Entering and leaving interrupt handlers.
LEMMA IntrInv ==
    ASSUME SchedInv, NEW c \in CPUs,
           IntrEnabled(c) \/ pc[c] \in {"intr", "iret"},
           NEW l \in {"intr", "iret", "resched", "none"},
           Goto(c, l),
           timeslicer' \in [CPUs -> BOOLEAN],
           preempted' \in [CPUs -> BOOLEAN],
           ipi' \in [CPUs -> BOOLEAN],
           UNCHANGED <<curthread, runqueue, threadVars, wqVars, arg, wakee>>
    PROVE  SchedInv'
<1>1. /\ UNCHANGED <<curthread, runqueue, state, tlock, wqres>>
      /\ UNCHANGED <<waiters, wqlock, arg, wakee>>
      /\ pc' = [pc EXCEPT ![c] = l]
  BY DEF threadVars, wqVars, Goto
<1>2. SchedTypeOK /\ LinkedOnce /\ ThreadPlaced /\ UninterruptedInv
      /\ WakeeInv /\ StateInv /\ WqLockInv
  BY DEF SchedInv
<1>3. /\ \A b \in Contexts : b # c => pc'[b] = pc[b]
      /\ \A t \in Threads : pc'[t] = pc[t]
      /\ pc'[c] = l /\ c \in Contexts
  BY <1>1, <1>2, SchedAssumption DEF SchedTypeOK, Contexts
<1>4. curthread[c] # Idle => pc[curthread[c]] \in OpenPcs
  BY <1>2 DEF UninterruptedInv, IntrEnabled
<1>5. SchedTypeOK'
  <2>1. /\ pc' \in [Contexts -> ThreadPcs \cup CpuPcs]
        /\ \A d \in CPUs : pc'[d] \in CpuPcs
    BY <1>1, <1>2, <1>3 DEF SchedTypeOK, CpuPcs, Contexts
  <2> QED  BY <1>1, <1>2, <1>3, <2>1 DEF SchedTypeOK
<1>6. LinkedOnce'  BY <1>1, <1>2 DEF LinkedOnce
<1>7. ThreadPlaced'  BY <1>1, <1>2, <1>3 DEF ThreadPlaced
<1>8. UninterruptedInv'
  <2>1. ASSUME NEW t \in Threads, pc'[t] \in ClosedPcs
        PROVE  curthread'[CpuOf[t]] = t /\ pc'[CpuOf[t]] = "none"
    <3>1. CpuOf[t] \in Contexts /\ t # Idle  BY SchedAssumption DEF Contexts
    <3>2. pc[t] \in ClosedPcs /\ curthread[CpuOf[t]] = t /\ pc[CpuOf[t]] = "none"
      BY <1>2, <1>3, <2>1 DEF UninterruptedInv
    <3>3. CpuOf[t] # c  BY <1>4, <3>1, <3>2 DEF ClosedPcs, OpenPcs
    <3> QED  BY <1>1, <1>3, <3>1, <3>2, <3>3
  <2>2. ASSUME NEW d \in CPUs, pc'[d] # "none", curthread'[d] # Idle
        PROVE  pc'[curthread'[d]] \in OpenPcs
    <3>1. curthread[d] \in Threads /\ d \in Contexts
      BY <1>1, <1>2, <2>2 DEF SchedTypeOK, Contexts
    <3> QED  BY <1>1, <1>2, <1>3, <1>4, <2>2, <3>1 DEF UninterruptedInv
  <2> QED  BY <2>1, <2>2 DEF UninterruptedInv
<1>9. WakeeInv'
  <2>1. pc[c] # "took"  BY DEF IntrEnabled
  <2>2. \A b \in Contexts : pc'[b] = "took" <=> pc[b] = "took"  BY <1>3, <2>1
  <2> QED  BY <1>1, <1>2, <2>2 DEF WakeeInv
<1>10. StateInv'  BY <1>1, <1>2, <1>3 DEF StateInv
<1>11. WqLockInv'  BY <1>1, <1>2, <1>3 DEF WqLockInv
<1> QED  BY <1>5, <1>6, <1>7, <1>8, <1>9, <1>10, <1>11 DEF SchedInv

\* A waiter takes wq->lock.
LEMMA AwaitLockWqInv ==
    ASSUME SchedInv, NEW t \in Threads, AwaitLockWq(t)
    PROVE  SchedInv'
<1>1. /\ UNCHANGED <<curthread, runqueue, timeslicer, preempted, ipi>>
      /\ UNCHANGED <<state, tlock, wqres, waiters, arg, wakee>>
      /\ pc' = [pc EXCEPT ![t] = "locked"]
      /\ wqlock' = [wqlock EXCEPT ![arg[t]] = TRUE]
      /\ ~wqlock[arg[t]] /\ pc[t] = "await"
  BY DEF AwaitLockWq, At, Goto, cpuVars, threadVars
<1>2. SchedTypeOK /\ LinkedOnce /\ ThreadPlaced /\ UninterruptedInv
      /\ WakeeInv /\ StateInv /\ WqLockInv
  BY DEF SchedInv
<1>3. /\ \A b \in Contexts : b # t => pc'[b] = pc[b]
      /\ pc'[t] = "locked" /\ t \in Contexts /\ arg[t] \in Waitqs
      /\ \A d \in CPUs : pc'[d] = pc[d] /\ d \in Contexts
  BY <1>1, <1>2, SchedAssumption DEF SchedTypeOK, Contexts
<1>4. curthread[CpuOf[t]] = t /\ pc[CpuOf[t]] = "none"
  BY <1>1, <1>2 DEF UninterruptedInv, ClosedPcs
<1>5. SchedTypeOK'
  <2>1. pc' \in [Contexts -> ThreadPcs \cup CpuPcs] /\ \A u \in Threads : pc'[u] \in ThreadPcs
    BY <1>1, <1>2, <1>3 DEF SchedTypeOK, ThreadPcs, Contexts
  <2> QED  BY <1>1, <1>2, <1>3, <2>1 DEF SchedTypeOK
<1>6. LinkedOnce'  BY <1>1, <1>2 DEF LinkedOnce
<1>7. ThreadPlaced'
  <2>1. \A u \in Threads : /\ pc'[u] = "new" <=> pc[u] = "new"
                           /\ pc[u] = "parked" => pc'[u] = "parked"
    BY <1>1, <1>3 DEF Contexts
  <2> QED  BY <1>1, <1>2, <2>1 DEF ThreadPlaced
<1>8. UninterruptedInv'
  <2>1. ASSUME NEW u \in Threads, pc'[u] \in ClosedPcs
        PROVE  curthread'[CpuOf[u]] = u /\ pc'[CpuOf[u]] = "none"
    BY <1>1, <1>2, <1>3, <1>4, <2>1, SchedAssumption DEF UninterruptedInv, Contexts
  <2>2. ASSUME NEW d \in CPUs, pc'[d] # "none", curthread'[d] # Idle
        PROVE  pc'[curthread'[d]] \in OpenPcs
    <3>1. curthread[d] \in Contexts /\ pc[d] # "none" /\ pc[curthread[d]] \in OpenPcs
      BY <1>1, <1>2, <1>3, <2>2 DEF SchedTypeOK, Contexts, UninterruptedInv
    <3>2. curthread[d] # t  BY <1>1, <3>1 DEF OpenPcs
    <3> QED  BY <1>1, <1>3, <3>1, <3>2
  <2> QED  BY <2>1, <2>2 DEF UninterruptedInv
<1>9. WakeeInv'
  <2>1. \A b \in Contexts : pc'[b] = "took" <=> pc[b] = "took"  BY <1>1, <1>3
  <2> QED  BY <1>1, <1>2, <2>1 DEF WakeeInv
<1>10. StateInv'  BY <1>1, <1>2, <1>3 DEF StateInv, Contexts
<1>11. WqLockInv'
  <2>1. \A u \in Threads : pc'[u] = "locked" <=> pc[u] = "locked" \/ u = t
    BY <1>1, <1>3 DEF Contexts
  <2>2. \A u \in Threads : pc[u] = "locked" => arg[u] # arg[t]
    BY <1>1, <1>2, <1>3 DEF WqLockInv
  <2>3. \A q \in Waitqs : wqlock'[q] <=> wqlock[q] \/ q = arg[t]
    BY <1>1, <1>2, <1>3 DEF SchedTypeOK
  <2>4. \A q \in Waitqs :
           wqlock'[q] <=> \E u \in Threads : pc'[u] = "locked" /\ arg[u] = q
    BY <1>2, <2>1, <2>3 DEF WqLockInv
  <2> QED  BY <1>1, <1>2, <2>1, <2>2, <2>4 DEF WqLockInv
<1> QED  BY <1>5, <1>6, <1>7, <1>8, <1>9, <1>10, <1>11 DEF SchedInv

\* A waiter, which is Running and so on no queue, puts itself on wq->waiters.
LEMMA AwaitEnqueueInv ==
    ASSUME SchedInv, NEW t \in Threads, AwaitEnqueue(t)
    PROVE  SchedInv'
<1> DEFINE wq == arg[t]
<1>1. /\ UNCHANGED <<curthread, runqueue, timeslicer, preempted, ipi>>
      /\ UNCHANGED <<wqres, arg, wakee>>
      /\ pc' = [pc EXCEPT ![t] = "parked"]
      /\ tlock' = [tlock EXCEPT ![t] = TRUE]
      /\ state' = [state EXCEPT ![t] = "Waiting"]
      /\ waiters' = [waiters EXCEPT ![wq] = Append(waiters[wq], t)]
      /\ wqlock' = [wqlock EXCEPT ![wq] = FALSE]
      /\ pc[t] = "locked"
  BY DEF AwaitEnqueue, At, Goto, cpuVars
<1>2. SchedTypeOK /\ LinkedOnce /\ ThreadPlaced /\ UninterruptedInv
      /\ WakeeInv /\ StateInv /\ WqLockInv
  BY DEF SchedInv
<1>3. /\ \A b \in Contexts : b # t => pc'[b] = pc[b]
      /\ pc'[t] = "parked" /\ t \in Contexts /\ wq \in Waitqs
      /\ \A d \in CPUs : pc'[d] = pc[d] /\ d \in Contexts
      /\ \A u \in Threads : u # t => pc'[u] = pc[u] /\ state'[u] = state[u]
      /\ state'[t] = "Waiting"
  BY <1>1, <1>2, SchedAssumption DEF SchedTypeOK, Contexts
<1>4. curthread[CpuOf[t]] = t /\ pc[CpuOf[t]] = "none" /\ CpuOf[t] \in CPUs
  BY <1>1, <1>2, SchedAssumption DEF UninterruptedInv, ClosedPcs
<1>5. /\ state[t] = "Running"
      /\ \A d \in CPUs : t \notin Range(runqueue[d])
      /\ \A q \in Waitqs : t \notin Range(waiters[q])
      /\ \A b \in Contexts : wakee[b] # t
  <2>1. state[t] = "Running"  BY <1>1, <1>2, <1>4 DEF ThreadPlaced
  <2>2. t \notin Range(runqueue[CpuOf[t]])  BY <1>2, <1>4, <2>1 DEF ThreadPlaced
  <2> QED  BY <1>2, <2>1, <2>2 DEF ThreadPlaced, LinkedOnce
<1>6. /\ waiters' \in [Waitqs -> Seq(Threads)]
      /\ \A q \in Waitqs : q # wq => waiters'[q] = waiters[q]
      /\ Range(waiters'[wq]) = Range(waiters[wq]) \cup {t}
      /\ IsInjective(waiters'[wq])
  <2>1. waiters[wq] \in Seq(Threads) /\ IsInjective(waiters[wq])
    BY <1>2, <1>3 DEF SchedTypeOK, LinkedOnce
  <2>2. /\ Append(waiters[wq], t) \in Seq(Threads)
        /\ Range(Append(waiters[wq], t)) = Range(waiters[wq]) \cup {t}
        /\ IsInjective(Append(waiters[wq], t))
    BY <1>3, <1>5, <2>1, AppendQueue
  <2> QED  BY <1>1, <1>2, <1>3, <2>2 DEF SchedTypeOK
<1> HIDE DEF wq
<1>7. SchedTypeOK'
  <2>1. pc' \in [Contexts -> ThreadPcs \cup CpuPcs] /\ \A u \in Threads : pc'[u] \in ThreadPcs
    BY <1>1, <1>2, <1>3 DEF SchedTypeOK, ThreadPcs, Contexts
  <2>2. state' \in [Threads -> ThreadStates] /\ tlock' \in [Threads -> BOOLEAN]
    BY <1>1, <1>2 DEF SchedTypeOK, ThreadStates
  <2>3. wqlock' \in [Waitqs -> BOOLEAN]  BY <1>1, <1>2 DEF SchedTypeOK
  <2> QED  BY <1>1, <1>2, <1>3, <1>6, <2>1, <2>2, <2>3 DEF SchedTypeOK
<1>8. LinkedOnce'
  <2>1. \A q \in Waitqs : IsInjective(waiters'[q])  BY <1>2, <1>6 DEF LinkedOnce
  <2>2. ASSUME NEW q \in Waitqs, NEW r \in Waitqs, q # r
        PROVE  Range(waiters'[q]) \cap Range(waiters'[r]) = {}
    <3>1. Range(waiters[q]) \cap Range(waiters[r]) = {}  BY <1>2, <2>2 DEF LinkedOnce
    <3>2. CASE q = wq  BY <1>5, <1>6, <2>2, <3>1, <3>2
    <3>3. CASE q # wq  BY <1>5, <1>6, <2>2, <3>1, <3>3
    <3> QED  BY <3>2, <3>3
  <2>3. \A d \in CPUs, q \in Waitqs : Range(runqueue[d]) \cap Range(waiters'[q]) = {}
    BY <1>2, <1>3, <1>5, <1>6 DEF LinkedOnce
  <2> QED  BY <1>1, <1>2, <2>1, <2>2, <2>3 DEF LinkedOnce
<1>9. ThreadPlaced'
  <2> SUFFICES ASSUME NEW u \in Threads
               PROVE  /\ u \in Range(runqueue'[CpuOf[u]]) <=>
                            \/ state'[u] = "Runnable" /\ pc'[u] # "new"
                            \/ state'[u] = "Running" /\ curthread'[CpuOf[u]] # u
                      /\ state'[u] = "Waiting" <=>
                            \/ \E q \in Waitqs : u \in Range(waiters'[q])
                            \/ \E b \in Contexts : wakee'[b] = u
                      /\ \A d \in CPUs : curthread'[d] = u =>
                            CpuOf[u] = d /\ (state'[u] = "Running" \/ pc'[u] = "parked")
    BY DEF ThreadPlaced
  <2>1. CASE u = t
    <3>1. t \in Range(waiters'[wq])  BY <1>6
    <3>2. \A d \in CPUs : curthread[d] = t => CpuOf[t] = d  BY <1>2 DEF ThreadPlaced
    <3> QED  BY <1>1, <1>3, <1>4, <1>5, <2>1, <3>1, <3>2
  <2>2. CASE u # t
    <3>1. \A q \in Waitqs : u \in Range(waiters'[q]) <=> u \in Range(waiters[q])
      BY <1>3, <1>6, <2>2
    <3> QED  BY <1>1, <1>2, <1>3, <2>2, <3>1 DEF ThreadPlaced
  <2> QED  BY <2>1, <2>2
<1>10. UninterruptedInv'
  <2>1. ASSUME NEW u \in Threads, pc'[u] \in ClosedPcs
        PROVE  curthread'[CpuOf[u]] = u /\ pc'[CpuOf[u]] = "none"
    BY <1>1, <1>2, <1>3, <1>4, <2>1, SchedAssumption DEF UninterruptedInv, Contexts
  <2>2. ASSUME NEW d \in CPUs, pc'[d] # "none", curthread'[d] # Idle
        PROVE  pc'[curthread'[d]] \in OpenPcs
    <3>1. curthread[d] \in Contexts /\ pc[d] # "none" /\ pc[curthread[d]] \in OpenPcs
      BY <1>1, <1>2, <1>3, <2>2 DEF SchedTypeOK, Contexts, UninterruptedInv
    <3>2. curthread[d] # t  BY <1>1, <3>1 DEF OpenPcs
    <3> QED  BY <1>1, <1>3, <3>1, <3>2
  <2> QED  BY <2>1, <2>2 DEF UninterruptedInv
<1>11. WakeeInv'
  <2>1. \A b \in Contexts : pc'[b] = "took" <=> pc[b] = "took"  BY <1>1, <1>3
  <2>2. \A b \in Contexts, q \in Waitqs : wakee[b] \notin Range(waiters'[q])
    BY <1>2, <1>5, <1>6 DEF WakeeInv
  <2> QED  BY <1>1, <1>2, <2>1, <2>2 DEF WakeeInv
<1>12. StateInv'  BY <1>1, <1>2, <1>3 DEF StateInv
<1>13. WqLockInv'
  <2>1. \A u \in Threads : pc'[u] = "locked" <=> pc[u] = "locked" /\ u # t
    BY <1>3
  <2>2. \A u \in Threads : pc[u] = "locked" /\ arg[u] = wq => u = t
    BY <1>1, <1>2 DEF WqLockInv, wq
  <2>3. \A q \in Waitqs : wqlock'[q] <=> wqlock[q] /\ q # wq
    BY <1>1, <1>2, <1>3 DEF SchedTypeOK
  <2>4. arg[t] = wq  BY DEF wq
  <2>5. \A q \in Waitqs :
           wqlock'[q] <=> \E u \in Threads : pc'[u] = "locked" /\ arg[u] = q
    BY <1>2, <2>1, <2>2, <2>3, <2>4 DEF WqLockInv
  <2> QED  BY <1>1, <1>2, <2>1, <2>5 DEF WqLockInv
<1> QED  BY <1>7, <1>8, <1>9, <1>10, <1>11, <1>12, <1>13 DEF SchedInv

\* A waker takes the first waiter, still Waiting, off wq->waiters.
LEMMA WakeRemoveInv ==
    ASSUME SchedInv, NEW a \in Contexts, WakeRemove(a)
    PROVE  SchedInv'
<1> DEFINE wq == arg[a]
           w == Head(waiters[wq])
<1>1. /\ UNCHANGED <<curthread, runqueue, timeslicer, preempted, ipi>>
      /\ UNCHANGED <<state, tlock, wqres, wqlock, arg>>
      /\ pc' = [pc EXCEPT ![a] = "took"]
      /\ waiters' = [waiters EXCEPT ![wq] = Tail(waiters[wq])]
      /\ wakee' = [wakee EXCEPT ![a] = w]
      /\ waiters[wq] # <<>>
      /\ pc[a] = "wake"
  BY DEF WakeRemove, At, Goto, cpuVars, threadVars
<1>2. SchedTypeOK /\ LinkedOnce /\ ThreadPlaced /\ UninterruptedInv
      /\ WakeeInv /\ StateInv /\ WqLockInv
  BY DEF SchedInv
<1>3. /\ \A b \in Contexts : b # a => pc'[b] = pc[b] /\ wakee'[b] = wakee[b]
      /\ pc'[a] = "took" /\ wakee'[a] = w /\ wq \in Waitqs
      /\ a \in Threads => a \notin CPUs
  BY <1>1, <1>2, SchedAssumption DEF SchedTypeOK, Contexts
<1>4. /\ waiters' \in [Waitqs -> Seq(Threads)]
      /\ \A q \in Waitqs : q # wq => waiters'[q] = waiters[q]
      /\ Range(waiters'[wq]) = Range(waiters[wq]) \ {w}
      /\ IsInjective(waiters'[wq])
      /\ w \in Threads /\ w \in Range(waiters[wq])
  <2>1. waiters[wq] \in Seq(Threads) /\ IsInjective(waiters[wq])
    BY <1>2, <1>3 DEF SchedTypeOK, LinkedOnce
  <2>2. /\ Tail(waiters[wq]) \in Seq(Threads)
        /\ Range(Tail(waiters[wq])) = Range(waiters[wq]) \ {w}
        /\ IsInjective(Tail(waiters[wq]))
        /\ w \in Threads /\ w \in Range(waiters[wq])
    BY <1>1, <2>1, PopQueue
  <2> QED  BY <1>1, <1>2, <1>3, <2>2 DEF SchedTypeOK
<1> HIDE DEF w
<1>5. /\ w # Idle /\ wakee[a] = Idle /\ state[w] = "Waiting"
      /\ \A q \in Waitqs : q # wq => w \notin Range(waiters[q])
      /\ \A b \in Contexts : wakee[b] # w
  <2>1. w # Idle  BY <1>4, SchedAssumption
  <2>2. wakee[a] = Idle  BY <1>1, <1>2 DEF WakeeInv
  <2>3. \A b \in Contexts : wakee[b] # w  BY <1>2, <1>3, <1>4 DEF WakeeInv
  <2>4. \A q \in Waitqs : q # wq => w \notin Range(waiters[q])
    BY <1>2, <1>3, <1>4 DEF LinkedOnce
  <2> QED  BY <1>2, <1>3, <1>4, <2>1, <2>2, <2>3, <2>4 DEF ThreadPlaced
<1> HIDE DEF wq
<1>6. SchedTypeOK'
  <2>1. /\ pc' \in [Contexts -> ThreadPcs \cup CpuPcs]
        /\ \A t \in Threads : pc'[t] \in ThreadPcs
        /\ \A d \in CPUs : pc'[d] \in CpuPcs
    BY <1>1, <1>2, SchedAssumption
    DEF SchedTypeOK, ThreadPcs, CpuPcs, OpenPcs, Contexts
  <2>2. wakee' \in [Contexts -> Threads \cup {Idle}]
    BY <1>1, <1>2, <1>4 DEF SchedTypeOK
  <2> QED  BY <1>1, <1>2, <1>4, <2>1, <2>2 DEF SchedTypeOK
<1>7. LinkedOnce'
  <2>1. \A q \in Waitqs : IsInjective(waiters'[q])  BY <1>2, <1>4 DEF LinkedOnce
  <2>2. \A q \in Waitqs : Range(waiters'[q]) \subseteq Range(waiters[q])  BY <1>4
  <2>3. \A q, r \in Waitqs : q # r => Range(waiters'[q]) \cap Range(waiters'[r]) = {}
    BY <1>2, <2>2 DEF LinkedOnce
  <2>4. \A d \in CPUs, q \in Waitqs : Range(runqueue[d]) \cap Range(waiters'[q]) = {}
    BY <1>2, <2>2 DEF LinkedOnce
  <2> QED  BY <1>1, <1>2, <2>1, <2>3, <2>4 DEF LinkedOnce
<1>8. ThreadPlaced'
  <2> SUFFICES ASSUME NEW u \in Threads
               PROVE  /\ u \in Range(runqueue'[CpuOf[u]]) <=>
                            \/ state'[u] = "Runnable" /\ pc'[u] # "new"
                            \/ state'[u] = "Running" /\ curthread'[CpuOf[u]] # u
                      /\ state'[u] = "Waiting" <=>
                            \/ \E q \in Waitqs : u \in Range(waiters'[q])
                            \/ \E b \in Contexts : wakee'[b] = u
                      /\ \A d \in CPUs : curthread'[d] = u =>
                            CpuOf[u] = d /\ (state'[u] = "Running" \/ pc'[u] = "parked")
    BY DEF ThreadPlaced
  <2>1. /\ pc'[u] = "new" <=> pc[u] = "new"
        /\ pc[u] = "parked" => pc'[u] = "parked"
    BY <1>1, <1>3 DEF Contexts
  <2>2. state'[u] = "Waiting" <=>
            \/ \E q \in Waitqs : u \in Range(waiters'[q])
            \/ \E b \in Contexts : wakee'[b] = u
    <3>1. CASE u = w  BY <1>1, <1>3, <1>5, <3>1
    <3>2. CASE u # w
      <4>1. \A q \in Waitqs : u \in Range(waiters'[q]) <=> u \in Range(waiters[q])
        BY <1>4, <3>2
      <4>2. u # Idle  BY SchedAssumption
      <4>3. \A b \in Contexts : wakee'[b] = u <=> wakee[b] = u
        BY <1>3, <1>5, <3>2, <4>2
      <4> QED  BY <1>1, <1>2, <4>1, <4>3 DEF ThreadPlaced
    <3> QED  BY <3>1, <3>2
  <2> QED  BY <1>1, <1>2, <2>1, <2>2 DEF ThreadPlaced
<1>9. UninterruptedInv'
  <2>1. ASSUME NEW u \in Threads, pc'[u] \in ClosedPcs
        PROVE  curthread'[CpuOf[u]] = u /\ pc'[CpuOf[u]] = "none"
    <3>1. pc[u] \in ClosedPcs
      BY <1>1, <1>3, <2>1 DEF Contexts, ClosedPcs
    <3>2. curthread[CpuOf[u]] = u /\ pc[CpuOf[u]] = "none"
      BY <1>2, <3>1 DEF UninterruptedInv
    <3>3. CpuOf[u] \in Contexts /\ CpuOf[u] # a  BY <1>1, <3>2, SchedAssumption DEF Contexts
    <3> QED  BY <1>1, <1>3, <3>2, <3>3
  <2>2. ASSUME NEW d \in CPUs, pc'[d] # "none", curthread'[d] # Idle
        PROVE  pc'[curthread'[d]] \in OpenPcs
    <3>1. pc[d] # "none" /\ d \in Contexts  BY <1>1, <1>3, <2>2 DEF Contexts
    <3>2. curthread[d] \in Contexts /\ pc[curthread[d]] \in OpenPcs
      BY <1>1, <1>2, <2>2, <3>1 DEF SchedTypeOK, Contexts, UninterruptedInv
    <3>3. curthread[d] # a  BY <1>1, <3>2 DEF OpenPcs
    <3> QED  BY <1>1, <1>3, <3>2, <3>3
  <2> QED  BY <2>1, <2>2 DEF UninterruptedInv
<1>10. WakeeInv'
  <2>1. \A b \in Contexts : wakee'[b] # Idle <=> pc'[b] = "took"
    BY <1>2, <1>3, <1>5 DEF WakeeInv
  <2>2. \A b, d \in Contexts : wakee'[b] = wakee'[d] /\ wakee'[b] # Idle => b = d
    BY <1>2, <1>3, <1>5 DEF WakeeInv
  <2>3. \A b \in Contexts, q \in Waitqs : wakee'[b] \notin Range(waiters'[q])
    BY <1>2, <1>3, <1>4, <1>5 DEF WakeeInv
  <2> QED  BY <2>1, <2>2, <2>3 DEF WakeeInv
<1>11. StateInv'  BY <1>1, <1>2, <1>3 DEF StateInv, Contexts
<1>12. WqLockInv'
  <2>1. \A u \in Threads : pc'[u] = "locked" <=> pc[u] = "locked"
    BY <1>1, <1>3 DEF Contexts
  <2> QED  BY <1>1, <1>2, <2>1 DEF WqLockInv
<1> QED  BY <1>6, <1>7, <1>8, <1>9, <1>10, <1>11, <1>12 DEF SchedInv

\* thread_resume puts a thread that is on no run queue at the head of its own.
LEMMA MakeRunnableEffect ==
    ASSUME SchedInv, NEW t \in Threads, MakeRunnable(t),
           t \notin Range(runqueue[CpuOf[t]])
    PROVE  /\ runqueue' \in [CPUs -> Seq(Threads)]
           /\ \A d \in CPUs : IsInjective(runqueue'[d])
           /\ \A d \in CPUs : Range(runqueue'[d]) =
                  IF d = CpuOf[t] THEN Range(runqueue[d]) \cup {t} ELSE Range(runqueue[d])
           /\ \A d \in CPUs : \A u \in Range(runqueue'[d]) : CpuOf[u] = d
           /\ state' \in [Threads -> ThreadStates]
           /\ \A u \in Threads : state'[u] = IF u = t THEN "Runnable" ELSE state[u]
<1> DEFINE c == CpuOf[t]
           q == <<t>> \o runqueue[c]
<1>1. /\ c \in CPUs /\ runqueue \in [CPUs -> Seq(Threads)]
      /\ \A d \in CPUs : IsInjective(runqueue[d])
      /\ \A d \in CPUs : \A u \in Range(runqueue[d]) : CpuOf[u] = d
      /\ state \in [Threads -> ThreadStates]
  BY SchedAssumption DEF SchedInv, SchedTypeOK, LinkedOnce
<1>2. /\ q \in Seq(Threads) /\ Range(q) = Range(runqueue[c]) \cup {t}
      /\ IsInjective(q)
  BY <1>1, PushQueue
<1>3. /\ runqueue' = [runqueue EXCEPT ![c] = q]
      /\ state' = [state EXCEPT ![t] = "Runnable"]
  BY DEF MakeRunnable
<1> HIDE DEF q
<1>4. /\ state' \in [Threads -> ThreadStates]
      /\ \A u \in Threads : state'[u] = IF u = t THEN "Runnable" ELSE state[u]
  BY <1>1, <1>3 DEF ThreadStates
<1>5. runqueue'[c] = q /\ \A d \in CPUs : d # c => runqueue'[d] = runqueue[d]
  BY <1>1, <1>3
<1>6. runqueue' \in [CPUs -> Seq(Threads)]  BY <1>1, <1>2, <1>3
<1> QED  BY <1>1, <1>2, <1>4, <1>5, <1>6

\* A waker resumes the thread it has taken off a wait queue.
LEMMA ThreadResumeInv ==
    ASSUME SchedInv, NEW a \in Contexts, ThreadResume(a)
    PROVE  SchedInv'
<1> DEFINE t == wakee[a]
           l == pc'[a]
<1>1. SchedTypeOK /\ LinkedOnce /\ ThreadPlaced /\ UninterruptedInv
      /\ WakeeInv /\ StateInv /\ WqLockInv
  BY DEF SchedInv
<1>2. pc[a] = "took" /\ Executing(a)  BY DEF ThreadResume, At
<1>3. t # Idle /\ t \in Threads /\ CpuOf[t] \in CPUs
  BY <1>1, <1>2, SchedAssumption DEF WakeeInv, SchedTypeOK
<1>4. /\ state[t] = "Waiting" /\ pc[t] \in {"parked", "resumed"} /\ t # a
      /\ t \notin Range(runqueue[CpuOf[t]])
      /\ \A q \in Waitqs : t \notin Range(waiters[q])
  <2>1. state[t] = "Waiting"  BY <1>1, <1>3 DEF ThreadPlaced
  <2>2. pc[t] \in {"parked", "resumed"}  BY <1>1, <1>3, <2>1 DEF StateInv
  <2>3. t \notin Range(runqueue[CpuOf[t]])  BY <1>1, <1>3, <2>1 DEF ThreadPlaced
  <2> QED  BY <1>1, <1>2, <2>1, <2>2, <2>3 DEF WakeeInv
<1>5. /\ UNCHANGED <<curthread, timeslicer, tlock, waiters, wqlock, arg>>
      /\ MakeRunnable(t)
      /\ wqres' = [wqres EXCEPT ![t] = "success"]
      /\ wakee' = [wakee EXCEPT ![a] = Idle]
      /\ preempted' = preempted \/ preempted' = [preempted EXCEPT ![a] = TRUE]
      /\ ipi' = ipi \/ ipi' = [ipi EXCEPT ![CpuOf[t]] = TRUE]
  BY DEF ThreadResume, wqVars, Notified
<1>6. /\ \A b \in Contexts : b # a => pc'[b] = pc[b] /\ wakee'[b] = wakee[b]
      /\ pc' \in [Contexts -> ThreadPcs \cup CpuPcs]
      /\ l \in IF a \in CPUs THEN {"intr"} ELSE {"run", "yield"}
      /\ wakee'[a] = Idle
  <2>1. \E m \in (IF a \in CPUs THEN {"intr"} ELSE {"run", "yield"}) : Goto(a, m)
    BY DEF ThreadResume, Home
  <2>2. PICK m \in (IF a \in CPUs THEN {"intr"} ELSE {"run", "yield"}) : Goto(a, m)
    BY <2>1
  <2>3. pc' = [pc EXCEPT ![a] = m]  BY <2>2 DEF Goto
  <2>4. m \in ThreadPcs \cup CpuPcs  BY <2>2 DEF ThreadPcs, OpenPcs, CpuPcs
  <2> QED  BY <1>1, <1>5, <2>2, <2>3, <2>4 DEF SchedTypeOK
<1>7. /\ runqueue' \in [CPUs -> Seq(Threads)]
      /\ \A d \in CPUs : IsInjective(runqueue'[d])
      /\ \A d \in CPUs : Range(runqueue'[d]) =
             IF d = CpuOf[t] THEN Range(runqueue[d]) \cup {t} ELSE Range(runqueue[d])
      /\ \A d \in CPUs : \A u \in Range(runqueue'[d]) : CpuOf[u] = d
      /\ state' \in [Threads -> ThreadStates]
      /\ \A u \in Threads : state'[u] = IF u = t THEN "Runnable" ELSE state[u]
  BY <1>3, <1>4, <1>5, MakeRunnableEffect
<1> HIDE DEF t, l
<1>8. SchedTypeOK'
  <2>1. preempted' \in [CPUs -> BOOLEAN] /\ ipi' \in [CPUs -> BOOLEAN]
    BY <1>1, <1>5 DEF SchedTypeOK
  <2>2. wqres' \in [Threads -> {"none", "success"}]
    BY <1>1, <1>5 DEF SchedTypeOK
  <2>3. wakee' \in [Contexts -> Threads \cup {Idle}]
    BY <1>1, <1>5 DEF SchedTypeOK
  <2>4. ASSUME NEW u \in Threads PROVE pc'[u] \in ThreadPcs
    <3>1. u \in Contexts /\ u \notin CPUs  BY SchedAssumption DEF Contexts
    <3> QED  BY <1>1, <1>6, <3>1 DEF SchedTypeOK, ThreadPcs, OpenPcs, l
  <2>5. ASSUME NEW d \in CPUs PROVE pc'[d] \in CpuPcs
    <3>1. d \in Contexts  BY DEF Contexts
    <3> QED  BY <1>1, <1>6, <3>1 DEF SchedTypeOK, CpuPcs, l
  <2> QED  BY <1>1, <1>5, <1>6, <1>7, <2>1, <2>2, <2>3, <2>4, <2>5 DEF SchedTypeOK
<1>9. LinkedOnce'
  <2>1. ASSUME NEW d \in CPUs, NEW q \in Waitqs
        PROVE  Range(runqueue'[d]) \cap Range(waiters[q]) = {}
    <3>1. Range(runqueue[d]) \cap Range(waiters[q]) = {}  BY <1>1 DEF LinkedOnce
    <3>2. Range(runqueue'[d]) \subseteq Range(runqueue[d]) \cup {t}  BY <1>7
    <3> QED  BY <1>4, <3>1, <3>2
  <2> QED  BY <1>1, <1>5, <1>7, <2>1 DEF LinkedOnce
<1>10. ThreadPlaced'
  <2> SUFFICES ASSUME NEW u \in Threads
               PROVE  /\ u \in Range(runqueue'[CpuOf[u]]) <=>
                            \/ state'[u] = "Runnable" /\ pc'[u] # "new"
                            \/ state'[u] = "Running" /\ curthread'[CpuOf[u]] # u
                      /\ state'[u] = "Waiting" <=>
                            \/ \E q \in Waitqs : u \in Range(waiters'[q])
                            \/ \E b \in Contexts : wakee'[b] = u
                      /\ \A d \in CPUs : curthread'[d] = u =>
                            CpuOf[u] = d /\ (state'[u] = "Running" \/ pc'[u] = "parked")
    BY DEF ThreadPlaced
  <2>1. u \in Contexts /\ CpuOf[u] \in CPUs /\ u # Idle
    BY SchedAssumption DEF Contexts
  <2>2. CASE u = t
    <3>1. pc'[u] = pc[u] /\ pc'[u] # "new"  BY <1>4, <1>6, <2>1, <2>2
    <3>2. \A b \in Contexts : wakee'[b] # u
      BY <1>1, <1>6, <2>1, <2>2 DEF WakeeInv, t
    <3>3. \A d \in CPUs : curthread[d] = u => CpuOf[u] = d /\ pc[u] = "parked"
      BY <1>1, <1>4, <2>2 DEF ThreadPlaced
    <3> QED  BY <1>4, <1>5, <1>7, <2>1, <2>2, <3>1, <3>2, <3>3
  <2>3. CASE u # t
    <3>1. /\ pc'[u] = "new" <=> pc[u] = "new"
          /\ pc[u] = "parked" => pc'[u] = "parked"
      BY <1>2, <1>6, <2>1 DEF l
    <3>2. \A b \in Contexts : wakee'[b] = u <=> wakee[b] = u
      BY <1>6, <2>1, <2>3 DEF t
    <3>3. u \in Range(runqueue'[CpuOf[u]]) <=> u \in Range(runqueue[CpuOf[u]])
      BY <1>7, <2>1, <2>3
    <3> QED  BY <1>1, <1>5, <1>7, <2>1, <2>3, <3>1, <3>2, <3>3 DEF ThreadPlaced
  <2> QED  BY <2>2, <2>3
<1>11. UninterruptedInv'
  <2>1. ASSUME NEW u \in Threads, pc'[u] \in ClosedPcs
        PROVE  curthread'[CpuOf[u]] = u /\ pc'[CpuOf[u]] = "none"
    <3>1. u \in Contexts /\ CpuOf[u] \in Contexts /\ CpuOf[u] \in CPUs
      BY SchedAssumption DEF Contexts
    <3>2. pc[u] \in ClosedPcs  BY <1>2, <1>6, <2>1, <3>1 DEF ClosedPcs
    <3>3. curthread[CpuOf[u]] = u /\ pc[CpuOf[u]] = "none"
      BY <1>1, <3>2 DEF UninterruptedInv
    <3>4. CpuOf[u] # a  BY <1>2, <3>3
    <3> QED  BY <1>5, <1>6, <3>1, <3>3, <3>4
  <2>2. ASSUME NEW d \in CPUs, pc'[d] # "none", curthread'[d] # Idle
        PROVE  pc'[curthread'[d]] \in OpenPcs
    <3>1. pc[d] # "none" /\ d \in Contexts
      BY <1>2, <1>6, <2>2 DEF Contexts
    <3>2. curthread[d] \in Contexts /\ pc[curthread[d]] \in OpenPcs
      BY <1>1, <1>5, <2>2, <3>1 DEF SchedTypeOK, Contexts, UninterruptedInv
    <3>3. curthread[d] # a  BY <1>2, <3>2 DEF OpenPcs
    <3> QED  BY <1>5, <1>6, <3>2, <3>3
  <2> QED  BY <2>1, <2>2 DEF UninterruptedInv
<1>12. WakeeInv'
  <2>1. \A b \in Contexts : wakee'[b] # Idle <=> pc'[b] = "took"
    BY <1>1, <1>6 DEF WakeeInv, l
  <2>2. \A b, d \in Contexts : wakee'[b] = wakee'[d] /\ wakee'[b] # Idle => b = d
    BY <1>1, <1>6 DEF WakeeInv
  <2>3. \A q \in Waitqs : Idle \notin Range(waiters[q])
    BY <1>1, QueueMembers, SchedAssumption DEF SchedTypeOK
  <2>4. \A b \in Contexts, q \in Waitqs : wakee'[b] \notin Range(waiters'[q])
    BY <1>1, <1>5, <1>6, <2>3 DEF WakeeInv
  <2> QED  BY <2>1, <2>2, <2>4 DEF WakeeInv
<1>13. StateInv'
  <2> SUFFICES ASSUME NEW u \in Threads
               PROVE  /\ state'[u] # "Exiting"
                      /\ state'[u] = "Waiting" => pc'[u] \in {"parked", "resumed"}
                      /\ pc'[u] = "parked" => state'[u] # "Running"
                      /\ pc'[u] = "new" =>
                             state'[u] = "Runnable" /\ curthread'[CpuOf[u]] # u
    BY DEF StateInv
  <2>1. u \in Contexts  BY DEF Contexts
  <2>2. CASE u = a
    <3>1. /\ pc'[u] \in {"run", "yield", "intr"} /\ state'[u] = state[u]
          /\ state[u] # "Waiting"
      BY <1>1, <1>2, <1>4, <1>6, <1>7, <2>2 DEF StateInv, l
    <3> QED  BY <1>1, <3>1 DEF StateInv
  <2>3. CASE u # a
    <3>1. pc'[u] = pc[u]  BY <1>6, <2>1, <2>3
    <3> QED  BY <1>1, <1>4, <1>5, <1>7, <3>1 DEF StateInv
  <2> QED  BY <2>2, <2>3
<1>14. WqLockInv'
  <2>1. \A u \in Threads : pc'[u] = "locked" <=> pc[u] = "locked"
    BY <1>2, <1>6 DEF Contexts, l
  <2> QED  BY <1>1, <1>5, <2>1 DEF WqLockInv
<1> QED  BY <1>8, <1>9, <1>10, <1>11, <1>12, <1>13, <1>14 DEF SchedInv

\* The code running on c resumes a thread that thread_new has made.
LEMMA ThreadStartInv ==
    ASSUME SchedInv, NEW c \in CPUs, NEW t \in Threads, ThreadStart(c, t)
    PROVE  SchedInv'
<1> DEFINE l == pc'[c]
<1>1. SchedTypeOK /\ LinkedOnce /\ ThreadPlaced /\ UninterruptedInv
      /\ WakeeInv /\ StateInv /\ WqLockInv
  BY DEF SchedInv
<1>2. /\ pc[t] = "new" /\ IntrEnabled(c)
      /\ curthread[c] # Idle => pc[curthread[c]] = "run"
      /\ MakeRunnable(t)
      /\ UNCHANGED <<curthread, timeslicer, preempted, tlock, wqres>>
      /\ UNCHANGED <<waiters, wqlock, arg, wakee>>
      /\ ipi' = ipi \/ ipi' = [ipi EXCEPT ![CpuOf[t]] = TRUE]
  BY DEF ThreadStart, wqVars, Notified
<1>3. /\ state[t] = "Runnable" /\ curthread[CpuOf[t]] # t /\ CpuOf[t] \in CPUs
      /\ t \notin Range(runqueue[CpuOf[t]]) /\ t # Idle
      /\ \A q \in Waitqs : t \notin Range(waiters[q])
      /\ \A b \in Contexts : wakee[b] # t
      /\ pc[c] = "none"
  <2>1. state[t] = "Runnable" /\ curthread[CpuOf[t]] # t /\ CpuOf[t] \in CPUs
    BY <1>1, <1>2, SchedAssumption DEF StateInv
  <2>2. t \notin Range(runqueue[CpuOf[t]])  BY <1>1, <1>2, <2>1 DEF ThreadPlaced
  <2>3. pc[c] = "none"  BY <1>2 DEF IntrEnabled
  <2> QED  BY <1>1, <2>1, <2>2, <2>3, SchedAssumption DEF ThreadPlaced
<1>4. /\ \A b \in Contexts : b # c /\ b # t => pc'[b] = pc[b]
      /\ pc' \in [Contexts -> ThreadPcs \cup CpuPcs]
      /\ pc'[t] = "run"
      /\ l \in {"none", "resched"}
      /\ t \in Contexts /\ c \in Contexts /\ t \notin CPUs
  <2>1. t \in Contexts /\ c \in Contexts /\ t \notin CPUs
    BY SchedAssumption DEF Contexts
  <2>2. PICK m \in {"none", "resched"} : pc' = [pc EXCEPT ![t] = "run", ![c] = m]
    <3>1. CASE CpuOf[t] = c
      <4>1. pc' = [pc EXCEPT ![t] = "run", ![c] = "resched"]
        BY <3>1 DEF ThreadStart
      <4> QED  BY <4>1
    <3>2. CASE CpuOf[t] # c
      <4>1. pc' = [pc EXCEPT ![t] = "run", ![c] = pc[c]]
        BY <2>1, <3>2 DEF ThreadStart
      <4> QED  BY <1>3, <4>1
    <3> QED  BY <3>1, <3>2
  <2>3. m \in ThreadPcs \cup CpuPcs /\ "run" \in ThreadPcs \cup CpuPcs
    BY <2>2 DEF ThreadPcs, OpenPcs, CpuPcs
  <2> QED  BY <1>1, <2>1, <2>2, <2>3 DEF SchedTypeOK
<1>5. /\ runqueue' \in [CPUs -> Seq(Threads)]
      /\ \A d \in CPUs : IsInjective(runqueue'[d])
      /\ \A d \in CPUs : Range(runqueue'[d]) =
             IF d = CpuOf[t] THEN Range(runqueue[d]) \cup {t} ELSE Range(runqueue[d])
      /\ \A d \in CPUs : \A u \in Range(runqueue'[d]) : CpuOf[u] = d
      /\ state' \in [Threads -> ThreadStates]
      /\ \A u \in Threads : state'[u] = IF u = t THEN "Runnable" ELSE state[u]
  BY <1>2, <1>3, MakeRunnableEffect
<1>6. \A u \in Threads : /\ u \in Contexts /\ u \notin CPUs /\ CpuOf[u] \in CPUs
                         /\ u # t => pc'[u] = pc[u]
  BY <1>4, SchedAssumption DEF Contexts
<1> HIDE DEF l
<1>7. SchedTypeOK'
  <2>1. ipi' \in [CPUs -> BOOLEAN]  BY <1>1, <1>2 DEF SchedTypeOK
  <2>2. ASSUME NEW u \in Threads PROVE pc'[u] \in ThreadPcs
    BY <1>1, <1>4, <1>6 DEF SchedTypeOK, ThreadPcs, OpenPcs
  <2>3. ASSUME NEW d \in CPUs PROVE pc'[d] \in CpuPcs
    <3>1. d \in Contexts  BY DEF Contexts
    <3> QED  BY <1>1, <1>4, <3>1 DEF SchedTypeOK, CpuPcs, l
  <2> QED  BY <1>1, <1>2, <1>4, <1>5, <2>1, <2>2, <2>3 DEF SchedTypeOK
<1>8. LinkedOnce'
  <2>1. ASSUME NEW d \in CPUs, NEW q \in Waitqs
        PROVE  Range(runqueue'[d]) \cap Range(waiters[q]) = {}
    <3>1. Range(runqueue[d]) \cap Range(waiters[q]) = {}  BY <1>1 DEF LinkedOnce
    <3>2. Range(runqueue'[d]) \subseteq Range(runqueue[d]) \cup {t}  BY <1>5
    <3> QED  BY <1>3, <3>1, <3>2
  <2> QED  BY <1>1, <1>2, <1>5, <2>1 DEF LinkedOnce
<1>9. ThreadPlaced'
  <2> SUFFICES ASSUME NEW u \in Threads
               PROVE  /\ u \in Range(runqueue'[CpuOf[u]]) <=>
                            \/ state'[u] = "Runnable" /\ pc'[u] # "new"
                            \/ state'[u] = "Running" /\ curthread'[CpuOf[u]] # u
                      /\ state'[u] = "Waiting" <=>
                            \/ \E q \in Waitqs : u \in Range(waiters'[q])
                            \/ \E b \in Contexts : wakee'[b] = u
                      /\ \A d \in CPUs : curthread'[d] = u =>
                            CpuOf[u] = d /\ (state'[u] = "Running" \/ pc'[u] = "parked")
    BY DEF ThreadPlaced
  <2>1. CASE u = t
    <3>1. \A d \in CPUs : curthread[d] # u  BY <1>1, <1>3, <2>1 DEF ThreadPlaced
    <3> QED  BY <1>2, <1>3, <1>4, <1>5, <2>1, <3>1
  <2>2. CASE u # t
    <3>1. u \in Range(runqueue'[CpuOf[u]]) <=> u \in Range(runqueue[CpuOf[u]])
      BY <1>5, <1>6, <2>2
    <3> QED  BY <1>1, <1>2, <1>5, <1>6, <2>2, <3>1 DEF ThreadPlaced
  <2> QED  BY <2>1, <2>2
<1>10. UninterruptedInv'
  <2>1. ASSUME NEW u \in Threads, pc'[u] \in ClosedPcs
        PROVE  curthread'[CpuOf[u]] = u /\ pc'[CpuOf[u]] = "none"
    <3>1. u # t  BY <1>4, <2>1 DEF ClosedPcs
    <3>2. pc[u] \in ClosedPcs  BY <1>6, <2>1, <3>1
    <3>3. curthread[CpuOf[u]] = u /\ pc[CpuOf[u]] = "none"
      BY <1>1, <3>2 DEF UninterruptedInv
    <3>4. u # Idle  BY SchedAssumption
    <3>5. CpuOf[u] # c  BY <1>2, <3>2, <3>3, <3>4 DEF ClosedPcs
    <3>6. CpuOf[u] \in Contexts /\ CpuOf[u] # t  BY <1>4, <1>6 DEF Contexts
    <3> QED  BY <1>2, <1>4, <3>3, <3>5, <3>6
  <2>2. ASSUME NEW d \in CPUs, pc'[d] # "none", curthread'[d] # Idle
        PROVE  pc'[curthread'[d]] \in OpenPcs
    <3>1. curthread[d] \in Threads /\ curthread'[d] = curthread[d]
          /\ curthread[d] # Idle
      BY <1>1, <1>2, <2>2 DEF SchedTypeOK
    <3>2. curthread[d] # t  BY <1>1, <1>3, <3>1 DEF ThreadPlaced
    <3>3. pc'[curthread[d]] = pc[curthread[d]]  BY <1>6, <3>1, <3>2
    <3>4. CASE d = c  BY <1>2, <3>1, <3>3, <3>4 DEF OpenPcs
    <3>5. CASE d # c
      <4>1. d \in Contexts /\ d # t  BY <1>4 DEF Contexts
      <4>2. pc[d] # "none"  BY <1>4, <2>2, <3>5, <4>1
      <4> QED  BY <1>1, <3>1, <3>3, <4>2 DEF UninterruptedInv
    <3> QED  BY <3>4, <3>5
  <2> QED  BY <2>1, <2>2 DEF UninterruptedInv
<1>11. WakeeInv'
  <2>1. \A b \in Contexts : pc'[b] = "took" <=> pc[b] = "took"
    BY <1>2, <1>3, <1>4 DEF l
  <2> QED  BY <1>1, <1>2, <2>1 DEF WakeeInv
<1>12. StateInv'
  BY <1>1, <1>2, <1>3, <1>4, <1>5, <1>6 DEF StateInv
<1>13. WqLockInv'
  <2>1. \A u \in Threads : pc'[u] = "locked" <=> pc[u] = "locked"
    BY <1>2, <1>4, <1>6
  <2> QED  BY <1>1, <1>2, <2>1 DEF WqLockInv
<1> QED  BY <1>7, <1>8, <1>9, <1>10, <1>11, <1>12, <1>13 DEF SchedInv

------------------------------------------------------------------------------
\* The inductive invariant.

\* The state after boot satisfies the inductive invariant.
LEMMA InitInv == SchedInit => SchedInv
<1> SUFFICES ASSUME SchedInit PROVE SchedInv  OBVIOUS
<1>1. /\ runqueue = [c \in CPUs |-> <<>>] /\ waiters = [q \in Waitqs |-> <<>>]
      /\ curthread = [c \in CPUs |-> Idle]
      /\ state = [t \in Threads |-> "Runnable"]
      /\ pc = [a \in Contexts |-> IF a \in CPUs THEN "none" ELSE "new"]
      /\ wakee = [a \in Contexts |-> Idle]
      /\ wqlock = [q \in Waitqs |-> FALSE]
  BY DEF SchedInit
<1>2. /\ <<>> \in Seq(Threads) /\ Range(<<>>) = {} /\ IsInjective(<<>>)
  BY EmptyQueue
<1>3. \A t \in Threads : t \in Contexts /\ t \notin CPUs /\ t # Idle /\ CpuOf[t] \in CPUs
  BY SchedAssumption DEF Contexts
<1>4. \A c \in CPUs : c \in Contexts  BY DEF Contexts
<1>5. SchedTypeOK
  <2>1. /\ pc \in [Contexts -> ThreadPcs \cup CpuPcs]
        /\ \A t \in Threads : pc[t] \in ThreadPcs
        /\ \A c \in CPUs : pc[c] \in CpuPcs
    BY <1>1, <1>3, <1>4 DEF ThreadPcs, CpuPcs
  <2>2. arg \in [Contexts -> Waitqs]  BY SchedAssumption DEF SchedInit
  <2>3. runqueue \in [CPUs -> Seq(Threads)] /\ waiters \in [Waitqs -> Seq(Threads)]
    BY <1>1, <1>2
  <2>4. tlock \in [Threads -> BOOLEAN]  BY DEF SchedInit
  <2> QED  BY <2>1, <2>2, <2>3, <2>4 DEF SchedInit, SchedTypeOK, ThreadStates
<1>6. LinkedOnce  BY <1>1, <1>2 DEF LinkedOnce
<1>7. ThreadPlaced
  <2>1. \A t \in Threads : /\ Range(runqueue[CpuOf[t]]) = {} /\ state[t] = "Runnable"
                           /\ pc[t] = "new"
    BY <1>1, <1>2, <1>3
  <2>2. \A q \in Waitqs : Range(waiters[q]) = {}  BY <1>1, <1>2
  <2>3. \A a \in Contexts : wakee[a] = Idle  BY <1>1
  <2>4. \A c \in CPUs : curthread[c] = Idle  BY <1>1
  <2> QED  BY <1>3, <2>1, <2>2, <2>3, <2>4 DEF ThreadPlaced
<1>8. UninterruptedInv  BY <1>1, <1>3, <1>4 DEF UninterruptedInv, ClosedPcs
<1>9. WakeeInv
  <2>1. \A a \in Contexts : wakee[a] = Idle /\ pc[a] # "took"  BY <1>1
  <2>2. \A q \in Waitqs : Range(waiters[q]) = {}  BY <1>1, <1>2
  <2> QED  BY <2>1, <2>2 DEF WakeeInv
<1>10. StateInv  BY <1>1, <1>3 DEF StateInv
<1>11. WqLockInv  BY <1>1, <1>3 DEF WqLockInv
<1> QED  BY <1>5, <1>6, <1>7, <1>8, <1>9, <1>10, <1>11 DEF SchedInv

\* Every step of the system preserves the invariant.
LEMMA NextInv == SchedInv /\ [SchedNext]_schedVars => SchedInv'
<1> SUFFICES ASSUME SchedInv, [SchedNext]_schedVars PROVE SchedInv'  OBVIOUS
<1>0. PICK q0 : q0 \in Waitqs  BY SchedAssumption
<1>1. \A t \in Threads : t \in Contexts /\ t \notin CPUs /\ cpu(t) = CpuOf[t] /\ CpuOf[t] \in CPUs
  BY SchedAssumption DEF Contexts, cpu
<1>2. \A c \in CPUs : c \in Contexts /\ cpu(c) = c  BY DEF Contexts, cpu
<1>3. ASSUME NEW t \in Threads, ThreadStep(t) PROVE SchedInv'
  <2>1. CASE AwaitEnter(t)
    BY <1>0, <1>1, <2>1, MoveInv DEF AwaitEnter, At
  <2>2. CASE AwaitEnqueue(t)  BY <2>2, AwaitEnqueueInv
  <2>3. CASE AwaitReschedule(t)
    BY <1>1, <2>3, RescheduleInv DEF AwaitReschedule
  <2>4. CASE AwaitReturn(t)
    BY <1>0, <1>1, <2>4, MoveInv DEF AwaitReturn, At
  <2>5. CASE WakeEnter(t)
    BY <1>0, <1>1, <2>5, MoveInv DEF WakeEnter, At
  <2>6. CASE YieldReschedule(t)
    BY <1>1, <2>6, RescheduleInv DEF YieldReschedule
  <2> QED  BY <1>3, <2>1, <2>2, <2>3, <2>4, <2>5, <2>6 DEF ThreadStep
<1>4. ASSUME NEW t \in Threads, AwaitNotNeeded(t) PROVE SchedInv'
  BY <1>0, <1>1, <1>4, MoveInv DEF AwaitNotNeeded, At
<1>5. ASSUME NEW a \in Contexts, WakeStep(a) PROVE SchedInv'
  <2>1. CASE WakeNobody(a)
    BY <1>0, <1>1, <2>1, MoveInv DEF WakeNobody, At, Home, Contexts
  <2> QED  BY <1>5, <2>1, WakeRemoveInv, ThreadResumeInv DEF WakeStep
<1>6. ASSUME NEW t \in Threads, NEW q \in Waitqs, AwaitCall(t, q) PROVE SchedInv'
  BY <1>1, <1>6, MoveInv DEF AwaitCall, At
<1>7. ASSUME NEW a \in Contexts, NEW q \in Waitqs, WakeCall(a, q) PROVE SchedInv'
  <2>1. CASE a \in CPUs  BY <1>7, <2>1, MoveInv DEF WakeCall, At
  <2>2. CASE a \notin CPUs  BY <1>7, <2>2, MoveInv DEF WakeCall, At, Contexts
  <2> QED  BY <2>1, <2>2
<1>8. ASSUME NEW c \in CPUs, IntrStep(c) \/ DeviceIntr(c) PROVE SchedInv'
  <2>0. /\ timeslicer \in [CPUs -> BOOLEAN] /\ preempted \in [CPUs -> BOOLEAN]
        /\ ipi \in [CPUs -> BOOLEAN]
    BY DEF SchedInv, SchedTypeOK
  <2>1. CASE TimerIntr(c)
    <3>1. /\ timeslicer' \in [CPUs -> BOOLEAN] /\ preempted' \in [CPUs -> BOOLEAN]
          /\ ipi' \in [CPUs -> BOOLEAN]
      BY <2>0, <2>1 DEF TimerIntr
    <3> QED  BY <2>1, <3>1, IntrInv DEF TimerIntr
  <2>2. CASE ReschedIntr(c)
    <3>1. /\ timeslicer' \in [CPUs -> BOOLEAN] /\ preempted' \in [CPUs -> BOOLEAN]
          /\ ipi' \in [CPUs -> BOOLEAN]
      BY <2>0, <2>2 DEF ReschedIntr
    <3> QED  BY <2>2, <3>1, IntrInv DEF ReschedIntr
  <2>3. CASE DeviceIntr(c)
    BY <2>0, <2>3, IntrInv DEF DeviceIntr, cpuVars
  <2>4. CASE IntrReturn(c)
    <3>1. /\ timeslicer' \in [CPUs -> BOOLEAN] /\ preempted' \in [CPUs -> BOOLEAN]
          /\ ipi' \in [CPUs -> BOOLEAN]
      BY <2>0, <2>4 DEF IntrReturn
    <3>2. \E l \in {"intr", "iret", "resched", "none"} : Goto(c, l)
      BY <2>4 DEF IntrReturn
    <3> QED  BY <2>4, <3>1, <3>2, IntrInv DEF IntrReturn
  <2>5. CASE CpuReschedule(c)
    BY <1>2, <2>5, RescheduleInv DEF CpuReschedule
  <2> QED  BY <1>8, <2>1, <2>2, <2>3, <2>4, <2>5 DEF IntrStep
<1>9. CASE UNCHANGED schedVars
  BY <1>9 DEF schedVars, cpuVars, threadVars, wqVars, ctxVars, SchedInv, SchedTypeOK,
     LinkedOnce, ThreadPlaced, UninterruptedInv, WakeeInv, StateInv, WqLockInv
<1> QED  BY <1>3, <1>4, <1>5, <1>6, <1>7, <1>8, <1>9, AwaitLockWqInv, ThreadStartInv
         DEF SchedNext

\* SchedInv holds in every reachable state.
THEOREM SchedInvariant == SchedSpec => []SchedInv
BY InitInv, NextInv, PTL DEF SchedSpec

\* The variables keep their types: every queue holds threads, every context is
\* at a place of its own code.
THEOREM TypeCorrect == SchedSpec => []SchedTypeOK
<1>1. SchedInv => SchedTypeOK  BY DEF SchedInv
<1> QED  BY <1>1, SchedInvariant, PTL

\* thread.queue is linked into one list at a time (kern/task.c): run queues and
\* wait queues never share a thread or hold one twice.
THEOREM QueuesIntact == SchedSpec => []LinkedOnce
<1>1. SchedInv => LinkedOnce  BY DEF SchedInv
<1> QED  BY <1>1, SchedInvariant, PTL

\* No thread is lost by sched_reschedule, waitq_wake_one or thread_resume, and
\* none is current on two CPUs.
THEOREM NoThreadLost == SchedSpec => []ThreadPlaced
<1>1. SchedInv => ThreadPlaced  BY DEF SchedInv
<1> QED  BY <1>1, SchedInvariant, PTL

\* The assert of handle_int never fails: an interrupt handler runs on the stack
\* of a thread whose state is Running.
THEOREM HandleIntAssert == SchedSpec => []InterruptsRunningThread
<1>1. ASSUME SchedInv PROVE InterruptsRunningThread
  <2> SUFFICES ASSUME NEW c \in CPUs, pc[c] \in {"intr", "wake", "took", "iret"},
                      curthread[c] # Idle
               PROVE  state[curthread[c]] = "Running"
    BY DEF InterruptsRunningThread
  <2>1. curthread[c] \in Threads /\ pc[curthread[c]] \in OpenPcs
    BY <1>1 DEF SchedInv, SchedTypeOK, UninterruptedInv
  <2> QED  BY <1>1, <2>1 DEF SchedInv, ThreadPlaced, OpenPcs
<1> QED  BY <1>1, SchedInvariant, PTL

------------------------------------------------------------------------------
\* A CPU does not idle beside a runnable thread without knowing.

\* A step that moves no thread between queues and forgets no reason to
\* reschedule.
LEMMA NoMissedKept ==
    ASSUME NoMissedReschedule, UNCHANGED <<curthread, runqueue>>,
           \A d \in CPUs : ipi[d] \/ preempted[d] \/ pc[d] = "resched" =>
                           ipi'[d] \/ preempted'[d] \/ pc'[d] = "resched"
    PROVE  NoMissedReschedule'
BY DEF NoMissedReschedule

\* After sched_reschedule the CPU idles only if its run queue is empty.
LEMMA NoMissedAfterReschedule ==
    ASSUME SchedInv, NoMissedReschedule, NEW c \in CPUs, sched_reschedule(c),
           NEW a \in Contexts, cpu(a) = c, NEW l, Goto(a, l)
    PROVE  NoMissedReschedule'
<1>1. /\ curthread'[c] = Idle => runqueue'[c] = <<>>
      /\ \A d \in CPUs : d # c => curthread'[d] = curthread[d] /\ runqueue'[d] = runqueue[d]
  BY RescheduleEffect
<1>2. UNCHANGED <<ipi, preempted>>  BY DEF sched_reschedule
<1>3. \A d \in CPUs : d # c => pc'[d] = pc[d]
  BY DEF Goto, cpu, SchedInv, SchedTypeOK, Contexts
<1> QED  BY <1>1, <1>2, <1>3 DEF NoMissedReschedule

\* thread_resume, called by waitq_wake_one or for a new thread, queues t and
\* leaves a reason to reschedule at its CPU.
LEMMA NoMissedResume ==
    ASSUME NoMissedReschedule, SchedTypeOK, NEW t \in Threads, MakeRunnable(t),
           UNCHANGED curthread,
           \/ curthread[CpuOf[t]] # Idle
           \/ ipi'[CpuOf[t]] \/ preempted'[CpuOf[t]] \/ pc'[CpuOf[t]] = "resched",
           \A d \in CPUs : ipi[d] \/ preempted[d] \/ pc[d] = "resched" =>
                           ipi'[d] \/ preempted'[d] \/ pc'[d] = "resched"
    PROVE  NoMissedReschedule'
<1>1. \A d \in CPUs : d # CpuOf[t] => runqueue'[d] = runqueue[d]
  BY DEF MakeRunnable, SchedTypeOK
<1> QED  BY <1>1 DEF NoMissedReschedule

\* No step makes a CPU idle beside a runnable thread unnoticed.
LEMMA NoMissedNext ==
    SchedInv /\ NoMissedReschedule /\ [SchedNext]_schedVars => NoMissedReschedule'
<1> SUFFICES ASSUME SchedInv, NoMissedReschedule, [SchedNext]_schedVars
             PROVE  NoMissedReschedule'
  OBVIOUS
<1>1. SchedTypeOK  BY DEF SchedInv
<1>2. \A t \in Threads : t \in Contexts /\ t \notin CPUs /\ cpu(t) = CpuOf[t] /\ CpuOf[t] \in CPUs
  BY SchedAssumption DEF Contexts, cpu
<1>3. \A c \in CPUs : c \in Contexts /\ cpu(c) = c  BY DEF Contexts, cpu
\* A context that is about to reschedule moves in no other way.
<1>4. ASSUME NEW a \in Contexts, pc[a] # "resched", NEW l, Goto(a, l),
             UNCHANGED <<curthread, runqueue, preempted, ipi>>
      PROVE  NoMissedReschedule'
  <2>1. \A d \in CPUs : pc[d] = "resched" => pc'[d] = "resched"
    BY <1>1, <1>3, <1>4 DEF Goto, SchedTypeOK
  <2> QED  BY <1>4, <2>1, NoMissedKept
<1>5. ASSUME NEW t \in Threads, ThreadStep(t) PROVE NoMissedReschedule'
  <2>1. CASE AwaitReschedule(t) \/ YieldReschedule(t)
    BY <1>2, <2>1, NoMissedAfterReschedule DEF AwaitReschedule, YieldReschedule
  <2>2. CASE AwaitEnter(t) \/ AwaitEnqueue(t) \/ AwaitReturn(t) \/ WakeEnter(t)
    BY <1>2, <1>4, <2>2 DEF AwaitEnter, AwaitEnqueue, AwaitReturn, WakeEnter, At, cpuVars
  <2> QED  BY <1>5, <2>1, <2>2 DEF ThreadStep
<1>6. ASSUME NEW t \in Threads, AwaitNotNeeded(t) \/ AwaitLockWq(t)
      PROVE  NoMissedReschedule'
  BY <1>2, <1>4, <1>6 DEF AwaitNotNeeded, AwaitLockWq, At, cpuVars
<1>7. ASSUME NEW a \in Contexts, WakeStep(a) PROVE NoMissedReschedule'
  <2>1. CASE WakeRemove(a) \/ WakeNobody(a)
    BY <1>4, <2>1 DEF WakeRemove, WakeNobody, At, cpuVars
  <2>2. CASE ThreadResume(a)
    <3> DEFINE t == wakee[a]
               here == CpuOf[t] = cpu(a)
    <3>1. /\ pc[a] = "took" /\ Executing(a) /\ MakeRunnable(t) /\ UNCHANGED curthread
          /\ ipi' = Notified(t, here)
          /\ preempted' = IF here /\ a \in CPUs
                          THEN [preempted EXCEPT ![a] = TRUE] ELSE preempted
      BY <2>2 DEF ThreadResume, At
    <3>2. t \in Threads /\ CpuOf[t] \in CPUs
      BY <1>1, <3>1, SchedAssumption DEF SchedInv, WakeeInv, SchedTypeOK
    <3>3. \A d \in CPUs : pc[d] = "resched" => pc'[d] = "resched"
      <4>1. PICK l : Goto(a, l)  BY <2>2 DEF ThreadResume
      <4> QED  BY <1>1, <1>3, <3>1, <4>1 DEF Goto, SchedTypeOK
    <3>4. \A d \in CPUs : (ipi[d] => ipi'[d]) /\ (preempted[d] => preempted'[d])
      BY <1>1, <3>1, <3>2 DEF Notified, SchedTypeOK
    <3>5. curthread[CpuOf[t]] # Idle \/ ipi'[CpuOf[t]] \/ preempted'[CpuOf[t]]
      <4>1. CASE ~here  BY <1>1, <3>1, <3>2, <4>1 DEF Notified, SchedTypeOK
      <4>2. CASE here /\ a \in CPUs
        BY <1>1, <1>3, <3>1, <3>2, <4>2 DEF SchedTypeOK
      <4>3. CASE here /\ a \notin CPUs
        <5>1. a \in Threads /\ cpu(a) = CpuOf[a] /\ a # Idle
          BY <4>3, SchedAssumption DEF cpu, Contexts
        <5> QED  BY <3>1, <4>3, <5>1 DEF Executing
      <4> QED  BY <4>1, <4>2, <4>3
    <3> HIDE DEF t, here
    <3> QED  BY <1>1, <3>1, <3>2, <3>3, <3>4, <3>5, NoMissedResume
  <2> QED  BY <1>7, <2>1, <2>2 DEF WakeStep
<1>8. ASSUME NEW t \in Threads, NEW q \in Waitqs, AwaitCall(t, q)
      PROVE  NoMissedReschedule'
  BY <1>2, <1>4, <1>8 DEF AwaitCall, At, cpuVars
<1>9. ASSUME NEW a \in Contexts, NEW q \in Waitqs, WakeCall(a, q)
      PROVE  NoMissedReschedule'
  BY <1>4, <1>9 DEF WakeCall, At, cpuVars
<1>10. ASSUME NEW c \in CPUs, IntrStep(c) \/ DeviceIntr(c) PROVE NoMissedReschedule'
  <2>1. CASE CpuReschedule(c)
    BY <1>3, <2>1, NoMissedAfterReschedule DEF CpuReschedule
  <2>2. CASE DeviceIntr(c)
    BY <1>3, <1>4, <2>2 DEF DeviceIntr, IntrEnabled, cpuVars
  <2>3. CASE TimerIntr(c) \/ ReschedIntr(c)
    <3>1. /\ preempted' = [preempted EXCEPT ![c] = TRUE]
          /\ UNCHANGED <<curthread, runqueue>>
          /\ \A d \in CPUs : d # c => pc'[d] = pc[d] /\ ipi'[d] = ipi[d]
      BY <1>1, <1>3, <2>3 DEF TimerIntr, ReschedIntr, Goto, SchedTypeOK
    <3> QED  BY <1>1, <3>1, NoMissedKept DEF SchedTypeOK
  <2>4. CASE IntrReturn(c)
    <3>1. /\ preempted' = [preempted EXCEPT ![c] = FALSE]
          /\ UNCHANGED <<curthread, runqueue, ipi>>
          /\ pc[c] # "resched"
          /\ preempted[c] => pc'[c] = "resched"
          /\ \A d \in CPUs : d # c => pc'[d] = pc[d]
      BY <1>1, <1>3, <2>4 DEF IntrReturn, Goto, SchedTypeOK
    <3> QED  BY <1>1, <3>1, NoMissedKept DEF SchedTypeOK
  <2> QED  BY <1>10, <2>1, <2>2, <2>3, <2>4 DEF IntrStep
<1>11. ASSUME NEW c \in CPUs, NEW t \in Threads, ThreadStart(c, t)
       PROVE  NoMissedReschedule'
  <2>1. /\ MakeRunnable(t) /\ UNCHANGED <<curthread, preempted>>
        /\ ipi' = Notified(t, CpuOf[t] = c) /\ pc[c] = "none"
        /\ pc' = [pc EXCEPT ![t] = "run",
                            ![c] = IF CpuOf[t] = c THEN "resched" ELSE @]
    BY <1>11 DEF ThreadStart, IntrEnabled
  <2>2. \A d \in CPUs : pc'[d] = IF d = c /\ CpuOf[t] = c THEN "resched" ELSE pc[d]
    BY <1>1, <1>2, <1>3, <2>1 DEF SchedTypeOK
  <2>3. \A d \in CPUs : ipi'[d] <=> ipi[d] \/ (d = CpuOf[t] /\ d # c)
    BY <1>1, <1>2, <2>1 DEF Notified, SchedTypeOK
  <2>4. ipi'[CpuOf[t]] \/ pc'[CpuOf[t]] = "resched"  BY <1>2, <2>2, <2>3
  <2>5. \A d \in CPUs : ipi[d] \/ preempted[d] \/ pc[d] = "resched" =>
                        ipi'[d] \/ preempted'[d] \/ pc'[d] = "resched"
    BY <2>1, <2>2, <2>3
  <2> QED  BY <1>1, <2>1, <2>4, <2>5, NoMissedResume
<1>12. CASE UNCHANGED schedVars
  BY <1>12 DEF schedVars, cpuVars, threadVars, wqVars, ctxVars, NoMissedReschedule
<1> QED  BY <1>5, <1>6, <1>7, <1>8, <1>9, <1>10, <1>11, <1>12 DEF SchedNext

\* thread_resume, md_ipi_resched and handle_int together lose no reschedule: an
\* idle CPU with a runnable thread has an IPI pending or is about to reschedule.
THEOREM RescheduleNotMissed == SchedSpec => []NoMissedReschedule
<1>1. SchedInit => NoMissedReschedule
  BY DEF SchedInit, NoMissedReschedule
<1> QED  BY <1>1, NoMissedNext, SchedInvariant, PTL DEF SchedSpec

------------------------------------------------------------------------------
\* A wait ends only because of a wake-up.

\* A step that leaves the results of wake-ups alone, and takes no thread to a
\* wait but one that is Waiting.
LEMMA WokenKept ==
    ASSUME WokenInv, UNCHANGED wqres,
           \A t \in Threads :
               pc'[t] \in {"parked", "resumed"} /\ state'[t] # "Waiting" =>
               pc[t] \in {"parked", "resumed"} /\ state[t] # "Waiting"
    PROVE  WokenInv'
BY DEF WokenInv

\* sched_reschedule makes only Runnable and Running threads Running.
LEMMA WokenAfterReschedule ==
    ASSUME SchedInv, WokenInv, NEW c \in CPUs, sched_reschedule(c),
           NEW a \in Contexts, NEW l, Goto(a, l),
           l = "resumed" => pc[a] = "parked",
           l # "parked"
    PROVE  WokenInv'
<1> DEFINE old == curthread[c]
           nx == curthread'[c]
<1>1. SchedTypeOK /\ LinkedOnce /\ ThreadPlaced  BY DEF SchedInv
<1>2. /\ nx # Idle => \/ nx \in Range(runqueue[c])
                      \/ nx = old /\ state[old] = "Running"
      /\ state' = [t \in Threads |-> IF t = nx THEN "Running" ELSE state[t]]
  BY RescheduleEffect
<1>3. UNCHANGED wqres  BY DEF sched_reschedule
<1> HIDE DEF nx
<1>4. ASSUME NEW t \in Threads, t = nx PROVE state[t] # "Waiting"
  <2>1. t # Idle  BY SchedAssumption
  <2>2. CASE t \in Range(runqueue[c])
    <3>1. CpuOf[t] = c  BY <1>1, <2>2 DEF LinkedOnce
    <3> QED  BY <1>1, <2>2, <3>1 DEF ThreadPlaced
  <2> QED  BY <1>2, <1>4, <2>1, <2>2
<1>5. \A t \in Threads : pc'[t] \in {"parked", "resumed"} => pc[t] \in {"parked", "resumed"}
  BY <1>1 DEF Goto, SchedTypeOK, Contexts
<1> QED  BY <1>2, <1>3, <1>4, <1>5, WokenKept

\* A waiting thread leaves that state only by thread_resume, after wqres is set.
LEMMA WokenNext == SchedInv /\ WokenInv /\ [SchedNext]_schedVars => WokenInv'
<1> SUFFICES ASSUME SchedInv, WokenInv, [SchedNext]_schedVars PROVE WokenInv'  OBVIOUS
<1>1. SchedTypeOK  BY DEF SchedInv
<1>2. \A t \in Threads : t \in Contexts /\ t \notin CPUs /\ CpuOf[t] \in CPUs
  BY SchedAssumption DEF Contexts
<1>3. \A c \in CPUs : c \in Contexts  BY DEF Contexts
<1>4. ASSUME NEW a \in Contexts, NEW l, l \notin {"parked", "resumed"}, Goto(a, l),
             UNCHANGED <<state, wqres>>
      PROVE  WokenInv'
  <2>1. \A t \in Threads : pc'[t] \in {"parked", "resumed"} => pc[t] \in {"parked", "resumed"}
    BY <1>1, <1>2, <1>4 DEF Goto, SchedTypeOK
  <2> QED  BY <1>4, <2>1, WokenKept
<1>5. ASSUME NEW t \in Threads, ThreadStep(t) PROVE WokenInv'
  <2>1. CASE AwaitReschedule(t) \/ YieldReschedule(t)
    BY <1>2, <2>1, WokenAfterReschedule DEF AwaitReschedule, YieldReschedule, At
  <2>2. CASE AwaitEnqueue(t)
    <3>1. \A u \in Threads : /\ u # t => pc'[u] = pc[u] /\ state'[u] = state[u]
                             /\ state'[t] = "Waiting"
      BY <1>1, <1>2, <2>2 DEF AwaitEnqueue, Goto, SchedTypeOK
    <3>2. UNCHANGED wqres  BY <2>2 DEF AwaitEnqueue
    <3> QED  BY <3>1, <3>2, WokenKept
  <2>3. CASE AwaitEnter(t) \/ AwaitReturn(t) \/ WakeEnter(t)
    BY <1>2, <1>4, <2>3 DEF AwaitEnter, AwaitReturn, WakeEnter, threadVars
  <2> QED  BY <1>5, <2>1, <2>2, <2>3 DEF ThreadStep
<1>6. ASSUME NEW t \in Threads, AwaitNotNeeded(t) \/ AwaitLockWq(t) PROVE WokenInv'
  BY <1>2, <1>4, <1>6 DEF AwaitNotNeeded, AwaitLockWq, threadVars
<1>7. ASSUME NEW a \in Contexts, WakeStep(a) PROVE WokenInv'
  <2>1. CASE WakeRemove(a) \/ WakeNobody(a)
    BY <1>4, <2>1 DEF WakeRemove, WakeNobody, Home, threadVars
  <2>2. CASE ThreadResume(a)
    <3>1. PICK l \in {"yield", "run", "intr"} : Goto(a, l)
      BY <2>2 DEF ThreadResume, Home
    <3>2. wakee[a] \in Threads
      BY <1>1, <2>2 DEF ThreadResume, At, SchedInv, WakeeInv, SchedTypeOK
    <3>3. /\ wqres'[wakee[a]] = "success"
          /\ \A u \in Threads : u # wakee[a] => wqres'[u] = wqres[u] /\ state'[u] = state[u]
      BY <1>1, <2>2, <3>2 DEF ThreadResume, MakeRunnable, SchedTypeOK
    <3>4. \A u \in Threads : pc'[u] \in {"parked", "resumed"} => pc'[u] = pc[u]
      BY <1>1, <1>2, <3>1 DEF Goto, SchedTypeOK
    <3> QED  BY <3>3, <3>4 DEF WokenInv
  <2> QED  BY <1>7, <2>1, <2>2 DEF WakeStep
<1>8. ASSUME NEW t \in Threads, NEW q \in Waitqs, AwaitCall(t, q) PROVE WokenInv'
  BY <1>2, <1>4, <1>8 DEF AwaitCall, threadVars
<1>9. ASSUME NEW a \in Contexts, NEW q \in Waitqs, WakeCall(a, q) PROVE WokenInv'
  BY <1>4, <1>9 DEF WakeCall, threadVars
<1>10. ASSUME NEW c \in CPUs, IntrStep(c) \/ DeviceIntr(c) PROVE WokenInv'
  <2>1. CASE CpuReschedule(c)
    BY <1>3, <2>1, WokenAfterReschedule DEF CpuReschedule
  <2>2. CASE DeviceIntr(c) \/ TimerIntr(c) \/ ReschedIntr(c)
    BY <1>3, <1>4, <2>2 DEF DeviceIntr, TimerIntr, ReschedIntr, threadVars
  <2>3. CASE IntrReturn(c)
    BY <1>3, <1>4, <2>3 DEF IntrReturn, threadVars
  <2> QED  BY <1>10, <2>1, <2>2, <2>3 DEF IntrStep
<1>11. ASSUME NEW c \in CPUs, NEW t \in Threads, ThreadStart(c, t) PROVE WokenInv'
  <2>1. \A u \in Threads : pc'[u] = IF u = t THEN "run" ELSE pc[u]
    BY <1>1, <1>2, <1>11 DEF ThreadStart, SchedTypeOK
  <2>2. UNCHANGED wqres /\ \A u \in Threads : u # t => state'[u] = state[u]
    BY <1>1, <1>11 DEF ThreadStart, MakeRunnable, SchedTypeOK
  <2> QED  BY <2>1, <2>2, WokenKept
<1>12. CASE UNCHANGED schedVars
  BY <1>12 DEF schedVars, threadVars, ctxVars, WokenInv
<1> QED  BY <1>5, <1>6, <1>7, <1>8, <1>9, <1>10, <1>11, <1>12 DEF SchedNext

\* waitq_await returns kWQSuccess: sched_reschedule comes back to a thread that
\* queued itself only after a waker has set its wqres.
THEOREM AwaitReturnsSuccess == SchedSpec => []AwaitSucceeds
<1>1. SchedInit => WokenInv
  BY SchedAssumption DEF SchedInit, WokenInv, Contexts
<1>2. ASSUME SchedInv, WokenInv PROVE AwaitSucceeds
  <2> SUFFICES ASSUME NEW t \in Threads, At(t, "resumed") PROVE wqres[t] = "success"
    BY DEF AwaitSucceeds
  <2>1. curthread[CpuOf[t]] = t /\ pc[t] = "resumed" /\ CpuOf[t] \in CPUs
    BY SchedAssumption DEF At, Executing
  <2>2. state[t] = "Running"  BY <1>2, <2>1 DEF SchedInv, ThreadPlaced
  <2> QED  BY <1>2, <2>1, <2>2 DEF WokenInv
<1> QED  BY <1>1, <1>2, WokenNext, SchedInvariant, PTL DEF SchedSpec
------------------------------------------------------------------------------
\* What a step means to the users of the wait queues.

\* Code that executes is not waiting, unless it has just queued itself.
LEMMA ExecutingNotQueued ==
    ASSUME SchedInv, NEW t \in Threads, Executing(t), pc[t] # "parked",
           NEW q \in Waitqs
    PROVE  t \notin Range(waiters[q])
<1>1. curthread[CpuOf[t]] = t /\ CpuOf[t] \in CPUs
  BY SchedAssumption DEF Executing
<1>2. state[t] = "Running"  BY <1>1 DEF SchedInv, ThreadPlaced
<1> QED  BY <1>2 DEF SchedInv, ThreadPlaced

\* A waiting thread is where waitq_await_locked calls sched_reschedule.
LEMMA QueuedParked ==
    ASSUME SchedInv, NEW q \in Waitqs, NEW t \in Range(waiters[q])
    PROVE  t \in Threads /\ pc[t] \in {"parked", "resumed"}
<1>1. t \in Threads  BY QueueMembers DEF SchedInv, SchedTypeOK
<1>2. state[t] = "Waiting"  BY <1>1 DEF SchedInv, ThreadPlaced
<1> QED  BY <1>1, <1>2 DEF SchedInv, StateInv

\* The steps of a context that leave the wait queues alone.
QuietEdge(a, l) ==
    IF a \in CPUs
    THEN \/ pc[a] = "none" /\ l \in {"intr", "iret"}
         \/ pc[a] \in {"intr", "iret"} /\ l \in {"resched", "none"}
         \/ pc[a] = "resched" /\ l = "none"
         \/ pc[a] = "took" /\ l = "intr"
    ELSE \/ pc[a] = "awaitcall" /\ l = "await"
         \/ pc[a] = "parked" /\ l = "resumed"
         \/ pc[a] = "resumed" /\ l = "run" /\ \A q \in Waitqs : a \notin Range(waiters[q])
         \/ pc[a] = "wakecall" /\ l = "wake"
         \/ pc[a] = "yield" /\ l = "run"
         \/ pc[a] = "took" /\ l \in {"yield", "run"}

QuietStep(a) ==
    \/ a \in CPUs /\ (IntrStep(a) \/ DeviceIntr(a))
    \/ a \in Threads /\ (\/ AwaitEnter(a) \/ AwaitReschedule(a) \/ AwaitReturn(a)
                         \/ WakeEnter(a) \/ YieldReschedule(a))
    \/ ThreadResume(a)

\* What a quiet step leaves alone.
LEMMA QuietEffect ==
    ASSUME SchedInv, NEW a \in Contexts, QuietStep(a)
    PROVE  /\ UNCHANGED <<waiters, wqlock, arg>>
           /\ \E l : pc' = [pc EXCEPT ![a] = l] /\ QuietEdge(a, l)
<1>1. a \in Threads => a \notin CPUs  BY SchedAssumption
<1>2. CASE a \in CPUs /\ (IntrStep(a) \/ DeviceIntr(a))
  <2>1. CASE TimerIntr(a) \/ ReschedIntr(a) \/ DeviceIntr(a)
    BY <1>2, <2>1 DEF TimerIntr, ReschedIntr, DeviceIntr, IntrEnabled, Goto, QuietEdge, wqVars
  <2>2. CASE IntrReturn(a) \/ CpuReschedule(a)
    BY <1>2, <2>2 DEF IntrReturn, CpuReschedule, Goto, QuietEdge, wqVars
  <2> QED  BY <1>2, <2>1, <2>2 DEF IntrStep
<1>3. CASE a \in Threads /\ (\/ AwaitEnter(a) \/ AwaitReschedule(a) \/ WakeEnter(a)
                             \/ YieldReschedule(a))
  BY <1>1, <1>3
  DEF AwaitEnter, AwaitReschedule, WakeEnter, YieldReschedule, At, Goto, QuietEdge, wqVars
<1>4. CASE a \in Threads /\ AwaitReturn(a)
  <2>1. \A q \in Waitqs : a \notin Range(waiters[q])
    BY <1>4, ExecutingNotQueued DEF AwaitReturn, At
  <2> QED  BY <1>1, <1>4, <2>1 DEF AwaitReturn, At, Goto, QuietEdge, wqVars
<1>5. CASE ThreadResume(a)
  BY <1>5 DEF ThreadResume, At, Goto, Home, QuietEdge, wqVars
<1> QED  BY <1>2, <1>3, <1>4, <1>5 DEF QuietStep

\* A wait queue holds only threads that called waitq_await on it.
LEMMA WaitsOnArgNext == SchedInv /\ WaitsOnArg /\ [SchedNext]_schedVars => WaitsOnArg'
<1> SUFFICES ASSUME SchedInv, WaitsOnArg, [SchedNext]_schedVars PROVE WaitsOnArg'  OBVIOUS
<1>1. /\ waiters \in [Waitqs -> Seq(Threads)] /\ arg \in [Contexts -> Waitqs]
      /\ \A q \in Waitqs : Range(waiters[q]) \subseteq Threads
  BY QueueMembers DEF SchedInv, SchedTypeOK
<1>2. \A t \in Threads : t \in Contexts /\ t \notin CPUs  BY SchedAssumption DEF Contexts
<1>3. CASE UNCHANGED <<waiters, arg>>  BY <1>3 DEF WaitsOnArg
<1>4. ASSUME NEW a \in Contexts, NEW q \in Waitqs, AwaitCall(a, q) \/ WakeCall(a, q)
      PROVE  WaitsOnArg'
  <2>1. UNCHANGED waiters /\ arg' = [arg EXCEPT ![a] = q]
    BY <1>4 DEF AwaitCall, WakeCall, wqVars
  <2>2. ASSUME a \in Threads, NEW r \in Waitqs PROVE a \notin Range(waiters[r])
    BY <1>2, <1>4, <2>2, ExecutingNotQueued DEF AwaitCall, WakeCall, At
  <2>3. ASSUME NEW r \in Waitqs, NEW t \in Range(waiters[r]) PROVE t # a
    BY <1>1, <2>2, <2>3
  <2> QED  BY <1>1, <1>2, <2>1, <2>3 DEF WaitsOnArg
<1>5. ASSUME NEW t \in Threads, AwaitEnqueue(t) PROVE WaitsOnArg'
  <2>1. UNCHANGED arg /\ waiters' = [waiters EXCEPT ![arg[t]] = Append(waiters[arg[t]], t)]
    BY <1>5 DEF AwaitEnqueue
  <2>2. ASSUME NEW q \in Waitqs PROVE Range(Append(waiters[q], t)) = Range(waiters[q]) \cup {t}
    BY <1>1, AppendQueue
  <2>3. ASSUME NEW q \in Waitqs, NEW u \in Range(waiters'[q])
        PROVE  u \in Range(waiters[q]) \/ (u = t /\ q = arg[t])
    BY <1>1, <2>1, <2>2, <2>3
  <2> QED  BY <2>1, <2>3 DEF WaitsOnArg
<1>6. ASSUME NEW a \in Contexts, WakeRemove(a) PROVE WaitsOnArg'
  <2>1. UNCHANGED arg /\ waiters' = [waiters EXCEPT ![arg[a]] = Tail(waiters[arg[a]])]
        /\ waiters[arg[a]] # <<>> /\ arg[a] \in Waitqs
    BY <1>1, <1>6 DEF WakeRemove
  <2>2. Range(Tail(waiters[arg[a]])) \subseteq Range(waiters[arg[a]])
    BY <1>1, <2>1, PopQueue DEF SchedInv, LinkedOnce
  <2>3. ASSUME NEW q \in Waitqs, NEW u \in Range(waiters'[q]) PROVE u \in Range(waiters[q])
    BY <1>1, <2>1, <2>2, <2>3
  <2> QED  BY <2>1, <2>3 DEF WaitsOnArg
<1>7. CASE UNCHANGED schedVars  BY <1>3, <1>7 DEF schedVars, wqVars, ctxVars
<1>8. ASSUME NEW a \in Contexts, QuietStep(a) PROVE WaitsOnArg'
  BY <1>3, <1>8, QuietEffect
<1>9. ASSUME NEW t \in Threads, AwaitLockWq(t) \/ AwaitNotNeeded(t) PROVE WaitsOnArg'
  BY <1>3, <1>9 DEF AwaitLockWq, AwaitNotNeeded, wqVars
<1>10. ASSUME NEW a \in Contexts, WakeNobody(a) PROVE WaitsOnArg'
  BY <1>3, <1>10 DEF WakeNobody, wqVars
<1>11. ASSUME NEW c \in CPUs, NEW t \in Threads, ThreadStart(c, t) PROVE WaitsOnArg'
  BY <1>3, <1>11 DEF ThreadStart, wqVars
<1>12. \A c \in CPUs : c \in Contexts  BY DEF Contexts
<1> QED  BY <1>2, <1>4, <1>5, <1>6, <1>7, <1>8, <1>9, <1>10, <1>11, <1>12
         DEF SchedNext, ThreadStep, WakeStep, QuietStep

\* At first nobody waits.
LEMMA WaitsOnArgInit == SchedInit => WaitsOnArg
BY EmptyQueue DEF SchedInit, WaitsOnArg
------------------------------------------------------------------------------
\* The lock protocol of sched_reschedule, on one CPU.

OneCpu == \A c, d \in CPUs : c = d

NobodyParked == \A t \in Threads : pc[t] # "parked"

\* On one CPU nothing happens between waitq_await_locked's last change and its
\* call of sched_reschedule, so that the parked thread is Waiting still.
SelfLockInv ==
    SelfLockProtocol /\ \A t \in Threads : pc[t] = "parked" => state[t] = "Waiting"

\* If another context executes, or an interrupt is accepted, no thread is parked.
LEMMA ParkedRunsAlone ==
    ASSUME OneCpu, SchedInv, NEW a \in Contexts, pc[a] # "parked",
           Executing(a) \/ (a \in CPUs /\ IntrEnabled(a))
    PROVE  NobodyParked
<1> SUFFICES ASSUME NEW u \in Threads, pc[u] = "parked" PROVE FALSE  BY DEF NobodyParked
<1>1. curthread[CpuOf[u]] = u /\ pc[CpuOf[u]] = "none" /\ CpuOf[u] \in CPUs
  BY SchedAssumption DEF SchedInv, UninterruptedInv, ClosedPcs
<1>2. CASE a \in CPUs
  <2>1. a = CpuOf[u]  BY <1>1, <1>2 DEF OneCpu
  <2>2. IntrEnabled(a)  BY <1>1, <1>2, <2>1 DEF Executing
  <2>3. u # Idle  BY SchedAssumption
  <2> QED  BY <1>1, <2>1, <2>2, <2>3 DEF IntrEnabled, OpenPcs
<1>3. CASE a \notin CPUs
  <2>1. a \in Threads /\ CpuOf[a] \in CPUs  BY <1>3, SchedAssumption DEF Contexts
  <2>2. CpuOf[a] = CpuOf[u]  BY <1>1, <2>1 DEF OneCpu
  <2> QED  BY <1>1, <1>3, <2>2 DEF Executing
<1> QED  BY <1>2, <1>3

\* No thread is parked before or after, and no lock is taken.
LEMMA SelfLockIdle ==
    ASSUME SchedInv, SelfLockInv, NobodyParked, NobodyParked',
           tlock' = tlock \/ \E c \in CPUs : tlock' = Unlocked(c)
    PROVE  SelfLockInv'
<1>1. tlock \in [Threads -> BOOLEAN]  BY DEF SchedInv, SchedTypeOK
<1>2. \A t \in Threads : ~tlock[t]  BY DEF SelfLockInv, SelfLockProtocol, NobodyParked
<1>3. \A t \in Threads : ~tlock'[t]  BY <1>1, <1>2 DEF Unlocked
<1> QED  BY <1>3 DEF SelfLockInv, SelfLockProtocol, NobodyParked

\* Every step of one CPU keeps the protocol.
LEMMA SelfLockNext ==
    ASSUME OneCpu
    PROVE  SchedInv /\ SelfLockInv /\ [SchedNext]_schedVars => SelfLockInv'
<1> SUFFICES ASSUME SchedInv, SelfLockInv, [SchedNext]_schedVars PROVE SelfLockInv'
  OBVIOUS
<1>1. \A t \in Threads : t \in Contexts /\ t \notin CPUs /\ CpuOf[t] \in CPUs
  BY SchedAssumption DEF Contexts
<1>2. \A c \in CPUs : c \in Contexts  BY DEF Contexts
<1>3. /\ pc \in [Contexts -> ThreadPcs \cup CpuPcs] /\ tlock \in [Threads -> BOOLEAN]
      /\ state \in [Threads -> ThreadStates]
  BY DEF SchedInv, SchedTypeOK
<1>4. ASSUME NEW a \in Contexts, NEW l, pc[a] # "parked", l # "parked",
             Executing(a) \/ (a \in CPUs /\ IntrEnabled(a)),
             pc' = [pc EXCEPT ![a] = l],
             tlock' = tlock \/ \E c \in CPUs : tlock' = Unlocked(c)
      PROVE  SelfLockInv'
  <2>1. NobodyParked  BY <1>4, ParkedRunsAlone
  <2>2. NobodyParked'  BY <1>1, <1>3, <1>4, <2>1 DEF NobodyParked
  <2> QED  BY <1>4, <2>1, <2>2, SelfLockIdle
<1>5. ASSUME NEW t \in Threads, AwaitEnqueue(t) PROVE SelfLockInv'
  <2>1. /\ At(t, "locked") /\ pc' = [pc EXCEPT ![t] = "parked"]
        /\ tlock' = [tlock EXCEPT ![t] = TRUE] /\ state' = [state EXCEPT ![t] = "Waiting"]
    BY <1>5 DEF AwaitEnqueue, Goto
  <2>2. NobodyParked  BY <1>1, <2>1, ParkedRunsAlone DEF At
  <2>3. \A u \in Threads : ~tlock[u]  BY <2>2 DEF SelfLockInv, SelfLockProtocol, NobodyParked
  <2>4. \A u \in Threads : /\ tlock'[u] <=> u = t
                           /\ pc'[u] = "parked" <=> u = t
    BY <1>1, <1>3, <2>1, <2>2, <2>3 DEF NobodyParked
  <2>5. state'[t] = "Waiting"  BY <1>3, <2>1
  <2> QED  BY <2>4, <2>5 DEF SelfLockInv, SelfLockProtocol
<1>6. ASSUME NEW t \in Threads, AwaitReschedule(t) PROVE SelfLockInv'
  <2>1. /\ pc[t] = "parked" /\ pc' = [pc EXCEPT ![t] = "resumed"]
        /\ tlock' = Unlocked(CpuOf[t]) /\ curthread[CpuOf[t]] = t
    BY <1>1, <1>6 DEF AwaitReschedule, At, Executing, Goto, sched_reschedule
  <2>2. ASSUME NEW u \in Threads, pc[u] = "parked" PROVE u = t
    <3>1. curthread[CpuOf[u]] = u  BY <2>2 DEF SchedInv, UninterruptedInv, ClosedPcs
    <3> QED  BY <1>1, <2>1, <3>1 DEF OneCpu
  <2>3. state[t] = "Waiting"  BY <2>1 DEF SelfLockInv
  <2>4. \A u \in Threads : ~tlock'[u]
    BY <1>3, <2>1, <2>2, <2>3 DEF Unlocked, SelfLockInv, SelfLockProtocol
  <2>5. \A u \in Threads : pc'[u] # "parked"  BY <1>1, <1>3, <2>1, <2>2
  <2> QED  BY <2>4, <2>5 DEF SelfLockInv, SelfLockProtocol
<1>7. ASSUME NEW t \in Threads,
             \/ AwaitEnter(t) \/ AwaitReturn(t) \/ WakeEnter(t) \/ YieldReschedule(t)
             \/ AwaitLockWq(t) \/ AwaitNotNeeded(t) \/ \E q \in Waitqs : AwaitCall(t, q)
      PROVE  SelfLockInv'
  <2>1. /\ Executing(t) /\ pc[t] # "parked"
        /\ tlock' = tlock \/ tlock' = Unlocked(CpuOf[t])
        /\ \E l : l # "parked" /\ pc' = [pc EXCEPT ![t] = l]
    BY <1>7 DEF AwaitEnter, AwaitReturn, WakeEnter, YieldReschedule, AwaitLockWq,
       AwaitNotNeeded, AwaitCall, At, Goto, threadVars, sched_reschedule
  <2> QED  BY <1>1, <1>4, <2>1
<1>8. ASSUME NEW a \in Contexts, WakeStep(a) \/ \E q \in Waitqs : WakeCall(a, q)
      PROVE  SelfLockInv'
  <2>1. /\ Executing(a) /\ pc[a] # "parked" /\ tlock' = tlock
        /\ \E l : l # "parked" /\ pc' = [pc EXCEPT ![a] = l]
    BY <1>8 DEF WakeStep, WakeRemove, WakeNobody, ThreadResume, WakeCall, At, Goto, Home,
       threadVars
  <2> QED  BY <1>4, <2>1
<1>9. ASSUME NEW c \in CPUs, IntrStep(c) \/ DeviceIntr(c) PROVE SelfLockInv'
  <2>1. /\ IntrEnabled(c) \/ Executing(c)
        /\ tlock' = tlock \/ tlock' = Unlocked(c)
        /\ \E l : l # "parked" /\ pc' = [pc EXCEPT ![c] = l]
    BY <1>9 DEF IntrStep, TimerIntr, ReschedIntr, IntrReturn, CpuReschedule, DeviceIntr,
       Executing, Goto, threadVars, sched_reschedule
  <2>2. pc[c] # "parked"  BY DEF SchedInv, SchedTypeOK, CpuPcs
  <2> QED  BY <1>2, <1>4, <2>1, <2>2
<1>10. ASSUME NEW c \in CPUs, NEW t \in Threads, ThreadStart(c, t) PROVE SelfLockInv'
  <2>1. /\ IntrEnabled(c) /\ tlock' = tlock
        /\ \A u \in Threads : pc'[u] = IF u = t THEN "run" ELSE pc[u]
    BY <1>1, <1>3, <1>10 DEF ThreadStart
  <2>2. pc[c] # "parked"  BY DEF SchedInv, SchedTypeOK, CpuPcs
  <2>3. NobodyParked  BY <1>2, <2>1, <2>2, ParkedRunsAlone
  <2>4. NobodyParked'  BY <2>1, <2>3 DEF NobodyParked
  <2> QED  BY <2>1, <2>3, <2>4, SelfLockIdle
<1>11. CASE UNCHANGED schedVars
  BY <1>11 DEF schedVars, threadVars, ctxVars, SelfLockInv, SelfLockProtocol
<1> QED  BY <1>5, <1>6, <1>7, <1>8, <1>9, <1>10, <1>11 DEF SchedNext, ThreadStep

\* "If you are about to wait, you shall lock yourself and let Scheduler unlock
\* you": on one CPU a thread's lock is held exactly from its queueing itself to
\* its sched_reschedule.  (With two CPUs it is not, as sched_smp_lock shows; nor
\* if thread_new's uninitialised lock reads as held.)
THEOREM SelfLockOnOneCpu ==
    ASSUME OneCpu, DirtyLocks = {}
    PROVE  SchedSpec => []SelfLockProtocol
<1>1. SchedInit => SelfLockInv
  BY SchedAssumption DEF SchedInit, SelfLockInv, SelfLockProtocol, Contexts
<1>2. SchedInv /\ SelfLockInv /\ [SchedNext]_schedVars => SelfLockInv'  BY SelfLockNext
<1>3. SelfLockInv => SelfLockProtocol  BY DEF SelfLockInv
<1> QED  BY <1>1, <1>2, <1>3, SchedInvariant, PTL DEF SchedSpec
=============================================================================
