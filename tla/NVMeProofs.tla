----------------------------- MODULE NVMeProofs -----------------------------
(***************************************************************************)
(* Proofs about NVMeQueue, for rings of any size.                          *)
(***************************************************************************)
EXTENDS NVMeQueue, SequenceTheorems, FiniteSetTheorems, TLAPS

\* TAILQ_INSERT_HEAD of an element that is not on the queue.
LEMMA PushQueue ==
    ASSUME NEW S, NEW s \in Seq(S), NEW e \in S
    PROVE  /\ <<e>> \o s \in Seq(S)
           /\ Range(<<e>> \o s) = Range(s) \cup {e}
           /\ IsInjective(s) /\ e \notin Range(s) => IsInjective(<<e>> \o s)
<1> DEFINE a == <<e>> \o s
<1>1. /\ a \in Seq(S) /\ Len(a) = Len(s) + 1 /\ Len(s) \in Nat
      /\ DOMAIN a = 1 .. Len(a) /\ DOMAIN s = 1 .. Len(s)
      /\ \A i \in 1 .. Len(s) : a[i + 1] = s[i]
      /\ a[1] = e
  <2>1. <<e>> \in Seq(S) /\ Len(<<e>>) = 1 /\ <<e>>[1] = e  OBVIOUS
  <2>2. a \in Seq(S) /\ Len(a) = 1 + Len(s) /\ Len(s) \in Nat
    BY <2>1, ConcatProperties, LenProperties
  <2>3. \A i \in 1 .. 1 + Len(s) : a[i] = IF i <= 1 THEN <<e>>[i] ELSE s[i - 1]
    BY <2>1, ConcatProperties
  <2>4. DOMAIN a = 1 .. Len(a) /\ DOMAIN s = 1 .. Len(s)
    BY <2>2, LenProperties
  <2> HIDE DEF a
  <2> QED  BY <2>1, <2>2, <2>3, <2>4
<1> HIDE DEF a
<1>2. Range(a) = Range(s) \cup {e}
  <2>1. ASSUME NEW i \in DOMAIN a PROVE a[i] \in Range(s) \cup {e}
    <3>1. i = 1 \/ (i - 1 \in DOMAIN s /\ a[i] = s[i - 1])
      <4>1. CASE i = 1  BY <4>1
      <4>2. CASE i # 1
        <5>1. i - 1 \in 1 .. Len(s) /\ (i - 1) + 1 = i  BY <1>1, <4>2
        <5> QED  BY <5>1, <1>1
      <4> QED  BY <4>1, <4>2
    <3> QED  BY <3>1, <1>1 DEF Range
  <2>2. ASSUME NEW i \in DOMAIN s PROVE s[i] \in Range(a)
    <3>1. i + 1 \in DOMAIN a /\ a[i + 1] = s[i]  BY <1>1
    <3> QED  BY <3>1 DEF Range
  <2>3. e \in Range(a)
    <3>1. 1 \in DOMAIN a  BY <1>1
    <3> QED  BY <3>1, <1>1 DEF Range
  <2> QED  BY <2>1, <2>2, <2>3 DEF Range
<1>3. ASSUME IsInjective(s), e \notin Range(s) PROVE IsInjective(a)
  <2>1. \A i \in DOMAIN s : s[i] # e  BY <1>3 DEF Range
  <2>2. \A i \in DOMAIN a : i # 1 => i - 1 \in DOMAIN s /\ a[i] = s[i - 1]
    <3> TAKE i \in DOMAIN a
    <3> HAVE i # 1
    <3>1. i - 1 \in 1 .. Len(s) /\ (i - 1) + 1 = i  BY <1>1
    <3> QED  BY <3>1, <1>1
  <2>3. SUFFICES ASSUME NEW i \in DOMAIN a, NEW j \in DOMAIN a, a[i] = a[j]
                 PROVE  i = j
    BY DEF IsInjective
  <2>4. CASE i = 1 \/ j = 1  BY <2>1, <2>2, <2>3, <2>4, <1>1
  <2>5. CASE i # 1 /\ j # 1
    <3>1. i - 1 = j - 1  BY <2>2, <2>3, <2>5, <1>3 DEF IsInjective
    <3>2. i \in Int /\ j \in Int  BY <1>1
    <3> QED  BY <3>1, <3>2
  <2> QED  BY <2>4, <2>5
<1> QED  BY <1>1, <1>2, <1>3 DEF a

------------------------------------------------------------------------------
\* Rings.

\* A position at most one lap ahead is reduced by at most one lap.
LEMMA ModLap ==
    ASSUME NEW x \in 0 .. 2 * Slots - 1
    PROVE  x % Slots = IF x < Slots THEN x ELSE x - Slots
BY QueueAssumption

\* The next slot of a ring, without the modulus.
LEMMA SuccIs ==
    ASSUME NEW i \in Ring
    PROVE  Succ(i) \in Ring /\ Succ(i) = IF i = Slots - 1 THEN 0 ELSE i + 1
BY ModLap, QueueAssumption DEF Succ, Ring

\* What lies between two slots of a ring, without the modulus.
LEMMA SliceIs ==
    ASSUME NEW h \in Ring, NEW t \in Ring, NEW i \in Ring
    PROVE  i \in Slice(h, t) <=> IF h <= t THEN h <= i /\ i < t ELSE h <= i \/ i < t
<1>1. /\ i + Slots - h \in 0 .. 2 * Slots - 1 /\ t + Slots - h \in 0 .. 2 * Slots - 1
      /\ h \in Int /\ t \in Int /\ i \in Int /\ Slots \in Int
  BY QueueAssumption DEF Ring
<1>2. /\ (i + Slots - h) % Slots = IF i < h THEN i + Slots - h ELSE i - h
      /\ (t + Slots - h) % Slots = IF t < h THEN t + Slots - h ELSE t - h
  BY <1>1, ModLap
<1> QED  BY <1>1, <1>2, QueueAssumption DEF Slice, Ring

\* The slot at the tail joins the slice, unless the ring is full.
LEMMA SlicePush ==
    ASSUME NEW h \in Ring, NEW t \in Ring, Succ(t) # h
    PROVE  Slice(h, Succ(t)) = Slice(h, t) \cup {t} /\ t \notin Slice(h, t)
<1>1. /\ Succ(t) \in Ring /\ Succ(t) = IF t = Slots - 1 THEN 0 ELSE t + 1
      /\ h \in Int /\ t \in Int /\ 0 <= h /\ h < Slots /\ 0 <= t /\ t < Slots
  BY SuccIs, QueueAssumption DEF Ring
<1>2. ASSUME NEW i \in Ring PROVE i \in Slice(h, Succ(t)) <=> i \in Slice(h, t) \/ i = t
  <2>1. /\ i \in Slice(h, t) <=> IF h <= t THEN h <= i /\ i < t ELSE h <= i \/ i < t
        /\ i \in Slice(h, Succ(t)) <=>
             IF h <= Succ(t) THEN h <= i /\ i < Succ(t) ELSE h <= i \/ i < Succ(t)
    BY <1>1, SliceIs
  <2>2. i \in Int /\ 0 <= i /\ i < Slots /\ Slots \in Int  BY QueueAssumption DEF Ring
  <2> QED  BY <1>1, <2>1, <2>2
<1>3. t \notin Slice(h, t)  BY <1>1, SliceIs
<1>4. Slice(h, Succ(t)) \subseteq Ring /\ Slice(h, t) \subseteq Ring  BY DEF Slice
<1> QED  BY <1>2, <1>3, <1>4

\* The slot at the head leaves the slice.
LEMMA SlicePop ==
    ASSUME NEW h \in Ring, NEW t \in Ring, h # t
    PROVE  Slice(Succ(h), t) = Slice(h, t) \ {h} /\ h \in Slice(h, t)
<1>1. /\ Succ(h) \in Ring /\ Succ(h) = IF h = Slots - 1 THEN 0 ELSE h + 1
      /\ h \in Int /\ t \in Int /\ 0 <= h /\ h < Slots /\ 0 <= t /\ t < Slots
  BY SuccIs, QueueAssumption DEF Ring
<1>2. ASSUME NEW i \in Ring PROVE i \in Slice(Succ(h), t) <=> i \in Slice(h, t) /\ i # h
  <2>1. /\ i \in Slice(h, t) <=> IF h <= t THEN h <= i /\ i < t ELSE h <= i \/ i < t
        /\ i \in Slice(Succ(h), t) <=>
             IF Succ(h) <= t THEN Succ(h) <= i /\ i < t ELSE Succ(h) <= i \/ i < t
    BY <1>1, SliceIs
  <2>2. i \in Int /\ 0 <= i /\ i < Slots /\ Slots \in Int  BY QueueAssumption DEF Ring
  <2> QED  BY <1>1, <2>1, <2>2
<1>3. h \in Slice(h, t)  BY <1>1, SliceIs
<1>4. Slice(Succ(h), t) \subseteq Ring /\ Slice(h, t) \subseteq Ring  BY DEF Slice
<1> QED  BY <1>2, <1>3, <1>4

\* SIMPLEQ_REMOVE of the last element.
LEMMA FrontQueue ==
    ASSUME NEW S, NEW s \in Seq(S), s # <<>>
    PROVE  /\ Front(s) \in Seq(S)
           /\ Last(s) \in S
           /\ Last(s) \in Range(s)
           /\ IsInjective(s) => /\ IsInjective(Front(s))
                                /\ Range(Front(s)) = Range(s) \ {Last(s)}
<1> DEFINE r == Front(s)
<1>1. Len(s) \in Nat \ {0} /\ DOMAIN s = 1 .. Len(s)  BY EmptySeq, LenProperties
<1>2. /\ r \in Seq(S) /\ Len(r) = Len(s) - 1 /\ DOMAIN r = 1 .. Len(s) - 1
      /\ \A i \in 1 .. Len(s) - 1 : r[i] = s[i]
  BY <1>1, SubSeqProperties, LenProperties DEF Front
<1>3. Len(s) \in DOMAIN s /\ Last(s) = s[Len(s)]  BY <1>1 DEF Last
<1>4. Last(s) \in S /\ Last(s) \in Range(s)  BY <1>3 DEF Range
<1> HIDE DEF r
<1>5. ASSUME IsInjective(s) PROVE IsInjective(r) /\ Range(r) = Range(s) \ {Last(s)}
  <2>1. IsInjective(r)  BY <1>1, <1>2, <1>5 DEF IsInjective
  <2>2. \A i \in DOMAIN s : i \in DOMAIN r /\ r[i] = s[i] <=> s[i] # Last(s)
    BY <1>1, <1>2, <1>3, <1>5 DEF IsInjective
  <2>3. \A i \in DOMAIN r : i \in DOMAIN s /\ r[i] = s[i]  BY <1>1, <1>2
  <2> QED  BY <2>1, <2>2, <2>3 DEF Range
<1> QED  BY <1>2, <1>4, <1>5 DEF r
------------------------------------------------------------------------------
\* Types.

LEMMA TypeInit == Init => TypeOK
<1> SUFFICES ASSUME Init PROVE TypeOK  OBVIOUS
<1>1. req_q \in Seq(Ring)
  BY SeqDef, QueueAssumption DEF Init, Ring
<1>2. 0 \in Ring /\ 1 \in 0 .. 1 /\ 0 \in 0 .. 1  BY QueueAssumption DEF Ring
<1>3. /\ cq \in [Ring -> [cid : Ring, phase : 0 .. 1]] /\ sq \in [Ring -> Ring]
      /\ completion \in [Ring -> Procs \cup {NULL}]
  BY <1>2 DEF Init
<1>4. {sqtail, sqhead, cqhead, cqtail} \subseteq Ring /\ {phase, dphase} \subseteq 0 .. 1
  BY <1>2 DEF Init
<1> QED  BY <1>1, <1>2, <1>3, <1>4 DEF Init, TypeOK

\* One step of the driver, a thread or the controller keeps the types.
LEMMA TypeNext == TypeOK /\ [Next]_vars => TypeOK'
<1> SUFFICES ASSUME TypeOK, [Next]_vars PROVE TypeOK'  OBVIOUS
<1> USE DEF TypeOK
<1>1. ASSUME NEW t \in Procs, TakeRequest(t) PROVE TypeOK'
  <2>1. Front(req_q) \in Seq(Ring) /\ Last(req_q) \in Ring
    BY <1>1, FrontQueue DEF TakeRequest
  <2> QED  BY <1>1, <2>1 DEF TakeRequest, device
<1>2. ASSUME NEW t \in Procs, submitRequest(t) PROVE TypeOK'
  BY <1>2, SuccIs DEF submitRequest, device
<1>3. CASE Fetch  BY <1>3, SuccIs DEF Fetch, driver, threads
<1>4. ASSUME NEW c \in Ring, Post(c) PROVE TypeOK'
  <2>1. Flip(cqtail, dphase) \in 0 .. 1  BY DEF Flip
  <2> QED  BY <1>4, <2>1, SuccIs DEF Post, driver, threads
<1>5. CASE nvme_intr \/ HandlerDone
  BY <1>5 DEF nvme_intr, HandlerDone, device, threads
<1>6. CASE CompleteRequest
  <2> DEFINE c == cq[cqhead].cid
  <2>1. c \in Ring /\ <<c>> \o req_q \in Seq(Ring)  BY PushQueue
  <2>2. Flip(cqhead, phase) \in 0 .. 1  BY DEF Flip
  <2> QED  BY <1>6, <2>1, <2>2, SuccIs DEF CompleteRequest, device
<1>7. CASE UNCHANGED vars  BY <1>7 DEF vars, driver, device, threads
<1> QED  BY <1>1, <1>2, <1>3, <1>4, <1>5, <1>6, <1>7 DEF Next

\* The driver's and the controller's indices stay within the rings.
THEOREM NVMeTypeCorrect == Spec => []TypeOK
BY TypeInit, TypeNext, PTL DEF Spec
------------------------------------------------------------------------------
\* The phase bit.

\* The driver sees the entry at its head as new exactly if it is.
LEMMA PhaseDecides == TypeOK /\ PhaseInv => PhaseTellsNew
<1> SUFFICES ASSUME TypeOK, PhaseInv PROVE PhaseTellsNew  OBVIOUS
<1>1. /\ cqhead \in Ring /\ cqhead \in Int /\ cqtail \in Int
      /\ phase \in 0 .. 1 /\ dphase \in 0 .. 1
  BY QueueAssumption DEF TypeOK, Ring
<1> QED  BY <1>1 DEF PhaseInv, PhaseTellsNew

\* Only Post writes an entry or moves the tail, only CompleteRequest the head.
LEMMA PhaseNext == TypeOK /\ PhaseInv /\ [Next]_vars => PhaseInv'
<1> SUFFICES ASSUME TypeOK, PhaseInv, [Next]_vars PROVE PhaseInv'  OBVIOUS
<1>1. /\ cqhead \in Ring /\ cqtail \in Ring /\ phase \in 0 .. 1 /\ dphase \in 0 .. 1
      /\ cq \in [Ring -> [cid : Ring, phase : 0 .. 1]]
      /\ \A i \in Ring : i \in Int /\ 0 <= i /\ i < Slots
      /\ Slots \in Int
  BY QueueAssumption DEF TypeOK, Ring
<1>2. /\ Succ(cqtail) = IF cqtail = Slots - 1 THEN 0 ELSE cqtail + 1
      /\ Succ(cqhead) = IF cqhead = Slots - 1 THEN 0 ELSE cqhead + 1
  BY <1>1, SuccIs
<1>3. CASE UNCHANGED <<cq, cqtail, dphase, cqhead, phase>>  BY <1>3 DEF PhaseInv
<1>4. ASSUME NEW c \in Ring, Post(c) PROVE PhaseInv'
  <2>1. /\ cq' = [cq EXCEPT ![cqtail] = [cid |-> c, phase |-> dphase]]
        /\ cqtail' = Succ(cqtail) /\ dphase' = Flip(cqtail, dphase)
        /\ UNCHANGED <<cqhead, phase>> /\ Succ(cqtail) # cqhead
    BY <1>4 DEF Post, driver
  <2>2. \A i \in Ring : cq'[i].phase = IF i = cqtail THEN dphase ELSE cq[i].phase
    BY <1>1, <2>1
  <2>3. ASSUME NEW i \in Ring
        PROVE  cq'[i].phase = IF i <= cqtail THEN dphase ELSE 1 - dphase
    <3>1. cq[i].phase = IF i < cqtail THEN dphase ELSE 1 - dphase  BY DEF PhaseInv
    <3>2. i \in Int /\ cqtail \in Int  BY <1>1
    <3> QED  BY <2>2, <3>1, <3>2
  <2>4. CASE cqtail = Slots - 1
    <3>1. cqtail' = 0 /\ dphase' = 1 - dphase  BY <1>2, <2>1, <2>4 DEF Flip
    <3> QED  BY <1>1, <1>2, <2>1, <2>3, <2>4, <3>1 DEF PhaseInv
  <2>5. CASE cqtail # Slots - 1
    <3>1. cqtail' = cqtail + 1 /\ dphase' = dphase  BY <1>1, <1>2, <2>1, <2>5 DEF Flip
    <3>2. \A i \in Ring : i <= cqtail <=> i < cqtail'  BY <1>1, <3>1
    <3>3. \A i \in Ring : cq'[i].phase = IF i < cqtail' THEN dphase' ELSE 1 - dphase'
      BY <2>3, <3>1, <3>2
    <3>4. IF phase' = dphase' THEN cqhead' <= cqtail' ELSE cqhead' > cqtail'
      <4>1. cqhead \in Int /\ cqtail \in Int /\ cqhead # cqtail + 1
        BY <1>1, <1>2, <2>1, <2>5
      <4>2. IF phase = dphase THEN cqhead <= cqtail ELSE cqhead > cqtail  BY DEF PhaseInv
      <4> QED  BY <2>1, <3>1, <4>1, <4>2
    <3> QED  BY <3>3, <3>4 DEF PhaseInv
  <2> QED  BY <2>4, <2>5
<1>5. CASE CompleteRequest
  <2>1. /\ cqhead' = Succ(cqhead) /\ phase' = Flip(cqhead, phase)
        /\ UNCHANGED <<cq, cqtail, dphase>> /\ cq[cqhead].phase = phase
    BY <1>5 DEF CompleteRequest, device
  <2>2. cqhead # cqtail  BY <2>1, PhaseDecides DEF PhaseTellsNew
  <2> QED  BY <1>1, <1>2, <2>1, <2>2 DEF PhaseInv, Flip
<1> QED  BY <1>3, <1>4, <1>5
         DEF Next, vars, TakeRequest, submitRequest, Fetch, nvme_intr, HandlerDone,
             driver, device

\* The rings that queue_alloc zeroes are all of the phase before the first.
LEMMA PhaseInit == Init => PhaseInv
BY QueueAssumption DEF Init, PhaseInv, Ring

\* queueCompleteRequests, which never reads the controller's tail, stops exactly
\* at the first entry that is not new, for rings of any size and lap after lap.
THEOREM PhaseBitSuffices == Spec => []PhaseTellsNew
BY TypeInit, TypeNext, PhaseInit, PhaseNext, PhaseDecides, PTL DEF Spec
------------------------------------------------------------------------------
\* Requests.  A ring whose tail meets its head reads as empty, and nothing in
\* readBlocks stops as many requests from being submitted as the ring has slots.
\* What follows therefore holds while fewer threads read than there are slots.

FewReaders == IsFiniteSet(Procs) /\ Cardinality(Procs) < Slots

PlaceInv == TypeOK /\ PhaseInv /\ RequestsInv /\ FlightInv

InFlight == Submitted \cup executing \cup Posted

\* What is in flight is a command id.
LEMMA InFlightRing == TypeOK => InFlight \subseteq Ring
BY DEF TypeOK, InFlight, Submitted, Posted, Slice

\* There is room on the submission ring for a thread that has taken a request:
\* otherwise every slot belonged to a thread of its own.
LEMMA RingHasRoom ==
    ASSUME FewReaders, TypeOK, RequestsInv, FlightInv,
           NEW t \in Procs, pc[t] = "taken"
    PROVE  Succ(sqtail) # sqhead
<1> SUFFICES ASSUME Succ(sqtail) = sqhead PROVE FALSE  OBVIOUS
<1> DEFINE f == [i \in Ring |-> IF i = sqtail THEN t ELSE completion[sq[i]]]
<1>1. sqtail \in Ring /\ sqhead \in Ring /\ sq \in [Ring -> Ring]  BY DEF TypeOK
<1>2. ASSUME NEW i \in Ring, i # sqtail PROVE i \in Slice(sqhead, sqtail)
  <2>1. i \in Slice(sqhead, sqtail) <=>
          IF sqhead <= sqtail THEN sqhead <= i /\ i < sqtail ELSE sqhead <= i \/ i < sqtail
    BY <1>1, SliceIs
  <2>2. sqhead = IF sqtail = Slots - 1 THEN 0 ELSE sqtail + 1  BY <1>1, SuccIs
  <2>3. /\ i \in Int /\ 0 <= i /\ i < Slots /\ sqtail \in Int /\ 0 <= sqtail
        /\ sqtail < Slots /\ Slots \in Int
    BY <1>1, QueueAssumption DEF Ring
  <2> QED  BY <1>2, <2>1, <2>2, <2>3
<1>3. ASSUME NEW i \in Ring, i # sqtail
      PROVE  /\ sq[i] \in Ring /\ completion[sq[i]] \in Procs
             /\ pc[completion[sq[i]]] = "waiting" /\ req[completion[sq[i]]] = sq[i]
  <2>1. sq[i] \in Submitted  BY <1>2, <1>3 DEF Submitted
  <2>2. sq[i] \in Ring  BY <1>1
  <2>3. completion[sq[i]] # NULL /\ pc[completion[sq[i]]] = "waiting"
    BY <2>1, <2>2 DEF FlightInv
  <2> QED  BY <2>2, <2>3 DEF TypeOK, RequestsInv
<1>4. f \in [Ring -> Procs]  BY <1>3
<1>5. IsFiniteSet(Ring) /\ Cardinality(Ring) = Slots
  <2>1. Slots - 1 \in Int /\ ~(0 > Slots - 1) /\ (Slots - 1) - 0 + 1 = Slots
    BY QueueAssumption
  <2> QED  BY <2>1, FS_Interval DEF Ring
<1>6. \E i, j \in Ring : i # j /\ f[i] = f[j]
  <2> HIDE DEF f
  <2>1. IsFiniteSet(Procs) /\ Cardinality(Procs) < Cardinality(Ring)
    BY <1>5 DEF FewReaders
  <2> QED  BY <1>4, <1>5, <2>1, FS_PigeonHole
<1>7. PICK i \in Ring, j \in Ring : i # j /\ f[i] = f[j]  BY <1>6
<1>8. CASE i # sqtail /\ j # sqtail
  <2>1. completion[sq[i]] = completion[sq[j]]  BY <1>7, <1>8
  <2>2. sq[i] = sq[j]  BY <1>3, <1>8, <2>1
  <2> QED  BY <1>2, <1>7, <1>8, <2>2 DEF FlightInv
<1>9. CASE i = sqtail \/ j = sqtail  BY <1>3, <1>7, <1>9
<1> QED  BY <1>8, <1>9

\* readBlocks takes a free request.
LEMMA PlaceTake ==
    ASSUME PlaceInv, NEW t \in Procs, TakeRequest(t)
    PROVE  RequestsInv' /\ FlightInv'
<1> DEFINE c == Last(req_q)
<1>1. /\ pc[t] = "idle" /\ req_q # <<>> /\ req_q' = Front(req_q)
      /\ req' = [req EXCEPT ![t] = c] /\ completion' = [completion EXCEPT ![c] = t]
      /\ pc' = [pc EXCEPT ![t] = "taken"]
      /\ UNCHANGED <<sq, sqhead, sqtail, cq, cqhead, cqtail, executing>>
  BY DEF TakeRequest, device
<1>2. /\ completion \in [Ring -> Procs \cup {NULL}] /\ req \in [Procs -> Ring]
      /\ pc \in [Procs -> {"idle", "taken", "waiting"}] /\ req_q \in Seq(Ring)
  BY DEF PlaceInv, TypeOK
<1>3. IsInjective(req_q)  BY DEF PlaceInv, RequestsInv
<1>4. /\ c \in Ring /\ c \in Range(req_q)
      /\ IsInjective(req_q') /\ Range(req_q') = Range(req_q) \ {c}
  BY <1>1, <1>2, <1>3, FrontQueue
<1>5. completion[c] = NULL /\ t # NULL  BY <1>4, QueueAssumption DEF PlaceInv, RequestsInv
<1> HIDE DEF c
<1>6. \A d \in Ring : completion'[d] = IF d = c THEN t ELSE completion[d]
  BY <1>1, <1>2, <1>4
<1>7. \A u \in Procs : /\ pc'[u] = IF u = t THEN "taken" ELSE pc[u]
                       /\ req'[u] = IF u = t THEN c ELSE req[u]
  BY <1>1, <1>2
<1>8. ASSUME NEW d \in Ring, completion[d] # NULL
      PROVE  d # c /\ completion[d] \in Procs /\ completion[d] # t
  BY <1>1, <1>2, <1>5, <1>8 DEF PlaceInv, RequestsInv
<1>9. RequestsInv'
  <2>1. ASSUME NEW d \in Ring PROVE completion'[d] = NULL <=> d \in Range(req_q')
    BY <1>4, <1>5, <1>6 DEF PlaceInv, RequestsInv
  <2>2. ASSUME NEW u \in Procs, pc'[u] # "idle" PROVE completion'[req'[u]] = u
    <3>1. CASE u = t  BY <1>4, <1>6, <1>7, <3>1
    <3>2. CASE u # t
      <4>1. completion[req[u]] = u /\ req[u] \in Ring /\ u # NULL
        BY <1>2, <1>7, <2>2, <3>2, QueueAssumption DEF PlaceInv, RequestsInv
      <4> QED  BY <1>5, <1>6, <1>7, <3>2, <4>1
    <3> QED  BY <3>1, <3>2
  <2>3. ASSUME NEW d \in Ring, completion'[d] # NULL
        PROVE  pc'[completion'[d]] # "idle" /\ req'[completion'[d]] = d
    <3>1. CASE d = c  BY <1>6, <1>7, <3>1
    <3>2. CASE d # c
      BY <1>6, <1>7, <1>8, <2>3, <3>2 DEF PlaceInv, RequestsInv
    <3> QED  BY <3>1, <3>2
  <2> QED  BY <1>4, <2>1, <2>2, <2>3 DEF RequestsInv
<1>10. Submitted' = Submitted /\ Posted' = Posted  BY <1>1 DEF Submitted, Posted
<1>11. ASSUME NEW d \in Ring
       PROVE  (completion'[d] # NULL /\ pc'[completion'[d]] = "waiting") <=>
              (completion[d] # NULL /\ pc[completion[d]] = "waiting")
  BY <1>5, <1>6, <1>7, <1>8
<1> QED  BY <1>1, <1>9, <1>10, <1>11 DEF PlaceInv, FlightInv

\* submitRequest puts it on the ring.
LEMMA PlaceSubmit ==
    ASSUME FewReaders, PlaceInv, NEW t \in Procs, submitRequest(t)
    PROVE  RequestsInv' /\ FlightInv'
<1> DEFINE c == req[t]
<1>1. /\ pc[t] = "taken" /\ sq' = [sq EXCEPT ![sqtail] = c] /\ sqtail' = Succ(sqtail)
      /\ pc' = [pc EXCEPT ![t] = "waiting"]
      /\ UNCHANGED <<req_q, completion, req, sqhead, cq, cqhead, cqtail, executing>>
  BY DEF submitRequest, device
<1>2. /\ completion \in [Ring -> Procs \cup {NULL}] /\ req \in [Procs -> Ring]
      /\ pc \in [Procs -> {"idle", "taken", "waiting"}] /\ sq \in [Ring -> Ring]
      /\ sqhead \in Ring /\ sqtail \in Ring /\ TypeOK
  BY DEF PlaceInv, TypeOK
<1>3. completion[c] = t /\ c \in Ring /\ t # NULL
  BY <1>1, <1>2, QueueAssumption DEF PlaceInv, RequestsInv
<1>4. /\ Slice(sqhead, Succ(sqtail)) = Slice(sqhead, sqtail) \cup {sqtail}
      /\ sqtail \notin Slice(sqhead, sqtail)
  BY <1>1, <1>2, RingHasRoom, SlicePush DEF PlaceInv
<1>5. c \notin InFlight  BY <1>1, <1>3 DEF PlaceInv, FlightInv, InFlight
<1>6. \A d \in Ring : completion[d] # NULL => completion[d] \in Procs /\ req[completion[d]] = d
  BY <1>2 DEF PlaceInv, RequestsInv
<1> HIDE DEF c
<1>7. \A u \in Procs : pc'[u] = IF u = t THEN "waiting" ELSE pc[u]  BY <1>1, <1>2
<1>8. \A i \in Ring : sq'[i] = IF i = sqtail THEN c ELSE sq[i]  BY <1>1, <1>2
<1>9. Slice(sqhead, sqtail) \subseteq Ring  BY DEF Slice
<1>10. Submitted' = Submitted \cup {c} /\ Posted' = Posted
  BY <1>1, <1>2, <1>4, <1>8, <1>9 DEF Submitted, Posted
<1>11. RequestsInv'  BY <1>1, <1>2, <1>6, <1>7 DEF PlaceInv, RequestsInv
<1>12. ASSUME NEW d \in Ring
       PROVE  d \in Submitted' \cup executing' \cup Posted' <=>
              completion'[d] # NULL /\ pc'[completion'[d]] = "waiting"
  <2>1. CASE d = c  BY <1>1, <1>3, <1>7, <1>10, <2>1
  <2>2. CASE d # c
    <3>1. completion[d] # t  BY <1>3, <1>6, <2>2 DEF c
    <3> QED  BY <1>1, <1>6, <1>7, <1>10, <2>2, <3>1 DEF PlaceInv, FlightInv
  <2> QED  BY <2>1, <2>2
<1>13. \A i, j \in Slice(sqhead, sqtail)' : sq'[i] = sq'[j] => i = j
  <2> SUFFICES ASSUME NEW i \in Slice(sqhead, Succ(sqtail)),
                      NEW j \in Slice(sqhead, Succ(sqtail)), sq'[i] = sq'[j]
               PROVE  i = j
    BY <1>1 DEF Slice
  <2>1. \A k \in Slice(sqhead, sqtail) : sq'[k] = sq[k] /\ sq[k] \in Submitted
    BY <1>4, <1>8, <1>9 DEF Submitted
  <2>2. sq'[sqtail] = c /\ c \notin Submitted  BY <1>2, <1>5, <1>8 DEF InFlight
  <2> QED  BY <1>4, <2>1, <2>2 DEF PlaceInv, FlightInv
<1>14. \A i, j \in Slice(cqhead, cqtail)' : cq'[i].cid = cq'[j].cid => i = j
  BY <1>1 DEF PlaceInv, FlightInv
<1>15. Submitted' \cap executing' = {} /\ Submitted' \cap Posted' = {} /\ executing' \cap Posted' = {}
  BY <1>1, <1>5, <1>10 DEF PlaceInv, FlightInv, InFlight
<1> QED  BY <1>11, <1>12, <1>13, <1>14, <1>15 DEF FlightInv

\* The controller fetches a command.
LEMMA PlaceFetch ==
    ASSUME PlaceInv, Fetch
    PROVE  RequestsInv' /\ FlightInv'
<1> DEFINE c == sq[sqhead]
<1>1. /\ sqhead # sqtail /\ executing' = executing \cup {c} /\ sqhead' = Succ(sqhead)
      /\ UNCHANGED <<req_q, completion, req, pc, sq, sqtail, cq, cqhead, cqtail>>
  BY DEF Fetch, driver, threads
<1>2. sqhead \in Ring /\ sqtail \in Ring  BY DEF PlaceInv, TypeOK
<1>3. /\ Slice(Succ(sqhead), sqtail) = Slice(sqhead, sqtail) \ {sqhead}
      /\ sqhead \in Slice(sqhead, sqtail)
  BY <1>1, <1>2, SlicePop
<1>4. \A i \in Slice(sqhead, sqtail) : sq[i] = c => i = sqhead
  BY <1>3 DEF PlaceInv, FlightInv
<1>5. Submitted' = Submitted \ {c} /\ c \in Submitted /\ Posted' = Posted
  BY <1>1, <1>3, <1>4 DEF Submitted, Posted
<1> HIDE DEF c
<1>6. RequestsInv'  BY <1>1 DEF PlaceInv, RequestsInv
<1>7. \A i, j \in Slice(sqhead, sqtail)' : sq'[i] = sq'[j] => i = j
  <2> SUFFICES ASSUME NEW i \in Slice(Succ(sqhead), sqtail),
                      NEW j \in Slice(Succ(sqhead), sqtail), sq[i] = sq[j]
               PROVE  i = j
    BY <1>1 DEF Slice
  <2> QED  BY <1>3 DEF PlaceInv, FlightInv
<1>8. \A i, j \in Slice(cqhead, cqtail)' : cq'[i].cid = cq'[j].cid => i = j
  BY <1>1 DEF PlaceInv, FlightInv
<1>9. Submitted' \cap executing' = {} /\ Submitted' \cap Posted' = {} /\ executing' \cap Posted' = {}
  BY <1>1, <1>5 DEF PlaceInv, FlightInv
<1>10. Submitted' \cup executing' \cup Posted' = Submitted \cup executing \cup Posted
  BY <1>1, <1>5
<1>11. \A d \in Ring : d \in Submitted' \cup executing' \cup Posted' <=>
           completion'[d] # NULL /\ pc'[completion'[d]] = "waiting"
  BY <1>1, <1>10 DEF PlaceInv, FlightInv
<1> QED  BY <1>6, <1>7, <1>8, <1>9, <1>11 DEF FlightInv

\* It posts the completion of one.
LEMMA PlacePost ==
    ASSUME PlaceInv, NEW c \in Ring, Post(c)
    PROVE  RequestsInv' /\ FlightInv'
<1>1. /\ c \in executing /\ Succ(cqtail) # cqhead /\ executing' = executing \ {c}
      /\ cq' = [cq EXCEPT ![cqtail] = [cid |-> c, phase |-> dphase]]
      /\ cqtail' = Succ(cqtail)
      /\ UNCHANGED <<req_q, completion, req, pc, sq, sqhead, sqtail, cqhead>>
  BY DEF Post, driver, threads
<1>2. /\ cqhead \in Ring /\ cqtail \in Ring
      /\ cq \in [Ring -> [cid : Ring, phase : 0 .. 1]]
  BY DEF PlaceInv, TypeOK
<1>3. /\ Slice(cqhead, Succ(cqtail)) = Slice(cqhead, cqtail) \cup {cqtail}
      /\ cqtail \notin Slice(cqhead, cqtail)
  BY <1>1, <1>2, SlicePush
<1>4. \A i \in Ring : cq'[i].cid = IF i = cqtail THEN c ELSE cq[i].cid  BY <1>1, <1>2
<1>5. Slice(cqhead, cqtail) \subseteq Ring  BY DEF Slice
<1>6. Posted' = Posted \cup {c} /\ Submitted' = Submitted /\ c \notin Posted
  <2>1. Posted' = {cq'[i].cid : i \in Slice(cqhead, cqtail) \cup {cqtail}}
    BY <1>1, <1>3 DEF Posted, Slice
  <2>2. \A i \in Slice(cqhead, cqtail) : cq'[i].cid = cq[i].cid  BY <1>3, <1>4, <1>5
  <2>3. cq'[cqtail].cid = c  BY <1>2, <1>4
  <2>4. Posted' = Posted \cup {c}  BY <2>1, <2>2, <2>3 DEF Posted
  <2> QED  BY <1>1, <2>4 DEF Submitted, PlaceInv, FlightInv
<1>7. RequestsInv'  BY <1>1 DEF PlaceInv, RequestsInv
<1>8. \A i, j \in Slice(cqhead, cqtail)' : cq'[i].cid = cq'[j].cid => i = j
  <2> SUFFICES ASSUME NEW i \in Slice(cqhead, Succ(cqtail)),
                      NEW j \in Slice(cqhead, Succ(cqtail)), cq'[i].cid = cq'[j].cid
               PROVE  i = j
    BY <1>1 DEF Slice
  <2>1. \A k \in Slice(cqhead, cqtail) : cq'[k].cid = cq[k].cid /\ cq[k].cid \in Posted
    BY <1>3, <1>4, <1>5 DEF Posted
  <2>2. cq'[cqtail].cid = c  BY <1>2, <1>4
  <2> QED  BY <1>3, <1>6, <2>1, <2>2 DEF PlaceInv, FlightInv
<1>9. \A i, j \in Slice(sqhead, sqtail)' : sq'[i] = sq'[j] => i = j
  BY <1>1 DEF PlaceInv, FlightInv
<1>10. Submitted' \cap executing' = {} /\ Submitted' \cap Posted' = {} /\ executing' \cap Posted' = {}
  BY <1>1, <1>6 DEF PlaceInv, FlightInv
<1>11. Submitted' \cup executing' \cup Posted' = Submitted \cup executing \cup Posted
  BY <1>1, <1>6
<1>12. \A d \in Ring : d \in Submitted' \cup executing' \cup Posted' <=>
           completion'[d] # NULL /\ pc'[completion'[d]] = "waiting"
  BY <1>1, <1>11 DEF PlaceInv, FlightInv
<1> QED  BY <1>7, <1>8, <1>9, <1>10, <1>12 DEF FlightInv

\* The handler completes the request at the driver's head.
LEMMA PlaceComplete ==
    ASSUME PlaceInv, CompleteRequest
    PROVE  RequestsInv' /\ FlightInv'
<1> DEFINE c == cq[cqhead].cid
           u == completion[c]
<1>1. /\ cq[cqhead].phase = phase
      /\ pc' = [t \in Procs |-> IF t = u THEN "idle" ELSE pc[t]]
      /\ completion' = [completion EXCEPT ![c] = NULL] /\ req_q' = <<c>> \o req_q
      /\ cqhead' = Succ(cqhead)
      /\ UNCHANGED <<req, sq, sqhead, sqtail, cq, cqtail, executing>>
  BY DEF CompleteRequest, device
<1>2. /\ completion \in [Ring -> Procs \cup {NULL}] /\ req \in [Procs -> Ring]
      /\ pc \in [Procs -> {"idle", "taken", "waiting"}] /\ req_q \in Seq(Ring)
      /\ cqhead \in Ring /\ cqtail \in Ring /\ c \in Ring
  BY DEF PlaceInv, TypeOK
<1>3. cqhead # cqtail  BY <1>1, PhaseDecides DEF PlaceInv, PhaseTellsNew
<1>4. /\ Slice(Succ(cqhead), cqtail) = Slice(cqhead, cqtail) \ {cqhead}
      /\ cqhead \in Slice(cqhead, cqtail)
  BY <1>2, <1>3, SlicePop
<1>5. \A i \in Slice(cqhead, cqtail) : cq[i].cid = c => i = cqhead
  BY <1>4 DEF PlaceInv, FlightInv
<1>6. Posted' = Posted \ {c} /\ c \in Posted /\ Submitted' = Submitted
  BY <1>1, <1>4, <1>5 DEF Submitted, Posted
<1>7. u \in Procs /\ u # NULL /\ pc[u] = "waiting" /\ req[u] = c
  BY <1>2, <1>6 DEF PlaceInv, FlightInv, RequestsInv
<1>8. /\ c \notin Range(req_q)
      /\ IsInjective(req_q') /\ Range(req_q') = Range(req_q) \cup {c}
  BY <1>1, <1>2, <1>7, PushQueue DEF PlaceInv, RequestsInv
<1> HIDE DEF c, u
<1>9. \A d \in Ring : completion'[d] = IF d = c THEN NULL ELSE completion[d]
  BY <1>1, <1>2
<1>10. \A t \in Procs : pc'[t] = IF t = u THEN "idle" ELSE pc[t]  BY <1>1
<1>11. ASSUME NEW d \in Ring, d # c, completion[d] # NULL
       PROVE  completion[d] \in Procs /\ completion[d] # u
  BY <1>2, <1>7, <1>11 DEF PlaceInv, RequestsInv
<1>12. RequestsInv'
  <2>1. ASSUME NEW d \in Ring PROVE completion'[d] = NULL <=> d \in Range(req_q')
    BY <1>8, <1>9 DEF PlaceInv, RequestsInv
  <2>2. ASSUME NEW t \in Procs, pc'[t] # "idle" PROVE completion'[req'[t]] = t
    <3>1. t # u /\ pc[t] # "idle" /\ req[t] \in Ring /\ req'[t] = req[t]
      BY <1>1, <1>2, <1>10, <2>2
    <3>2. completion[req[t]] = t  BY <3>1 DEF PlaceInv, RequestsInv
    <3>3. req[t] # c  BY <3>1, <3>2 DEF u
    <3> QED  BY <1>9, <3>1, <3>2, <3>3
  <2>3. ASSUME NEW d \in Ring, completion'[d] # NULL
        PROVE  pc'[completion'[d]] # "idle" /\ req'[completion'[d]] = d
    BY <1>1, <1>9, <1>10, <1>11, <2>3 DEF PlaceInv, RequestsInv
  <2> QED  BY <1>8, <2>1, <2>2, <2>3 DEF RequestsInv
<1>13. ASSUME NEW d \in Ring
       PROVE  d \in Submitted' \cup executing' \cup Posted' <=>
              completion'[d] # NULL /\ pc'[completion'[d]] = "waiting"
  <2>1. CASE d = c
    <3>1. d \notin Submitted /\ d \notin executing  BY <1>6, <2>1 DEF PlaceInv, FlightInv
    <3> QED  BY <1>1, <1>6, <1>9, <2>1, <3>1
  <2>2. CASE d # c
    <3>1. d \in Submitted \cup executing \cup Posted <=>
            completion[d] # NULL /\ pc[completion[d]] = "waiting"
      BY DEF PlaceInv, FlightInv
    <3> QED  BY <1>1, <1>6, <1>9, <1>10, <1>11, <2>2, <3>1
  <2> QED  BY <2>1, <2>2
<1>14. \A i, j \in Slice(cqhead, cqtail)' : cq'[i].cid = cq'[j].cid => i = j
  <2> SUFFICES ASSUME NEW i \in Slice(Succ(cqhead), cqtail),
                      NEW j \in Slice(Succ(cqhead), cqtail), cq[i].cid = cq[j].cid
               PROVE  i = j
    BY <1>1 DEF Slice
  <2> QED  BY <1>4 DEF PlaceInv, FlightInv
<1>15. \A i, j \in Slice(sqhead, sqtail)' : sq'[i] = sq'[j] => i = j
  BY <1>1 DEF PlaceInv, FlightInv
<1>16. Submitted' \cap executing' = {} /\ Submitted' \cap Posted' = {} /\ executing' \cap Posted' = {}
  BY <1>1, <1>6 DEF PlaceInv, FlightInv
<1> QED  BY <1>12, <1>13, <1>14, <1>15, <1>16 DEF FlightInv

\* Every step moves at most one request from one place to another.
LEMMA PlaceNext == ASSUME FewReaders, PlaceInv, [Next]_vars PROVE PlaceInv'
<1>1. TypeOK' /\ PhaseInv'  BY TypeNext, PhaseNext DEF PlaceInv
<1>2. CASE /\ UNCHANGED <<req_q, completion, req, pc>>
           /\ UNCHANGED <<sq, sqhead, sqtail, cq, cqhead, cqtail, executing>>
  <2>1. Submitted' = Submitted /\ Posted' = Posted  BY <1>2 DEF Submitted, Posted
  <2>2. FlightInv'  BY <1>2, <2>1 DEF PlaceInv, FlightInv
  <2>3. RequestsInv'  BY <1>2 DEF PlaceInv, RequestsInv
  <2> QED  BY <1>1, <2>2, <2>3 DEF PlaceInv
<1>3. CASE nvme_intr \/ HandlerDone \/ UNCHANGED vars
  BY <1>2, <1>3 DEF nvme_intr, HandlerDone, vars, driver, device, threads
<1> QED  BY <1>1, <1>3, PlaceTake, PlaceSubmit, PlaceFetch, PlacePost, PlaceComplete
         DEF Next, PlaceInv

\* At the start every request is free.
LEMMA PlaceInit == Init => PlaceInv
<1> SUFFICES ASSUME Init PROVE PlaceInv  OBVIOUS
<1>1. /\ DOMAIN req_q = 1 .. Slots /\ \A i \in 1 .. Slots : req_q[i] = i - 1  BY DEF Init
<1>2. Range(req_q) = Ring
  <2>1. ASSUME NEW c \in Ring PROVE c \in Range(req_q)
    <3>1. c + 1 \in 1 .. Slots /\ (c + 1) - 1 = c  BY QueueAssumption DEF Ring
    <3> QED  BY <1>1, <3>1 DEF Range
  <2>2. ASSUME NEW i \in 1 .. Slots PROVE req_q[i] \in Ring
    BY <1>1, QueueAssumption DEF Ring
  <2> QED  BY <1>1, <2>1, <2>2 DEF Range
<1>3. IsInjective(req_q)
  <2> SUFFICES ASSUME NEW i \in 1 .. Slots, NEW j \in 1 .. Slots, i - 1 = j - 1 PROVE i = j
    BY <1>1 DEF IsInjective
  <2> QED  BY QueueAssumption
<1>4. RequestsInv  BY <1>2, <1>3 DEF Init, RequestsInv
<1>5. Slice(sqhead, sqtail) = {} /\ Slice(cqhead, cqtail) = {}
  <2>1. 0 \in Ring  BY QueueAssumption DEF Ring
  <2>2. \A i \in Ring : i \notin Slice(0, 0)
    BY <2>1, SliceIs, QueueAssumption DEF Ring
  <2>3. Slice(0, 0) \subseteq Ring  BY DEF Slice
  <2> QED  BY <2>2, <2>3 DEF Init
<1>6. FlightInv  BY <1>5 DEF Init, FlightInv, Submitted, Posted
<1> QED  BY <1>4, <1>6, TypeInit, PhaseInit DEF PlaceInv

\* The inductive invariant implies what the run checks.
LEMMA PlaceImplies == PlaceInv => OnePlace
<1> SUFFICES ASSUME PlaceInv PROVE OnePlace  OBVIOUS
<1>1. InFlight \subseteq Ring  BY InFlightRing DEF PlaceInv
<1>2. ASSUME NEW t \in Procs
      PROVE  pc[t] = "waiting" <=>
             \E c \in Submitted \cup executing \cup Posted : completion[c] = t
  <2>1. t # NULL /\ req[t] \in Ring  BY QueueAssumption DEF PlaceInv, TypeOK
  <2>2. ASSUME pc[t] = "waiting" PROVE req[t] \in InFlight /\ completion[req[t]] = t
    BY <2>1, <2>2 DEF PlaceInv, RequestsInv, FlightInv, InFlight
  <2>3. ASSUME NEW c \in InFlight, completion[c] = t PROVE pc[t] = "waiting"
    BY <1>1, <2>3 DEF PlaceInv, FlightInv, InFlight
  <2> QED  BY <2>2, <2>3 DEF InFlight
<1>3. Cardinality(Posted) = Cardinality(Slice(cqhead, cqtail))
  <2> DEFINE S == Slice(cqhead, cqtail)
             f == [i \in S |-> cq[i].cid]
  <2>1. f \in Surjection(S, Posted) /\ f \in Injection(S, Posted)
    BY DEF Posted, Surjection, Injection, IsInjective, PlaceInv, FlightInv
  <2>2. IsFiniteSet(S)
    <3>1. IsFiniteSet(Ring)  BY FS_Interval, QueueAssumption DEF Ring
    <3>2. S \subseteq Ring  BY DEF Slice
    <3> QED  BY <3>1, <3>2, FS_Subset
  <2> HIDE DEF S, f
  <2>3. Cardinality(Posted) = Cardinality(S)  BY <2>1, <2>2, FS_Surjection
  <2> QED  BY <2>3 DEF S
<1> QED  BY <1>2, <1>3 DEF PlaceInv, RequestsInv, FlightInv, OnePlace

\* While fewer threads read than the rings have slots, no command id is ever lost,
\* used twice or completed for the wrong thread: it is free, or it belongs to one
\* thread and is in one slot of one ring, or with the controller.
THEOREM RequestsInOnePlace == ASSUME FewReaders PROVE Spec => []OnePlace
<1>1. PlaceInv /\ [Next]_vars => PlaceInv'  BY PlaceNext
<1> QED  BY <1>1, PlaceInit, PlaceImplies, PTL DEF Spec
=============================================================================
