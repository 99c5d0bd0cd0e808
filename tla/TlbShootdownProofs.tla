------------------------- MODULE TlbShootdownProofs -------------------------
(***************************************************************************)
(* Proofs about TlbShootdown, for every number of CPUs and addresses: once *)
(* pmap_global_invlpg has returned, no CPU caches the write access that    *)
(* was taken away.                                                         *)
(***************************************************************************)
EXTENDS TlbShootdown, FiniteSetTheorems, TLAPS

\* The CPUs with the IPI pending are finitely many.
LEMMA PendingFinite ==
    ASSUME TypeOK
    PROVE  /\ IsFiniteSet(ipi) /\ Cardinality(ipi) \in Nat
           /\ Cardinality(ipi) = 0 => ipi = {}
           /\ Cardinality(CPUs) \in Nat
<1>1. IsFiniteSet(ipi)  BY ShootdownAssumption, FS_Subset DEF TypeOK
<1> QED  BY <1>1, ShootdownAssumption, FS_CardinalityType, FS_EmptySet

\* At first no shootdown is under way and nothing is cached.
LEMMA InitShootdown == Init => ShootdownInv
<1> SUFFICES ASSUME Init PROVE ShootdownInv  OBVIOUS
<1>1. Cardinality(CPUs) \in Nat  BY ShootdownAssumption, FS_CardinalityType
<1>2. TypeOK
  <2> DEFINE v0 == CHOOSE v \in Addrs : TRUE
  <2>1. v0 \in Addrs  BY ShootdownAssumption
  <2>2. invlpg_addr = v0 /\ vaddr = [c \in CPUs |-> v0]  BY DEF Init
  <2>3. invlpg_done_cnt \in 0 .. Cardinality(CPUs)  BY <1>1 DEF Init
  <2>4. /\ entered = {} /\ writable = Addrs /\ tlb = [c \in CPUs |-> {}]
        /\ lock = FALSE /\ ipi = {} /\ pc = [c \in CPUs |-> "run"]
    BY DEF Init
  <2> HIDE DEF v0
  <2> QED  BY <2>1, <2>2, <2>3, <2>4 DEF TypeOK
<1>3. \A v \in Addrs : ~Busy(v)  BY DEF Init, Busy
<1>4. NoStaleWriteAccess  BY DEF Init, NoStaleWriteAccess
<1>5. AcksBelongToThisShootdown /\ OneShootdown /\ CachedPending
  BY DEF Init, AcksBelongToThisShootdown, OneShootdown, CachedPending
<1> QED  BY <1>2, <1>3, <1>4, <1>5 DEF ShootdownInv, BusyReadonly

\* A CPU caches write access to an address nobody is taking away.
LEMMA WriteInv ==
    ASSUME ShootdownInv, NEW c \in CPUs, NEW v \in Addrs, Write(c, v)
    PROVE  ShootdownInv'
<1>1. TypeOK /\ NoStaleWriteAccess /\ AcksBelongToThisShootdown /\ BusyReadonly
      /\ OneShootdown /\ CachedPending
  BY DEF ShootdownInv
<1>2. /\ v \in writable /\ tlb' = [tlb EXCEPT ![c] = tlb[c] \cup {v}]
      /\ UNCHANGED <<entered, writable, lock, invlpg_addr, invlpg_done_cnt, ipi, pc, vaddr>>
  BY DEF Write
<1>3. \A d \in CPUs : tlb'[d] \subseteq tlb[d] \cup {v}  BY <1>1, <1>2 DEF TypeOK
<1>4. \A w \in Addrs : Busy(w)' <=> Busy(w)  BY <1>2 DEF Busy
<1>5. TypeOK'  BY <1>1, <1>2 DEF TypeOK
<1>6. NoStaleWriteAccess'
  <2>1. ASSUME NEW d \in CPUs, NEW w \in tlb'[d] \ writable' PROVE Busy(w)'
    <3>1. w \in tlb[d] \ writable /\ w \in Addrs
      BY <1>1, <1>2, <1>3, <2>1 DEF TypeOK
    <3> QED  BY <1>1, <1>4, <3>1 DEF NoStaleWriteAccess
  <2> QED  BY <2>1 DEF NoStaleWriteAccess
<1>7. CachedPending'
  <2>1. ASSUME NEW d \in CPUs, pc[d] = "wait" PROVE vaddr[d] # v
    BY <1>1, <1>2, <2>1 DEF BusyReadonly, Busy, TypeOK
  <2> QED  BY <1>1, <1>2, <1>3, <2>1 DEF CachedPending
<1>8. AcksBelongToThisShootdown' /\ BusyReadonly' /\ OneShootdown'
  BY <1>1, <1>2, <1>4 DEF AcksBelongToThisShootdown, BusyReadonly, OneShootdown
<1> QED  BY <1>5, <1>6, <1>7, <1>8 DEF ShootdownInv

\* Page table entries change under the lock of the map, so not while busy.
LEMMA ReenterInv ==
    ASSUME ShootdownInv, NEW v \in Addrs, Reenter(v) \/ ReenterReadonly(v)
    PROVE  ShootdownInv'
<1>1. TypeOK /\ NoStaleWriteAccess /\ AcksBelongToThisShootdown /\ BusyReadonly
      /\ OneShootdown /\ CachedPending
  BY DEF ShootdownInv
<1>2. /\ ~Busy(v)
      /\ UNCHANGED <<tlb, lock, invlpg_addr, invlpg_done_cnt, ipi, pc, vaddr>>
      /\ \/ writable' = writable \cup {v} /\ UNCHANGED entered
         \/ writable' = writable \ {v} /\ entered' = entered \cup {v}
  BY DEF Reenter, ReenterReadonly
<1>3. TypeOK'  BY <1>1, <1>2 DEF TypeOK
<1>4. /\ \A w \in Addrs : Busy(w) => Busy(w)'
      /\ \A w \in Addrs : w # v /\ Busy(w)' => Busy(w)
      /\ v \in writable' => ~Busy(v)'
      /\ v \notin writable' => Busy(v)'
  BY <1>1, <1>2 DEF Busy, TypeOK
<1>5. NoStaleWriteAccess'
  <2>1. ASSUME NEW d \in CPUs, NEW w \in tlb'[d] \ writable' PROVE Busy(w)'
    <3>1. w \in Addrs  BY <1>3, <2>1 DEF TypeOK
    <3>2. CASE w = v  BY <1>4, <2>1, <3>2
    <3>3. CASE w # v
      <4>1. w \in tlb[d] \ writable  BY <1>2, <2>1, <3>3
      <4> QED  BY <1>1, <1>4, <3>1, <4>1 DEF NoStaleWriteAccess
    <3> QED  BY <3>2, <3>3
  <2> QED  BY <2>1 DEF NoStaleWriteAccess
<1>6. BusyReadonly'
  BY <1>1, <1>2, <1>4 DEF BusyReadonly
<1>7. AcksBelongToThisShootdown' /\ OneShootdown' /\ CachedPending'
  BY <1>1, <1>2 DEF AcksBelongToThisShootdown, OneShootdown, CachedPending
<1> QED  BY <1>3, <1>5, <1>6, <1>7 DEF ShootdownInv

\* Entering pmap_global_invlpg keeps its address busy.
LEMMA GlobalInvlpgInv ==
    ASSUME ShootdownInv, NEW c \in CPUs, NEW v \in Addrs, GlobalInvlpg(c, v)
    PROVE  ShootdownInv'
<1>1. TypeOK /\ NoStaleWriteAccess /\ AcksBelongToThisShootdown /\ BusyReadonly
      /\ OneShootdown /\ CachedPending
  BY DEF ShootdownInv
<1>2. /\ pc[c] = "run" /\ v \in entered /\ entered' = entered \ {v}
      /\ pc' = [pc EXCEPT ![c] = "spin"] /\ vaddr' = [vaddr EXCEPT ![c] = v]
      /\ UNCHANGED <<writable, tlb, lock, invlpg_addr, invlpg_done_cnt, ipi>>
  BY DEF GlobalInvlpg
<1>3. TypeOK'  BY <1>1, <1>2 DEF TypeOK
<1>4. /\ pc'[c] = "spin" /\ vaddr'[c] = v
      /\ \A d \in CPUs : d # c => pc'[d] = pc[d] /\ vaddr'[d] = vaddr[d]
  BY <1>1, <1>2 DEF TypeOK
<1>5. \A w \in Addrs : Busy(w)' <=> Busy(w)
  BY <1>2, <1>4 DEF Busy
<1>6. NoStaleWriteAccess' /\ BusyReadonly'
  BY <1>1, <1>2, <1>5 DEF NoStaleWriteAccess, BusyReadonly, TypeOK
<1>7. \A d \in CPUs : pc'[d] = "wait" <=> pc[d] = "wait"  BY <1>2, <1>4
<1>8. AcksBelongToThisShootdown' /\ OneShootdown'
  BY <1>1, <1>2, <1>7 DEF AcksBelongToThisShootdown, OneShootdown
<1>9. CachedPending'
  BY <1>1, <1>2, <1>4, <1>7 DEF CachedPending
<1> QED  BY <1>3, <1>6, <1>8, <1>9 DEF ShootdownInv

\* The shootdown begins: no IPI of an earlier one is pending.
LEMMA SendInv ==
    ASSUME ShootdownInv, NEW c \in CPUs, Send(c)
    PROVE  ShootdownInv'
<1>1. TypeOK /\ NoStaleWriteAccess /\ AcksBelongToThisShootdown /\ BusyReadonly
      /\ OneShootdown /\ CachedPending
  BY DEF ShootdownInv
<1>2. /\ pc[c] = "spin" /\ ~lock /\ lock' = TRUE /\ invlpg_addr' = vaddr[c]
      /\ invlpg_done_cnt' = 1 /\ ipi' = ipi \cup (CPUs \ {c})
      /\ tlb' = [tlb EXCEPT ![c] = tlb[c] \ {vaddr[c]}]
      /\ pc' = [pc EXCEPT ![c] = "wait"]
      /\ UNCHANGED <<entered, writable, vaddr>>
  BY DEF Send, Invlpg
<1>3. /\ ipi' = CPUs \ {c} /\ \A d \in CPUs : pc[d] # "wait"
      /\ \A d \in CPUs : pc'[d] = "wait" <=> d = c
  BY <1>1, <1>2 DEF OneShootdown, TypeOK
<1>4. /\ Cardinality(CPUs) \in Nat /\ Cardinality(CPUs) # 0
      /\ Cardinality(ipi') = Cardinality(CPUs) - 1
  BY <1>3, ShootdownAssumption, FS_CardinalityType, FS_EmptySet, FS_RemoveElement
<1>5. TypeOK'
  <2>1. invlpg_done_cnt' \in 0 .. Cardinality(CPUs)  BY <1>2, <1>4
  <2>2. tlb' \in [CPUs -> SUBSET Addrs] /\ pc' \in [CPUs -> {"run", "spin", "wait"}]
    BY <1>1, <1>2 DEF TypeOK
  <2> QED  BY <1>1, <1>2, <1>3, <2>1, <2>2 DEF TypeOK
<1>6. \A w \in Addrs : Busy(w)' <=> Busy(w)
  BY <1>1, <1>2 DEF Busy, TypeOK
<1>7. NoStaleWriteAccess'
  <2>1. \A d \in CPUs : tlb'[d] \subseteq tlb[d] /\ tlb[d] \subseteq Addrs
    BY <1>1, <1>2 DEF TypeOK
  <2> QED  BY <1>1, <1>2, <1>6, <2>1 DEF NoStaleWriteAccess
<1>8. BusyReadonly'  BY <1>1, <1>2, <1>6 DEF BusyReadonly
<1>9. OneShootdown'  BY <1>2, <1>3 DEF OneShootdown
<1>10. AcksBelongToThisShootdown'
  BY <1>2, <1>4 DEF AcksBelongToThisShootdown
<1>11. CachedPending'
  <2>1. vaddr[c] \notin tlb'[c]  BY <1>1, <1>2 DEF TypeOK
  <2> QED  BY <1>2, <1>3, <2>1 DEF CachedPending
<1> QED  BY <1>5, <1>7, <1>8, <1>9, <1>10, <1>11 DEF ShootdownInv

\* A CPU takes the IPI: it drops the address and counts itself.
LEMMA AckInv ==
    ASSUME ShootdownInv, NEW c \in CPUs, Ack(c)
    PROVE  ShootdownInv'
<1>1. TypeOK /\ NoStaleWriteAccess /\ AcksBelongToThisShootdown /\ BusyReadonly
      /\ OneShootdown /\ CachedPending
  BY DEF ShootdownInv
<1>2. /\ c \in ipi /\ ipi' = ipi \ {c} /\ pc[c] = "run"
      /\ tlb' = [tlb EXCEPT ![c] = tlb[c] \ {invlpg_addr}]
      /\ invlpg_done_cnt' = invlpg_done_cnt + 1
      /\ UNCHANGED <<entered, writable, lock, invlpg_addr, pc, vaddr>>
  BY DEF Ack, Invlpg
<1>3. /\ Cardinality(ipi') = Cardinality(ipi) - 1
      /\ Cardinality(ipi) \in Nat /\ Cardinality(ipi) # 0
      /\ Cardinality(CPUs) \in Nat
  BY <1>1, <1>2, PendingFinite, FS_RemoveElement
<1>4. lock /\ \E d \in CPUs : pc[d] = "wait"  BY <1>1, <1>2 DEF OneShootdown
<1>5. PICK o \in CPUs : pc[o] = "wait"  BY <1>4
<1>6. invlpg_done_cnt + Cardinality(ipi) = Cardinality(CPUs)
  BY <1>1, <1>5 DEF AcksBelongToThisShootdown
<1>7. TypeOK'
  <2>1. invlpg_done_cnt' \in 0 .. Cardinality(CPUs)
    BY <1>1, <1>2, <1>3, <1>6 DEF TypeOK
  <2>2. tlb' \in [CPUs -> SUBSET Addrs]  BY <1>1, <1>2 DEF TypeOK
  <2> QED  BY <1>1, <1>2, <2>1, <2>2 DEF TypeOK
<1>8. \A w \in Addrs : Busy(w)' <=> Busy(w)  BY <1>2 DEF Busy
<1>9. \A d \in CPUs : tlb'[d] \subseteq tlb[d] /\ tlb[d] \subseteq Addrs
  BY <1>1, <1>2 DEF TypeOK
<1>10. NoStaleWriteAccess'  BY <1>1, <1>2, <1>8, <1>9 DEF NoStaleWriteAccess
<1>11. BusyReadonly'  BY <1>1, <1>2, <1>8 DEF BusyReadonly
<1>12. OneShootdown'  BY <1>1, <1>2, <1>4 DEF OneShootdown
<1>13. AcksBelongToThisShootdown'
  <2>1. invlpg_done_cnt' + Cardinality(ipi') = Cardinality(CPUs)
    BY <1>1, <1>2, <1>3, <1>6 DEF TypeOK
  <2> QED  BY <2>1 DEF AcksBelongToThisShootdown
<1>14. CachedPending'
  <2>1. invlpg_addr \notin tlb'[c]  BY <1>1, <1>2 DEF TypeOK
  <2> QED  BY <1>1, <1>2, <1>9, <2>1 DEF CachedPending
<1> QED  BY <1>7, <1>10, <1>11, <1>12, <1>13, <1>14 DEF ShootdownInv

\* All CPUs are counted, so none caches the address any more.
LEMMA FinishInv ==
    ASSUME ShootdownInv, NEW c \in CPUs, Finish(c)
    PROVE  ShootdownInv'
<1>1. TypeOK /\ NoStaleWriteAccess /\ AcksBelongToThisShootdown /\ BusyReadonly
      /\ OneShootdown /\ CachedPending
  BY DEF ShootdownInv
<1>2. /\ pc[c] = "wait" /\ invlpg_done_cnt = Cardinality(CPUs)
      /\ lock' = FALSE /\ pc' = [pc EXCEPT ![c] = "run"]
      /\ UNCHANGED <<entered, writable, tlb, invlpg_addr, invlpg_done_cnt, ipi, vaddr>>
  BY DEF Finish
<1>3. ipi = {}
  <2>1. invlpg_done_cnt + Cardinality(ipi) = Cardinality(CPUs)
    BY <1>1, <1>2 DEF AcksBelongToThisShootdown
  <2> QED  BY <1>1, <1>2, <2>1, PendingFinite
<1>4. /\ \A d \in CPUs : pc'[d] # "wait"
      /\ \A d \in CPUs : d # c => pc'[d] = pc[d]
  BY <1>1, <1>2 DEF OneShootdown, TypeOK
<1>5. TypeOK'  BY <1>1, <1>2 DEF TypeOK
<1>6. NoStaleWriteAccess'
  <2>1. ASSUME NEW d \in CPUs, NEW w \in tlb[d] \ writable PROVE Busy(w)'
    <3>1. w # vaddr[c]  BY <1>1, <1>2, <1>3, <2>1 DEF CachedPending
    <3>2. Busy(w)  BY <1>1, <2>1 DEF NoStaleWriteAccess
    <3> QED  BY <1>1, <1>2, <1>4, <3>1, <3>2 DEF Busy
  <2> QED  BY <1>2, <2>1 DEF NoStaleWriteAccess
<1>7. BusyReadonly'
  <2>1. \A w \in Addrs : Busy(w)' => Busy(w)  BY <1>1, <1>2, <1>4 DEF Busy, TypeOK
  <2> QED  BY <1>1, <1>2, <2>1 DEF BusyReadonly
<1>8. OneShootdown' /\ AcksBelongToThisShootdown' /\ CachedPending'
  BY <1>2, <1>3, <1>4 DEF OneShootdown, AcksBelongToThisShootdown, CachedPending
<1> QED  BY <1>5, <1>6, <1>7, <1>8 DEF ShootdownInv

\* Every step of a shootdown preserves the inductive invariant.
LEMMA NextShootdown == ShootdownInv /\ [Next]_vars => ShootdownInv'
<1>1. CASE UNCHANGED vars
  BY <1>1 DEF vars, ShootdownInv, TypeOK, NoStaleWriteAccess, Busy,
     AcksBelongToThisShootdown, BusyReadonly, OneShootdown, CachedPending
<1> QED  BY <1>1, WriteInv, ReenterInv, GlobalInvlpgInv, SendInv, AckInv, FinishInv
         DEF Next

\* The inductive invariant holds in every reachable state.
THEOREM ShootdownInvariant == Spec => []ShootdownInv
BY InitShootdown, NextShootdown, PTL DEF Spec

\* The variables keep their types; invlpg_done_cnt in particular never counts
\* past ncpu, which is what pmap_global_invlpg's loop waits for it to reach.
THEOREM ShootdownTypeCorrect == Spec => []TypeOK
<1>1. ShootdownInv => TypeOK  BY DEF ShootdownInv
<1> QED  BY <1>1, ShootdownInvariant, PTL

\* pmap_global_invlpg does what copy-on-write needs: write access that
\* pmap_reenter_all_readonly took away is cached nowhere once it returns.
THEOREM ShootdownComplete == Spec => []NoStaleWriteAccess
<1>1. ShootdownInv => NoStaleWriteAccess  BY DEF ShootdownInv
<1> QED  BY <1>1, ShootdownInvariant, PTL

\* invlpg_done_cnt counts this shootdown's acknowledgements only: an IPI of an
\* earlier shootdown cannot arrive late.
THEOREM AcksExact == Spec => []AcksBelongToThisShootdown
<1>1. ShootdownInv => AcksBelongToThisShootdown  BY DEF ShootdownInv
<1> QED  BY <1>1, ShootdownInvariant, PTL
=============================================================================
