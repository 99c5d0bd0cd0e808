---------------------------- MODULE TlbShootdown ----------------------------
(***************************************************************************)
(* TLB shootdown: pmap_reenter_all_readonly and pmap_global_invlpg of      *)
(* x86_64/vm.c and the kIntNumInvlPG branch of handle_int (x86_64/intr.c). *)
(* A CPU takes write access away from a mapping and then makes every CPU   *)
(* drop its cached translation: it sends IPIs and spins, with interrupts   *)
(* off, until all have been acknowledged.                                  *)
(***************************************************************************)
EXTENDS Naturals, FiniteSets

CONSTANTS
    CPUs,   \* cpus[0 .. ncpu-1]
    Addrs   \* virtual addresses of pages that are mapped

ASSUME ShootdownAssumption == IsFiniteSet(CPUs) /\ Addrs # {}

VARIABLES
    entered,       \* addresses pmap_reenter has made read-only, whose thread has
                   \* not called pmap_global_invlpg yet
    writable,      \* the addresses whose page table entry allows writing
    tlb,           \* tlb[c]: the addresses for which c caches write access
    lock,          \* invlpg_global_lock is held
    invlpg_addr,
    invlpg_done_cnt,
    ipi,           \* CPUs at whose local APIC kIntNumInvlPG is pending
    pc,            \* per CPU: "run" (interrupts on), "spin" for the lock,
                   \* "wait" for the acknowledgements
    vaddr          \* the argument of the call in progress

vars == <<entered, writable, tlb, lock, invlpg_addr, invlpg_done_cnt, ipi, pc, vaddr>>

Init ==
    /\ entered = {}
    /\ writable = Addrs
    /\ tlb = [c \in CPUs |-> {}]
    /\ lock = FALSE
    /\ invlpg_addr = CHOOSE v \in Addrs : TRUE
    /\ invlpg_done_cnt = 0
    /\ ipi = {}
    /\ pc = [c \in CPUs |-> "run"]
    /\ vaddr = [c \in CPUs |-> CHOOSE v \in Addrs : TRUE]

\* v's map is locked by a pmap_reenter_all_readonly.
Busy(v) == v \in entered \/ \E c \in CPUs : pc[c] # "run" /\ vaddr[c] = v

\* The code on c writes through v: the processor caches the translation.
Write(c, v) ==
    /\ pc[c] = "run"
    /\ v \in writable
    /\ tlb' = [tlb EXCEPT ![c] = @ \cup {v}]
    /\ UNCHANGED <<entered, writable, lock, invlpg_addr, invlpg_done_cnt, ipi, pc, vaddr>>

\* A write fault makes v writable again (vm_fault holds the map's lock).
Reenter(v) ==
    /\ ~Busy(v)
    /\ v \notin writable
    /\ writable' = writable \cup {v}
    /\ UNCHANGED <<entered, tlb, lock, invlpg_addr, invlpg_done_cnt, ipi, pc, vaddr>>

\* An iteration of pmap_reenter_all_readonly: pmap_reenter ...
ReenterReadonly(v) ==
    /\ ~Busy(v)
    /\ writable' = writable \ {v}
    /\ entered' = entered \cup {v}
    /\ UNCHANGED <<tlb, lock, invlpg_addr, invlpg_done_cnt, ipi, pc, vaddr>>

\* ... and pmap_global_invlpg, which turns interrupts off on the CPU c the
\* thread runs on by then.
GlobalInvlpg(c, v) ==
    /\ pc[c] = "run"
    /\ v \in entered
    /\ entered' = entered \ {v}
    /\ pc' = [pc EXCEPT ![c] = "spin"]
    /\ vaddr' = [vaddr EXCEPT ![c] = v]
    /\ UNCHANGED <<writable, tlb, lock, invlpg_addr, invlpg_done_cnt, ipi>>

Invlpg(c, v) == tlb' = [tlb EXCEPT ![c] = @ \ {v}]

\* pmap_global_invlpg with the lock: the other CPUs are sent IPIs, this one
\* invalidates its own entry.
Send_NoLock(c) ==  \* mutant: invlpg_global_lock is not taken
    /\ pc[c] = "spin"
    /\ lock' = TRUE
    /\ invlpg_addr' = vaddr[c]
    /\ invlpg_done_cnt' = 1
    /\ ipi' = ipi \cup (CPUs \ {c})
    /\ Invlpg(c, vaddr[c])
    /\ pc' = [pc EXCEPT ![c] = "wait"]
    /\ UNCHANGED <<entered, writable, vaddr>>
Send_Stale(c) ==   \* mutant: invlpg_addr is not set
    /\ pc[c] = "spin"
    /\ ~lock
    /\ lock' = TRUE
    /\ invlpg_done_cnt' = 1
    /\ ipi' = ipi \cup (CPUs \ {c})
    /\ Invlpg(c, vaddr[c])
    /\ pc' = [pc EXCEPT ![c] = "wait"]
    /\ UNCHANGED <<entered, writable, vaddr, invlpg_addr>>
Send(c) ==
    /\ pc[c] = "spin"
    /\ ~lock
    /\ lock' = TRUE
    /\ invlpg_addr' = vaddr[c]
    /\ invlpg_done_cnt' = 1
    /\ ipi' = ipi \cup (CPUs \ {c})
    /\ Invlpg(c, vaddr[c])
    /\ pc' = [pc EXCEPT ![c] = "wait"]
    /\ UNCHANGED <<entered, writable, vaddr>>

\* handle_int(kIntNumInvlPG) on a CPU with interrupts on.
Ack(c) ==
    /\ c \in ipi
    /\ pc[c] = "run"
    /\ Invlpg(c, invlpg_addr)
    /\ invlpg_done_cnt' = invlpg_done_cnt + 1
    /\ ipi' = ipi \ {c}
    /\ UNCHANGED <<entered, writable, lock, invlpg_addr, pc, vaddr>>

\* invlpg_done_cnt has reached ncpu: unlock and return.
Finish(c) ==
    /\ pc[c] = "wait"
    /\ invlpg_done_cnt = Cardinality(CPUs)
    /\ lock' = FALSE
    /\ pc' = [pc EXCEPT ![c] = "run"]
    /\ UNCHANGED <<entered, writable, tlb, invlpg_addr, invlpg_done_cnt, ipi, vaddr>>

Next ==
    \/ \E c \in CPUs, v \in Addrs : Write(c, v) \/ GlobalInvlpg(c, v)
    \/ \E v \in Addrs : Reenter(v) \/ ReenterReadonly(v)
    \/ \E c \in CPUs : Send(c) \/ Ack(c) \/ Finish(c)

Spec == Init /\ [][Next]_vars

\* A CPU keeps executing, and a pending IPI is taken when interrupts are on
\* time and again; a spinning CPU gets a lock that is free time and again.
Fairness == \A c \in CPUs : WF_vars(Finish(c)) /\ SF_vars(Send(c)) /\ SF_vars(Ack(c))

FairSpec == Spec /\ Fairness

------------------------------------------------------------------------------
TypeOK ==
    /\ entered \subseteq Addrs
    /\ writable \subseteq Addrs
    /\ tlb \in [CPUs -> SUBSET Addrs]
    /\ lock \in BOOLEAN
    /\ invlpg_addr \in Addrs
    /\ invlpg_done_cnt \in 0 .. Cardinality(CPUs)
    /\ ipi \subseteq CPUs
    /\ pc \in [CPUs -> {"run", "spin", "wait"}]
    /\ vaddr \in [CPUs -> Addrs]

\* Write access that was taken away is gone on every CPU once the shootdown has
\* returned: while a CPU still caches it, somebody is in pmap_global_invlpg for
\* that address.  Copy-on-write depends on this.
NoStaleWriteAccess ==
    \A c \in CPUs : \A v \in tlb[c] \ writable : Busy(v)

\* The count pmap_global_invlpg spins on is never fed by an acknowledgement of
\* an earlier shootdown: those still owed are exactly the CPUs with the IPI
\* pending.
AcksBelongToThisShootdown ==
    \A c \in CPUs : pc[c] = "wait" =>
        invlpg_done_cnt + Cardinality(ipi) = Cardinality(CPUs)

\* "Invalidate a page mapping for virtual address addr in all address spaces"
\* (pmap_global_invlpg): the call comes back.
ShootdownReturns == \A c \in CPUs : pc[c] = "spin" ~> pc[c] = "run"
------------------------------------------------------------------------------
\* The inductive invariant behind NoStaleWriteAccess.

\* An address being shot down stays read-only.
BusyReadonly == \A v \in Addrs : Busy(v) => v \notin writable

\* One CPU holds the lock, and IPIs are pending only on its behalf.
OneShootdown ==
    /\ lock <=> \E c \in CPUs : pc[c] = "wait"
    /\ \A c, d \in CPUs : pc[c] = "wait" /\ pc[d] = "wait" => c = d
    /\ ~lock => ipi = {}

\* Only a CPU that has not taken the IPI yet may still cache the address.
CachedPending ==
    \A c \in CPUs : pc[c] = "wait" =>
        /\ c \notin ipi
        /\ invlpg_addr = vaddr[c]
        /\ \A d \in CPUs : vaddr[c] \in tlb[d] => d \in ipi

ShootdownInv ==
    /\ TypeOK
    /\ NoStaleWriteAccess
    /\ AcksBelongToThisShootdown
    /\ BusyReadonly
    /\ OneShootdown
    /\ CachedPending
=============================================================================
