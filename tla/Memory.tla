-------------------------------- MODULE Memory --------------------------------
(***************************************************************************)
(* The users of the vmem allocator, the kernel's heap and the address      *)
(* spaces of processes, and the queues of physical pages below them.       *)
(* The former share no arena, and take pages from the latter and give them *)
(* back one call at a time, so that a behaviour is one of either.          *)
(***************************************************************************)
EXTENDS KmemSlab, VirtualMemory, PageQueue

VARIABLE part

Init ==
    /\ part \in {"heap", "address spaces", "pages"}
    /\ kmem_init
    /\ VmInit
    /\ PageInit

Next ==
    \/ part = "heap" /\ KmemNext /\ UNCHANGED <<part, vm_vars, page_vars>>
    \/ part = "address spaces" /\ VmNext /\ UNCHANGED <<part, kmem_vars, page_vars>>
    \/ part = "pages" /\ PageNext /\ UNCHANGED <<part, kmem_vars, vm_vars>>

Spec == Init /\ [][Next]_<<part, kmem_vars, vm_vars, page_vars>>

\* zonenum finds the smallest zone that holds the request, for every size up
\* to the last zone's, and none for a larger one.  (Checked once, before the first
\* request.)
ZoneFits ==
    part = "heap" /\ kmem_vars = <<vm_kernel_init, [z \in Zones |-> <<>>], {}>> =>
    /\ \A size \in 1 .. ZoneMax :
           LET n == zonenum(size) + 1
           IN  /\ n \in DOMAIN ZONE_SIZES
               /\ ZONE_SIZES[n] >= size
               /\ n > 1 => ZONE_SIZES[n - 1] < size
    /\ zonenum(ZoneMax + 1) = -1
===============================================================================
