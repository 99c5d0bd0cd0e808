------------------------------- MODULE VmKernel -------------------------------
(***************************************************************************)
(* The kernel's wired memory, vm/vm_kernel.c, on two vmem arenas: wired    *)
(* imports each span from kernel-va and maps it page by page.  Also the    *)
(* reserve of segment tags that the arenas share (seg_alloc, seg_free and  *)
(* seg_refill of kern/vmem.c), which is itself refilled from wired memory. *)
(*                                                                         *)
(* The memory is a value m: the arenas kva and wired, the number of free   *)
(* tags, the blocks of tags made so far, the free pages (most recently     *)
(* freed first), the kernel's mappings, and why the kernel has stopped:    *)
(* "no", or an "assert", or memory has run out ("oom").                    *)
(***************************************************************************)
EXTENDS Vmem

CONSTANTS
    KHeapSize,   \* KHEAP_SIZE, in pages
    PhysPages,   \* the number of pages of memory
    StaticTags,  \* elementsof(static_segs), and nfreesegs is kept above it: 128
    BlockTags    \* tags in a block of them: 63

ASSUME VmKernelAssumption ==
    /\ {KHeapSize, PhysPages, StaticTags, BlockTags} \subseteq Nat \ {0}
    /\ StaticTags >= 7 /\ BlockTags >= 5  \* what vm_kalloc needs of them
    /\ \A size \in 1 .. KHeapSize : HasClass(size)

KHeapBase == 1  \* KHEAP_BASE, in pages
KHeap == KHeapBase .. KHeapBase + KHeapSize - 1
NoPage == 0

\* vm_kernel_init, after vmem_earlyinit.
vm_kernel_init ==
    LET kva == vmem_init(KHeapBase, KHeapSize)
    IN  [kva |-> kva, wired |-> vmem_init(0, 0), tags |-> StaticTags - Len(kva.segqueue),
         blocks |-> 0, pages |-> [i \in 1 .. PhysPages |-> i],
         kmap |-> [va \in KHeap |-> NoPage], stop |-> "no"]

Stopped(m) == m.stop # "no"

\* seg_alloc, n times: asserts that there are tags.  Here and below a kernel that
\* has stopped stays as it is.
seg_alloc(m, n) ==
    IF Stopped(m) THEN m ELSE IF m.tags < n THEN [m EXCEPT !.stop = "assert"] ELSE [m EXCEPT !.tags = @ - n]

\* The arena x becomes a; the tags given in advance that it does not use, or no
\* longer uses, are freed.
WithArena(m, x, a, given) ==
    [m EXCEPT ![x] = a, !.tags = @ + given + Len(m[x].segqueue) - Len(a.segqueue)]

\* vmem_xalloc of size pages in arena x, from the search on.  The result is the
\* memory and the address, or -1.  The two tags taken in advance are not given back
\* when there is no room.
HasRoom(m, x, size) == Search(m[x], size, 0, FALSE) # 0
xalloc(m, x, size) ==
    LET free == Search(m[x], size, 0, FALSE)
        addr == m[x].segqueue[free].base
    IN  IF Stopped(m) \/ free = 0
        THEN [mem |-> m, addr |-> -1]
        ELSE [mem |-> WithArena(m, x, split_seg(m[x], free, addr, size), 2), addr |-> addr]

\* kernel-va has no source to import from.
kva_xalloc(m, size) == xalloc(seg_alloc(m, 2), "kva", size)

\* internal_allocwired: vm_pagealloc and pmap_enter_kern, for each page of the
\* addresses allocated by r.  No addresses are fatal.
MapPages(r, size) ==
    IF Stopped(r.mem) THEN r
    ELSE IF r.addr = -1 \/ Len(r.mem.pages) < size THEN [r EXCEPT !.mem.stop = "oom"]
    ELSE [r EXCEPT !.mem.pages = SubSeq(@, size + 1, Len(@)),
                   !.mem.kmap = [va \in KHeap |-> IF va \in r.addr .. r.addr + size - 1
                                                  THEN r.mem.pages[va - r.addr + 1] ELSE @[va]]]

\* try_import of the wired arena: internal_allocwired and vmem_add_internal.
AddSpan(m, base, size) ==
    IF Stopped(m) THEN m
    ELSE WithArena(m, "wired", vmem_add_internal(m.wired, "imported", base, size), 2)
AddMapped(r, size) == AddSpan(seg_alloc(r.mem, 2), r.addr, size)
Imported(m, size) == AddMapped(MapPages(kva_xalloc(m, size), size), size)

\* seg_refill: a block of tags in a page of wired memory, allocated with
\* kVMemBootstrap so that the allocation does not refill again.
BootSupply(m, size) == IF Stopped(m) \/ HasRoom(m, "wired", size) THEN m ELSE Imported(m, size)
boot_xalloc(m, size) == xalloc(BootSupply(seg_alloc(m, 2), size), "wired", size)
AddTags(m) ==
    IF Stopped(m) THEN m ELSE [m EXCEPT !.tags = @ + BlockTags, !.blocks = @ + 1]
seg_refill_Low(m) ==  \* mutant: refilled only when there is no tag left
    IF m.tags >= 1 \/ Stopped(m) THEN m ELSE AddTags(boot_xalloc(m, 1).mem)
seg_refill(m) ==
    IF m.tags >= StaticTags \/ Stopped(m) THEN m ELSE AddTags(boot_xalloc(m, 1).mem)

\* vm_kalloc(npages, kVMKSleep): both arenas refill.
Supply(m, size) ==
    IF Stopped(m) \/ HasRoom(m, "wired", size) THEN m ELSE Imported(seg_refill(m), size)
vm_kalloc(m, npages) == xalloc(Supply(seg_alloc(seg_refill(m), 2), npages), "wired", npages)

\* internal_freewired: the addresses are given back, then the pages unmapped
\* and freed, the first one first.
internal_freewired_KeepMap(m, span) ==  \* mutant: the mapping stays
    LET mapped == [i \in 1 .. span.size |-> m.kmap[span.base + i - 1]]
    IN  [WithArena(m, "kva", vmem_xfree(m.kva, span.base).arena, 0)
            EXCEPT !.pages = Reverse(mapped) \o @]
internal_freewired(m, span) ==
    LET mapped == [i \in 1 .. span.size |-> m.kmap[span.base + i - 1]]
    IN  [WithArena(m, "kva", vmem_xfree(m.kva, span.base).arena, 0)
            EXCEPT !.pages = Reverse(mapped) \o @,
                   !.kmap = [va \in KHeap |-> IF va \in span.base .. End(span) - 1
                                              THEN NoPage ELSE @[va]]]

\* vm_kfree.
vm_kfree(m, addr) ==
    LET r == vmem_xfree(m.wired, addr)
        w == WithArena(m, "wired", r.arena, 0)
    IN  IF r.released = <<>> THEN w ELSE internal_freewired(w, Head(r.released))

------------------------------------------------------------------------------
Allocated(a) == {s \in Range(a.segqueue) : s.type = "allocated"}
Units(s) == s.base .. End(s) - 1
===============================================================================
