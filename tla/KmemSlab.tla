------------------------------- MODULE KmemSlab -------------------------------
(***************************************************************************)
(* The slab allocator and kmem_alloc, kern/kmem_slab.c, on the wired       *)
(* memory of VmKernel.                                                     *)
(*                                                                         *)
(* A zone is its queue of slabs.  A slab is where its objects start, the   *)
(* counter nfree and the list of its free objects.  The slab headers and   *)
(* bufctls of zones with large objects are objects of two zones of their   *)
(* own; a large slab records which ones are its.  A zone's lock is held    *)
(* throughout zonealloc and zonefree, which are therefore one step.        *)
(* Addresses and sizes are in bytes of a small page.                       *)
(***************************************************************************)
EXTENDS VmKernel, FiniteSets

CONSTANTS
    PGSIZE,
    AllocSizes,     \* object sizes of the kmem_alloc zones
    SlabSize,       \* sizeof(struct kmem_slab), and with a data pointer the
    SlabPtrSize,    \*   size of the kmem_slab zone
    BufctlSize,     \* sizeof(struct kmem_bufctl)
    kSmallSlabMax,  \* 256
    MinEntries,     \* a large slab has at least this many: 16
    Requests,       \* sizes kmem_alloc is called with
    MaxLive         \* bound: objects allocated at a time

ASSUME KmemAssumption ==
    /\ {PGSIZE, SlabSize, SlabPtrSize, BufctlSize, kSmallSlabMax, MinEntries, MaxLive}
           \subseteq Nat \ {0}
    /\ AllocSizes \subseteq Nat \ {0} /\ IsFiniteSet(AllocSizes)
    /\ Requests \subseteq Nat \ {0}

VARIABLES
    mem,    \* VmKernel's memory
    zones,  \* the queue of slabs of each zone
    live    \* what kmem_alloc has returned and nobody has freed

kmem_vars == <<mem, zones, live>>

\* A kmem_alloc zone is named by the size of its objects.
kmem_slab   == -1
kmem_bufctl == -2
NoZone      == 0   \* no zone: vm_kalloc
Zones == {kmem_slab, kmem_bufctl} \cup AllocSizes
ZoneSize(z) == CASE z = kmem_slab -> SlabPtrSize [] z = kmem_bufctl -> BufctlSize [] OTHER -> z
IsSmall(z)  == ZoneSize(z) <= kSmallSlabMax

PGROUNDUP(n) == ((n + PGSIZE - 1) \div PGSIZE) * PGSIZE
PageOf(addr) == addr \div PGSIZE

slabsize(z)     == IF IsSmall(z) THEN PGSIZE ELSE PGROUNDUP(ZoneSize(z) * MinEntries)
slabcapacity(z) == IF IsSmall(z) THEN (slabsize(z) - SlabSize) \div ZoneSize(z)
                   ELSE slabsize(z) \div ZoneSize(z)

\* No request is larger than the arena's largest class.
ASSUME KmemSizes ==
    \A n \in {PGROUNDUP(size) : size \in Requests} \cup {slabsize(z) : z \in Zones} : HasClass(n \div PGSIZE)

\* Slab headers and bufctls are small objects, and a page has room for any small object
\* and the slab's header.
ASSUME KmemSmall ==
    /\ SlabPtrSize <= kSmallSlabMax /\ BufctlSize <= kSmallSlabMax
    /\ SlabSize + kSmallSlabMax <= PGSIZE

\* zonenum, for the zone sizes of the code.
ROUNDUP(n, a) == ((n + a - 1) \div a) * a
zonenum_Round(size) ==  \* mutant: a class is rounded down
    IF size <= 64 THEN size \div 8 - 1
    ELSE IF size <= 128 THEN (size - 64) \div 16 + 7
    ELSE -1
zonenum(size) ==
    IF size <= 64 THEN ROUNDUP(size, 8) \div 8 - 1
    ELSE IF size <= 128 THEN ROUNDUP(size - 64, 16) \div 16 + 7
    ELSE IF size <= 256 THEN ROUNDUP(size - 128, 32) \div 32 + 11
    ELSE IF size <= 512 THEN ROUNDUP(size - 256, 64) \div 64 + 15
    ELSE IF size <= 1024 THEN ROUNDUP(size - 512, 128) \div 128 + 19
    ELSE IF size <= 2048 THEN ROUNDUP(size - 1024, 256) \div 256 + 23
    ELSE IF size <= 4096 THEN ROUNDUP(size - 2048, 512) \div 512 + 27
    ELSE -1
ZONE_SIZES == <<8, 16, 24, 32, 40, 48, 56, 64, 80, 96, 112, 128, 160, 192, 224, 256,
                320, 384, 448, 512, 640, 768, 896, 1024, 1280, 1536, 1792, 2048,
                2560, 3072, 3584, 4096>>
ZoneMax == ZONE_SIZES[Len(ZONE_SIZES)]

\* The zone of a request, or NoZone when there is none: the smallest
\* that is large enough.  ZoneFits shows that this is what zonenum finds.
ZoneFor(size) ==
    IF \A z \in AllocSizes : z < size THEN NoZone
    ELSE CHOOSE z \in AllocSizes : z >= size /\ \A y \in AllocSizes : y >= size => z <= y

kmem_init ==
    /\ mem = vm_kernel_init
    /\ zones = [z \in Zones |-> <<>>]
    /\ live = {}

------------------------------------------------------------------------------
\* A state of the allocator is k = [mem, zones]; an allocation also has an addr.
Halted(k) == Stopped(k.mem)

Objects(base, z) == [i \in 1 .. slabcapacity(z) |-> base + (i - 1) * ZoneSize(z)]
NewSlab(z, base, hdr, ctl) ==
    [base |-> base, nfree |-> slabcapacity(z), free |-> Objects(base, z), hdr |-> hdr, ctl |-> ctl]
WithSlab(k, z, slab) == [k EXCEPT !.zones[z] = <<slab>> \o @]

\* small_slab_new: a page, its header at the end.
small_slab_new_Overlap(k, z, page) ==  \* mutant: no room is left for the header
    LET n == PGSIZE \div ZoneSize(z)
    IN  IF Stopped(page.mem) THEN [k EXCEPT !.mem = page.mem]
        ELSE WithSlab([k EXCEPT !.mem = page.mem], z,
                 [base |-> page.addr * PGSIZE, nfree |-> n, hdr |-> 0, ctl |-> {},
                  free |-> [i \in 1 .. n |-> page.addr * PGSIZE + (i - 1) * ZoneSize(z)]])
small_slab_new(k, z, page) ==
    IF Stopped(page.mem) THEN [k EXCEPT !.mem = page.mem]
    ELSE WithSlab([k EXCEPT !.mem = page.mem], z, NewSlab(z, page.addr * PGSIZE, 0, {}))

\* The rest of zonealloc: the first slab's first free object.  A slab that has
\* none left goes to the back of the queue.
TakeFirst(k, z) ==
    LET slab == Head(k.zones[z])
        rest == [slab EXCEPT !.nfree = @ - 1, !.free = Tail(@)]
    IN  [mem |-> k.mem, addr |-> Head(slab.free),
         zones |-> [k.zones EXCEPT ![z] = IF rest.free = <<>> THEN Tail(@) \o <<rest>>
                                          ELSE <<rest>> \o Tail(@)]]
State(r) == [mem |-> r.mem, zones |-> r.zones]
Failed(k) == [mem |-> k.mem, zones |-> k.zones, addr |-> 0]

NeedsSlab(k, z) == k.zones[z] = <<>> \/ Head(k.zones[z]).nfree = 0

FromFirst(k, z) == IF Halted(k) THEN Failed(k) ELSE TakeFirst(k, z)

\* kmem_zonealloc of small objects ...
small_zonealloc(k, z) ==
    FromFirst(IF ~Halted(k) /\ NeedsSlab(k, z) THEN small_slab_new(k, z, vm_kalloc(k.mem, 1)) ELSE k, z)

\* ... which large_slab_new uses for the header h and, for each object in its data,
\* a bufctl.
WithBufctl(acc, r) == [k |-> State(r), ctl |-> acc.ctl \cup {r.addr}]
AddBufctl(acc) == WithBufctl(acc, small_zonealloc(acc.k, kmem_bufctl))
Bufctls(k, z) ==
    LET made[i \in 0 .. slabcapacity(z)] ==
            IF i = 0 THEN [k |-> k, ctl |-> {}] ELSE AddBufctl(made[i - 1])
    IN  made[slabcapacity(z)]
WithBufctls(h, data, c, z) ==
    IF Halted(c.k) THEN c.k ELSE WithSlab(c.k, z, NewSlab(z, data.addr * PGSIZE, h.addr, c.ctl))
WithData(h, data, z) ==
    WithBufctls(h, data, Bufctls([mem |-> data.mem, zones |-> h.zones], z), z)
WithHeader(h, z) ==
    IF Stopped(h.mem) THEN State(h)
    ELSE WithData(h, vm_kalloc(h.mem, slabsize(z) \div PGSIZE), z)
large_slab_new(k, z) == WithHeader(small_zonealloc(k, kmem_slab), z)

kmem_zonealloc(k, z) ==
    IF IsSmall(z) THEN small_zonealloc(k, z)
    ELSE FromFirst(IF NeedsSlab(k, z) THEN large_slab_new(k, z) ELSE k, z)

\* kmem_zonefree: small objects find their slab by their page, large ones by
\* their bufctl.  The slab keeps its place in the queue.
PutBack(slab, addr) == [slab EXCEPT !.nfree = @ + 1, !.free = <<addr>> \o @]
kmem_zonefree_Last(k, z, addr) ==  \* mutant: the wrong slab of the zone
    [k EXCEPT !.zones[z][Len(k.zones[z])] = PutBack(@, addr)]
kmem_zonefree(k, z, addr) ==
    LET i == SelectInSeq(k.zones[z], LAMBDA s : addr \in s.base .. s.base + slabsize(z) - 1)
    IN  [k EXCEPT !.zones[z][i] = PutBack(@, addr)]

------------------------------------------------------------------------------
\* _kmem_alloc and kmem_free.
WithPages(k, r) == [mem |-> r.mem, zones |-> k.zones, addr |-> r.addr * PGSIZE]
Alloc(k, size) ==
    IF ZoneFor(size) = NoZone
    THEN WithPages(k, vm_kalloc(k.mem, PGROUNDUP(size) \div PGSIZE))
    ELSE kmem_zonealloc(k, ZoneFor(size))
Free(k, addr, size) ==
    IF ZoneFor(size) = NoZone
    THEN [k EXCEPT !.mem = vm_kfree(@, PageOf(addr))]
    ELSE kmem_zonefree(k, ZoneFor(size), addr)

Now == [mem |-> mem, zones |-> zones]
Becomes(k) == mem' = k.mem /\ zones' = k.zones

Live(r, others, size) ==
    live' = IF Stopped(r.mem) THEN live ELSE others \cup {[addr |-> r.addr, size |-> size]}
Allocates(r, size) == Becomes(r) /\ Live(r, live, size)

kmem_alloc(size) ==
    /\ ~Halted(Now)
    /\ Cardinality(live) < MaxLive
    /\ Allocates(Alloc(Now, size), size)

kmem_free(o) ==
    /\ ~Halted(Now)
    /\ o \in live
    /\ Becomes(Free(Now, o.addr, o.size))
    /\ live' = live \ {o}

\* kmem_realloc to a larger size: allocate, copy and free.
Reallocates(r, o, size) ==
    /\ Becomes(IF Stopped(r.mem) THEN State(r) ELSE Free(State(r), o.addr, o.size))
    /\ Live(r, live \ {o}, size)
kmem_realloc(o, size) ==
    /\ ~Halted(Now)
    /\ o \in live
    /\ size > o.size
    /\ Reallocates(Alloc(Now, size), o, size)

KmemNext ==
    \/ \E size \in Requests : kmem_alloc(size)
    \/ \E o \in live : kmem_free(o)
    \/ \E o \in live, size \in Requests : kmem_realloc(o, size)


------------------------------------------------------------------------------
\* "a freelist is kept filled with a reserve of tags prior to each operation, so
\* that any nested operations ... can use those" (vmem.c): seg_alloc's assertion
\* never fails, although refilling is itself an allocation from both arenas; and
\* every tag is free or in a queue.
TagReserve ==
    /\ mem.stop # "assert"
    /\ mem.stop = "no" => mem.tags + Len(mem.kva.segqueue) + Len(mem.wired.segqueue)
                          = StaticTags + BlockTags * mem.blocks

\* The arenas' segments are in order and their freelists exact, even after
\* vmem_xfree has dropped segments without free neighbours.
ArenasIntact ==
    \A x \in {"kva", "wired"} : SegmentsInOrder(mem[x]) /\ FreelistsExact(mem[x])

\* Wired memory is backed: its allocated segments are kernel-va's, each of their
\* pages is mapped to a page of its own that is not free, and nothing else is
\* mapped.
WiredBacked ==
    LET wired == Allocated(mem.wired)
        mapped == {va \in KHeap : mem.kmap[va] # NoPage}
    IN  mem.stop = "no" =>
        /\ wired = Allocated(mem.kva)
        /\ mapped = UNION {Units(s) : s \in wired}
        /\ \A va, vb \in mapped : va # vb => mem.kmap[va] # mem.kmap[vb]
        /\ {mem.kmap[va] : va \in mapped} \cap Range(mem.pages) = {}
        /\ IsInjective(mem.pages)
        /\ Cardinality(mapped) + Len(mem.pages) = PhysPages

\* The bytes in use: objects, headers at the end of small slabs, headers and
\* bufctls of large ones.
Bytes(addr, n) == addr .. addr + n - 1
InUse(owner, addr, size) == [owner |-> owner, bytes |-> Bytes(addr, size)]
Used ==
    {InUse(<<"object", 0, 0>>, o.addr, o.size) : o \in live}
    \cup UNION {UNION {
        LET s == zones[z][i]
        IN  IF IsSmall(z)
            THEN {InUse(<<"header", z, i>>, s.base + PGSIZE - SlabSize, SlabSize)}
            ELSE {InUse(<<"slab", z, i>>, s.hdr, SlabPtrSize)}
                 \cup {InUse(<<"bufctl", z, i>>, c, BufctlSize) : c \in s.ctl} :
        i \in DOMAIN zones[z]} : z \in Zones}

\* Objects never overlap each other or the allocator's own data, and lie in
\* wired memory, however zones, slabs and arenas have been used before.
ObjectsDisjoint ==
    mem.stop = "no" =>
    /\ \A u, v \in Used : u # v => u.bytes \cap v.bytes = {}
    /\ \A u \in Used : \A b \in u.bytes : PageOf(b) \in KHeap /\ mem.kmap[PageOf(b)] # NoPage

\* nfree, by which zonealloc decides whether a slab has room, is the number of
\* objects on the slab's free list, and the list holds no object twice and none
\* that is in use.
SlabCounts ==
    \A z \in Zones : \A i \in DOMAIN zones[z] :
        LET s == zones[z][i]
        IN  /\ s.nfree \in 0 .. slabcapacity(z)
            /\ s.nfree = Len(s.free)
            /\ IsInjective(s.free)
            /\ Range(s.free) \subseteq Range(Objects(s.base, z))
            /\ mem.stop = "no" => \A b \in Range(s.free) :
                   \A u \in Used : Bytes(b, ZoneSize(z)) \cap u.bytes = {}
===============================================================================
