---------------------------- MODULE VirtualMemory ----------------------------
(***************************************************************************)
(* Maps, objects, copy-on-write and page faults of vm/vm.c on the page     *)
(* tables of x86_64/vm.c.                                                  *)
(*                                                                         *)
(* A call holds the lock of its map or object from its first to its last   *)
(* change, and is one step.  A process has one thread, so that a map's     *)
(* translations are cached by one CPU at a time: tlb[m] is what that CPU   *)
(* has cached.  An anon is always resident and stands for its page.  Which *)
(* free page vm_pagealloc takes does not matter here, so page tables only  *)
(* count towards the number of pages in use.  Every caller maps an object  *)
(* from its beginning.  Memory that runs out is fatal.                     *)
(***************************************************************************)
EXTENDS Vmem, FiniteSets

CONSTANTS
    Maps,        \* processes' maps
    First,       \* the first process's map
    UserPages,   \* the addresses of a map, 0 .. UserPages - 1, in pages
    Objs, Anons, \* the structures there may be at a time
    Values,      \* what a page may hold; 0 is a page of zeroes
    UserMemory,  \* pages of memory
    Levels,      \* levels of page tables below the pml4: 3
    Fanout,      \* entries of a page table: 512
    Sizes,       \* sizes of objects
    MaxCalls     \* bound: calls that change a map

ASSUME VmAssumption ==
    /\ First \in Maps
    /\ {UserPages, UserMemory, Levels, Fanout} \subseteq Nat \ {0}
    /\ \A size \in 1 .. UserPages : HasClass(size)
    /\ IsFiniteSet(Maps) /\ IsFiniteSet(Objs) /\ IsFiniteSet(Anons)
    /\ Anons \subseteq Nat \ {0}
    /\ 0 \in Values /\ Sizes \subseteq 1 .. UserPages

VAs     == 0 .. UserPages - 1
NoAnon  == 0
NoPte   == [page |-> NoAnon, write |-> FALSE]
Unmapped == [va \in VAs |-> NoPte]

VARIABLES
    procs,   \* maps that exist
    map,     \* map[m]: its arena and its entries, in order
    obj,     \* obj[o]: reference count, size, and the amap: an anon per page
    anon,    \* anon[a]: the reference count, the page's contents, and its pv table
    pte,     \* pte[m][va]
    tables,  \* tables[m]: the page tables below the pml4
    nfree,   \* free pages
    tlb,     \* tlb[m][va]: the cached translation
    roots,   \* pml4 pages allocated so far
    calls    \* calls so far

vm_vars == <<procs, map, obj, anon, pte, tables, nfree, tlb, roots, calls>>

\* The state as a value, for the functions called on the way.
VmNow == [map |-> map, obj |-> obj, anon |-> anon, pte |-> pte, tables |-> tables,
        nfree |-> nfree, tlb |-> tlb]
VmBecomes(s) ==
    /\ map' = s.map /\ obj' = s.obj /\ anon' = s.anon /\ pte' = s.pte
    /\ tables' = s.tables /\ nfree' = s.nfree /\ tlb' = s.tlb
    /\ s.nfree >= 0  \* vm_pagealloc: running out is fatal

FreeObj  == [refcnt |-> 0, size |-> 0, amap |-> [i \in VAs |-> NoAnon]]
FreeAnon == [refcnt |-> 0, content |-> 0, pv |-> {}]
NewMap   == [arena |-> vmem_init(0, UserPages), entries |-> <<>>]

------------------------------------------------------------------------------
\* Page tables.

\* The tables that lead to va, and pmap_enter_kern, which allocates those missing.
TablesFor(va) == {<<l, va \div Fanout^l>> : l \in 1 .. Levels}
pmap_enter_kern(s, m, va, a, w) ==
    LET new == TablesFor(va) \ s.tables[m]
    IN  [s EXCEPT !.tables[m] = @ \cup new, !.nfree = @ - Cardinality(new),
                  !.pte[m][va] = [page |-> a, write |-> w]]

pmap_enter(s, m, va, a, w) ==
    [pmap_enter_kern(s, m, va, a, w) EXCEPT !.anon[a].pv = @ \cup {<<m, va>>}]

\* pmap_unenter of the addresses V: a page that is not mapped is left alone, and
\* only this CPU's translation is invalidated.
pmap_unenter(s, m, V) ==
    LET mapped == {va \in V : s.pte[m][va] # NoPte}
    IN  [s EXCEPT
            !.pte[m] = [va \in VAs |-> IF va \in mapped THEN NoPte ELSE s.pte[m][va]],
            !.tlb[m] = [va \in VAs |-> IF va \in mapped THEN NoPte ELSE s.tlb[m][va]],
            !.anon = [a \in Anons |-> [s.anon[a] EXCEPT
                !.pv = @ \ {<<m, va>> : va \in {v \in mapped : s.pte[m][v].page = a}}]]]

\* pmap_reenter_all_readonly, of the pages of the anons A: every mapping is made
\* read-only and invalidated on every CPU (TlbShootdown shows that it is).
ReadOnly(s, A) ==
    [m \in Maps |-> [va \in VAs |->
        IF \E a \in A : <<m, va>> \in s.anon[a].pv
        THEN [page |-> CHOOSE a \in A : <<m, va>> \in s.anon[a].pv, write |-> FALSE]
        ELSE s.pte[m][va]]]
pmap_reenter_all_readonly_NoShootdown(s, A) ==  \* mutant: without pmap_global_invlpg
    [s EXCEPT !.pte = ReadOnly(s, A)]
pmap_reenter_all_readonly(s, A) ==
    [s EXCEPT
        !.pte = ReadOnly(s, A),
        !.tlb = [m \in Maps |-> [va \in VAs |->
            IF \E a \in A, n \in Maps : <<n, va>> \in s.anon[a].pv THEN NoPte ELSE s.tlb[m][va]]]]

\* pmap_free frees the page tables, but not the pml4.
pmap_free(s, m) ==
    [s EXCEPT !.tables[m] = {}, !.nfree = @ + Cardinality(s.tables[m])]

------------------------------------------------------------------------------
\* Anons and objects.

\* anon_new: a page of zeroes.  The caller looks for UnusedAnon itself.
UnusedAnon(s) == CHOOSE a \in {b \in Anons : s.anon[b].refcnt = 0} : TRUE
anon_new(s) ==
    [s EXCEPT !.anon[UnusedAnon(s)] = [FreeAnon EXCEPT !.refcnt = 1], !.nfree = @ - 1]
anon_copy(s, a) ==
    [anon_new(s) EXCEPT !.anon[UnusedAnon(s)].content = s.anon[a].content]

vm_aobj_new(s, o, size) == [s EXCEPT !.obj[o] = [FreeObj EXCEPT !.refcnt = 1, !.size = size]]
UnusedObj(s) == CHOOSE o \in {p \in Objs : s.obj[p].refcnt = 0} : TRUE

vm_object_retain(s, o) == [s EXCEPT !.obj[o].refcnt = @ + 1]

\* The anons of an object's amap, and how often each is there.
AmapAnons(s, o)   == {s.obj[o].amap[i] : i \in VAs} \ {NoAnon}
InAmap(s, o, a)   == Cardinality({i \in VAs : s.obj[o].amap[i] = a})

\* amap_release and its calls of anon_release, together: each anon loses these
\* references, and its page is freed with the last one.
Fewer(s, o, a) == [s.anon[a] EXCEPT !.refcnt = @ - InAmap(s, o, a)]
amap_release_NoFree(s, o) ==  \* mutant: the page is kept with its last reference
    [s EXCEPT !.anon = [a \in Anons |-> Fewer(s, o, a)]]
amap_release(s, o) ==
    LET last == {a \in AmapAnons(s, o) : s.anon[a].refcnt <= InAmap(s, o, a)}
    IN  [s EXCEPT !.anon = [a \in Anons |-> IF a \in last THEN [FreeAnon EXCEPT !.pv = s.anon[a].pv]
                                            ELSE Fewer(s, o, a)],
                  !.nfree = @ + Cardinality(last)]

vm_object_release(s, o) ==
    IF s.obj[o].refcnt > 1 THEN [s EXCEPT !.obj[o].refcnt = @ - 1]
    ELSE [amap_release(s, o) EXCEPT !.obj[o] = FreeObj]

\* vm_object_copy and amap_copy: the anons are shared and become read-only, in an
\* order that makes no difference.
amap_copy(s, o) ==
    pmap_reenter_all_readonly(
        [s EXCEPT !.anon = [a \in Anons |->
            [s.anon[a] EXCEPT !.refcnt = @ + InAmap(s, o, a)]]], AmapAnons(s, o))
vm_object_copy(s, o) ==
    [amap_copy(s, o) EXCEPT !.obj[UnusedObj(s)] = [s.obj[o] EXCEPT !.refcnt = 1]]

------------------------------------------------------------------------------
\* Maps.

Entry(start, size, o) == [start |-> start, end |-> start + size, obj |-> o]

\* vm_map_object: ok tells whether there was room.  The reference that it took
\* is not given back if there was none.
vm_map_object(s, m, o, size, min, exact) ==
    LET s1   == vm_object_retain(s, o)
        fit  == Search(s.map[m].arena, size, min, exact)
        addr == Place(s.map[m].arena.segqueue[fit], min)
    IN  IF fit = 0 THEN [ok |-> FALSE, s |-> s1]
        ELSE [ok |-> TRUE, s |-> [s1 EXCEPT
                 !.map[m].arena = split_seg(@, fit, addr, size),
                 !.map[m].entries = Append(@, Entry(addr, size, o))]]

map_entry_for_addr(p, va) ==
    SelectInSeq(p.entries, LAMBDA e : va >= e.start /\ va < e.end)

unmap_entry(s, m, e) ==
    LET freed == [s EXCEPT !.map[m].arena = vmem_xfree(@, e.start).arena]
        clear == pmap_unenter(freed, m, e.start .. e.end - 1)
    IN  [vm_object_release(clear, e.obj) EXCEPT !.map[m].entries = RemoveFirst(@, e)]

\* vm_deallocate of the addresses start .. end - 1: whole entries only.  One
\* that begins before them and ends within them is fatal, others that reach
\* beyond them are left alone.
Within(e, start, end) == e.start >= start /\ e.end <= end
Fatal(e, start, end)  == e.start < start /\ e.end > start /\ e.end < end
Deallocated(s, m, start, end) ==
    LET q == s.map[m].entries
        done[i \in 0 .. Len(q)] ==
            IF i = 0 THEN s
            ELSE IF Within(q[i], start, end) THEN unmap_entry(done[i - 1], m, q[i])
            ELSE done[i - 1]
    IN  done[Len(q)]

VmInit ==
    /\ procs = {First}
    /\ map = [m \in Maps |-> NewMap]
    /\ obj = [o \in Objs |-> FreeObj]
    /\ anon = [a \in Anons |-> FreeAnon]
    /\ pte = [m \in Maps |-> Unmapped]
    /\ tables = [m \in Maps |-> {}]
    /\ nfree = UserMemory - 1
    /\ tlb = [m \in Maps |-> Unmapped]
    /\ roots = 1
    /\ calls = 0

VmCall == calls < MaxCalls /\ calls' = calls + 1

Unused(n) == Cardinality({o \in Objs : obj[o].refcnt = 0}) >= n

\* vm_allocate, anywhere or at an address.  It returns 0 even when there was no
\* room; the object then keeps the reference of the failed vm_map_object.
vm_allocate(m, size, min, exact) ==
    LET o == UnusedObj(VmNow)
        r == vm_map_object(vm_aobj_new(VmNow, o, size), m, o, size, min, exact)
    IN  /\ VmCall
        /\ m \in procs /\ Unused(1)
        /\ VmBecomes(vm_object_release(r.s, o))
        /\ UNCHANGED <<procs, roots>>

vm_deallocate(m, start, end) ==
    /\ VmCall
    /\ m \in procs
    /\ \A i \in DOMAIN map[m].entries : ~Fatal(map[m].entries[i], start, end)
    /\ VmBecomes(Deallocated(VmNow, m, start, end))
    /\ UNCHANGED <<procs, roots>>

\* vm_map_fork: the new map, its pml4 (pmap_new), and a copy of each entry's object at the
\* same address.
CopyEntry(s, n, e) ==
    LET o == UnusedObj(s)
        r == vm_map_object(vm_object_copy(s, e.obj), n, o, e.end - e.start, e.start, TRUE)
    IN  vm_object_release(r.s, o)
Forked(s, m, n) ==
    LET q == s.map[m].entries
        done[i \in 0 .. Len(q)] ==
            IF i = 0 THEN [s EXCEPT !.map[n] = NewMap, !.nfree = @ - 1]
            ELSE CopyEntry(done[i - 1], n, q[i])
    IN  done[Len(q)]
vm_map_fork(m, n) ==
    /\ VmCall
    /\ m \in procs
    /\ n \in Maps \ procs
    /\ Unused(Len(map[m].entries))
    /\ VmBecomes(Forked(VmNow, m, n))
    /\ procs' = procs \cup {n}
    /\ roots' = roots + 1

\* vm_map_release, after another map has been activated.
vm_map_release(m) ==
    /\ VmCall
    /\ m \in procs
    /\ tlb[m] = Unmapped
    /\ VmBecomes([pmap_free(Deallocated(VmNow, m, 0, UserPages), m) EXCEPT !.map[m] = NewMap])
    /\ procs' = procs \ {m}
    /\ UNCHANGED roots

------------------------------------------------------------------------------
\* The processor: it caches a translation, or drops them all when another map
\* is activated, and stores through a cached one.
TlbFill(m, va) ==
    /\ m \in procs /\ pte[m][va] # NoPte
    /\ VmBecomes([VmNow EXCEPT !.tlb[m][va] = pte[m][va]])
    /\ UNCHANGED <<procs, roots, calls>>
vm_activate(m) ==
    /\ m \in procs /\ tlb[m] # Unmapped
    /\ VmBecomes([VmNow EXCEPT !.tlb[m] = Unmapped])
    /\ UNCHANGED <<procs, roots, calls>>
Store(m, va, v) ==
    /\ m \in procs /\ tlb[m][va].write
    /\ VmBecomes([VmNow EXCEPT !.anon[tlb[m][va].page].content = v])
    /\ UNCHANGED <<procs, roots, calls>>

\* fault_aobj: the access to page off of object o, which is mapped at va.
fault_aobj_Shared(m, va, o, off, write) ==  \* mutant: a shared anon is written in place
    LET a       == obj[o].amap[off]
        present == pte[m][va] # NoPte
        created == [anon_new(VmNow) EXCEPT !.obj[o].amap[off] = UnusedAnon(VmNow)]
    IN  IF a = NoAnon THEN pmap_enter(created, m, va, UnusedAnon(VmNow), TRUE)
        ELSE IF present THEN pmap_enter_kern(VmNow, m, va, a, TRUE)
        ELSE pmap_enter(VmNow, m, va, a, anon[a].refcnt = 1)
fault_aobj(m, va, o, off, write) ==
    LET a       == obj[o].amap[off]
        present == pte[m][va] # NoPte
        created == [anon_new(VmNow) EXCEPT !.obj[o].amap[off] = UnusedAnon(VmNow)]
        fewer   == [VmNow EXCEPT !.anon[a].refcnt = @ - 1]
        copied  == [anon_copy(fewer, a) EXCEPT !.obj[o].amap[off] = UnusedAnon(VmNow)]
    IN  IF a = NoAnon THEN pmap_enter(created, m, va, UnusedAnon(VmNow), TRUE)
        ELSE IF anon[a].refcnt > 1 /\ write
        THEN pmap_enter(IF present THEN pmap_unenter(copied, m, {va}) ELSE copied,
                        m, va, UnusedAnon(VmNow), TRUE)
        ELSE IF anon[a].refcnt > 1 THEN pmap_enter(VmNow, m, va, a, FALSE)
        ELSE IF present THEN pmap_enter_kern(VmNow, m, va, a, TRUE)
        ELSE pmap_enter(VmNow, m, va, a, TRUE)

\* vm_fault, on an access that the page table does not allow; the processor drops
\* its translation.  An address without an entry is fatal to the caller.
vm_fault(m, va, write) ==
    LET e == map[m].entries[map_entry_for_addr(map[m], va)]
    IN  /\ m \in procs
        /\ map_entry_for_addr(map[m], va) # 0
        /\ pte[m][va] = NoPte \/ (write /\ ~pte[m][va].write)
        /\ \E a \in Anons : anon[a].refcnt = 0
        /\ VmBecomes([fault_aobj(m, va, e.obj, va - e.start, write) EXCEPT !.tlb[m][va] = NoPte])
        /\ UNCHANGED <<procs, roots, calls>>

VmNext ==
    \/ \E m \in Maps, size \in Sizes : vm_allocate(m, size, 0, FALSE)
    \/ \E m \in Maps, size \in Sizes, va \in VAs : vm_allocate(m, size, va, TRUE)
    \/ \E m \in Maps, start, last \in VAs : vm_deallocate(m, start, last + 1)
    \/ \E m, n \in Maps : vm_map_fork(m, n)
    \/ \E m \in Maps : vm_map_release(m)
    \/ \E m \in Maps, va \in VAs : TlbFill(m, va)
    \/ \E m \in Maps : vm_activate(m)
    \/ \E m \in Maps, va \in VAs, v \in Values : Store(m, va, v)
    \/ \E m \in Maps, va \in VAs, write \in BOOLEAN : vm_fault(m, va, write)

------------------------------------------------------------------------------
\* The anon that map m shows at va, or NoAnon.
AnonAt(m, va) ==
    LET i == map_entry_for_addr(map[m], va)
    IN  IF i = 0 THEN NoAnon ELSE obj[map[m].entries[i].obj].amap[va - map[m].entries[i].start]

\* A translation, in a page table or cached, leads to the page of the anon that
\* is mapped there now, and allows writing only while nobody shares the anon;
\* and the pv table of each page lists exactly the page table entries that map
\* it, as pmap_unenter and pmap_reenter_all_readonly rely on.
TranslationsCurrent ==
    /\ \A m \in Maps, va \in VAs : \A t \in {pte[m][va], tlb[m][va]} : t # NoPte =>
           /\ t.page = AnonAt(m, va)
           /\ t.write => anon[t.page].refcnt = 1
    /\ \A a \in Anons : anon[a].pv = {x \in Maps \X VAs : pte[x[1]][x[2]].page = a}

\* The entries of a map are its arena's allocated segments, so that they do not
\* overlap and vmem_destroy finds none left.
EntriesMatchArena ==
    \A m \in Maps :
        LET q == map[m].arena.segqueue
        IN  /\ {Entry(s.base, s.size, 0) : s \in {x \in Range(q) : x.type = "allocated"}}
               = {[e EXCEPT !.obj = 0] : e \in Range(map[m].entries)}
            /\ SegmentsInOrder(map[m].arena)

\* Reference counts are the numbers of references: an anon's, amaps'; an
\* object's, entries' (but for an object that found no room, which
\* is never freed).
Mappings(o) == {x \in Maps \X (1 .. UserPages) : x[2] \in DOMAIN map[x[1]].entries
                                                  /\ map[x[1]].entries[x[2]].obj = o}
RefcountsExact ==
    /\ \A a \in Anons : anon[a].refcnt =
           Cardinality({x \in Objs \X VAs : obj[x[1]].amap[x[2]] = a})
    /\ \A o \in Objs :
           IF Mappings(o) # {} THEN obj[o].refcnt = Cardinality(Mappings(o))
           ELSE obj[o].refcnt \in 0 .. 1

\* Every page is free, an anon's, a page table or a pml4 - also those of maps
\* that are gone, which are never freed.
PagesAccounted ==
    UserMemory = nfree + roots + Cardinality({a \in Anons : anon[a].refcnt > 0})
                + Cardinality(UNION {{<<m, t>> : t \in tables[m]} : m \in Maps})

\* The books are right after any sequence of mapping, forking, faulting, unmapping and
\* releasing.
Bookkeeping == EntriesMatchArena /\ RefcountsExact /\ PagesAccounted

\* Copy-on-write, shared mappings, page tables and cached translations together
\* behave as objects with contents of their own.
NoView == <<>>
ViewOf(p) == [va \in VAs |->
    LET i == map_entry_for_addr(p, va)
    IN  IF i = 0 THEN NoView ELSE <<p.entries[i].obj, va - p.entries[i].start>>]
View == [m \in Maps |-> ViewOf(map[m])]
Contents == [o \in Objs |-> [i \in VAs |->
    IF obj[o].amap[i] = NoAnon THEN 0 ELSE anon[obj[o].amap[i]].content]]
Spaces == INSTANCE AddressSpaces WITH
    Offsets <- VAs, Zero <- 0, None <- NoView, view <- View, contents <- Contents
ImplementsAddressSpaces == Spaces!Spec
=============================================================================
