--------------------------------- MODULE Vmem ---------------------------------
(***************************************************************************)
(* The vmem resource allocator, kern/vmem.c: an arena as a value, and the  *)
(* functions of the allocator as operators from arena to arena.            *)
(*                                                                         *)
(* An arena is its queue of segments, in order, and its freelists, each a  *)
(* list of the bases of free segments, most recent first.  The span list   *)
(* and the hash table hold the queue's spans and allocated segments and    *)
(* are not kept apart.  Sizes are in units of the arena's quantum: the     *)
(* code's classes of sizes, powers of two of bytes, are the same.          *)
(***************************************************************************)
EXTENDS Integers, Sequences, SequencesExt

CONSTANT NFreeLists  \* kNFreeLists, 64 in the code

ASSUME VmemAssumption == NFreeLists \in Nat \ {0}

SpanTypes == {"span", "imported"}

Seg(type, base, size) == [type |-> type, base |-> base, size |-> size]
End(s) == s.base + s.size

\* freelist(size): the highest power of two that is no more than size.
InClass(size, k) == 2^k <= size /\ size < 2^(k + 1)
HasClass(size)   == \E k \in 0 .. NFreeLists - 1 : InClass(size, k)
freelist(size)   == CHOOSE k \in 0 .. NFreeLists - 1 : InClass(size, k)

freelist_insert(a, s) ==
    [a EXCEPT !.freelist[freelist(s.size)] = <<s.base>> \o @]
freelist_remove(a, s) ==
    [a EXCEPT !.freelist[freelist(s.size)] = RemoveFirst(@, s.base)]

\* The index of a segment in the queue.
IndexOf(a, s)     == SelectInSeq(a.segqueue, LAMBDA x : x = s)
AllocatedAt(a, b) == SelectInSeq(a.segqueue, LAMBDA x : x.type = "allocated" /\ x.base = b)
FreeAt(a, b)      == SelectInSeq(a.segqueue, LAMBDA x : x.type = "free" /\ x.base = b)

\* The n segments of the queue from the i-th on replaced by the segments new.
Splice(a, i, n, new) ==
    [a EXCEPT !.segqueue = SubSeq(@, 1, i - 1) \o new \o SubSeq(@, i + n, Len(@))]

\* vmem_add_internal: the span goes in front of the first span that does not
\* start below it, with a free segment after it.
vmem_add_internal(a, type, base, size) ==
    LET q    == a.segqueue
        next == SelectInSeq(q, LAMBDA x : x.type \in SpanTypes /\ x.base >= base)
        at   == IF next = 0 THEN Len(q) + 1 ELSE next
        free == Seg("free", base, size)
    IN  freelist_insert(Splice(a, at, 0, <<Seg(type, base, size), free>>), free)

\* vmem_init, of an arena with a span of its own or with none.
NoSegs == [segqueue |-> <<>>, freelist |-> [k \in 0 .. NFreeLists - 1 |-> <<>>]]
vmem_init(base, size) ==
    IF size = 0 THEN NoSegs ELSE vmem_add_internal(NoSegs, "span", base, size)

\* The place for size units in the free segment s.  Only exact requests have a
\* minimum other than 0.
Place(s, min) == IF s.base <= min THEN min ELSE s.base
Fits_TooLong(s, size, min, exact) ==  \* mutant: the end of the segment is ignored
    exact => s.base <= min
Fits(s, size, min, exact) ==
    /\ exact => s.base <= min
    /\ Place(s, min) + size <= End(s)

\* The free segment found by the search, as an index of the queue, or 0: the first
\* that fits, on the first list that has one, from the list of the size on.
Fitting(a, k, size, min, exact) ==
    {i \in DOMAIN a.freelist[k] : Fits(a.segqueue[FreeAt(a, a.freelist[k][i])], size, min, exact)}
Search(a, size, min, exact) ==
    LET lists == {k \in freelist(size) .. NFreeLists - 1 : Fitting(a, k, size, min, exact) # {}}
        k     == Min(lists)
    IN  IF lists = {} THEN 0 ELSE FreeAt(a, a.freelist[k][Min(Fitting(a, k, size, min, exact))])

\* split_seg: the rest of segment i, before and after the allocation, is free.
ListIfAny(a, segs) == IF segs = <<>> THEN a ELSE freelist_insert(a, Head(segs))
split_seg(a, i, addr, size) ==
    LET s     == a.segqueue[i]
        left  == IF addr > s.base THEN <<Seg("free", s.base, addr - s.base)>> ELSE <<>>
        right == IF addr + size < End(s)
                 THEN <<Seg("free", addr + size, End(s) - (addr + size))>> ELSE <<>>
        new   == left \o <<Seg("allocated", addr, size)>> \o right
    IN  ListIfAny(ListIfAny(Splice(freelist_remove(a, s), i, 1, new), left), right)

\* freeseg_expand, of the free segment s of two neighbours i and i + 1, to the segment
\* new that they become; the other one leaves the queue.  A segment that stays in
\* its class keeps its place on the list.
freeseg_expand(a, i, s, new) ==
    LET b == Splice(a, i, 2, <<new>>)
    IN  IF freelist(new.size) = freelist(s.size)
        THEN [b EXCEPT !.freelist[freelist(new.size)] = ReplaceAll(@, s.base, new.base)]
        ELSE freelist_insert(freelist_remove(b, s), new)

\* vmem_xfree(addr): the arena afterwards and the imported span to give back,
\* if any.  A segment that could not be merged with a neighbour leaves the
\* queue, and its units belong to no segment any more.
Merged(s, t) == Seg("free", s.base, s.size + t.size)
Unlisted(a, s) == IF s.type = "free" THEN freelist_remove(a, s) ELSE a

xfree_Left(a, s) ==
    LET i    == IndexOf(a, s)
        left == a.segqueue[i - 1]
    IN  IF left.type = "free"
        THEN [arena |-> freeseg_expand(a, i - 1, left, Merged(left, s)), seg |-> Merged(left, s)]
        ELSE [arena |-> a, seg |-> s]

xfree_Right(l) ==
    LET i     == IndexOf(l.arena, l.seg)
        right == l.arena.segqueue[i + 1]
    IN  IF i < Len(l.arena.segqueue) /\ right.type = "free"
        THEN [arena |-> freeseg_expand(Unlisted(l.arena, l.seg), i, right, Merged(l.seg, right)),
              seg |-> Merged(l.seg, right)]
        ELSE l

xfree_Span(r) ==
    LET i    == IndexOf(r.arena, r.seg)
        span == r.arena.segqueue[i - 1]
    IN  IF span.type = "imported" /\ span.size = r.seg.size
        THEN [arena |-> Splice(Unlisted(r.arena, r.seg), i - 1, 2, <<>>), released |-> <<span>>]
        ELSE [arena |-> IF r.seg.type = "free" THEN r.arena ELSE Splice(r.arena, i, 1, <<>>),
              released |-> <<>>]

vmem_xfree(a, addr) == xfree_Span(xfree_Right(xfree_Left(a, a.segqueue[AllocatedAt(a, addr)])))

------------------------------------------------------------------------------
\* What the allocator relies on: the segments of the queue follow each other
\* without overlap, each inside its span, and the freelists hold exactly the free ones,
\* each on the list of its size.
SegmentsInOrder(a) ==
    LET q == a.segqueue
        span(i) == CHOOSE j \in 1 .. i : q[j].type \in SpanTypes
                                         /\ \A k \in j + 1 .. i : q[k].type \notin SpanTypes
    IN  /\ \A i \in DOMAIN q : q[i].type \notin SpanTypes =>
              /\ q[span(i)].base <= q[i].base
              /\ End(q[i]) <= End(q[span(i)])
        /\ \A i, j \in DOMAIN q : i < j /\ {q[i].type, q[j].type} \cap SpanTypes = {}
              => End(q[i]) <= q[j].base

FreelistsExact(a) ==
    /\ \A k \in DOMAIN a.freelist : IsInjective(a.freelist[k])
    /\ \A s \in Range(a.segqueue) : s.type = "free" =>
           \E i \in DOMAIN a.freelist[freelist(s.size)] : a.freelist[freelist(s.size)][i] = s.base
    /\ \A k \in DOMAIN a.freelist : \A i \in DOMAIN a.freelist[k] :
           LET j == FreeAt(a, a.freelist[k][i])
           IN  j # 0 /\ freelist(a.segqueue[j].size) = k
===============================================================================
