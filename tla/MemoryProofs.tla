----------------------------- MODULE MemoryProofs -----------------------------
(***************************************************************************)
(* Proofs about the kernel's heap, Vmem, VmKernel and KmemSlab, in Memory, *)
(* for arenas, memories and requests of any size.                          *)
(***************************************************************************)
EXTENDS Memory, FiniteSetTheorems, WellFoundedInduction, TLAPS

\* A set of natural numbers has a least element.
LEMMA LeastNatural ==
    ASSUME NEW T, T \subseteq Nat, T # {}
    PROVE  \E n \in T : \A m \in T : n <= m
<1>1. PICK n \in T : \A m \in T : <<m, n>> \notin OpToRel(<, Nat)
  BY NatLessThanWellFounded, WFMin
<1>2. \A m \in T : ~(m < n)
  BY <1>1 DEF OpToRel
<1> QED  BY <1>2

\* The least element of a set of natural numbers is one of them.
LEMMA MinNatural ==
    ASSUME NEW T, T \subseteq Nat, T # {}
    PROVE  Min(T) \in T /\ \A m \in T : Min(T) <= m
<1>1. PICK n \in T : \A m \in T : n <= m  BY LeastNatural
<1> QED  BY <1>1 DEF Min

------------------------------------------------------------------------------
\* Arenas.

\* A segment; the size of each, and every smaller one, has a freelist.
SegType == [type : {"span", "imported", "allocated", "free"}, base : Nat, size : Nat \ {0}]
Classed(n) == \A size \in 1 .. n : HasClass(size)

\* y may come after x in the queue: it begins where x ends or later, or x is a
\* span and y is in it.
Inside(x, y)  == x.type \in SpanTypes /\ x.base <= y.base /\ End(y) <= End(x)
InOrder(x, y) == End(x) <= y.base \/ (y.type \notin SpanTypes /\ Inside(x, y))
Ordered(q)    == \A i, j \in DOMAIN q : i < j => InOrder(q[i], q[j])

\* Every segment is in a span.
Housed(q) == \A s \in Range(q) : s.type \notin SpanTypes => \E t \in Range(q) : Inside(t, s)

\* The freelists fl hold the bases of the segments F, each once, on the list of
\* its size.
Bases(F, k) == {s.base : s \in {x \in F : freelist(x.size) = k}}
Listing(fl, F) ==
    /\ fl \in [0 .. NFreeLists - 1 -> Seq(Nat)]
    /\ \A k \in 0 .. NFreeLists - 1 : IsInjective(fl[k]) /\ Range(fl[k]) = Bases(F, k)

\* The free segments of a queue.
FreeSegs(q) == {s \in Range(q) : s.type = "free"}

\* A queue that is right.
QueueOK(q) ==
    /\ q \in Seq(SegType)
    /\ Ordered(q)
    /\ Housed(q)
    /\ \A s \in Range(q) : Classed(s.size)

\* The arena a has the queue q, and the segments F on its freelists.
Has(a, q, F) ==
    /\ a \in [segqueue : Seq(SegType), freelist : [0 .. NFreeLists - 1 -> Seq(Nat)]]
    /\ a.segqueue = q
    /\ Listing(a.freelist, F)

\* An arena that is right.
ArenaOK(a) == QueueOK(a.segqueue) /\ Has(a, a.segqueue, FreeSegs(a.segqueue))

\* The list of a size is one of the freelists.
LEMMA ClassType ==
    ASSUME NEW n \in Nat \ {0}, Classed(n)
    PROVE  freelist(n) \in 0 .. NFreeLists - 1
<1>1. \E k \in 0 .. NFreeLists - 1 : InClass(n, k)  BY DEF Classed, HasClass
<1> QED  BY <1>1 DEF freelist

\* Segments of an ordered queue that are not spans and have the same base are one.
LEMMA OneAtBase ==
    ASSUME NEW q \in Seq(SegType), Ordered(q), NEW i \in DOMAIN q, NEW j \in DOMAIN q,
           q[i].type \notin SpanTypes, q[j].type \notin SpanTypes, q[i].base = q[j].base
    PROVE  i = j
<1>1. q[i] \in SegType /\ q[j] \in SegType /\ i \in Nat /\ j \in Nat  OBVIOUS
<1>2. ~(i < j) /\ ~(j < i)  BY <1>1, SMTT(30) DEF Ordered, InOrder, Inside, SegType, End, SpanTypes
<1> QED  BY <1>1, <1>2

\* No segment is in an ordered queue twice.
LEMMA QueueInjective ==
    ASSUME NEW q \in Seq(SegType), Ordered(q), NEW i \in DOMAIN q, NEW j \in DOMAIN q, q[i] = q[j]
    PROVE  i = j
<1>1. q[i] \in SegType /\ i \in Nat /\ j \in Nat  OBVIOUS
<1>2. ~InOrder(q[i], q[i])  BY <1>1 DEF InOrder, Inside, SegType, End
<1>3. ~(i < j) /\ ~(j < i)  BY <1>2 DEF Ordered
<1> QED  BY <1>1, <1>3

\* The indices that the allocator looks up.
LEMMA IndexFound ==
    ASSUME NEW a, a.segqueue \in Seq(SegType), NEW s \in Range(a.segqueue)
    PROVE  IndexOf(a, s) \in DOMAIN a.segqueue /\ a.segqueue[IndexOf(a, s)] = s
<1> DEFINE I == {i \in 1 .. Len(a.segqueue) : a.segqueue[i] = s}
<1>1. I \subseteq Nat /\ I # {}  BY DEF Range
<1>2. Min(I) \in I  BY <1>1, MinNatural
<1>3. IndexOf(a, s) = Min(I)  BY <1>1 DEF IndexOf, SelectInSeq
<1> QED  BY <1>2, <1>3

\* vmem_xfree finds the allocated segment that begins at an address.
LEMMA AllocatedFound ==
    ASSUME NEW a, a.segqueue \in Seq(SegType), Ordered(a.segqueue),
           NEW s \in Range(a.segqueue), s.type = "allocated"
    PROVE  AllocatedAt(a, s.base) \in DOMAIN a.segqueue /\ a.segqueue[AllocatedAt(a, s.base)] = s
<1> DEFINE q == a.segqueue
           I == {i \in 1 .. Len(q) : q[i].type = "allocated" /\ q[i].base = s.base}
<1>1. I \subseteq Nat /\ I # {}  BY DEF Range
<1>2. Min(I) \in I  BY <1>1, MinNatural
<1>3. AllocatedAt(a, s.base) = Min(I)  BY <1>1 DEF AllocatedAt, SelectInSeq
<1>4. PICK j \in DOMAIN q : q[j] = s  BY DEF Range
<1>5. Min(I) = j
  <2>1. Min(I) \in DOMAIN q /\ q[Min(I)].type = "allocated" /\ q[Min(I)].base = s.base  BY <1>2
  <2>2. "allocated" \notin SpanTypes  BY DEF SpanTypes
  <2> HIDE DEF I
  <2> QED  BY <1>4, <2>1, <2>2, OneAtBase
<1> QED  BY <1>2, <1>3, <1>4, <1>5

\* And vmem_xalloc the free one.
LEMMA FreeFound ==
    ASSUME NEW a, a.segqueue \in Seq(SegType), Ordered(a.segqueue),
           NEW s \in FreeSegs(a.segqueue)
    PROVE  FreeAt(a, s.base) \in DOMAIN a.segqueue /\ a.segqueue[FreeAt(a, s.base)] = s
<1> DEFINE q == a.segqueue
           I == {i \in 1 .. Len(q) : q[i].type = "free" /\ q[i].base = s.base}
<1>1. I \subseteq Nat /\ I # {}  BY DEF Range, FreeSegs
<1>2. Min(I) \in I  BY <1>1, MinNatural
<1>3. FreeAt(a, s.base) = Min(I)  BY <1>1 DEF FreeAt, SelectInSeq
<1>4. PICK j \in DOMAIN q : q[j] = s  BY DEF Range, FreeSegs
<1>5. Min(I) = j
  <2>1. Min(I) \in DOMAIN q /\ q[Min(I)].type = "free" /\ q[Min(I)].base = s.base  BY <1>2
  <2>2. "free" \notin SpanTypes /\ s.type = "free"  BY DEF SpanTypes, FreeSegs
  <2> HIDE DEF I
  <2> QED  BY <1>4, <2>1, <2>2, OneAtBase
<1> QED  BY <1>2, <1>3, <1>4, <1>5

\* An arena that is right has its segments in order and its freelists exact.
LEMMA ArenaIntact ==
    ASSUME NEW a, ArenaOK(a)
    PROVE  SegmentsInOrder(a) /\ FreelistsExact(a)
<1> DEFINE q == a.segqueue
<1>1. q \in Seq(SegType) /\ Ordered(q) /\ Housed(q)  BY DEF ArenaOK, QueueOK
<1>2. ASSUME NEW i \in DOMAIN q, q[i].type \notin SpanTypes
      PROVE  LET j == CHOOSE j \in 1 .. i : q[j].type \in SpanTypes
                                            /\ \A k \in j + 1 .. i : q[k].type \notin SpanTypes
             IN  q[j].base <= q[i].base /\ End(q[i]) <= End(q[j])
  <2> DEFINE Near(j) == q[j].type \in SpanTypes /\ \A k \in j + 1 .. i : q[k].type \notin SpanTypes
  <2>1. PICK j \in DOMAIN q : Inside(q[j], q[i])  BY <1>1, <1>2 DEF Housed, Range
  <2>2. \A k \in DOMAIN q : q[k] \in SegType /\ k \in Nat \ {0}  BY <1>1
  <2>3. j < i
    <3>1. ~(i < j)  BY <1>1, <1>2, <2>1, <2>2, SMTT(30) DEF Ordered, InOrder, Inside, SegType, End
    <3> QED  BY <1>2, <2>1, <2>2, <3>1 DEF Inside
  <2>4. ASSUME NEW k \in j + 1 .. i PROVE q[k].type \notin SpanTypes
    <3>1. k \in DOMAIN q /\ j < k /\ (k = i \/ k < i)  BY <1>1, <2>2
    <3>2. CASE k = i  BY <1>2, <3>2
    <3>3. ASSUME k < i, q[k].type \in SpanTypes PROVE FALSE
      <4>1. End(q[j]) <= q[k].base  BY <1>1, <3>1, <3>3 DEF Ordered, InOrder
      <4>2. End(q[k]) <= q[i].base \/ q[k].base <= q[i].base
        BY <1>1, <3>1, <3>3 DEF Ordered, InOrder, Inside
      <4> QED  BY <2>1, <2>2, <3>1, <4>1, <4>2 DEF Inside, SegType, End
    <3> QED  BY <3>1, <3>2, <3>3
  <2>5. Near(j) /\ j \in 1 .. i  BY <2>1, <2>2, <2>3, <2>4 DEF Inside
  <2>6. ASSUME NEW l \in 1 .. i, Near(l) PROVE l = j
    <3>1. ~(l < j) /\ ~(j < l)
      <4>1. l < j => j \in l + 1 .. i  BY <2>2, <2>3
      <4>2. j < l => l \in j + 1 .. i  BY <2>2, <2>3
      <4> QED  BY <2>5, <2>6, <4>1, <4>2
    <3> QED  BY <2>2, <3>1
  <2>7. (CHOOSE l \in 1 .. i : Near(l)) = j
    <3> HIDE DEF Near
    <3> QED  BY <2>5, <2>6
  <2>8. q[j].base <= q[i].base /\ End(q[i]) <= End(q[j])  BY <2>1 DEF Inside
  <2> QED  BY <2>7, <2>8
<1>3. ASSUME NEW i \in DOMAIN q, NEW j \in DOMAIN q, i < j,
             {q[i].type, q[j].type} \cap SpanTypes = {}
      PROVE  End(q[i]) <= q[j].base
  BY <1>1, <1>3 DEF Ordered, InOrder, Inside
<1>4. SegmentsInOrder(a)  BY <1>2, <1>3 DEF SegmentsInOrder
<1>5. DOMAIN a.freelist = 0 .. NFreeLists - 1 /\ Listing(a.freelist, FreeSegs(q))  BY DEF ArenaOK, Has
<1>6. ASSUME NEW s \in Range(q), s.type = "free"
      PROVE  \E i \in DOMAIN a.freelist[freelist(s.size)] : a.freelist[freelist(s.size)][i] = s.base
  <2>1. freelist(s.size) \in 0 .. NFreeLists - 1
    <3>1. PICK i \in DOMAIN q : s = q[i]  BY DEF Range
    <3>2. s \in SegType /\ Classed(s.size)  BY <1>1, <3>1 DEF ArenaOK, QueueOK
    <3>3. s.size \in Nat \ {0}  BY <3>2 DEF SegType
    <3> QED  BY <3>2, <3>3, ClassType
  <2>2. s.base \in Bases(FreeSegs(q), freelist(s.size))  BY <1>6 DEF Bases, FreeSegs
  <2> QED  BY <1>5, <2>1, <2>2 DEF Listing, Range
<1>7. ASSUME NEW k \in 0 .. NFreeLists - 1, NEW i \in DOMAIN a.freelist[k]
      PROVE  LET j == FreeAt(a, a.freelist[k][i])
             IN  j # 0 /\ freelist(a.segqueue[j].size) = k
  <2>1. a.freelist[k][i] \in Bases(FreeSegs(q), k)  BY <1>5 DEF Listing, Range
  <2>2. PICK s \in FreeSegs(q) : s.base = a.freelist[k][i] /\ freelist(s.size) = k
    BY <2>1 DEF Bases
  <2> QED  BY <1>1, <2>2, FreeFound
<1>8. FreelistsExact(a)  BY <1>5, <1>6, <1>7 DEF FreelistsExact, Listing
<1> QED  BY <1>4, <1>8

------------------------------------------------------------------------------
\* Changes of the queue.

\* The queue q with the n segments from the i-th on replaced by new.
Spliced(q, i, n, new) == SubSeq(q, 1, i - 1) \o new \o SubSeq(q, i + n, Len(q))

\* Where the segments of p come from, if it is that queue.
FromSplice(p, q, i, n, new) ==
    /\ Len(p) = Len(q) - n + Len(new)
    /\ \A j \in DOMAIN p : p[j] = IF j < i THEN q[j]
                                  ELSE IF j < i + Len(new) THEN new[j - i + 1]
                                  ELSE q[j - Len(new) + n]

\* Two sequences, one after the other.
LEMMA ConcatAt ==
    ASSUME NEW S, NEW s \in Seq(S), NEW t \in Seq(S)
    PROVE  /\ s \o t \in Seq(S) /\ Len(s \o t) = Len(s) + Len(t) /\ Len(s \o t) \in Nat
           /\ \A i \in 1 .. Len(s) + Len(t) :
                  (s \o t)[i] = IF i <= Len(s) THEN s[i] ELSE t[i - Len(s)]
OBVIOUS

\* The segments of the spliced queue, by their places.
LEMMA SplicedAt ==
    ASSUME NEW S, NEW q \in Seq(S), NEW new \in Seq(S), NEW i \in 1 .. Len(q) + 1,
           NEW n \in 0 .. 2, i + n <= Len(q) + 1
    PROVE  /\ Spliced(q, i, n, new) \in Seq(S)
           /\ FromSplice(Spliced(q, i, n, new), q, i, n, new)
<1> DEFINE l == SubSeq(q, 1, i - 1)
           r == SubSeq(q, i + n, Len(q))
           h == l \o new
           p == h \o r
<1>1. l \in Seq(S) /\ Len(l) = i - 1 /\ \A j \in 1 .. i - 1 : l[j] = q[j]  OBVIOUS
<1>2. /\ r \in Seq(S) /\ Len(r) = Len(q) - (i + n) + 1
      /\ \A j \in 1 .. Len(q) - (i + n) + 1 : r[j] = q[i + n + j - 1]
  OBVIOUS
<1> HIDE DEF l, r
<1>3. /\ h \in Seq(S) /\ Len(h) = Len(l) + Len(new)
      /\ \A j \in 1 .. Len(l) + Len(new) : h[j] = IF j <= Len(l) THEN l[j] ELSE new[j - Len(l)]
  BY <1>1, ConcatAt
<1> HIDE DEF h
<1>31. h \in Seq(S) /\ r \in Seq(S)  BY <1>2, <1>3
<1>4. /\ p \in Seq(S) /\ Len(p) = Len(h) + Len(r)
      /\ \A j \in 1 .. Len(h) + Len(r) : p[j] = IF j <= Len(h) THEN h[j] ELSE r[j - Len(h)]
  BY <1>31, ConcatAt
<1>5. p = Spliced(q, i, n, new)  BY DEF Spliced, p, h, l, r
<1> HIDE DEF p
<1>6. Len(new) \in Nat /\ Len(q) \in Nat /\ i \in Nat /\ n \in Nat  OBVIOUS
<1>61. Len(l) = i - 1 /\ Len(h) = i - 1 + Len(new) /\ Len(r) = Len(q) - (i + n) + 1 /\ i >= 1
  BY <1>1, <1>2, <1>3
<1>70. Len(p) = Len(h) + Len(r)  BY <1>4
<1>7. Len(p) = Len(q) - n + Len(new)  BY <1>6, <1>61, <1>70
<1>8. ASSUME NEW j \in DOMAIN p
      PROVE  p[j] = IF j < i THEN q[j]
                    ELSE IF j < i + Len(new) THEN new[j - i + 1]
                    ELSE q[j - Len(new) + n]
  <2>1. j \in 1 .. Len(h) + Len(r) /\ j \in Nat  BY <1>4
  <2>2. CASE j < i
    <3>1. j \in 1 .. i - 1 /\ j <= Len(l) /\ j <= Len(h) /\ j \in 1 .. Len(l) + Len(new)
      BY <1>6, <1>61, <2>1, <2>2
    <3> QED  BY <1>1, <1>3, <1>4, <2>1, <2>2, <3>1
  <2>3. CASE ~(j < i) /\ j < i + Len(new)
    <3>1. /\ ~(j <= Len(l)) /\ j <= Len(h) /\ j \in 1 .. Len(l) + Len(new)
          /\ j - Len(l) = j - i + 1
      BY <1>6, <1>61, <2>1, <2>3
    <3> QED  BY <1>1, <1>3, <1>4, <2>1, <2>3, <3>1
  <2>4. CASE ~(j < i + Len(new))
    <3>0. Len(h) \in Int /\ Len(r) \in Int /\ j <= Len(h) + Len(r)  BY <1>6, <1>61, <2>1
    <3>1. ~(j <= Len(h)) /\ ~(j < i)  BY <1>6, <1>61, <2>1, <2>4
    <3>2. j - Len(h) \in 1 .. Len(q) - (i + n) + 1  BY <1>6, <1>61, <2>1, <3>0, <3>1
    <3>3. i + n + (j - Len(h)) - 1 = j - Len(new) + n  BY <1>6, <1>61, <2>1
    <3> QED  BY <1>2, <1>4, <2>1, <2>4, <3>1, <3>2, <3>3
  <2> QED  BY <2>2, <2>3, <2>4
<1> QED  BY <1>4, <1>5, <1>7, <1>8 DEF FromSplice

\* Where the j-th segment of p comes from.
Origin(p, j, q, i, n, new) ==
    /\ j < i => j \in DOMAIN q /\ p[j] = q[j]
    /\ ~(j < i) /\ j < i + Len(new) => j - i + 1 \in DOMAIN new /\ p[j] = new[j - i + 1]
    /\ ~(j < i + Len(new)) => /\ j - Len(new) + n \in DOMAIN q /\ j - Len(new) + n >= i + n
                              /\ p[j] = q[j - Len(new) + n]

\* Each comes from before or after those replaced, or is new.
LEMMA SplicedFrom ==
    ASSUME NEW S, NEW q \in Seq(S), NEW new \in Seq(S), NEW i \in 1 .. Len(q) + 1,
           NEW n \in 0 .. 2, i + n <= Len(q) + 1,
           NEW p \in Seq(S), FromSplice(p, q, i, n, new), NEW j \in DOMAIN p
    PROVE  Origin(p, j, q, i, n, new)
<1>1. Len(q) \in Nat /\ Len(new) \in Nat /\ i \in Nat /\ n \in Nat /\ i >= 1  OBVIOUS
<1>2. j \in Nat /\ j >= 1 /\ j <= Len(q) - n + Len(new)  BY DEF FromSplice
<1>3. DOMAIN q = 1 .. Len(q) /\ DOMAIN new = 1 .. Len(new)  OBVIOUS
<1>4. p[j] = IF j < i THEN q[j] ELSE IF j < i + Len(new) THEN new[j - i + 1] ELSE q[j - Len(new) + n]
  BY DEF FromSplice
<1>5. ASSUME j < i PROVE j \in DOMAIN q /\ p[j] = q[j]  BY <1>1, <1>2, <1>3, <1>4, <1>5
<1>6. ASSUME ~(j < i), j < i + Len(new) PROVE j - i + 1 \in DOMAIN new /\ p[j] = new[j - i + 1]
  BY <1>1, <1>2, <1>3, <1>4, <1>6
<1>7. ASSUME ~(j < i + Len(new))
      PROVE  /\ j - Len(new) + n \in DOMAIN q /\ j - Len(new) + n >= i + n
             /\ p[j] = q[j - Len(new) + n]
  <2>1. j - Len(new) + n >= i + n /\ ~(j < i)  BY <1>1, <1>2, <1>7
  <2>2. j - Len(new) + n \in DOMAIN q  BY <1>1, <1>2, <1>3, <2>1
  <2> QED  BY <1>4, <1>7, <2>1, <2>2
<1> QED  BY <1>5, <1>6, <1>7 DEF Origin

\* Which segments it has.
LEMMA SplicedRange ==
    ASSUME NEW S, NEW q \in Seq(S), NEW new \in Seq(S), NEW i \in 1 .. Len(q) + 1,
           NEW n \in 0 .. 2, i + n <= Len(q) + 1
    PROVE  Range(Spliced(q, i, n, new)) =
               {q[j] : j \in {k \in DOMAIN q : k < i \/ k >= i + n}} \cup Range(new)
<1> DEFINE p == Spliced(q, i, n, new)
           K == {k \in DOMAIN q : k < i \/ k >= i + n}
<1>0. p \in Seq(S) /\ FromSplice(p, q, i, n, new)  BY SplicedAt
<1> HIDE DEF p
<1>1. /\ p \in Seq(S) /\ Len(p) = Len(q) - n + Len(new)
      /\ \A j \in DOMAIN p : p[j] = IF j < i THEN q[j]
                                    ELSE IF j < i + Len(new) THEN new[j - i + 1]
                                    ELSE q[j - Len(new) + n]
  BY <1>0 DEF FromSplice
<1>2. ASSUME NEW j \in DOMAIN p
      PROVE  p[j] \in {q[k] : k \in K} \cup Range(new)
  <2>1. CASE j < i  BY <1>1, <2>1
  <2>2. CASE ~(j < i) /\ j < i + Len(new)
    <3>1. j - i + 1 \in DOMAIN new  BY <1>1, <2>2
    <3> QED  BY <1>1, <2>2, <3>1 DEF Range
  <2>3. CASE ~(j < i + Len(new))
    <3>1. j - Len(new) + n \in K  BY <1>1, <2>3
    <3>2. p[j] = q[j - Len(new) + n]  BY <1>1, <2>3
    <3> QED  BY <3>1, <3>2
  <2> QED  BY <2>1, <2>2, <2>3
<1>3. ASSUME NEW k \in K PROVE q[k] \in Range(p)
  <2>1. CASE k < i
    <3>1. k \in DOMAIN p /\ p[k] = q[k]  BY <1>1, <2>1
    <3> QED  BY <3>1 DEF Range
  <2>2. CASE k >= i + n
    <3>1. k - n + Len(new) \in DOMAIN p /\ ~(k - n + Len(new) < i + Len(new))
          /\ (k - n + Len(new)) - Len(new) + n = k
      BY <1>1, <2>2
    <3>2. p[k - n + Len(new)] = q[k]  BY <1>1, <3>1
    <3> QED  BY <3>1, <3>2 DEF Range
  <2> QED  BY <2>1, <2>2
<1>4. ASSUME NEW k \in DOMAIN new PROVE new[k] \in Range(p)
  <2>1. i + k - 1 \in DOMAIN p /\ (i + k - 1) - i + 1 = k
        /\ ~(i + k - 1 < i) /\ i + k - 1 < i + Len(new)
    BY <1>1
  <2>2. p[i + k - 1] = new[k]  BY <1>1, <2>1
  <2> QED  BY <2>1, <2>2 DEF Range
<1> QED  BY <1>2, <1>3, <1>4 DEF Range, p

\* The new segments fit in where the old ones were.
FitsIn(q, i, n, new) ==
    /\ \A k \in DOMAIN q, j \in DOMAIN new : k < i => InOrder(q[k], new[j])
    /\ \A k \in DOMAIN q, j \in DOMAIN new : k >= i + n => InOrder(new[j], q[k])
    /\ Ordered(new)

\* A queue stays in order if the new segments fit in.
LEMMA SplicedOrdered ==
    ASSUME NEW q \in Seq(SegType), NEW new \in Seq(SegType), NEW i \in 1 .. Len(q) + 1,
           NEW n \in 0 .. 2, i + n <= Len(q) + 1, Ordered(q), FitsIn(q, i, n, new)
    PROVE  Ordered(Spliced(q, i, n, new))
<1> DEFINE p == Spliced(q, i, n, new)
           m == Len(new)
<1>0. p \in Seq(SegType) /\ FromSplice(p, q, i, n, new)  BY SplicedAt
<1> HIDE DEF p
<1>1. /\ p \in Seq(SegType) /\ Len(p) = Len(q) - n + m
      /\ \A j \in DOMAIN p : p[j] = IF j < i THEN q[j]
                                    ELSE IF j < i + m THEN new[j - i + 1]
                                    ELSE q[j - m + n]
  BY <1>0 DEF FromSplice
<1> SUFFICES ASSUME NEW j \in DOMAIN p, NEW k \in DOMAIN p, j < k
             PROVE  InOrder(p[j], p[k])
  BY DEF Ordered, p
<1>2. j \in Nat /\ k \in Nat /\ m \in Nat /\ Len(q) \in Nat  BY <1>1
<1>3. Origin(p, j, q, i, n, new) /\ Origin(p, k, q, i, n, new)  BY <1>0, SplicedFrom
<1>5. CASE k < i  BY <1>2, <1>3, <1>5 DEF Ordered, Origin
<1>6. CASE j < i /\ ~(k < i) /\ k < i + m  BY <1>3, <1>6 DEF FitsIn, Origin
<1>7. CASE j < i /\ ~(k < i + m)
  <2>1. j < k - m + n  BY <1>2, <1>3, <1>7 DEF Origin
  <2> QED  BY <1>2, <1>3, <1>7, <2>1 DEF Ordered, Origin
<1>8. CASE ~(j < i) /\ k < i + m
  <2>1. j - i + 1 < k - i + 1 /\ ~(k < i) /\ j < i + m  BY <1>2, <1>8
  <2> QED  BY <1>3, <1>8, <2>1 DEF FitsIn, Ordered, Origin
<1>9. CASE ~(j < i) /\ j < i + m /\ ~(k < i + m)  BY <1>3, <1>9 DEF FitsIn, Origin
<1>10. CASE ~(j < i + m)
  <2>1. j - m + n < k - m + n /\ ~(k < i + m)  BY <1>2, <1>10
  <2> QED  BY <1>3, <1>10, <2>1 DEF Ordered, Origin
<1> QED  BY <1>2, <1>5, <1>6, <1>7, <1>8, <1>9, <1>10

------------------------------------------------------------------------------
\* Changes of the freelists.

\* freelist_insert puts a segment on the list of its size.
LEMMA ListingInsert ==
    ASSUME NEW fl, NEW F \in SUBSET SegType, NEW s \in SegType, Listing(fl, F),
           freelist(s.size) \in 0 .. NFreeLists - 1,
           \A x \in F : x.base # s.base
    PROVE  Listing([fl EXCEPT ![freelist(s.size)] = <<s.base>> \o @], F \cup {s})
<1> DEFINE c == freelist(s.size)
           g == [fl EXCEPT ![c] = <<s.base>> \o @]
<1>1. s.base \in Nat /\ fl[c] \in Seq(Nat)  BY DEF SegType, Listing
<1>2. /\ <<s.base>> \o fl[c] \in Seq(Nat) /\ Len(<<s.base>> \o fl[c]) = Len(fl[c]) + 1
      /\ \A i \in 1 .. Len(fl[c]) + 1 :
             (<<s.base>> \o fl[c])[i] = IF i = 1 THEN s.base ELSE fl[c][i - 1]
  BY <1>1
<1>3. g \in [0 .. NFreeLists - 1 -> Seq(Nat)]  BY <1>2 DEF Listing
<1>4. Range(fl[c]) = Bases(F, c) /\ s.base \notin Bases(F, c) /\ IsInjective(fl[c])
  BY DEF Listing, Bases
<1>5. IsInjective(<<s.base>> \o fl[c])
  <2>1. \A i \in 1 .. Len(fl[c]) : fl[c][i] # s.base  BY <1>1, <1>4 DEF Range
  <2> DEFINE h == <<s.base>> \o fl[c]
             l == fl[c]
  <2>2. /\ DOMAIN h = 1 .. Len(l) + 1 /\ DOMAIN l = 1 .. Len(l) /\ Len(l) \in Nat
        /\ \A i \in 1 .. Len(l) + 1 : h[i] = IF i = 1 THEN s.base ELSE l[i - 1]
    BY <1>1, <1>2
  <2>3. \A i, j \in DOMAIN l : l[i] = l[j] => i = j  BY <1>4 DEF IsInjective
  <2> HIDE DEF h, l
  <2>4. ASSUME NEW i \in DOMAIN h, NEW j \in DOMAIN h, h[i] = h[j] PROVE i = j
    <3>1. i # 1 => i - 1 \in DOMAIN l /\ h[i] = l[i - 1]  BY <2>2
    <3>2. j # 1 => j - 1 \in DOMAIN l /\ h[j] = l[j - 1]  BY <2>2
    <3>3. (i = 1 => h[i] = s.base) /\ (j = 1 => h[j] = s.base)  BY <2>2
    <3>4. \A k \in DOMAIN l : l[k] # s.base  BY <2>1, <2>2 DEF l
    <3>5. i # 1 /\ j # 1 => i - 1 = j - 1  BY <2>3, <2>4, <3>1, <3>2
    <3>6. i = 1 <=> j = 1  BY <2>4, <3>1, <3>2, <3>3, <3>4
    <3> QED  BY <2>2, <3>5, <3>6
  <2>5. IsInjective(h)  BY <2>4 DEF IsInjective
  <2> QED  BY <2>5 DEF h
<1>6. Range(<<s.base>> \o fl[c]) = Range(fl[c]) \cup {s.base}
  <2> DEFINE v == <<s.base>> \o fl[c]
             u == fl[c]
  <2>0. DOMAIN v = 1 .. Len(fl[c]) + 1 /\ DOMAIN u = 1 .. Len(fl[c])  BY <1>1, <1>2
  <2>1. \A i \in 1 .. Len(fl[c]) : i + 1 \in 1 .. Len(fl[c]) + 1 /\ i + 1 # 1 /\ (i + 1) - 1 = i
    BY <1>1
  <2>2. \A i \in 1 .. Len(fl[c]) + 1 : i # 1 => i - 1 \in 1 .. Len(fl[c])  BY <1>1
  <2>3. 1 \in 1 .. Len(fl[c]) + 1  BY <1>1
  <2>4. \A i \in 1 .. Len(fl[c]) + 1 : v[i] = IF i = 1 THEN s.base ELSE u[i - 1]  BY <1>2
  <2> HIDE DEF u, v
  <2>5. Range(v) = Range(u) \cup {s.base}
    <3>1. \A i \in DOMAIN v : v[i] \in Range(u) \cup {s.base}  BY <2>0, <2>2, <2>4 DEF Range
    <3>2. \A i \in DOMAIN u : u[i] \in Range(v)
      <4>1. \A i \in DOMAIN u : v[i + 1] = u[i] /\ i + 1 \in DOMAIN v  BY <2>0, <2>1, <2>4
      <4> QED  BY <4>1 DEF Range
    <3>3. s.base \in Range(v)  BY <2>0, <2>3, <2>4 DEF Range
    <3> QED  BY <3>1, <3>2, <3>3 DEF Range
  <2> QED  BY <2>5 DEF u, v
<1>7. \A k : Bases(F \cup {s}, k) = IF k = c THEN Bases(F, k) \cup {s.base} ELSE Bases(F, k)
  BY DEF Bases
<1>8. \A k \in 0 .. NFreeLists - 1 : g[k] = IF k = c THEN <<s.base>> \o fl[c] ELSE fl[k]
  BY DEF Listing
<1> HIDE DEF g, c
<1>9. \A k \in 0 .. NFreeLists - 1 : IsInjective(g[k]) /\ Range(g[k]) = Bases(F \cup {s}, k)
  BY <1>4, <1>5, <1>6, <1>7, <1>8 DEF Listing
<1>10. Listing(g, F \cup {s})  BY <1>3, <1>9 DEF Listing
<1> QED  BY <1>10 DEF g, c

\* RemoveFirst takes an element out of an injective sequence.
LEMMA RemoveFirstOf ==
    ASSUME NEW S, NEW s \in Seq(S), IsInjective(s), NEW e
    PROVE  /\ RemoveFirst(s, e) \in Seq(S) /\ IsInjective(RemoveFirst(s, e))
           /\ Range(RemoveFirst(s, e)) = Range(s) \ {e}
<1>1. CASE ~\E i \in 1 .. Len(s) : s[i] = e  BY <1>1 DEF RemoveFirst, Range
<1>2. CASE \E i \in 1 .. Len(s) : s[i] = e
  <2> DEFINE I == {i \in 1 .. Len(s) : s[i] = e}
             m == Min(I)
             r == RemoveFirst(s, e)
  <2>1. I # {} /\ I \subseteq Nat  BY <1>2
  <2>2. m \in I  BY <2>1, MinNatural
  <2>3. r = SubSeq(s, 1, m - 1) \o SubSeq(s, m + 1, Len(s))
    BY <1>2, <2>1 DEF RemoveFirst, RemoveAt, SelectInSeq
  <2> HIDE DEF r, m, I
  <2>4. m \in 1 .. Len(s) /\ s[m] = e  BY <2>2 DEF I
  <2>5. /\ r \in Seq(S) /\ Len(r) = Len(s) - 1
        /\ \A i \in 1 .. Len(s) - 1 : r[i] = IF i < m THEN s[i] ELSE s[i + 1]
    <3> DEFINE x == SubSeq(s, 1, m - 1)
               y == SubSeq(s, m + 1, Len(s))
    <3>1. x \in Seq(S) /\ Len(x) = m - 1 /\ \A i \in 1 .. m - 1 : x[i] = s[i]  BY <2>4
    <3>2. /\ y \in Seq(S) /\ Len(y) = Len(s) - m
          /\ \A i \in 1 .. Len(s) - m : y[i] = s[m + i]
      BY <2>4
    <3>3. r = x \o y  BY <2>3
    <3> HIDE DEF x, y
    <3>4. /\ r \in Seq(S) /\ Len(r) = Len(x) + Len(y)
          /\ \A i \in 1 .. Len(x) + Len(y) : r[i] = IF i <= Len(x) THEN x[i] ELSE y[i - Len(x)]
      BY <3>1, <3>2, <3>3, ConcatAt
    <3>5. ASSUME NEW i \in 1 .. Len(s) - 1
          PROVE  r[i] = IF i < m THEN s[i] ELSE s[i + 1]
      <4>1. CASE i < m
        <5>1. i \in 1 .. m - 1 /\ i <= Len(x) /\ i \in 1 .. Len(x) + Len(y)  BY <2>4, <3>1, <3>2, <4>1
        <5> QED  BY <3>1, <3>4, <4>1, <5>1
      <4>2. CASE ~(i < m)
        <5>1. i - Len(x) \in 1 .. Len(s) - m /\ m + (i - Len(x)) = i + 1 /\ ~(i <= Len(x))
              /\ i \in 1 .. Len(x) + Len(y)
          BY <2>4, <3>1, <3>2, <4>2
        <5> QED  BY <3>2, <3>4, <4>2, <5>1
      <4> QED  BY <4>1, <4>2
    <3> QED  BY <2>4, <3>1, <3>2, <3>4, <3>5
  <2>6. IsInjective(r)
    <3> SUFFICES ASSUME NEW i \in DOMAIN r, NEW j \in DOMAIN r, r[i] = r[j] PROVE i = j
      BY DEF IsInjective
    <3>1. i \in 1 .. Len(s) - 1 /\ j \in 1 .. Len(s) - 1 /\ Len(s) \in Nat  BY <2>5
    <3>2. /\ r[i] = IF i < m THEN s[i] ELSE s[i + 1]
          /\ r[j] = IF j < m THEN s[j] ELSE s[j + 1]
      BY <2>5, <3>1
    <3>3. i \in DOMAIN s /\ j \in DOMAIN s /\ i + 1 \in DOMAIN s /\ j + 1 \in DOMAIN s  BY <3>1
    <3>4. \A a, b \in DOMAIN s : s[a] = s[b] => a = b  BY DEF IsInjective
    <3>5. CASE i < m /\ j < m  BY <3>2, <3>3, <3>4, <3>5
    <3>6. CASE i < m /\ ~(j < m)
      <4>1. i = j + 1  BY <3>2, <3>3, <3>4, <3>6
      <4> QED  BY <2>4, <3>1, <3>6, <4>1
    <3>7. CASE ~(i < m) /\ j < m
      <4>1. j = i + 1  BY <3>2, <3>3, <3>4, <3>7
      <4> QED  BY <2>4, <3>1, <3>7, <4>1
    <3>8. CASE ~(i < m) /\ ~(j < m)
      <4>1. i + 1 = j + 1  BY <3>2, <3>3, <3>4, <3>8
      <4> QED  BY <3>1, <4>1
    <3> QED  BY <3>5, <3>6, <3>7, <3>8
  <2>7. ASSUME NEW i \in 1 .. Len(s) - 1 PROVE r[i] \in Range(s) \ {e}
    <3>1. i \in DOMAIN s /\ i + 1 \in DOMAIN s /\ m \in DOMAIN s /\ (i < m => i # m) /\ (~(i < m) => i + 1 # m)
      BY <2>4
    <3> QED  BY <2>4, <2>5, <3>1 DEF Range, IsInjective
  <2>8. ASSUME NEW i \in DOMAIN s, s[i] # e PROVE s[i] \in Range(r)
    <3>1. i \in 1 .. Len(s) /\ i # m /\ Len(s) \in Nat  BY <2>4, <2>8
    <3>2. CASE i < m
      <4>1. i \in DOMAIN r /\ r[i] = s[i]  BY <2>4, <2>5, <3>1, <3>2, SMTT(30)
      <4> QED  BY <4>1 DEF Range
    <3>3. CASE ~(i < m)
      <4>1. i - 1 \in DOMAIN r /\ r[i - 1] = s[i]
        <5>1. i - 1 \in 1 .. Len(s) - 1 /\ ~(i - 1 < m) /\ (i - 1) + 1 = i  BY <2>4, <3>1, <3>3
        <5> QED  BY <2>5, <5>1
      <4> QED  BY <4>1 DEF Range
    <3> QED  BY <3>2, <3>3
  <2>9. Range(r) = Range(s) \ {e}  BY <2>5, <2>7, <2>8 DEF Range
  <2> QED  BY <2>5, <2>6, <2>9 DEF r
<1> QED  BY <1>1, <1>2

\* The bases of the segments of F are different.
OneEach(F) == \A x, y \in F : x.base = y.base => x = y

\* freelist_remove takes a segment off its list.
LEMMA ListingRemove ==
    ASSUME NEW fl, NEW F \in SUBSET SegType, NEW s \in F, Listing(fl, F), OneEach(F),
           freelist(s.size) \in 0 .. NFreeLists - 1
    PROVE  Listing([fl EXCEPT ![freelist(s.size)] = RemoveFirst(@, s.base)], F \ {s})
<1> DEFINE c == freelist(s.size)
           g == [fl EXCEPT ![c] = RemoveFirst(@, s.base)]
<1>1. fl[c] \in Seq(Nat) /\ IsInjective(fl[c]) /\ Range(fl[c]) = Bases(F, c)  BY DEF Listing
<1>2. /\ RemoveFirst(fl[c], s.base) \in Seq(Nat) /\ IsInjective(RemoveFirst(fl[c], s.base))
      /\ Range(RemoveFirst(fl[c], s.base)) = Range(fl[c]) \ {s.base}
  BY <1>1, RemoveFirstOf
<1>3. g \in [0 .. NFreeLists - 1 -> Seq(Nat)]  BY <1>2 DEF Listing
<1>4. \A k : Bases(F \ {s}, k) = IF k = c THEN Bases(F, k) \ {s.base} ELSE Bases(F, k)
  BY DEF Bases, OneEach
<1>5. \A k \in 0 .. NFreeLists - 1 : g[k] = IF k = c THEN RemoveFirst(fl[c], s.base) ELSE fl[k]
  BY DEF Listing
<1> HIDE DEF g, c
<1>6. \A k \in 0 .. NFreeLists - 1 : IsInjective(g[k]) /\ Range(g[k]) = Bases(F \ {s}, k)
  BY <1>1, <1>2, <1>4, <1>5 DEF Listing
<1>7. Listing(g, F \ {s})  BY <1>3, <1>6 DEF Listing
<1> QED  BY <1>7 DEF g, c

\* A segment that grows within its class keeps its place on the list.
LEMMA ListingReplace ==
    ASSUME NEW fl, NEW F \in SUBSET SegType, NEW s \in F, NEW t \in SegType, Listing(fl, F), OneEach(F),
           freelist(s.size) \in 0 .. NFreeLists - 1, freelist(t.size) = freelist(s.size),
           \A x \in F \ {s} : x.base # t.base
    PROVE  Listing([fl EXCEPT ![freelist(t.size)] = ReplaceAll(@, s.base, t.base)], (F \ {s}) \cup {t})
<1> DEFINE c == freelist(s.size)
           r == ReplaceAll(fl[c], s.base, t.base)
           g == [fl EXCEPT ![c] = r]
<1>1. /\ fl[c] \in Seq(Nat) /\ IsInjective(fl[c]) /\ Range(fl[c]) = Bases(F, c)
      /\ t.base \in Nat
  BY DEF Listing, SegType
<1>2. /\ r \in Seq(Nat) /\ DOMAIN r = DOMAIN fl[c]
      /\ \A i \in DOMAIN r : r[i] = IF fl[c][i] = s.base THEN t.base ELSE fl[c][i]
  <2>1. \A i \in 1 .. Len(fl[c]) : (IF fl[c][i] = s.base THEN t.base ELSE fl[c][i]) \in Nat  BY <1>1
  <2> QED  BY <1>1, <2>1 DEF ReplaceAll
<1>3. s.base \in Bases(F, c)  BY DEF Bases
<1>4. \A b \in Bases(F, c) : b = t.base => b = s.base  BY DEF Bases
<1>5. \A k : Bases((F \ {s}) \cup {t}, k) =
                IF k = c THEN (Bases(F, k) \ {s.base}) \cup {t.base} ELSE Bases(F, k)
  <2>1. \A k : Bases(F \ {s}, k) = IF k = c THEN Bases(F, k) \ {s.base} ELSE Bases(F, k)
    BY DEF Bases, OneEach
  <2>2. \A k : Bases((F \ {s}) \cup {t}, k) =
                  IF k = c THEN Bases(F \ {s}, k) \cup {t.base} ELSE Bases(F \ {s}, k)
    BY DEF Bases
  <2> QED  BY <2>1, <2>2
<1> HIDE DEF r, c
<1>6. IsInjective(r)
  <2>1. \A i \in DOMAIN fl[c] : fl[c][i] \in Bases(F, c)  BY <1>1 DEF Range
  <2> QED  BY <1>1, <1>2, <1>4, <2>1 DEF IsInjective
<1>7. Range(r) = (Bases(F, c) \ {s.base}) \cup {t.base}
  <2>1. PICK i \in DOMAIN fl[c] : fl[c][i] = s.base  BY <1>1, <1>3 DEF Range
  <2> QED  BY <1>1, <1>2, <2>1 DEF Range
<1>8. /\ g \in [0 .. NFreeLists - 1 -> Seq(Nat)]
      /\ \A k \in 0 .. NFreeLists - 1 : g[k] = IF k = c THEN r ELSE fl[k]
  BY <1>2 DEF Listing, c
<1> HIDE DEF g
<1>9. \A k \in 0 .. NFreeLists - 1 : IsInjective(g[k]) /\ Range(g[k]) = Bases((F \ {s}) \cup {t}, k)
  BY <1>5, <1>6, <1>7, <1>8 DEF Listing
<1>10. Listing(g, (F \ {s}) \cup {t})  BY <1>8, <1>9 DEF Listing
<1> QED  BY <1>10 DEF g, r, c

------------------------------------------------------------------------------
\* Changes of the arena.

\* The segments of the queue afterwards.
Cut(q, i, n) == {q[j] : j \in i .. i + n - 1}

\* Which segments the spliced queue has.
LEMMA SplicedSegs ==
    ASSUME NEW q, QueueOK(q), NEW new \in Seq(SegType), NEW i \in 1 .. Len(q) + 1,
           NEW n \in 0 .. 2, i + n <= Len(q) + 1
    PROVE  Range(Spliced(q, i, n, new)) = (Range(q) \ Cut(q, i, n)) \cup Range(new)
<1> DEFINE K == {k \in DOMAIN q : k < i \/ k >= i + n}
           J == i .. i + n - 1
<1>1. q \in Seq(SegType) /\ Ordered(q)  BY DEF QueueOK
<1>2. Range(Spliced(q, i, n, new)) = {q[k] : k \in K} \cup Range(new)  BY <1>1, SplicedRange
<1>3. \A k \in DOMAIN q : k \in K <=> k \notin J
  <2>1. i \in Int /\ n \in Int /\ Len(q) \in Nat /\ DOMAIN q = 1 .. Len(q)  BY <1>1
  <2> QED  BY <2>1
<1>4. J \subseteq DOMAIN q
  <2>1. i \in Int /\ n \in Int /\ Len(q) \in Nat /\ DOMAIN q = 1 .. Len(q)  BY <1>1
  <2> QED  BY <2>1
<1>5. \A j, k \in DOMAIN q : q[j] = q[k] => j = k  BY <1>1, QueueInjective
<1>6. K \subseteq DOMAIN q  OBVIOUS
<1> HIDE DEF K, J
<1>7. {q[k] : k \in K} = Range(q) \ {q[j] : j \in J}  BY <1>3, <1>4, <1>5, <1>6 DEF Range
<1>8. Cut(q, i, n) = {q[j] : j \in J}  BY DEF Cut, J
<1> QED  BY <1>2, <1>7, <1>8

\* Segments that are not spans do not overlap.
LEMMA Apart ==
    ASSUME NEW q, QueueOK(q), NEW s \in Range(q), NEW t \in Range(q),
           s.type \notin SpanTypes, t.type \notin SpanTypes, s # t
    PROVE  End(s) <= t.base \/ End(t) <= s.base
<1>1. PICK i \in DOMAIN q : q[i] = s  BY DEF Range
<1>2. PICK j \in DOMAIN q : q[j] = t  BY DEF Range
<1>3. i < j \/ j < i  BY <1>1, <1>2 DEF QueueOK
<1> QED  BY <1>1, <1>2, <1>3 DEF QueueOK, Ordered, InOrder, Inside

\* Nor do spans.
LEMMA SpansApart ==
    ASSUME NEW q, QueueOK(q), NEW s \in Range(q), NEW t \in Range(q),
           s.type \in SpanTypes, t.type \in SpanTypes, s # t
    PROVE  End(s) <= t.base \/ End(t) <= s.base
<1>1. PICK i \in DOMAIN q : q[i] = s  BY DEF Range
<1>2. PICK j \in DOMAIN q : q[j] = t  BY DEF Range
<1>3. i < j \/ j < i  BY <1>1, <1>2 DEF QueueOK
<1> QED  BY <1>1, <1>2, <1>3 DEF QueueOK, Ordered, InOrder, Inside

\* The fields of a segment of the queue.
LEMMA SegsTyped ==
    ASSUME NEW q, QueueOK(q), NEW s \in Range(q)
    PROVE  /\ s \in SegType /\ s.base \in Nat /\ s.size \in Nat \ {0} /\ End(s) = s.base + s.size
           /\ End(s) \in Nat /\ Classed(s.size) /\ freelist(s.size) \in 0 .. NFreeLists - 1
<1>1. s \in SegType /\ Classed(s.size)  BY DEF QueueOK, Range
<1>2. s.base \in Nat /\ s.size \in Nat \ {0}  BY <1>1 DEF SegType
<1> QED  BY <1>1, <1>2, ClassType DEF End

\* A segment is in one span.
LEMMA OneSpan ==
    ASSUME NEW q, QueueOK(q), NEW s \in Range(q), NEW t \in Range(q), NEW u \in Range(q),
           Inside(t, s), Inside(u, s)
    PROVE  t = u
<1>1. t # u => End(t) <= u.base \/ End(u) <= t.base  BY SpansApart DEF Inside
<1> QED  BY <1>1, SegsTyped DEF Inside

\* The free segments of a queue have different bases.
LEMMA FreeOneEach ==
    ASSUME NEW q, QueueOK(q)
    PROVE  OneEach(FreeSegs(q)) /\ FreeSegs(q) \in SUBSET SegType
<1>1. FreeSegs(q) \in SUBSET SegType  BY DEF FreeSegs, QueueOK, Range
<1>2. ASSUME NEW s \in FreeSegs(q), NEW t \in FreeSegs(q), s.base = t.base, s # t PROVE FALSE
  <2>1. End(s) <= t.base \/ End(t) <= s.base  BY <1>2, Apart DEF FreeSegs, SpanTypes
  <2>2. s \in Range(q) /\ t \in Range(q)  BY DEF FreeSegs
  <2> QED  BY <1>2, <2>1, <2>2, SegsTyped
<1> QED  BY <1>1, <1>2 DEF OneEach

\* Splice changes the queue and leaves the freelists alone.
LEMMA HasSplice ==
    ASSUME NEW a, NEW q, NEW F, Has(a, q, F), NEW new \in Seq(SegType), NEW i \in 1 .. Len(q) + 1,
           NEW n \in 0 .. 2, i + n <= Len(q) + 1
    PROVE  Has(Splice(a, i, n, new), Spliced(q, i, n, new), F)
<1>1. q \in Seq(SegType) /\ a.segqueue = q  BY DEF Has
<1>2. Spliced(q, i, n, new) \in Seq(SegType)  BY <1>1, SplicedAt
<1>3. Splice(a, i, n, new) = [a EXCEPT !.segqueue = Spliced(q, i, n, new)]  BY <1>1 DEF Splice, Spliced, Has
<1> QED  BY <1>2, <1>3 DEF Has

\* freelist_insert lists one more free segment.
LEMMA HasInsert ==
    ASSUME NEW a, NEW q, NEW F \in SUBSET SegType, Has(a, q, F), NEW s \in SegType,
           freelist(s.size) \in 0 .. NFreeLists - 1, \A x \in F : x.base # s.base
    PROVE  Has(freelist_insert(a, s), q, F \cup {s})
<1> DEFINE fl == [a.freelist EXCEPT ![freelist(s.size)] = <<s.base>> \o @]
<1>1. freelist_insert(a, s) = [a EXCEPT !.freelist = fl]  BY DEF freelist_insert, Has
<1>2. Listing(fl, F \cup {s})  BY ListingInsert DEF Has
<1> HIDE DEF fl
<1>3. fl \in [0 .. NFreeLists - 1 -> Seq(Nat)]  BY <1>2 DEF Listing
<1> QED  BY <1>1, <1>2, <1>3 DEF Has

\* freelist_remove lists one less.
LEMMA HasRemove ==
    ASSUME NEW a, NEW q, NEW F \in SUBSET SegType, Has(a, q, F), NEW s \in F, OneEach(F),
           freelist(s.size) \in 0 .. NFreeLists - 1
    PROVE  Has(freelist_remove(a, s), q, F \ {s})
<1> DEFINE fl == [a.freelist EXCEPT ![freelist(s.size)] = RemoveFirst(@, s.base)]
<1>1. freelist_remove(a, s) = [a EXCEPT !.freelist = fl]  BY DEF freelist_remove, Has
<1>2. Listing(fl, F \ {s})  BY ListingRemove DEF Has
<1> HIDE DEF fl
<1>3. fl \in [0 .. NFreeLists - 1 -> Seq(Nat)]  BY <1>2 DEF Listing
<1> QED  BY <1>1, <1>2, <1>3 DEF Has

\* freeseg_expand: the queue is spliced, and new is listed instead of s.
LEMMA HasExpand ==
    ASSUME NEW a, NEW q, NEW F \in SUBSET SegType, Has(a, q, F), NEW s \in F, OneEach(F),
           freelist(s.size) \in 0 .. NFreeLists - 1,
           NEW new \in SegType, freelist(new.size) \in 0 .. NFreeLists - 1,
           \A x \in F \ {s} : x.base # new.base, NEW i \in 1 .. Len(q), i + 1 <= Len(q)
    PROVE  Has(freeseg_expand(a, i, s, new), Spliced(q, i, 2, <<new>>), (F \ {s}) \cup {new})
<1> DEFINE b == Splice(a, i, 2, <<new>>)
           p == Spliced(q, i, 2, <<new>>)
           fl == [b.freelist EXCEPT ![freelist(new.size)] = ReplaceAll(@, s.base, new.base)]
<1>0. i \in 1 .. Len(q) + 1 /\ i + 2 <= Len(q) + 1 /\ <<new>> \in Seq(SegType) /\ 2 \in 0 .. 2
  <2>1. Len(q) \in Nat  BY DEF Has
  <2> QED  BY <2>1
<1>1. Has(b, p, F)  BY <1>0, HasSplice
<1> HIDE DEF b, p
<1>2. CASE freelist(new.size) = freelist(s.size)
  <2>1. freeseg_expand(a, i, s, new) = [b EXCEPT !.freelist = fl]
    BY <1>1, <1>2 DEF freeseg_expand, Has, b
  <2>2. Listing(b.freelist, F)  BY <1>1 DEF Has
  <2>3. Listing(fl, (F \ {s}) \cup {new})  BY <1>2, <2>2, ListingReplace
  <2> HIDE DEF fl
  <2>4. fl \in [0 .. NFreeLists - 1 -> Seq(Nat)]  BY <2>3 DEF Listing
  <2>5. Has(freeseg_expand(a, i, s, new), p, (F \ {s}) \cup {new})
    BY <1>1, <2>1, <2>3, <2>4 DEF Has
  <2> QED  BY <2>5 DEF p
<1>3. CASE freelist(new.size) # freelist(s.size)
  <2>1. freeseg_expand(a, i, s, new) = freelist_insert(freelist_remove(b, s), new)
    BY <1>3 DEF freeseg_expand, b
  <2>2. Has(freelist_remove(b, s), p, F \ {s})  BY <1>1, HasRemove
  <2>3. F \ {s} \in SUBSET SegType  OBVIOUS
  <2>4. Has(freelist_insert(freelist_remove(b, s), new), p, (F \ {s}) \cup {new})
    BY <2>2, <2>3, HasInsert
  <2> QED  BY <2>1, <2>4 DEF p
<1> QED  BY <1>2, <1>3

------------------------------------------------------------------------------
\* vmem_xalloc splits a segment.

\* Neighbours are in the same span.
LEMMA SameSpan ==
    ASSUME NEW q, QueueOK(q), NEW i \in DOMAIN q, i + 1 \in DOMAIN q,
           q[i].type \notin SpanTypes, q[i + 1].type \notin SpanTypes,
           NEW t \in Range(q), Inside(t, q[i + 1])
    PROVE  Inside(t, q[i])
<1>1. q \in Seq(SegType) /\ Ordered(q) /\ DOMAIN q = 1 .. Len(q) /\ Len(q) \in Nat  BY DEF QueueOK
<1>2. PICK j \in DOMAIN q : q[j] = t  BY DEF Range
<1>3. q[i] \in SegType /\ q[i + 1] \in SegType /\ q[j] \in SegType  BY <1>1, <1>2
<1>4. j # i /\ j # i + 1  BY <1>2 DEF Inside
<1>5. ~(i + 1 < j)  BY <1>1, <1>2, <1>3, SMTT(30) DEF Ordered, InOrder, Inside, SegType, End
<1>6. j < i  BY <1>1, <1>4, <1>5
<1>7. End(q[i]) <= q[i + 1].base
  <2>1. i < i + 1  BY <1>1
  <2> QED  BY <1>1, <2>1 DEF Ordered, InOrder, Inside
<1>8. InOrder(q[j], q[i])  BY <1>1, <1>6 DEF Ordered
<1> QED  BY <1>2, <1>3, <1>7, <1>8 DEF InOrder, Inside, SegType, End

\* The new segments are no spans, and in the place of one or two old ones that are none.
Inner(q, i, n, new) ==
    /\ \A j \in i .. i + n - 1 : q[j].type \notin SpanTypes
    /\ \A j \in DOMAIN new : /\ new[j].type \notin SpanTypes
                             /\ q[i].base <= new[j].base
                             /\ End(new[j]) <= End(q[i + n - 1])
                             /\ Classed(new[j].size)
    /\ Ordered(new)

\* Replacing such segments leaves the queue in order.
LEMMA SpliceInner ==
    ASSUME NEW q, QueueOK(q), NEW new \in Seq(SegType), NEW i \in DOMAIN q, NEW n \in 1 .. 2,
           i + n - 1 \in DOMAIN q, Inner(q, i, n, new)
    PROVE  QueueOK(Spliced(q, i, n, new))
<1> DEFINE p == Spliced(q, i, n, new)
           e == i + n - 1
<1>1. /\ q \in Seq(SegType) /\ Ordered(q) /\ Housed(q) /\ DOMAIN q = 1 .. Len(q) /\ Len(q) \in Nat
      /\ i \in Nat /\ n \in Nat /\ n \in 0 .. 2 /\ i \in 1 .. Len(q) + 1 /\ i + n <= Len(q) + 1
  BY DEF QueueOK
<1>2. e = i \/ e = i + 1  BY <1>1
<1>3. q[i] \in SegType /\ q[e] \in SegType /\ \A j \in DOMAIN new : new[j] \in SegType  BY <1>1
<1>4. q[i].type \notin SpanTypes /\ q[e].type \notin SpanTypes
  <2>1. i \in i .. e /\ e \in i .. e  BY <1>1
  <2> QED  BY <2>1 DEF Inner
<1>5. PICK t \in Range(q) : Inside(t, q[e])  BY <1>1, <1>4 DEF Housed, Range
<1>6. Inside(t, q[i])
  <2>1. CASE e = i  BY <1>5, <2>1
  <2>2. CASE e = i + 1
    <3> HIDE DEF e
    <3> QED  BY <1>4, <1>5, <2>2, SameSpan DEF e
  <2> QED  BY <1>2, <2>1, <2>2
<1>7. \A j \in DOMAIN new : Inside(t, new[j])
  <2>1. t \in SegType  BY <1>1 DEF Range
  <2>2. t.type \in SpanTypes /\ t.base <= q[i].base /\ End(q[e]) <= End(t)
    BY <1>5, <1>6 DEF Inside
  <2>3. t.base \in Nat /\ End(t) \in Nat /\ q[i].base \in Nat /\ End(q[e]) \in Nat
    BY <1>3, <2>1 DEF SegType, End
  <2>4. ASSUME NEW j \in DOMAIN new PROVE Inside(t, new[j])
    <3>1. q[i].base <= new[j].base /\ End(new[j]) <= End(q[e])  BY DEF Inner
    <3>2. new[j].base \in Nat /\ End(new[j]) \in Nat  BY <1>3 DEF SegType, End
    <3> HIDE DEF e
    <3> QED  BY <2>2, <2>3, <3>1, <3>2 DEF Inside
  <2> QED  BY <2>4
<1>8. FitsIn(q, i, n, new)
  <2>1. ASSUME NEW k \in DOMAIN q, NEW j \in DOMAIN new, k < i PROVE InOrder(q[k], new[j])
    <3>1. InOrder(q[k], q[i]) /\ q[k] \in SegType  BY <1>1, <2>1 DEF Ordered
    <3>2. q[i].base <= new[j].base /\ new[j].type \notin SpanTypes  BY DEF Inner
    <3>3. CASE End(q[k]) <= q[i].base
      BY <1>3, <3>1, <3>2, <3>3 DEF InOrder, SegType, End
    <3>4. CASE Inside(q[k], q[i])
      <4>1. q[k] = t
        <5>1. q[k] \in Range(q) /\ q[i] \in Range(q)  BY DEF Range
        <5> QED  BY <1>6, <3>4, <5>1, OneSpan
      <4> QED  BY <1>7, <3>2, <4>1 DEF InOrder
    <3> QED  BY <3>1, <3>3, <3>4 DEF InOrder
  <2>2. ASSUME NEW k \in DOMAIN q, NEW j \in DOMAIN new, k >= i + n PROVE InOrder(new[j], q[k])
    <3>1. e < k  BY <1>1, <2>2
    <3>2. End(q[e]) <= q[k].base  BY <1>1, <1>4, <3>1 DEF Ordered, InOrder, Inside
    <3>3. End(new[j]) <= End(q[e]) /\ q[k] \in SegType  BY <1>1 DEF Inner
    <3> QED  BY <1>3, <3>2, <3>3 DEF InOrder, SegType, End
  <2> QED  BY <2>1, <2>2 DEF FitsIn, Inner
<1> HIDE DEF e
<1>9. p \in Seq(SegType)
  <2>1. /\ q \in Seq(SegType) /\ n \in 0 .. 2 /\ i \in 1 .. Len(q) + 1 /\ i + n <= Len(q) + 1
    BY <1>1
  <2> QED  BY <2>1, SplicedAt
<1>10. Ordered(p)  BY <1>1, <1>8, SplicedOrdered
<1>11. Range(p) = (Range(q) \ Cut(q, i, n)) \cup Range(new)  BY <1>1, SplicedSegs
<1> HIDE DEF p
<1>12. ASSUME NEW s \in Range(q), s.type \in SpanTypes PROVE s \in Range(p)
  BY <1>11, <1>12 DEF Inner, Cut
<1>13. ASSUME NEW s \in Range(p), s.type \notin SpanTypes PROVE \E u \in Range(p) : Inside(u, s)
  <2>1. CASE s \in Range(new)
    <3>1. Inside(t, s)  BY <1>7, <2>1 DEF Range
    <3> QED  BY <1>5, <1>12, <3>1 DEF Inside
  <2>2. CASE s \in Range(q)
    <3>1. PICK u \in Range(q) : Inside(u, s)  BY <1>1, <1>13, <2>2 DEF Housed
    <3> QED  BY <1>12, <3>1 DEF Inside
  <2> QED  BY <1>11, <2>1, <2>2
<1>14. \A s \in Range(p) : Classed(s.size)
  <2>1. \A s \in Range(new) : Classed(s.size)  BY DEF Inner, Range
  <2> QED  BY <1>11, <2>1 DEF QueueOK
<1> QED  BY <1>9, <1>10, <1>13, <1>14 DEF QueueOK, Housed, p

\* Two pieces, as split_seg puts them together.
LEMMA TwoSegs ==
    ASSUME NEW x, NEW y
    PROVE  <<>> \o <<x>> \o <<y>> = <<x, y>>
<1> DEFINE S == {x, y}
           u == <<>> \o <<x>>
           v == <<x, y>>
<1>1. u \in Seq(S) /\ Len(u) = 1 /\ u[1] = x  OBVIOUS
<1>2. <<y>> \in Seq(S) /\ Len(<<y>>) = 1 /\ v \in Seq(S) /\ Len(v) = 2 /\ v[1] = x /\ v[2] = y  OBVIOUS
<1> HIDE DEF u, v, S
<1>3. u \o <<y>> = v  BY <1>1, <1>2, SMTT(30)
<1> QED  BY <1>3 DEF u, v

\* One segment is replaced.
LEMMA CutOne ==
    ASSUME NEW q, NEW i \in Int
    PROVE  Cut(q, i, 1) = {q[i]}
<1>1. i .. i + 1 - 1 = {i}  OBVIOUS
<1> QED  BY <1>1 DEF Cut

\* Two neighbours are replaced.
LEMMA CutTwo ==
    ASSUME NEW q, NEW i \in Int
    PROVE  Cut(q, i, 2) = {q[i], q[i + 1]}
<1>1. i .. i + 2 - 1 = {i, i + 1}  OBVIOUS
<1> QED  BY <1>1 DEF Cut

\* split_seg of the first n units of a free segment.
Rest(s, n) == Seg("free", s.base + n, s.size - n)
Taken(s, n) == Seg("allocated", s.base, n)
SplitInto(s, n) == IF n = s.size THEN <<Taken(s, n)>> ELSE <<Taken(s, n), Rest(s, n)>>

\* The pieces of a split segment are where it was.
LEMMA SplitPieces ==
    ASSUME NEW s \in SegType, s.type = "free", Classed(s.size), NEW n \in 1 .. s.size
    PROVE  /\ Taken(s, n) \in SegType /\ Classed(n) /\ SplitInto(s, n) \in Seq(SegType)
           /\ n # s.size => Rest(s, n) \in SegType /\ Classed(s.size - n)
           /\ Ordered(SplitInto(s, n))
           /\ \A j \in DOMAIN SplitInto(s, n) :
                  /\ SplitInto(s, n)[j].type \notin SpanTypes
                  /\ s.base <= SplitInto(s, n)[j].base
                  /\ End(SplitInto(s, n)[j]) <= End(s)
                  /\ Classed(SplitInto(s, n)[j].size)
<1>1. s.base \in Nat /\ s.size \in Nat \ {0} /\ n \in Nat \ {0}  BY DEF SegType
<1>2. Classed(n)  BY <1>1 DEF Classed
<1>3. Taken(s, n) \in SegType  BY <1>1 DEF Taken, Seg, SegType
<1>4. CASE n = s.size
  <2>1. SplitInto(s, n) = <<Taken(s, n)>>  BY <1>4 DEF SplitInto
  <2> QED  BY <1>1, <1>2, <1>3, <1>4, <2>1 DEF Ordered, Taken, Seg, End, SpanTypes
<1>5. CASE n # s.size
  <2>1. SplitInto(s, n) = <<Taken(s, n), Rest(s, n)>>  BY <1>5 DEF SplitInto
  <2>2. s.size - n \in Nat \ {0} /\ s.base + n \in Nat  BY <1>1, <1>5
  <2>3. Classed(s.size - n)  BY <1>1, <2>2 DEF Classed
  <2>4. Rest(s, n) \in SegType  BY <2>2 DEF Rest, Seg, SegType
  <2>5. DOMAIN SplitInto(s, n) = {1, 2} /\ SplitInto(s, n) \in Seq(SegType)
        /\ SplitInto(s, n)[1] = Taken(s, n) /\ SplitInto(s, n)[2] = Rest(s, n)
    BY <1>3, <2>1, <2>4
  <2>6. InOrder(Taken(s, n), Rest(s, n))  BY <1>1 DEF InOrder, Taken, Rest, Seg, End
  <2>7. Ordered(SplitInto(s, n))  BY <2>5, <2>6 DEF Ordered
  <2>8. /\ Taken(s, n).type \notin SpanTypes /\ Rest(s, n).type \notin SpanTypes
        /\ s.base <= Taken(s, n).base /\ s.base <= Rest(s, n).base
        /\ End(Taken(s, n)) <= End(s) /\ End(Rest(s, n)) <= End(s)
        /\ Taken(s, n).size = n /\ Rest(s, n).size = s.size - n
    BY <1>1, <2>2 DEF Taken, Rest, Seg, End, SpanTypes
  <2> QED  BY <1>2, <1>3, <1>5, <2>3, <2>4, <2>5, <2>7, <2>8
<1> QED  BY <1>4, <1>5

\* split_seg leaves the arena right: its pieces replace the free segment.
LEMMA SplitArena ==
    ASSUME NEW a, ArenaOK(a), NEW i \in DOMAIN a.segqueue, a.segqueue[i].type = "free",
           NEW n \in 1 .. a.segqueue[i].size
    PROVE  LET s == a.segqueue[i]
               b == split_seg(a, i, s.base, n)
           IN  /\ ArenaOK(b)
               /\ Range(b.segqueue) = (Range(a.segqueue) \ {s}) \cup Range(SplitInto(s, n))
               /\ Len(b.segqueue) = Len(a.segqueue) - 1 + Len(SplitInto(s, n))
<1> DEFINE q == a.segqueue
           s == q[i]
           new == SplitInto(s, n)
           p == Spliced(q, i, 1, new)
           F == FreeSegs(q)
           c == Splice(freelist_remove(a, s), i, 1, new)
           b == split_seg(a, i, s.base, n)
<1>1. QueueOK(q) /\ Has(a, q, F) /\ q \in Seq(SegType) /\ DOMAIN q = 1 .. Len(q) /\ Len(q) \in Nat
  BY DEF ArenaOK, QueueOK
<1>2. s \in Range(q) /\ s \in F  BY DEF FreeSegs, Range
<1>3. /\ s \in SegType /\ s.base \in Nat /\ s.size \in Nat \ {0} /\ End(s) = s.base + s.size
      /\ Classed(s.size) /\ freelist(s.size) \in 0 .. NFreeLists - 1
  BY <1>1, <1>2, SegsTyped
<1>4. OneEach(F) /\ F \in SUBSET SegType  BY <1>1, FreeOneEach
<1>5. /\ new \in Seq(SegType) /\ Ordered(new)
      /\ \A j \in DOMAIN new : /\ new[j].type \notin SpanTypes /\ s.base <= new[j].base
                               /\ End(new[j]) <= End(s) /\ Classed(new[j].size)
  BY <1>3, SplitPieces
<1>6. 1 \in 0 .. 2 /\ 1 \in 1 .. 2 /\ i \in 1 .. Len(q) + 1 /\ i + 1 <= Len(q) + 1 /\ i + 1 - 1 = i /\ i \in Int
  BY <1>1
<1>7. Inner(q, i, 1, new)
  <2>1. i .. i + 1 - 1 = {i}  BY <1>6
  <2>2. s.type \notin SpanTypes  BY DEF SpanTypes
  <2> HIDE DEF new
  <2> QED  BY <1>5, <1>6, <2>1, <2>2 DEF Inner
<1> HIDE DEF new
<1>8. QueueOK(p)  BY <1>1, <1>5, <1>6, <1>7, SpliceInner
<1>9. Range(p) = (Range(q) \ {s}) \cup Range(new)
  <2>1. Range(p) = (Range(q) \ Cut(q, i, 1)) \cup Range(new)  BY <1>1, <1>5, <1>6, SplicedSegs
  <2>2. Cut(q, i, 1) = {s}  BY <1>6, CutOne
  <2> QED  BY <2>1, <2>2
<1>10. Len(p) = Len(q) - 1 + Len(new)
  <2>1. FromSplice(p, q, i, 1, new)  BY <1>1, <1>5, <1>6, SplicedAt
  <2> QED  BY <2>1 DEF FromSplice
<1>11. Has(freelist_remove(a, s), q, F \ {s})  BY <1>1, <1>2, <1>3, <1>4, HasRemove
<1>12. Has(c, p, F \ {s})  BY <1>5, <1>6, <1>11, HasSplice
<1> HIDE DEF p, c
<1>13. Range(new) = IF n = s.size THEN {Taken(s, n)} ELSE {Taken(s, n), Rest(s, n)}
  BY DEF new, SplitInto, Range
<1>14. CASE n = s.size
  <2>1. b = c
    <3>1. ~(s.base > s.base) /\ ~(s.base + n < End(s))  BY <1>3, <1>14
    <3>2. <<>> \o <<Seg("allocated", s.base, n)>> \o <<>> = new
      BY <1>14 DEF new, SplitInto, Taken
    <3> HIDE DEF s
    <3> QED  BY <3>1, <3>2 DEF split_seg, ListIfAny, c, s
  <2>2. FreeSegs(p) = F \ {s}
    <3>1. Taken(s, n).type = "allocated"  BY DEF Taken, Seg
    <3> QED  BY <1>9, <1>13, <1>14, <3>1 DEF FreeSegs
  <2>3. ArenaOK(b)  BY <1>8, <1>12, <2>1, <2>2 DEF ArenaOK, Has
  <2> QED  BY <1>9, <1>10, <1>12, <2>1, <2>3 DEF Has, new
<1>15. CASE n # s.size
  <2> DEFINE r == Rest(s, n)
  <2>1. b = freelist_insert(c, r)
    <3>1. ~(s.base > s.base) /\ s.base + n < End(s) /\ End(s) - (s.base + n) = s.size - n
      BY <1>3, <1>15
    <3>2. <<>> \o <<Seg("allocated", s.base, n)>> \o <<r>> = new
      BY <1>15, TwoSegs DEF new, SplitInto, Taken
    <3>3. r = Seg("free", s.base + n, End(s) - (s.base + n))  BY <3>1 DEF Rest
    <3>4. <<r>> # <<>> /\ Head(<<r>>) = r  OBVIOUS
    <3> HIDE DEF s, r
    <3> QED  BY <3>1, <3>2, <3>3, <3>4 DEF split_seg, ListIfAny, c, s
  <2>2. r \in SegType /\ Classed(s.size - n) /\ s.size - n \in Nat \ {0}
    BY <1>3, <1>15, SplitPieces
  <2>3. r.size = s.size - n /\ r.base = s.base + n /\ r.type = "free"  BY DEF Rest, Seg
  <2>4. freelist(r.size) \in 0 .. NFreeLists - 1  BY <2>2, <2>3, ClassType
  <2>5. ASSUME NEW x \in F \ {s} PROVE x.base # r.base
    <3>1. x \in Range(q) /\ x.type \notin SpanTypes /\ s.type \notin SpanTypes /\ x # s
      BY DEF FreeSegs, SpanTypes
    <3>2. End(x) <= s.base \/ End(s) <= x.base  BY <1>1, <1>2, <3>1, Apart
    <3>3. x.base \in Nat /\ x.size \in Nat \ {0} /\ End(x) = x.base + x.size
      BY <1>1, <3>1, SegsTyped
    <3> QED  BY <1>3, <1>15, <2>3, <3>2, <3>3
  <2>6. Has(b, p, (F \ {s}) \cup {r})
    <3>1. F \ {s} \in SUBSET SegType  BY <1>4
    <3> HIDE DEF r, b, F
    <3> QED  BY <1>12, <2>1, <2>2, <2>4, <2>5, <3>1, HasInsert
  <2>7. FreeSegs(p) = (F \ {s}) \cup {r}
    <3>1. Taken(s, n).type = "allocated"  BY DEF Taken, Seg
    <3> QED  BY <1>9, <1>13, <1>15, <2>3, <3>1 DEF FreeSegs
  <2>8. ArenaOK(b)  BY <1>8, <2>6, <2>7 DEF ArenaOK, Has
  <2> QED  BY <1>9, <1>10, <2>6, <2>8 DEF Has, new
<1> QED  BY <1>14, <1>15

------------------------------------------------------------------------------
\* vmem_add_internal adds a span.

\* vmem_add_internal, of a span that overlaps no other.
SpanPair(type, base, size) == <<Seg(type, base, size), Seg("free", base, size)>>
ClearOf(q, base, size) ==
    \A s \in Range(q) : s.type \in SpanTypes => End(s) <= base \/ base + size <= s.base

\* The place for the span.
PlaceFor(q, at, base) ==
    /\ at \in 1 .. Len(q) + 1
    /\ \A k \in DOMAIN q : k < at => ~(q[k].type \in SpanTypes /\ q[k].base >= base)
    /\ at \in DOMAIN q => q[at].type \in SpanTypes /\ q[at].base >= base

\* A span and the free segment that fills it.
LEMMA SpanPairOK ==
    ASSUME NEW type \in SpanTypes, NEW base \in Nat, NEW size \in Nat \ {0}
    PROVE  LET new == SpanPair(type, base, size)
               span == Seg(type, base, size)
               free == Seg("free", base, size)
           IN  /\ span \in SegType /\ free \in SegType
               /\ new \in Seq(SegType) /\ Len(new) = 2 /\ DOMAIN new = {1, 2}
               /\ new[1] = span /\ new[2] = free
               /\ Range(new) = {span, free}
               /\ Ordered(new)
<1> DEFINE span == Seg(type, base, size)
           free == Seg("free", base, size)
           new == SpanPair(type, base, size)
<1>1. span \in SegType /\ free \in SegType  BY DEF Seg, SegType, SpanTypes
<1>2. Inside(span, free) /\ free.type \notin SpanTypes  BY DEF Seg, Inside, End, SpanTypes
<1> HIDE DEF span, free
<1>3. /\ new \in Seq(SegType) /\ Len(new) = 2 /\ DOMAIN new = {1, 2}
      /\ new[1] = span /\ new[2] = free /\ Range(new) = {span, free}
  BY <1>1 DEF SpanPair, Range, span, free
<1>4. Ordered(new)  BY <1>2, <1>3 DEF Ordered, InOrder
<1> QED  BY <1>1, <1>3, <1>4 DEF span, free

\* They go into the queue at the place of their base.
LEMMA AddQueue ==
    ASSUME NEW q, QueueOK(q), NEW type \in SpanTypes, NEW base \in Nat, NEW size \in Nat \ {0},
           Classed(size), ClearOf(q, base, size), NEW at, PlaceFor(q, at, base)
    PROVE  QueueOK(Spliced(q, at, 0, SpanPair(type, base, size)))
<1> DEFINE new == SpanPair(type, base, size)
           span == Seg(type, base, size)
           free == Seg("free", base, size)
           p == Spliced(q, at, 0, new)
<1>1. /\ q \in Seq(SegType) /\ Ordered(q) /\ Housed(q) /\ DOMAIN q = 1 .. Len(q) /\ Len(q) \in Nat
      /\ at \in 1 .. Len(q) + 1 /\ 0 \in 0 .. 2 /\ at + 0 <= Len(q) + 1 /\ at \in Int /\ at + 0 = at
  BY DEF QueueOK, PlaceFor
<1>2. /\ span \in SegType /\ free \in SegType
      /\ new \in Seq(SegType) /\ DOMAIN new = {1, 2} /\ new[1] = span /\ new[2] = free
      /\ Range(new) = {span, free} /\ Ordered(new)
  BY SpanPairOK
<1>3. /\ span.base = base /\ free.base = base /\ End(span) = base + size /\ End(free) = base + size
      /\ span.type = type /\ free.type = "free" /\ span.size = size /\ free.size = size
  BY DEF Seg, End
<1> HIDE DEF new, span, free
<1>4. ASSUME NEW k \in DOMAIN q, k < at PROVE End(q[k]) <= base
  <2>1. q[k] \in Range(q)  BY DEF Range
  <2>2. CASE q[k].type \in SpanTypes
    <3>1. ~(q[k].base >= base)  BY <1>4, <2>2 DEF PlaceFor
    <3>2. End(q[k]) <= base \/ base + size <= q[k].base  BY <2>1, <2>2 DEF ClearOf
    <3>3. q[k].base \in Nat  BY <2>1, SegsTyped
    <3> QED  BY <3>1, <3>2, <3>3
  <2>3. CASE q[k].type \notin SpanTypes
    <3>1. PICK t \in Range(q) : Inside(t, q[k])  BY <1>1, <2>1, <2>3 DEF Housed
    <3>2. PICK j \in DOMAIN q : q[j] = t  BY DEF Range
    <3>3. /\ t.base \in Nat /\ t.size \in Nat \ {0} /\ End(t) = t.base + t.size
          /\ q[k].base \in Nat /\ q[k].size \in Nat \ {0} /\ End(q[k]) = q[k].base + q[k].size
      BY <2>1, SegsTyped
    <3>4. ~(k < j)
      <4>1. k < j => End(q[k]) <= q[j].base  BY <1>1, <2>3 DEF Ordered, InOrder, Inside
      <4> QED  BY <3>1, <3>2, <3>3, <4>1 DEF Inside
    <3>5. j < at  BY <1>1, <1>4, <3>4
    <3>6. ~(t.base >= base)  BY <3>1, <3>2, <3>5 DEF PlaceFor, Inside
    <3>7. End(t) <= base \/ base + size <= t.base  BY <3>1 DEF ClearOf, Inside
    <3> QED  BY <3>1, <3>3, <3>6, <3>7 DEF Inside
  <2> QED  BY <2>2, <2>3
<1>5. ASSUME NEW k \in DOMAIN q, k >= at PROVE base + size <= q[k].base
  <2>1. at \in DOMAIN q /\ q[at].type \in SpanTypes /\ q[at].base >= base /\ q[at] \in Range(q)
    <3>1. at \in DOMAIN q  BY <1>1, <1>5
    <3> QED  BY <3>1 DEF PlaceFor, Range
  <2>2. /\ q[at].base \in Nat /\ q[at].size \in Nat \ {0} /\ End(q[at]) = q[at].base + q[at].size
        /\ q[k].base \in Nat
    <3>1. q[k] \in Range(q)  BY DEF Range
    <3> QED  BY <2>1, <3>1, SegsTyped
  <2>3. End(q[at]) <= base \/ base + size <= q[at].base  BY <2>1 DEF ClearOf
  <2>4. base + size <= q[at].base  BY <2>1, <2>2, <2>3
  <2>5. CASE k = at  BY <2>4, <2>5
  <2>6. CASE k # at
    <3>1. InOrder(q[at], q[k])  BY <1>1, <1>5, <2>1, <2>6 DEF Ordered
    <3>2. q[at].base <= q[k].base  BY <2>2, <3>1 DEF InOrder, Inside
    <3> QED  BY <2>2, <2>4, <3>2
  <2> QED  BY <2>5, <2>6
<1>6. FitsIn(q, at, 0, new)
  <2>1. ASSUME NEW k \in DOMAIN q, NEW j \in DOMAIN new, k < at PROVE InOrder(q[k], new[j])
    BY <1>2, <1>3, <1>4, <2>1 DEF InOrder
  <2>2. ASSUME NEW k \in DOMAIN q, NEW j \in DOMAIN new, k >= at + 0 PROVE InOrder(new[j], q[k])
    BY <1>1, <1>2, <1>3, <1>5, <2>2 DEF InOrder
  <2> QED  BY <1>2, <2>1, <2>2 DEF FitsIn
<1>7. p \in Seq(SegType)  BY <1>1, <1>2, SplicedAt
<1>8. Ordered(p)  BY <1>1, <1>2, <1>6, SplicedOrdered
<1>9. Range(p) = Range(q) \cup {span, free}
  <2>1. Range(p) = (Range(q) \ Cut(q, at, 0)) \cup Range(new)  BY <1>1, <1>2, SplicedSegs
  <2>2. Cut(q, at, 0) = {}
    <3>1. at .. at + 0 - 1 = {}  BY <1>1
    <3> QED  BY <3>1 DEF Cut
  <2> QED  BY <1>2, <2>1, <2>2
<1> HIDE DEF p
<1>10. Housed(p)
  <2>1. Inside(span, free)  BY <1>3 DEF Inside
  <2> QED  BY <1>1, <1>3, <1>9, <2>1 DEF Housed
<1>11. \A s \in Range(p) : Classed(s.size)  BY <1>3, <1>9 DEF QueueOK
<1> QED  BY <1>7, <1>8, <1>10, <1>11 DEF QueueOK, p, new

\* vmem_add_internal leaves the arena right.
LEMMA AddArena ==
    ASSUME NEW a, ArenaOK(a), NEW type \in SpanTypes, NEW base \in Nat, NEW size \in Nat \ {0},
           Classed(size), ClearOf(a.segqueue, base, size)
    PROVE  LET b == vmem_add_internal(a, type, base, size)
           IN  /\ ArenaOK(b)
               /\ Range(b.segqueue) = Range(a.segqueue) \cup {Seg(type, base, size), Seg("free", base, size)}
               /\ Len(b.segqueue) = Len(a.segqueue) + 2
<1> DEFINE q == a.segqueue
           I == {i \in 1 .. Len(q) : q[i].type \in SpanTypes /\ q[i].base >= base}
           at == IF I = {} THEN Len(q) + 1 ELSE Min(I)
           new == SpanPair(type, base, size)
           span == Seg(type, base, size)
           free == Seg("free", base, size)
           p == Spliced(q, at, 0, new)
           F == FreeSegs(q)
           c == Splice(a, at, 0, new)
           b == vmem_add_internal(a, type, base, size)
<1>1. QueueOK(q) /\ Has(a, q, F) /\ q \in Seq(SegType) /\ DOMAIN q = 1 .. Len(q) /\ Len(q) \in Nat
  BY DEF ArenaOK, QueueOK
<1>2. I # {} => Min(I) \in I /\ \A m \in I : Min(I) <= m
  <2>1. I \subseteq Nat  BY <1>1
  <2> HIDE DEF I
  <2> QED  BY <2>1, MinNatural
<1>3. PlaceFor(q, at, base)
  <2>1. CASE I = {}  BY <1>1, <2>1 DEF PlaceFor
  <2>2. CASE I # {}
    <3> DEFINE m == Min(I)
    <3>1. m \in I /\ \A k \in I : m <= k  BY <1>2, <2>2
    <3>2. at = m  BY <2>2
    <3> HIDE DEF m, at
    <3>3. m \in 1 .. Len(q) /\ q[m].type \in SpanTypes /\ q[m].base >= base  BY <3>1
    <3>4. \A k \in DOMAIN q : k < m => k \notin I  BY <1>1, <3>1, <3>3
    <3> QED  BY <1>1, <3>2, <3>3, <3>4 DEF PlaceFor
  <2> QED  BY <2>1, <2>2
<1>4. b = freelist_insert(c, free)
  <2> DEFINE nxt == SelectInSeq(q, LAMBDA x : x.type \in SpanTypes /\ x.base >= base)
  <2>1. nxt = IF I = {} THEN 0 ELSE Min(I)  BY <1>1 DEF SelectInSeq
  <2>2. (IF nxt = 0 THEN Len(q) + 1 ELSE nxt) = at
    <3>1. I # {} => Min(I) # 0  BY <1>1, <1>2
    <3> HIDE DEF I, nxt
    <3> QED  BY <2>1, <3>1
  <2> HIDE DEF at
  <2> QED  BY <2>2 DEF vmem_add_internal, SpanPair
<1> HIDE DEF at, I
<1>5. at \in 1 .. Len(q) + 1 /\ 0 \in 0 .. 2 /\ at + 0 <= Len(q) + 1 /\ at \in Int  BY <1>1, <1>3 DEF PlaceFor
<1>6. QueueOK(p)  BY <1>1, <1>3, AddQueue
<1>7. /\ span \in SegType /\ free \in SegType
      /\ new \in Seq(SegType) /\ Len(new) = 2 /\ Range(new) = {span, free}
  BY SpanPairOK
<1>8. /\ free.base = base /\ free.type = "free" /\ free.size = size /\ span.type = type
      /\ End(free) = base + size
  BY DEF Seg, End
<1> HIDE DEF new, span, free
<1>9. Range(p) = Range(q) \cup {span, free}
  <2>1. Range(p) = (Range(q) \ Cut(q, at, 0)) \cup Range(new)  BY <1>1, <1>5, <1>7, SplicedSegs
  <2>2. Cut(q, at, 0) = {}
    <3>1. at .. at + 0 - 1 = {}  BY <1>5
    <3> QED  BY <3>1 DEF Cut
  <2> QED  BY <1>7, <2>1, <2>2
<1>10. Len(p) = Len(q) + 2
  <2>1. FromSplice(p, q, at, 0, new)  BY <1>1, <1>5, <1>7, SplicedAt
  <2> QED  BY <1>1, <1>7, <2>1 DEF FromSplice
<1>11. Has(c, p, F)  BY <1>1, <1>5, <1>7, HasSplice
<1> HIDE DEF p, c
<1>12. F \in SUBSET SegType  BY <1>1, FreeOneEach
<1>13. freelist(free.size) \in 0 .. NFreeLists - 1  BY <1>8, ClassType
<1>14. ASSUME NEW x \in F PROVE x.base # free.base
  <2>1. x \in Range(q) /\ x.type \notin SpanTypes  BY DEF FreeSegs, SpanTypes
  <2>2. PICK t \in Range(q) : Inside(t, x)  BY <1>1, <2>1 DEF QueueOK, Housed
  <2>3. End(t) <= base \/ base + size <= t.base  BY <2>2 DEF ClearOf, Inside
  <2>4. /\ t.base \in Nat /\ x.base \in Nat /\ x.size \in Nat \ {0} /\ End(x) = x.base + x.size
        /\ End(t) \in Nat
    BY <1>1, <2>1, SegsTyped
  <2> QED  BY <1>8, <2>2, <2>3, <2>4 DEF Inside
<1>15. Has(b, p, F \cup {free})
  <2> HIDE DEF b, F
  <2> QED  BY <1>4, <1>7, <1>11, <1>12, <1>13, <1>14, HasInsert
<1>16. FreeSegs(p) = F \cup {free}
  <2>1. span.type # "free"  BY <1>8 DEF SpanTypes
  <2> QED  BY <1>8, <1>9, <2>1 DEF FreeSegs
<1>17. ArenaOK(b)  BY <1>6, <1>15, <1>16 DEF ArenaOK, Has
<1> QED  BY <1>9, <1>10, <1>15, <1>17 DEF Has, span, free

------------------------------------------------------------------------------
\* vmem_xfree merges free segments and gives spans back.

\* Two neighbours, one of them free, become one free segment; what is free of them
\* was listed and is no longer.
LEMMA MergeArena ==
    ASSUME NEW a, ArenaOK(a), NEW i \in DOMAIN a.segqueue, i + 1 \in DOMAIN a.segqueue,
           NEW f, NEW o, f.type = "free", o.type \notin SpanTypes,
           \/ f = a.segqueue[i] /\ o = a.segqueue[i + 1]
           \/ o = a.segqueue[i] /\ f = a.segqueue[i + 1]
    PROVE  LET x == a.segqueue[i]
               y == a.segqueue[i + 1]
               b == freeseg_expand(Unlisted(a, o), i, f, Merged(x, y))
           IN  /\ ArenaOK(b)
               /\ Range(b.segqueue) = (Range(a.segqueue) \ {x, y}) \cup {Merged(x, y)}
               /\ Len(b.segqueue) = Len(a.segqueue) - 1
<1> DEFINE q == a.segqueue
           x == q[i]
           y == q[i + 1]
           m == Merged(x, y)
           new == <<m>>
           p == Spliced(q, i, 2, new)
           F == FreeSegs(q)
           c == Unlisted(a, o)
           b == freeseg_expand(c, i, f, m)
<1>1. QueueOK(q) /\ Has(a, q, F) /\ q \in Seq(SegType) /\ DOMAIN q = 1 .. Len(q) /\ Len(q) \in Nat
  BY DEF ArenaOK, QueueOK
<1>2. x \in Range(q) /\ y \in Range(q) /\ f \in Range(q) /\ o \in Range(q)  BY DEF Range
<1>3. x.type \notin SpanTypes /\ y.type \notin SpanTypes /\ f.type \notin SpanTypes  BY DEF SpanTypes
<1>4. /\ x.base \in Nat /\ x.size \in Nat \ {0} /\ End(x) = x.base + x.size
      /\ y.base \in Nat /\ y.size \in Nat \ {0} /\ End(y) = y.base + y.size
      /\ freelist(f.size) \in 0 .. NFreeLists - 1 /\ freelist(o.size) \in 0 .. NFreeLists - 1
  BY <1>1, <1>2, SegsTyped
<1>5. End(x) <= y.base
  <2>1. i < i + 1  BY <1>1
  <2> QED  BY <1>1, <1>3, <2>1 DEF QueueOK, Ordered, InOrder, Inside
<1>6. m.type = "free" /\ m.base = x.base /\ m.size = x.size + y.size /\ End(m) = x.base + (x.size + y.size)
  BY DEF Merged, Seg, End
<1>7. m \in SegType  BY <1>4, <1>6 DEF Merged, Seg, SegType
<1>8. PICK t \in Range(q) : Inside(t, y)  BY <1>1, <1>2, <1>3 DEF QueueOK, Housed
<1>9. Inside(t, x)  BY <1>1, <1>3, <1>8, SameSpan
<1>10. t.base \in Nat /\ t.size \in Nat \ {0} /\ End(t) = t.base + t.size /\ Classed(t.size)
  BY <1>1, SegsTyped
<1>11. Classed(m.size) /\ m.size \in Nat \ {0}
  <2>1. m.size \in Nat \ {0}  BY <1>4, <1>6
  <2>2. m.size <= t.size
    <3>1. t.base <= x.base /\ End(y) <= End(t)  BY <1>8, <1>9 DEF Inside
    <3> QED  BY <1>4, <1>5, <1>6, <1>10, <3>1
  <2> QED  BY <1>10, <2>1, <2>2 DEF Classed
<1>12. freelist(m.size) \in 0 .. NFreeLists - 1  BY <1>11, ClassType
<1> HIDE DEF m
<1>13. new \in Seq(SegType) /\ Len(new) = 1 /\ DOMAIN new = {1} /\ new[1] = m /\ Range(new) = {m}
  BY <1>7 DEF Range
<1>14. 2 \in 0 .. 2 /\ 2 \in 1 .. 2 /\ i \in 1 .. Len(q) + 1 /\ i + 2 <= Len(q) + 1 /\ i + 2 - 1 = i + 1
       /\ i \in Int /\ i \in 1 .. Len(q) /\ i + 1 <= Len(q)
  BY <1>1
<1>15. Inner(q, i, 2, new)
  <2>1. i .. i + 2 - 1 = {i, i + 1}  BY <1>14
  <2>2. End(m) <= End(y)  BY <1>4, <1>5, <1>6
  <2>3. x.base <= m.base /\ m.type \notin SpanTypes  BY <1>4, <1>6 DEF SpanTypes
  <2>4. Ordered(new)  BY <1>13 DEF Ordered
  <2> HIDE DEF new
  <2> QED  BY <1>3, <1>11, <1>13, <1>14, <2>1, <2>2, <2>3, <2>4 DEF Inner
<1> HIDE DEF new
<1>16. QueueOK(p)  BY <1>1, <1>13, <1>14, <1>15, SpliceInner
<1>17. Range(p) = (Range(q) \ {x, y}) \cup {m}
  <2>1. Range(p) = (Range(q) \ Cut(q, i, 2)) \cup Range(new)  BY <1>1, <1>13, <1>14, SplicedSegs
  <2>2. Cut(q, i, 2) = {x, y}  BY <1>14, CutTwo
  <2> QED  BY <1>13, <2>1, <2>2
<1>18. Len(p) = Len(q) - 1
  <2>1. FromSplice(p, q, i, 2, new)  BY <1>1, <1>13, <1>14, SplicedAt
  <2> QED  BY <1>1, <1>13, <2>1 DEF FromSplice
<1>19. OneEach(F) /\ F \in SUBSET SegType  BY <1>1, FreeOneEach
<1>20. Has(c, q, F \ {o})
  <2>1. CASE o.type = "free"
    <3>1. c = freelist_remove(a, o) /\ o \in F  BY <1>2, <2>1 DEF Unlisted, FreeSegs
    <3> HIDE DEF F, c
    <3> QED  BY <1>1, <1>4, <1>19, <3>1, HasRemove
  <2>2. CASE o.type # "free"
    <3>1. c = a /\ F \ {o} = F  BY <2>2 DEF Unlisted, FreeSegs
    <3> QED  BY <1>1, <3>1
  <2> QED  BY <2>1, <2>2
<1>21. f # o
  <2>1. x # y  BY <1>4, <1>5
  <2> QED  BY <2>1
<1>22. f \in F \ {o} /\ OneEach(F \ {o}) /\ F \ {o} \in SUBSET SegType
  BY <1>2, <1>19, <1>21 DEF FreeSegs, OneEach
<1>23. ASSUME NEW z \in (F \ {o}) \ {f} PROVE z.base # m.base
  <2>1. z \in Range(q) /\ z.type \notin SpanTypes /\ z # x  BY DEF FreeSegs, SpanTypes
  <2>2. End(z) <= x.base \/ End(x) <= z.base  BY <1>1, <1>2, <1>3, <2>1, Apart
  <2>3. z.base \in Nat /\ z.size \in Nat \ {0} /\ End(z) = z.base + z.size  BY <1>1, <2>1, SegsTyped
  <2> QED  BY <1>4, <1>6, <2>2, <2>3
<1>24. Has(b, p, ((F \ {o}) \ {f}) \cup {m})
  <2> HIDE DEF F, c
  <2> QED  BY <1>4, <1>7, <1>12, <1>14, <1>20, <1>22, <1>23, HasExpand DEF new
<1> HIDE DEF p
<1>25. FreeSegs(p) = ((F \ {o}) \ {f}) \cup {m}
  <2>1. {f, o} = {x, y}  OBVIOUS
  <2> QED  BY <1>6, <1>17, <2>1 DEF FreeSegs
<1> HIDE DEF b
<1>26. ArenaOK(b)  BY <1>16, <1>24, <1>25 DEF ArenaOK, Has
<1>27. b.segqueue = p  BY <1>24 DEF Has
<1> QED  BY <1>17, <1>18, <1>26, <1>27 DEF b, m

\* vmem_xfree, step by step: the segment in hand is s or what s has been merged into.
Spans(a) == {t \in Range(a.segqueue) : t.type \in SpanTypes}
Freed(a, s, l) ==
    /\ ArenaOK(l.arena)
    /\ l.seg \in Range(l.arena.segqueue)
    /\ l.seg.type \in {"allocated", "free"}
    /\ Allocated(l.arena) \ {l.seg} = Allocated(a) \ {s}
    /\ Spans(l.arena) = Spans(a)
    /\ Len(l.arena.segqueue) <= Len(a.segqueue)

\* A segment that is no span has one before it, which is its span if it is one at all.
LEMMA HasLeft ==
    ASSUME NEW q, QueueOK(q), NEW i \in DOMAIN q, q[i].type \notin SpanTypes
    PROVE  /\ i - 1 \in DOMAIN q
           /\ q[i - 1].type \in SpanTypes => Inside(q[i - 1], q[i])
<1>1. /\ q \in Seq(SegType) /\ Ordered(q) /\ Housed(q) /\ DOMAIN q = 1 .. Len(q) /\ Len(q) \in Nat
  BY DEF QueueOK
<1>2. q[i] \in Range(q)  BY DEF Range
<1>3. PICK t \in Range(q) : Inside(t, q[i])  BY <1>1, <1>2 DEF Housed
<1>4. PICK j \in DOMAIN q : q[j] = t  BY DEF Range
<1>5. /\ t.base \in Nat /\ t.size \in Nat \ {0} /\ End(t) = t.base + t.size
      /\ q[i].base \in Nat /\ q[i].size \in Nat \ {0} /\ End(q[i]) = q[i].base + q[i].size
  BY <1>2, SegsTyped
<1>6. j # i  BY <1>3, <1>4 DEF Inside
<1>7. ~(i < j)
  <2>1. i < j => End(q[i]) <= q[j].base  BY <1>1 DEF Ordered, InOrder, Inside
  <2> QED  BY <1>3, <1>4, <1>5, <2>1 DEF Inside
<1>8. i - 1 \in DOMAIN q /\ (j = i - 1 \/ j < i - 1)  BY <1>1, <1>4, <1>6, <1>7
<1>9. ASSUME q[i - 1].type \in SpanTypes, j < i - 1 PROVE FALSE
  <2>1. End(t) <= q[i - 1].base  BY <1>1, <1>4, <1>8, <1>9 DEF Ordered, InOrder
  <2>2. q[i - 1] \in Range(q)  BY <1>8 DEF Range
  <2>3. q[i - 1].base \in Nat /\ q[i - 1].size \in Nat \ {0} /\ End(q[i - 1]) = q[i - 1].base + q[i - 1].size
    BY <2>2, SegsTyped
  <2>4. InOrder(q[i - 1], q[i])
    <3>1. i - 1 < i  BY <1>1
    <3> QED  BY <1>1, <1>8, <3>1 DEF Ordered
  <2> QED  BY <1>3, <1>5, <2>1, <2>3, <2>4 DEF InOrder, Inside
<1> QED  BY <1>3, <1>4, <1>8, <1>9

\* The step of vmem_xfree that merges with a free segment on the left.
LEMMA LeftFreed ==
    ASSUME NEW a, ArenaOK(a), NEW s \in Allocated(a)
    PROVE  Freed(a, s, xfree_Left(a, s))
<1> DEFINE q == a.segqueue
           i == IndexOf(a, s)
           left == q[i - 1]
           m == Merged(left, s)
           l == xfree_Left(a, s)
<1>1. QueueOK(q) /\ q \in Seq(SegType) /\ DOMAIN q = 1 .. Len(q) /\ Len(q) \in Nat
  BY DEF ArenaOK, QueueOK
<1>2. s \in Range(q) /\ s.type = "allocated"  BY DEF Allocated
<1>3. i \in DOMAIN q /\ q[i] = s  BY <1>1, <1>2, IndexFound
<1> HIDE DEF i
<1>4. i - 1 \in DOMAIN q /\ (i - 1) + 1 = i
  <2>1. q[i].type \notin SpanTypes  BY <1>2, <1>3 DEF SpanTypes
  <2>2. i - 1 \in DOMAIN q  BY <1>1, <1>3, <2>1, HasLeft
  <2> QED  BY <1>1, <1>3, <2>2
<1>5. CASE left.type = "free"
  <2> DEFINE b == freeseg_expand(a, i - 1, left, m)
  <2>1. l = [arena |-> b, seg |-> m]  BY <1>5 DEF xfree_Left, i
  <2>2. Unlisted(a, s) = a  BY <1>2 DEF Unlisted
  <2>3. /\ ArenaOK(b)
        /\ Range(b.segqueue) = (Range(q) \ {left, s}) \cup {m}
        /\ Len(b.segqueue) = Len(q) - 1
    <3> DEFINE j == i - 1
    <3>1. s.type \notin SpanTypes  BY <1>2 DEF SpanTypes
    <3>2. j \in DOMAIN q /\ j + 1 \in DOMAIN q /\ q[j + 1] = s /\ q[j] = left /\ j + 1 = i
      BY <1>3, <1>4
    <3>3. b = freeseg_expand(Unlisted(a, s), j, left, Merged(q[j], q[j + 1]))  BY <2>2, <3>2
    <3> HIDE DEF b, j, left, m
    <3>4. /\ ArenaOK(b)
          /\ Range(b.segqueue) = (Range(q) \ {q[j], q[j + 1]}) \cup {Merged(q[j], q[j + 1])}
          /\ Len(b.segqueue) = Len(q) - 1
      BY <1>5, <3>1, <3>2, <3>3, MergeArena, ZenonT(60)
    <3> QED  BY <3>2, <3>4 DEF m
  <2>4. m.type = "free"  BY DEF Merged, Seg
  <2> HIDE DEF b, m
  <2>5. Allocated(b) \ {m} = Allocated(a) \ {s}  BY <1>2, <1>5, <2>3, <2>4 DEF Allocated
  <2>6. Spans(b) = Spans(a)  BY <1>2, <1>5, <2>3, <2>4 DEF Spans, SpanTypes
  <2>7. m \in Range(b.segqueue) /\ Len(b.segqueue) <= Len(q)  BY <1>1, <2>3
  <2> QED  BY <2>1, <2>3, <2>4, <2>5, <2>6, <2>7 DEF Freed
<1>6. CASE left.type # "free"
  <2>1. l = [arena |-> a, seg |-> s]  BY <1>6 DEF xfree_Left, i
  <2> QED  BY <1>1, <1>2, <2>1 DEF Freed
<1> QED  BY <1>5, <1>6

\* And the one that merges with a free segment on the right.
LEMMA RightFreed ==
    ASSUME NEW a, ArenaOK(a), NEW s \in Allocated(a), NEW l, Freed(a, s, l)
    PROVE  Freed(a, s, xfree_Right(l))
<1> DEFINE c == l.arena
           q == c.segqueue
           x == l.seg
           i == IndexOf(c, x)
           y == q[i + 1]
           m == Merged(x, y)
           b == freeseg_expand(Unlisted(c, x), i, y, m)
           r == xfree_Right(l)
<1>1. ArenaOK(c) /\ QueueOK(q) /\ q \in Seq(SegType) /\ DOMAIN q = 1 .. Len(q) /\ Len(q) \in Nat
  BY DEF ArenaOK, QueueOK, Freed
<1>2. x \in Range(q) /\ x.type \in {"allocated", "free"}  BY DEF Freed
<1>3. i \in DOMAIN q /\ q[i] = x  BY <1>1, <1>2, IndexFound
<1> HIDE DEF i
<1>4. CASE i < Len(q) /\ y.type = "free"
  <2>1. r = [arena |-> b, seg |-> m]  BY <1>4 DEF xfree_Right, i
  <2>2. i + 1 \in DOMAIN q  BY <1>1, <1>3, <1>4
  <2>3. /\ ArenaOK(b)
        /\ Range(b.segqueue) = (Range(q) \ {x, y}) \cup {m}
        /\ Len(b.segqueue) = Len(q) - 1
    <3>1. x.type \notin SpanTypes  BY <1>2 DEF SpanTypes
    <3> HIDE DEF b, c, x
    <3> QED  BY <1>1, <1>3, <1>4, <2>2, <3>1, MergeArena, ZenonT(60) DEF b
  <2>4. m.type = "free"  BY DEF Merged, Seg
  <2> HIDE DEF b, m
  <2>5. Allocated(b) \ {m} = Allocated(c) \ {x}  BY <1>2, <1>4, <2>3, <2>4 DEF Allocated
  <2>6. Spans(b) = Spans(c)  BY <1>2, <1>4, <2>3, <2>4 DEF Spans, SpanTypes
  <2>7. m \in Range(b.segqueue) /\ Len(b.segqueue) <= Len(a.segqueue)
    <3>1. Len(q) <= Len(a.segqueue)  BY DEF Freed
    <3>2. Len(a.segqueue) \in Nat  BY DEF ArenaOK, QueueOK
    <3> QED  BY <1>1, <2>3, <3>1, <3>2
  <2> QED  BY <2>1, <2>3, <2>4, <2>5, <2>6, <2>7 DEF Freed
<1>5. CASE ~(i < Len(q) /\ y.type = "free")
  <2>1. r = l  BY <1>5 DEF xfree_Right, i
  <2> QED  BY <2>1
<1> QED  BY <1>4, <1>5

\* No segments.
NoSeg == <<>>

\* They are a queue of segments.
LEMMA NoSegType == NoSeg \in Seq(SegType) /\ Range(NoSeg) = {} /\ Len(NoSeg) = 0 /\ DOMAIN NoSeg = {}
BY DEF NoSeg, Range

\* The whole span and the segment that fills it leave the queue.
LEMMA DropSpan ==
    ASSUME NEW q, QueueOK(q), NEW i \in DOMAIN q, i + 1 \in DOMAIN q, q[i].type \in SpanTypes,
           q[i + 1].type \notin SpanTypes, Inside(q[i], q[i + 1]), q[i].size = q[i + 1].size
    PROVE  QueueOK(Spliced(q, i, 2, NoSeg))
<1> DEFINE t == q[i]
           s == q[i + 1]
           p == Spliced(q, i, 2, NoSeg)
<1>1. /\ q \in Seq(SegType) /\ Ordered(q) /\ Housed(q) /\ DOMAIN q = 1 .. Len(q) /\ Len(q) \in Nat
      /\ 2 \in 0 .. 2 /\ i \in 1 .. Len(q) + 1 /\ i + 2 <= Len(q) + 1 /\ i \in Int
      /\ NoSeg \in Seq(SegType) /\ Range(NoSeg) = {}
  BY NoSegType DEF QueueOK
<1>2. FitsIn(q, i, 2, NoSeg)  BY NoSegType DEF FitsIn, Ordered
<1>3. p \in Seq(SegType)  BY <1>1, SplicedAt
<1>4. Ordered(p)  BY <1>1, <1>2, SplicedOrdered
<1>5. Range(p) = Range(q) \ {t, s}
  <2>1. Range(p) = (Range(q) \ Cut(q, i, 2)) \cup Range(NoSeg)  BY <1>1, SplicedSegs
  <2>2. Cut(q, i, 2) = {t, s}  BY <1>1, CutTwo
  <2> QED  BY <1>1, <2>1, <2>2
<1> HIDE DEF p
<1>6. t \in Range(q) /\ s \in Range(q)  BY DEF Range
<1>7. ASSUME NEW x \in Range(p), x.type \notin SpanTypes PROVE \E u \in Range(p) : Inside(u, x)
  <2>1. x \in Range(q) /\ x # s  BY <1>5
  <2>2. PICK u \in Range(q) : Inside(u, x)  BY <1>1, <1>7, <2>1 DEF Housed
  <2>3. u # t
    <3>1. End(x) <= s.base \/ End(s) <= x.base  BY <1>6, <1>7, <2>1, Apart
    <3>2. /\ x.base \in Nat /\ x.size \in Nat \ {0} /\ End(x) = x.base + x.size
          /\ t.base \in Nat /\ t.size \in Nat \ {0} /\ End(t) = t.base + t.size
          /\ s.base \in Nat /\ s.size \in Nat \ {0} /\ End(s) = s.base + s.size
      BY <1>6, <2>1, SegsTyped
    <3>3. t.base <= s.base /\ End(s) <= End(t) /\ t.size = s.size  BY DEF Inside
    <3>4. u = t => t.base <= x.base /\ End(x) <= End(t)  BY <2>2 DEF Inside
    <3> HIDE DEF t, s
    <3> QED  BY <3>1, <3>2, <3>3, <3>4
  <2>4. u # s  BY <2>2 DEF Inside
  <2> QED  BY <1>5, <2>2, <2>3, <2>4
<1>8. \A x \in Range(p) : Classed(x.size)  BY <1>5 DEF QueueOK
<1> QED  BY <1>3, <1>4, <1>7, <1>8 DEF QueueOK, Housed, p

\* What is left of the arena a when its segment s has been freed, and the imported
\* span that is given back.
FreedArena(a, s, e) ==
    /\ ArenaOK(e.arena)
    /\ Allocated(e.arena) = Allocated(a) \ {s}
    /\ Len(e.arena.segqueue) <= Len(a.segqueue)
    /\ \/ e.released = <<>> /\ Spans(e.arena) = Spans(a)
       \/ \E t \in Spans(a) : /\ t.type = "imported" /\ e.released = <<t>>
                              /\ Spans(e.arena) = Spans(a) \ {t}

\* The last step: an imported span that is free as a whole is given back.
LEMMA SpanFreed ==
    ASSUME NEW a, ArenaOK(a), NEW s \in Allocated(a), NEW r, Freed(a, s, r)
    PROVE  FreedArena(a, s, xfree_Span(r))
<1> DEFINE c == r.arena
           q == c.segqueue
           x == r.seg
           i == IndexOf(c, x)
           t == q[i - 1]
           F == FreeSegs(q)
           e == xfree_Span(r)
<1>1. ArenaOK(c) /\ QueueOK(q) /\ q \in Seq(SegType) /\ DOMAIN q = 1 .. Len(q) /\ Len(q) \in Nat
      /\ Has(c, q, F)
  BY DEF ArenaOK, QueueOK, Freed
<1>2. /\ x \in Range(q) /\ x.type \in {"allocated", "free"} /\ x.type \notin SpanTypes
      /\ Allocated(c) \ {x} = Allocated(a) \ {s} /\ Spans(c) = Spans(a)
      /\ Len(q) <= Len(a.segqueue) /\ Len(a.segqueue) \in Nat
  BY DEF Freed, SpanTypes, ArenaOK, QueueOK
<1>3. i \in DOMAIN q /\ q[i] = x  BY <1>1, <1>2, IndexFound
<1> HIDE DEF i
<1>4. i - 1 \in DOMAIN q /\ (t.type \in SpanTypes => Inside(t, x)) /\ (i - 1) + 1 = i /\ i \in Int
  <2>1. i - 1 \in DOMAIN q /\ (q[i - 1].type \in SpanTypes => Inside(q[i - 1], q[i]))
    BY <1>1, <1>2, <1>3, HasLeft
  <2> QED  BY <1>1, <1>3, <2>1
<1>5. OneEach(F) /\ F \in SUBSET SegType  BY <1>1, FreeOneEach
<1>6. freelist(x.size) \in 0 .. NFreeLists - 1  BY <1>1, <1>2, SegsTyped
<1>7. Has(Unlisted(c, x), q, F \ {x})
  <2>1. CASE x.type = "free"
    <3>1. Unlisted(c, x) = freelist_remove(c, x) /\ x \in F  BY <1>2, <2>1 DEF Unlisted, FreeSegs
    <3> HIDE DEF F, c, x
    <3> QED  BY <1>1, <1>5, <1>6, <3>1, HasRemove
  <2>2. CASE x.type # "free"
    <3>1. Unlisted(c, x) = c /\ F \ {x} = F  BY <2>2 DEF Unlisted, FreeSegs
    <3> QED  BY <1>1, <3>1
  <2> QED  BY <2>1, <2>2
<1>8. CASE t.type = "imported" /\ t.size = x.size
  <2> DEFINE p == Spliced(q, i - 1, 2, NoSeg)
             b == Splice(Unlisted(c, x), i - 1, 2, NoSeg)
             j == i - 1
  <2>1. e.arena = b /\ e.released = <<t>>  BY <1>8 DEF xfree_Span, i, NoSeg
  <2>2. /\ 2 \in 0 .. 2 /\ j \in 1 .. Len(q) + 1 /\ j + 2 <= Len(q) + 1 /\ j \in Int
        /\ NoSeg \in Seq(SegType) /\ Range(NoSeg) = {} /\ Len(NoSeg) = 0
        /\ j + 1 = i /\ j \in DOMAIN q
    BY <1>1, <1>3, <1>4, NoSegType
  <2>3. t.type \in SpanTypes /\ Inside(t, x)  BY <1>4, <1>8 DEF SpanTypes
  <2>4. QueueOK(p)
    <3>1. q[j] = t /\ q[j + 1] = x  BY <1>3, <2>2
    <3> HIDE DEF j
    <3>2. QueueOK(Spliced(q, j, 2, NoSeg))  BY <1>1, <1>2, <1>3, <1>8, <2>2, <2>3, <3>1, DropSpan
    <3> QED  BY <3>2 DEF j
  <2>5. Range(p) = Range(q) \ {t, x}
    <3>1. Range(p) = (Range(q) \ Cut(q, j, 2)) \cup Range(NoSeg)
      <4>1. /\ QueueOK(q) /\ NoSeg \in Seq(SegType) /\ j \in 1 .. Len(q) + 1 /\ 2 \in 0 .. 2
            /\ j + 2 <= Len(q) + 1
        BY <1>1, <2>2
      <4>2. p = Spliced(q, j, 2, NoSeg)  OBVIOUS
      <4> HIDE DEF q, j, p
      <4> QED  BY <4>1, <4>2, SplicedSegs
    <3>2. Cut(q, j, 2) = {t, x}
      <4>1. Cut(q, j, 2) = {q[j], q[j + 1]}  BY <2>2, CutTwo
      <4> QED  BY <1>3, <2>2, <4>1
    <3> QED  BY <2>2, <3>1, <3>2
  <2>6. Len(p) = Len(q) - 2
    <3>1. FromSplice(p, q, j, 2, NoSeg)  BY <1>1, <2>2, SplicedAt
    <3> QED  BY <1>1, <2>2, <3>1 DEF FromSplice
  <2>7. Has(b, p, F \ {x})
    <3> HIDE DEF F
    <3> QED  BY <1>7, <2>2, HasSplice
  <2> HIDE DEF p, b, j
  <2>8. FreeSegs(p) = F \ {x}  BY <1>8, <2>5 DEF FreeSegs
  <2>9. ArenaOK(b) /\ b.segqueue = p  BY <2>4, <2>7, <2>8 DEF ArenaOK, Has
  <2>10. Allocated(b) = Allocated(c) \ {x}  BY <1>8, <2>5, <2>9 DEF Allocated
  <2>11. t \in Range(q)  BY <1>4 DEF Range
  <2>12. t \in Spans(a) /\ Spans(b) = Spans(a) \ {t}
    <3>1. t \in Spans(c) /\ Spans(b) = Spans(c) \ {t}  BY <1>2, <2>3, <2>5, <2>9, <2>11 DEF Spans
    <3> QED  BY <1>2, <3>1
  <2>13. Len(b.segqueue) <= Len(a.segqueue)  BY <1>1, <1>2, <2>6, <2>9
  <2> HIDE DEF e, t
  <2> QED  BY <1>2, <1>8, <2>1, <2>9, <2>10, <2>12, <2>13 DEF FreedArena, e
<1>9. CASE ~(t.type = "imported" /\ t.size = x.size) /\ x.type = "free"
  <2>1. e.arena = c /\ e.released = <<>>  BY <1>9 DEF xfree_Span, i
  <2>2. Allocated(c) \ {x} = Allocated(c)  BY <1>9 DEF Allocated
  <2> HIDE DEF e, c
  <2> QED  BY <1>1, <1>2, <2>1, <2>2 DEF FreedArena, e
<1>10. CASE ~(t.type = "imported" /\ t.size = x.size) /\ x.type # "free"
  <2> DEFINE p == Spliced(q, i, 1, NoSeg)
             b == Splice(c, i, 1, NoSeg)
  <2>1. e.arena = b /\ e.released = <<>>  BY <1>10 DEF xfree_Span, i, NoSeg
  <2>2. /\ 1 \in 0 .. 2 /\ 1 \in 1 .. 2 /\ i \in 1 .. Len(q) + 1 /\ i + 1 <= Len(q) + 1 /\ i + 1 - 1 = i
        /\ NoSeg \in Seq(SegType) /\ Range(NoSeg) = {} /\ Len(NoSeg) = 0
    BY <1>1, <1>3, <1>4, NoSegType
  <2>3. Inner(q, i, 1, NoSeg)
    <3>1. i .. i + 1 - 1 = {i}  BY <1>4
    <3> QED  BY <1>2, <1>3, <3>1 DEF Inner, Ordered, NoSeg
  <2>4. QueueOK(p)  BY <1>1, <1>3, <2>2, <2>3, SpliceInner
  <2>5. Range(p) = Range(q) \ {x}
    <3>1. Range(p) = (Range(q) \ Cut(q, i, 1)) \cup Range(NoSeg)
      <4>1. /\ QueueOK(q) /\ NoSeg \in Seq(SegType) /\ i \in 1 .. Len(q) + 1 /\ 1 \in 0 .. 2
            /\ i + 1 <= Len(q) + 1
        BY <1>1, <2>2
      <4> HIDE DEF q
      <4> QED  BY <4>1, SplicedSegs
    <3>2. Cut(q, i, 1) = {x}  BY <1>3, <1>4, CutOne
    <3> QED  BY <2>2, <3>1, <3>2
  <2>6. Len(p) = Len(q) - 1
    <3>1. FromSplice(p, q, i, 1, NoSeg)  BY <1>1, <2>2, SplicedAt
    <3> QED  BY <1>1, <2>2, <3>1 DEF FromSplice
  <2>7. Has(b, p, F)
    <3> HIDE DEF F, c
    <3> QED  BY <1>1, <2>2, HasSplice
  <2> HIDE DEF p, b
  <2>8. FreeSegs(p) = F  BY <1>10, <2>5 DEF FreeSegs
  <2>9. ArenaOK(b) /\ b.segqueue = p  BY <2>4, <2>7, <2>8 DEF ArenaOK, Has
  <2>10. Allocated(b) = Allocated(c) \ {x}  BY <2>5, <2>9 DEF Allocated
  <2>11. Spans(b) = Spans(c)  BY <1>2, <2>5, <2>9 DEF Spans
  <2>12. Len(b.segqueue) <= Len(a.segqueue)  BY <1>1, <1>2, <2>6, <2>9
  <2> HIDE DEF e
  <2> QED  BY <1>2, <2>1, <2>9, <2>10, <2>11, <2>12 DEF FreedArena, e
<1> QED  BY <1>8, <1>9, <1>10

\* vmem_xfree, the three steps.
LEMMA FreeArena ==
    ASSUME NEW a, ArenaOK(a), NEW s \in Allocated(a)
    PROVE  FreedArena(a, s, vmem_xfree(a, s.base))
<1>1. a.segqueue \in Seq(SegType) /\ Ordered(a.segqueue)  BY DEF ArenaOK, QueueOK
<1>2. s \in Range(a.segqueue) /\ s.type = "allocated"  BY DEF Allocated
<1>3. a.segqueue[AllocatedAt(a, s.base)] = s  BY <1>1, <1>2, AllocatedFound
<1>4. Freed(a, s, xfree_Left(a, s))  BY LeftFreed
<1>5. Freed(a, s, xfree_Right(xfree_Left(a, s)))  BY <1>4, RightFreed
<1>6. FreedArena(a, s, xfree_Span(xfree_Right(xfree_Left(a, s))))  BY <1>5, SpanFreed
<1> QED  BY <1>3, <1>6 DEF vmem_xfree

------------------------------------------------------------------------------
\* vmem_xalloc's search.

\* What is on a freelist is a free segment of the queue.
LEMMA ListedFree ==
    ASSUME NEW a, ArenaOK(a), NEW k \in 0 .. NFreeLists - 1, NEW i \in DOMAIN a.freelist[k]
    PROVE  LET j == FreeAt(a, a.freelist[k][i])
           IN  /\ j \in DOMAIN a.segqueue /\ a.segqueue[j] \in FreeSegs(a.segqueue)
               /\ a.segqueue[j].base = a.freelist[k][i]
<1> DEFINE q == a.segqueue
           F == FreeSegs(q)
<1>1. q \in Seq(SegType) /\ Ordered(q) /\ Listing(a.freelist, F)  BY DEF ArenaOK, QueueOK, Has
<1>2. a.freelist[k][i] \in Bases(F, k)  BY <1>1 DEF Listing, Range
<1>3. PICK s \in F : s.base = a.freelist[k][i]  BY <1>2 DEF Bases
<1>4. FreeAt(a, s.base) \in DOMAIN q /\ q[FreeAt(a, s.base)] = s  BY <1>1, FreeFound
<1> QED  BY <1>3, <1>4

\* A free segment fits a request without alignment if it is large enough.
LEMMA FitsFree ==
    ASSUME NEW s \in SegType, NEW size \in Nat
    PROVE  Fits(s, size, 0, FALSE) <=> size <= s.size
<1>1. s.base \in Nat /\ s.size \in Nat  BY DEF SegType
<1>2. Place(s, 0) = s.base  BY <1>1 DEF Place
<1> QED  BY <1>1, <1>2 DEF Fits, End

\* vmem_xalloc's search finds a free segment that is large enough, and finds one if there
\* is one of just the size.
LEMMA SearchFinds ==
    ASSUME NEW a, ArenaOK(a), NEW size \in Nat \ {0}, HasClass(size)
    PROVE  LET i == Search(a, size, 0, FALSE)
           IN  /\ i # 0 => /\ i \in DOMAIN a.segqueue /\ a.segqueue[i] \in FreeSegs(a.segqueue)
                           /\ size <= a.segqueue[i].size
               /\ \A f \in FreeSegs(a.segqueue) : f.size = size => i # 0
<1> DEFINE q == a.segqueue
           fl == a.freelist
           F == FreeSegs(q)
           Fit(k) == Fitting(a, k, size, 0, FALSE)
           lists == {k \in freelist(size) .. NFreeLists - 1 : Fit(k) # {}}
           k0 == Min(lists)
           i0 == Min(Fit(k0))
           j0 == FreeAt(a, fl[k0][i0])
           i == Search(a, size, 0, FALSE)
<1>1. /\ QueueOK(q) /\ q \in Seq(SegType) /\ Ordered(q) /\ Listing(fl, F)
      /\ fl \in [0 .. NFreeLists - 1 -> Seq(Nat)] /\ NFreeLists \in Nat
  BY VmemAssumption DEF ArenaOK, QueueOK, Has
<1>2. freelist(size) \in 0 .. NFreeLists - 1  BY DEF HasClass, freelist
<1>3. ASSUME NEW k \in 0 .. NFreeLists - 1
      PROVE  Fit(k) \subseteq DOMAIN fl[k] /\ DOMAIN fl[k] \subseteq Nat
  <2>1. fl[k] \in Seq(Nat)  BY <1>1
  <2>2. DOMAIN fl[k] \subseteq Nat  BY <2>1
  <2>3. Fit(k) \subseteq DOMAIN fl[k]  BY DEF Fitting
  <2> QED  BY <2>2, <2>3
<1>4. lists \subseteq 0 .. NFreeLists - 1
  <2>1. \A k \in freelist(size) .. NFreeLists - 1 : k \in 0 .. NFreeLists - 1  BY <1>1, <1>2
  <2> HIDE DEF Fit
  <2> QED  BY <2>1
<1>5. i = IF lists = {} THEN 0 ELSE j0  BY DEF Search
<1>6. ASSUME lists # {}
      PROVE  j0 \in DOMAIN q /\ q[j0] \in F /\ size <= q[j0].size
  <2>1. k0 \in lists
    <3>1. lists \subseteq Nat
      <4> HIDE DEF lists
      <4> QED  BY <1>1, <1>4
    <3> HIDE DEF lists
    <3> QED  BY <1>6, <3>1, MinNatural
  <2>2. k0 \in 0 .. NFreeLists - 1 /\ Fit(k0) # {}  BY <1>4, <2>1
  <2> HIDE DEF k0, lists
  <2>3. i0 \in Fit(k0)
    <3>1. Fit(k0) \subseteq Nat  BY <1>3, <2>2
    <3> HIDE DEF Fit
    <3> QED  BY <2>2, <3>1, MinNatural
  <2> HIDE DEF i0
  <2>4. i0 \in DOMAIN fl[k0] /\ Fits(q[j0], size, 0, FALSE)  BY <2>3 DEF Fitting
  <2>5. j0 \in DOMAIN q /\ q[j0] \in F  BY <2>2, <2>4, ListedFree
  <2>6. q[j0] \in SegType  BY <1>1, <2>5
  <2> QED  BY <2>4, <2>5, <2>6, FitsFree
<1>7. ASSUME NEW f \in F, f.size = size PROVE lists # {}
  <2> DEFINE k == freelist(size)
  <2>1. f.base \in Bases(F, k)  BY <1>7 DEF Bases
  <2>11. Range(fl[k]) = Bases(F, k)  BY <1>1, <1>2 DEF Listing
  <2>12. f.base \in Range(fl[k])  BY <2>1, <2>11
  <2>2. PICK n \in DOMAIN fl[k] : fl[k][n] = f.base  BY <2>12 DEF Range
  <2>3. FreeAt(a, f.base) \in DOMAIN q /\ q[FreeAt(a, f.base)] = f  BY <1>1, FreeFound
  <2>4. f \in SegType  BY <1>1, <2>3
  <2>5. Fits(f, size, 0, FALSE)
    <3>1. size <= f.size /\ size \in Nat  BY <1>7
    <3> QED  BY <2>4, <3>1, FitsFree
  <2>6. n \in Fit(k)  BY <2>2, <2>3, <2>5 DEF Fitting
  <2>7. k \in freelist(size) .. NFreeLists - 1  BY <1>1, <1>2
  <2>8. Fit(k) # {}  BY <2>6
  <2> HIDE DEF Fit, k
  <2>9. k \in lists  BY <2>7, <2>8
  <2> HIDE DEF lists
  <2> QED  BY <2>9
<1> HIDE DEF lists, j0, i
<1>8. i # 0 => i \in DOMAIN q /\ q[i] \in F /\ size <= q[i].size  BY <1>5, <1>6
<1>9. lists # {} => i # 0
  <2>1. lists # {} => j0 \in DOMAIN q  BY <1>6
  <2>2. 0 \notin DOMAIN q  BY <1>1
  <2> QED  BY <1>5, <2>1, <2>2
<1> QED  BY <1>7, <1>8, <1>9 DEF i

------------------------------------------------------------------------------
\* The kernel's memory.  What is kept between operations:  both arenas are right, the wired
\* arena's spans hold one allocation each, every allocation has its pages, and no tag is lost.

ArenaType == [segqueue : Seq(SegType), freelist : [0 .. NFreeLists - 1 -> Seq(Nat)]]
MemType == [kva : ArenaType, wired : ArenaType, tags : Nat, blocks : Nat,
            pages : Seq(1 .. PhysPages), kmap : [KHeap -> 0 .. PhysPages],
            stop : {"no", "assert", "oom"}]

\* kernel-va has the segments of the heap and imports nothing.
InHeap(a) == \A t \in Spans(a) :
                 t.type # "imported" /\ KHeapBase <= t.base /\ End(t) <= KHeapBase + KHeapSize

\* Each span of the wired arena was imported for one allocation, which fills it.
Filled(a) == \A x \in Range(a.segqueue) :
                 /\ x.type \in {"imported", "allocated"}
                 /\ Seg("imported", x.base, x.size) \in Range(a.segqueue)
                 /\ Seg("allocated", x.base, x.size) \in Range(a.segqueue)

\* The pages are on the list of free pages or are mapped, at the addresses of the
\* segments A.
Mapped(kmap) == {va \in KHeap : kmap[va] # NoPage}
Backed(kmap, pages, A) ==
    /\ Mapped(kmap) = UNION {Units(s) : s \in A}
    /\ \A va, vb \in Mapped(kmap) : va # vb => kmap[va] # kmap[vb]
    /\ \A va \in Mapped(kmap), i \in DOMAIN pages : kmap[va] # pages[i]
    /\ IsInjective(pages)
    /\ Cardinality(Mapped(kmap)) + Len(pages) = PhysPages

\* Between operations, but for the g tags that are in use and in no queue.
TagsKept(m, g) == m.tags + g + Len(m.kva.segqueue) + Len(m.wired.segqueue)
                  = StaticTags + BlockTags * m.blocks
Running(m, g) ==
    /\ InHeap(m.kva)
    /\ Filled(m.wired)
    /\ Allocated(m.wired) = Allocated(m.kva)
    /\ TagsKept(m, g)
    /\ Backed(m.kmap, m.pages, Allocated(m.kva))
Sound(m, g) ==
    /\ m \in MemType
    /\ ArenaOK(m.kva) /\ ArenaOK(m.wired)
    /\ m.stop # "assert"
    /\ m.stop = "no" => Running(m, g)

\* Five tags, the most an allocation needs before it can refill, are always there.
Enough(m, n) == m.stop = "no" => m.tags >= n
GoodMem(m) == Sound(m, 0) /\ Enough(m, 5)

\* Pages taken off the front of the list.
LEMMA RestOf ==
    ASSUME NEW S, NEW s \in Seq(S), NEW n \in 0 .. Len(s)
    PROVE  /\ SubSeq(s, n + 1, Len(s)) \in Seq(S) /\ Len(SubSeq(s, n + 1, Len(s))) = Len(s) - n
           /\ \A i \in 1 .. Len(s) - n : SubSeq(s, n + 1, Len(s))[i] = s[n + i]
OBVIOUS

\* internal_allocwired maps the first pages of the list.
MapFirst(kmap, pages, base, size) ==
    [va \in KHeap |-> IF va \in base .. base + size - 1 THEN pages[va - base + 1] ELSE kmap[va]]

\* Finitely many addresses are mapped.
LEMMA MappedFinite ==
    ASSUME NEW kmap
    PROVE  IsFiniteSet(Mapped(kmap)) /\ Cardinality(Mapped(kmap)) \in Nat
<1>1. KHeapSize \in Nat  BY VmKernelAssumption
<1>2. IsFiniteSet(KHeap)  BY <1>1, FS_Interval DEF KHeap, KHeapBase
<1>3. Mapped(kmap) \in SUBSET KHeap  BY DEF Mapped
<1> QED  BY <1>2, <1>3, FS_Subset, FS_CardinalityType

\* A new allocation is backed by the pages taken off the front of the list.
LEMMA BackedAdd ==
    ASSUME NEW kmap \in [KHeap -> 0 .. PhysPages], NEW pages \in Seq(1 .. PhysPages), NEW A,
           Backed(kmap, pages, A), NEW s \in SegType, Units(s) \subseteq KHeap,
           Units(s) \cap Mapped(kmap) = {}, s.size <= Len(pages)
    PROVE  LET kmap2 == MapFirst(kmap, pages, s.base, s.size)
               pages2 == SubSeq(pages, s.size + 1, Len(pages))
           IN  /\ kmap2 \in [KHeap -> 0 .. PhysPages] /\ pages2 \in Seq(1 .. PhysPages)
               /\ Backed(kmap2, pages2, A \cup {s})
<1> DEFINE n == s.size
           b == s.base
           U == Units(s)
           M == Mapped(kmap)
           kmap2 == MapFirst(kmap, pages, b, n)
           pages2 == SubSeq(pages, n + 1, Len(pages))
<1>1. b \in Nat /\ n \in Nat \ {0} /\ Len(pages) \in Nat /\ PhysPages \in Nat /\ n <= Len(pages)
      /\ n \in 0 .. Len(pages)
  BY VmKernelAssumption DEF SegType
<1>2. U = b .. b + n - 1 /\ \A va \in U : va - b + 1 \in 1 .. n /\ va - b + 1 \in 1 .. Len(pages)
  BY <1>1, SMTT(30) DEF Units, End
<1>3. /\ pages2 \in Seq(1 .. PhysPages) /\ Len(pages2) = Len(pages) - n
      /\ \A i \in 1 .. Len(pages) - n : pages2[i] = pages[n + i]
  <2> HIDE DEF n
  <2> QED  BY <1>1, RestOf
<1>31. DOMAIN pages2 = 1 .. Len(pages) - n
  <2> HIDE DEF pages2, n
  <2> QED  BY <1>3
<1>32. \A i \in 1 .. Len(pages) - n : n + i \in 1 .. Len(pages) /\ i >= 1 /\ i \in Int
  <2> HIDE DEF n
  <2> QED  BY <1>1
<1>4. \A va \in KHeap : kmap2[va] = IF va \in U THEN pages[va - b + 1] ELSE kmap[va]
  BY <1>2 DEF MapFirst
<1>5. \A i \in 1 .. Len(pages) : pages[i] \in 1 .. PhysPages /\ pages[i] \in 0 .. PhysPages /\ pages[i] # NoPage
  BY <1>1 DEF NoPage
<1>6. kmap2 \in [KHeap -> 0 .. PhysPages]
  <2>1. \A va \in KHeap : kmap2[va] \in 0 .. PhysPages
    <3> HIDE DEF kmap2, U
    <3> QED  BY <1>2, <1>4, <1>5
  <2> QED  BY <2>1 DEF MapFirst
<1> HIDE DEF kmap2, pages2, n, b, U
<1>7. Mapped(kmap2) = M \cup U
  <2>1. \A va \in KHeap : kmap2[va] # NoPage <=> (va \in U \/ kmap[va] # NoPage)
    BY <1>2, <1>4, <1>5
  <2>2. U \subseteq KHeap  BY DEF U
  <2> QED  BY <2>1, <2>2 DEF Mapped
<1>8. M \subseteq KHeap /\ U \cap M = {}  BY DEF Mapped, U
<1>9. \A va \in M : kmap2[va] = kmap[va]  BY <1>4, <1>8
<1>10. \A va \in U : kmap2[va] = pages[va - b + 1]
  <2>1. U \subseteq KHeap  BY DEF U
  <2> QED  BY <1>4, <2>1
<1>11. Mapped(kmap2) = UNION {Units(t) : t \in A \cup {s}}
  <2>1. M = UNION {Units(t) : t \in A}  BY DEF Backed
  <2>2. UNION {Units(t) : t \in A \cup {s}} = (UNION {Units(t) : t \in A}) \cup Units(s)  OBVIOUS
  <2> QED  BY <1>7, <2>1, <2>2 DEF U
<1>12. IsInjective(pages) /\ \A i, j \in 1 .. Len(pages) : pages[i] = pages[j] => i = j
  BY DEF Backed, IsInjective
<1>13. ASSUME NEW va \in M \cup U, NEW vb \in M \cup U, va # vb PROVE kmap2[va] # kmap2[vb]
  <2>1. \A w \in M, i \in 1 .. Len(pages) : kmap[w] # pages[i]  BY DEF Backed
  <2>2. CASE va \in M /\ vb \in M  BY <1>9, <1>13, <2>2 DEF Backed
  <2>3. CASE va \in M /\ vb \in U  BY <1>2, <1>9, <1>10, <2>1, <2>3
  <2>4. CASE va \in U /\ vb \in M  BY <1>2, <1>9, <1>10, <2>1, <2>4
  <2>5. CASE va \in U /\ vb \in U
    <3>1. va - b + 1 # vb - b + 1  BY <1>1, <1>2, <1>13, <2>5
    <3> QED  BY <1>2, <1>10, <1>12, <2>5, <3>1
  <2> QED  BY <2>2, <2>3, <2>4, <2>5
<1>14. ASSUME NEW va \in M \cup U, NEW i \in DOMAIN pages2 PROVE kmap2[va] # pages2[i]
  <2>1. /\ i \in 1 .. Len(pages) - n /\ n + i \in 1 .. Len(pages) /\ pages2[i] = pages[n + i]
        /\ i >= 1 /\ i \in Int
    BY <1>3, <1>31, <1>32
  <2>2. CASE va \in M
    <3>1. kmap[va] # pages[n + i]  BY <2>1, <2>2 DEF Backed
    <3> QED  BY <1>9, <2>1, <2>2, <3>1
  <2>3. CASE va \in U
    <3>1. va - b + 1 \in 1 .. n /\ va - b + 1 \in 1 .. Len(pages)  BY <1>2, <2>3
    <3>2. va - b + 1 # n + i  BY <1>1, <2>1, <3>1
    <3> QED  BY <1>10, <1>12, <2>1, <2>3, <3>1, <3>2
  <2> QED  BY <2>2, <2>3
<1>15. IsInjective(pages2)
  <2>1. ASSUME NEW i \in DOMAIN pages2, NEW j \in DOMAIN pages2, pages2[i] = pages2[j] PROVE i = j
    <3>1. /\ i \in 1 .. Len(pages) - n /\ j \in 1 .. Len(pages) - n
          /\ n + i \in 1 .. Len(pages) /\ n + j \in 1 .. Len(pages)
      BY <1>31, <1>32
    <3>2. n + i = n + j  BY <1>3, <1>12, <2>1, <3>1
    <3> QED  BY <1>1, <3>1, <3>2
  <2> QED  BY <2>1 DEF IsInjective
<1>16. Cardinality(M \cup U) + Len(pages2) = PhysPages
  <2>1. IsFiniteSet(M) /\ Cardinality(M) \in Nat  BY MappedFinite
  <2>2. IsFiniteSet(U) /\ Cardinality(U) = n
    <3>1. b \in Int /\ b + n - 1 \in Int /\ ~(b > b + n - 1) /\ (b + n - 1) - b + 1 = n  BY <1>1
    <3> QED  BY <1>2, <3>1, FS_Interval
  <2>3. M \cap U = {} /\ Cardinality(M \cap U) = 0  BY <1>8, FS_EmptySet
  <2>4. Cardinality(M \cup U) = Cardinality(M) + Cardinality(U) - Cardinality(M \cap U)
    BY <2>1, <2>2, FS_Union
  <2>5. Cardinality(M) + Len(pages) = PhysPages  BY DEF Backed
  <2> HIDE DEF M
  <2> QED  BY <1>1, <1>3, <2>1, <2>2, <2>3, <2>4, <2>5
<1>17. Backed(kmap2, pages2, A \cup {s})
  <2> HIDE DEF M
  <2> QED  BY <1>7, <1>11, <1>13, <1>14, <1>15, <1>16 DEF Backed
<1> QED  BY <1>3, <1>6, <1>17 DEF kmap2, pages2, b, n

\* internal_freewired unmaps the pages and puts them in front of the list.
Unmap(kmap, s) == [va \in KHeap |-> IF va \in s.base .. End(s) - 1 THEN NoPage ELSE kmap[va]]
PagesOf(kmap, s) == [i \in 1 .. s.size |-> kmap[s.base + i - 1]]

\* When an allocation is unmapped its pages are free and the others still backed.
LEMMA BackedRemove ==
    ASSUME NEW kmap \in [KHeap -> 0 .. PhysPages], NEW pages \in Seq(1 .. PhysPages), NEW A,
           Backed(kmap, pages, A), NEW s \in A, s \in SegType, Units(s) \subseteq KHeap,
           \A t \in A \ {s} : Units(t) \cap Units(s) = {}
    PROVE  LET kmap2 == Unmap(kmap, s)
               pages2 == Reverse(PagesOf(kmap, s)) \o pages
           IN  /\ kmap2 \in [KHeap -> 0 .. PhysPages] /\ pages2 \in Seq(1 .. PhysPages)
               /\ Backed(kmap2, pages2, A \ {s})
<1> DEFINE n == s.size
           b == s.base
           U == Units(s)
           M == Mapped(kmap)
           kmap2 == Unmap(kmap, s)
           r == Reverse(PagesOf(kmap, s))
           pages2 == r \o pages
<1>1. b \in Nat /\ n \in Nat \ {0} /\ Len(pages) \in Nat /\ PhysPages \in Nat
  BY VmKernelAssumption DEF SegType
<1>2. U = b .. End(s) - 1 /\ U = b .. b + n - 1  BY <1>1 DEF Units, End
<1>3. U \subseteq M /\ M \subseteq KHeap
  <2>1. M = UNION {Units(t) : t \in A}  BY DEF Backed
  <2>2. M \subseteq KHeap  BY DEF Mapped
  <2> HIDE DEF M
  <2> QED  BY <2>1, <2>2
<1>4. \A va \in KHeap : kmap2[va] = IF va \in U THEN NoPage ELSE kmap[va]  BY <1>2 DEF Unmap
<1>5. kmap2 \in [KHeap -> 0 .. PhysPages]
  <2>1. \A va \in KHeap : kmap2[va] \in 0 .. PhysPages
    <3> HIDE DEF kmap2, U
    <3> QED  BY <1>1, <1>4 DEF NoPage
  <2> QED  BY <2>1 DEF Unmap
<1>6. \A va \in M : kmap[va] \in 1 .. PhysPages
  <2>1. \A va \in M : va \in KHeap /\ kmap[va] # 0  BY DEF Mapped, NoPage
  <2>2. \A va \in KHeap : kmap[va] \in 0 .. PhysPages  OBVIOUS
  <2>3. \A x \in 0 .. PhysPages : x # 0 => x \in 1 .. PhysPages  BY <1>1
  <2> HIDE DEF M
  <2> QED  BY <2>1, <2>2, <2>3
<1>7. Len(PagesOf(kmap, s)) = n /\ \A i \in 1 .. n : PagesOf(kmap, s)[i] = kmap[b + i - 1]
  BY <1>1 DEF PagesOf
<1>8. /\ r \in Seq(1 .. PhysPages) /\ Len(r) = n
      /\ \A i \in 1 .. n : (n - i) + 1 \in 1 .. n /\ b + ((n - i) + 1) - 1 \in U
                           /\ r[i] = kmap[b + ((n - i) + 1) - 1]
  <2>1. \A i \in 1 .. n : (n - i) + 1 \in 1 .. n /\ b + ((n - i) + 1) - 1 \in U
    <3> HIDE DEF n, b, U
    <3>1. \A i \in 1 .. n : (n - i) + 1 \in 1 .. n  BY <1>1
    <3>2. \A i \in 1 .. n : b + ((n - i) + 1) - 1 \in b .. b + n - 1  BY <1>1
    <3> QED  BY <1>2, <3>1, <3>2
  <2>2. r = [i \in 1 .. n |-> PagesOf(kmap, s)[(n - i) + 1]]  BY <1>7 DEF Reverse
  <2> HIDE DEF r, n, b, U
  <2>3. \A i \in 1 .. n : r[i] = kmap[b + ((n - i) + 1) - 1]  BY <1>7, <2>1, <2>2
  <2>4. \A i \in 1 .. n : r[i] \in 1 .. PhysPages  BY <1>3, <1>6, <2>1, <2>3
  <2>5. r \in [1 .. n -> 1 .. PhysPages]  BY <2>2, <2>4
  <2> QED  BY <1>1, <2>1, <2>3, <2>5
<1> HIDE DEF r
<1>9. /\ pages2 \in Seq(1 .. PhysPages) /\ Len(pages2) = n + Len(pages)
      /\ \A i \in 1 .. n + Len(pages) : pages2[i] = IF i <= n THEN r[i] ELSE pages[i - n]
  <2>1. r \in Seq(1 .. PhysPages) /\ Len(r) = n  BY <1>8
  <2> HIDE DEF n
  <2> QED  BY <2>1, ConcatAt, ZenonT(60)
<1> HIDE DEF kmap2, pages2, n, b, U
<1>10. Mapped(kmap2) = M \ U
  <2>1. \A va \in KHeap : kmap2[va] # NoPage <=> (va \notin U /\ kmap[va] # NoPage)  BY <1>4
  <2> QED  BY <2>1 DEF Mapped
<1>11. \A va \in M \ U : kmap2[va] = kmap[va]  BY <1>3, <1>4
<1>12. Mapped(kmap2) = UNION {Units(t) : t \in A \ {s}}
  <2>1. M = UNION {Units(t) : t \in A}  BY DEF Backed
  <2>2. (UNION {Units(t) : t \in A}) \ U = UNION {Units(t) : t \in A \ {s}}
    <3>1. \A t \in A \ {s} : Units(t) \cap U = {}  BY DEF U
    <3>2. U = Units(s)  BY DEF U
    <3> QED  BY <3>1, <3>2
  <2> QED  BY <1>10, <2>1, <2>2
<1>13. \A va, vb \in M \ U : va # vb => kmap2[va] # kmap2[vb]  BY <1>11 DEF Backed
<1>14. ASSUME NEW i \in 1 .. n + Len(pages)
       PROVE  \/ i <= n /\ pages2[i] = kmap[b + ((n - i) + 1) - 1] /\ b + ((n - i) + 1) - 1 \in U
              \/ ~(i <= n) /\ i - n \in 1 .. Len(pages) /\ pages2[i] = pages[i - n]
  <2>1. CASE i <= n
    <3>1. i \in 1 .. n  BY <1>1, <2>1
    <3> QED  BY <1>8, <1>9, <2>1, <3>1
  <2>2. CASE ~(i <= n)
    <3>1. i - n \in 1 .. Len(pages)  BY <1>1, <2>2
    <3> QED  BY <1>9, <2>2, <3>1
  <2> QED  BY <2>1, <2>2
<1>15. ASSUME NEW va \in M \ U, NEW i \in DOMAIN pages2 PROVE kmap2[va] # pages2[i]
  <2>1. i \in 1 .. n + Len(pages)  BY <1>9
  <2>2. CASE i <= n /\ pages2[i] = kmap[b + ((n - i) + 1) - 1] /\ b + ((n - i) + 1) - 1 \in U
    BY <1>3, <1>11, <2>2 DEF Backed
  <2>3. CASE ~(i <= n) /\ i - n \in 1 .. Len(pages) /\ pages2[i] = pages[i - n]
    BY <1>11, <2>3 DEF Backed
  <2> QED  BY <1>14, <2>1, <2>2, <2>3
<1>16. ASSUME NEW i \in DOMAIN pages2, NEW j \in DOMAIN pages2, pages2[i] = pages2[j] PROVE i = j
  <2>1. i \in 1 .. n + Len(pages) /\ j \in 1 .. n + Len(pages)  BY <1>9
  <2> DEFINE vi == b + ((n - i) + 1) - 1
             vj == b + ((n - j) + 1) - 1
  <2>2. /\ \/ i <= n /\ pages2[i] = kmap[vi] /\ vi \in U
           \/ ~(i <= n) /\ i - n \in 1 .. Len(pages) /\ pages2[i] = pages[i - n]
        /\ \/ j <= n /\ pages2[j] = kmap[vj] /\ vj \in U
           \/ ~(j <= n) /\ j - n \in 1 .. Len(pages) /\ pages2[j] = pages[j - n]
    BY <1>14, <2>1
  <2>3. vi = vj => i = j  BY <1>1, <2>1
  <2>4. i - n = j - n => i = j  BY <1>1, <2>1
  <2> HIDE DEF vi, vj
  <2>5. \A v, w \in U : kmap[v] = kmap[w] => v = w  BY <1>3 DEF Backed
  <2>6. \A v \in U, k \in 1 .. Len(pages) : kmap[v] # pages[k]  BY <1>3 DEF Backed
  <2>7. \A k, l \in 1 .. Len(pages) : pages[k] = pages[l] => k = l  BY DEF Backed, IsInjective
  <2> QED  BY <1>16, <2>2, <2>3, <2>4, <2>5, <2>6, <2>7
<1>17. Cardinality(M \ U) + Len(pages2) = PhysPages
  <2>1. IsFiniteSet(M) /\ Cardinality(M) \in Nat  BY MappedFinite
  <2>2. IsFiniteSet(U) /\ Cardinality(U) = n
    <3>1. b \in Int /\ b + n - 1 \in Int /\ ~(b > b + n - 1) /\ (b + n - 1) - b + 1 = n  BY <1>1
    <3> QED  BY <1>2, <3>1, FS_Interval
  <2>3. IsFiniteSet(M \ U) /\ Cardinality(M \ U) \in Nat  BY <2>1, FS_Subset, FS_CardinalityType
  <2>4. (M \ U) \cap U = {} /\ Cardinality((M \ U) \cap U) = 0 /\ (M \ U) \cup U = M  BY <1>3, FS_EmptySet
  <2>5. Cardinality((M \ U) \cup U) = Cardinality(M \ U) + Cardinality(U) - Cardinality((M \ U) \cap U)
    BY <2>2, <2>3, FS_Union
  <2>6. Cardinality(M) + Len(pages) = PhysPages  BY DEF Backed
  <2>7. Cardinality(M) = Cardinality(M \ U) + n
    <3>1. Cardinality((M \ U) \cup U) = Cardinality(M)  BY <2>4
    <3> HIDE DEF M
    <3> QED  BY <1>1, <2>2, <2>3, <2>4, <2>5, <3>1
  <2> HIDE DEF M
  <2> QED  BY <1>1, <1>9, <2>3, <2>6, <2>7
<1>18. IsInjective(pages2)  BY <1>16 DEF IsInjective
<1>19. Backed(kmap2, pages2, A \ {s})
  <2> HIDE DEF M
  <2> QED  BY <1>10, <1>12, <1>13, <1>15, <1>17, <1>18 DEF Backed
<1> QED  BY <1>5, <1>9, <1>19 DEF kmap2, pages2, r

------------------------------------------------------------------------------
\* vm_kalloc and vm_kfree.

\* The kernel stays stopped.
LEMMA StoppedStays ==
    ASSUME NEW m, m.stop # "no", NEW size, NEW n, NEW x
    PROVE  /\ seg_alloc(m, n) = m /\ xalloc(m, x, size).mem = m /\ Imported(m, size) = m
           /\ seg_refill(m) = m
<1>1. Stopped(m)  BY DEF Stopped
<1>2. seg_alloc(m, n) = m /\ seg_alloc(m, 2) = m  BY <1>1 DEF seg_alloc
<1>3. xalloc(m, x, size).mem = m /\ xalloc(m, "kva", size).mem = m  BY <1>1 DEF xalloc
<1>4. kva_xalloc(m, size).mem = m  BY <1>2, <1>3 DEF kva_xalloc
<1>5. MapPages(kva_xalloc(m, size), size).mem = m  BY <1>1, <1>4 DEF MapPages
<1>6. Imported(m, size) = m  BY <1>1, <1>2, <1>5 DEF Imported, AddMapped, AddSpan
<1> QED  BY <1>1, <1>2, <1>3, <1>6 DEF seg_refill

\* seg_alloc.
LEMMA SegAlloc ==
    ASSUME NEW m \in MemType, m.stop = "no", NEW n \in Nat, m.tags >= n
    PROVE  LET s == seg_alloc(m, n)
           IN  /\ s = [m EXCEPT !.tags = @ - n] /\ s \in MemType
               /\ s.tags = m.tags - n /\ s.stop = "no"
               /\ s.kva = m.kva /\ s.wired = m.wired /\ s.blocks = m.blocks
               /\ s.pages = m.pages /\ s.kmap = m.kmap
<1>1. m.tags \in Nat  BY DEF MemType
<1>2. m.tags - n \in Nat /\ ~(m.tags < n)  BY <1>1
<1>3. seg_alloc(m, n) = [m EXCEPT !.tags = @ - n]  BY <1>2 DEF seg_alloc, Stopped
<1> QED  BY <1>2, <1>3 DEF MemType

\* An arena that is right has its type.
LEMMA ArenaTyped == ASSUME NEW a, ArenaOK(a) PROVE a \in ArenaType /\ Len(a.segqueue) \in Nat
<1>1. a \in ArenaType  BY DEF ArenaOK, Has, ArenaType
<1>2. a.segqueue \in Seq(SegType)  BY <1>1 DEF ArenaType
<1> QED  BY <1>1, <1>2

\* WithArena.
LEMMA WithKva ==
    ASSUME NEW m \in MemType, NEW a \in ArenaType, NEW d \in Nat,
           m.tags + d + Len(m.kva.segqueue) - Len(a.segqueue) \in Nat
    PROVE  LET s == WithArena(m, "kva", a, d)
           IN  /\ s \in MemType /\ s.kva = a /\ s.wired = m.wired
               /\ s.tags = m.tags + d + Len(m.kva.segqueue) - Len(a.segqueue)
               /\ s.stop = m.stop /\ s.blocks = m.blocks /\ s.pages = m.pages /\ s.kmap = m.kmap
BY DEF WithArena, MemType

\* And of the wired arena.
LEMMA WithWired ==
    ASSUME NEW m \in MemType, NEW a \in ArenaType, NEW d \in Nat,
           m.tags + d + Len(m.wired.segqueue) - Len(a.segqueue) \in Nat
    PROVE  LET s == WithArena(m, "wired", a, d)
           IN  /\ s \in MemType /\ s.wired = a /\ s.kva = m.kva
               /\ s.tags = m.tags + d + Len(m.wired.segqueue) - Len(a.segqueue)
               /\ s.stop = m.stop /\ s.blocks = m.blocks /\ s.pages = m.pages /\ s.kmap = m.kmap
BY DEF WithArena, MemType

\* kva_xalloc: the first units of a free segment, which may leave a rest.
LEMMA KvaTaken ==
    ASSUME NEW m \in MemType, m.stop = "no", ArenaOK(m.kva), m.tags >= 2,
           NEW size \in Nat \ {0}, HasClass(size)
    PROVE  LET r == kva_xalloc(m, size)
               s == r.mem
           IN  /\ r = [mem |-> s, addr |-> r.addr]
               /\ s \in MemType /\ s.stop = "no" /\ ArenaOK(s.kva)
               /\ s.wired = m.wired /\ s.blocks = m.blocks /\ s.pages = m.pages /\ s.kmap = m.kmap
               /\ r.addr # -1 =>
                    /\ r.addr \in Nat
                    /\ \E f \in FreeSegs(m.kva.segqueue) :
                           /\ f.base = r.addr /\ size <= f.size
                           /\ \/ Range(s.kva.segqueue) = (Range(m.kva.segqueue) \ {f}) \cup {Taken(f, size)}
                              \/ /\ size # f.size
                                 /\ Range(s.kva.segqueue) =
                                        (Range(m.kva.segqueue) \ {f}) \cup {Taken(f, size), Rest(f, size)}
                    /\ s.tags + Len(s.kva.segqueue) = m.tags + Len(m.kva.segqueue)
                    /\ Len(s.kva.segqueue) <= Len(m.kva.segqueue) + 1
<1> DEFINE m1 == seg_alloc(m, 2)
           a == m.kva
           q == a.segqueue
           i == Search(a, size, 0, FALSE)
           f == q[i]
           b == split_seg(a, i, f.base, size)
           s == WithArena(m1, "kva", b, 2)
<1>1. /\ m1 \in MemType /\ m1.stop = "no" /\ m1.tags = m.tags - 2
      /\ m1.kva = m.kva /\ m1.wired = m.wired /\ m1.blocks = m.blocks
      /\ m1.pages = m.pages /\ m1.kmap = m.kmap
  BY SegAlloc
<1>2. kva_xalloc(m, size) = IF i = 0 THEN [mem |-> m1, addr |-> -1] ELSE [mem |-> s, addr |-> f.base]
  <2>1. m1["kva"] = m.kva /\ ~Stopped(m1)  BY <1>1 DEF Stopped
  <2> HIDE DEF m1, i, b
  <2> QED  BY <2>1 DEF kva_xalloc, xalloc, m1, i, b
<1> HIDE DEF m1, i
<1>3. CASE i = 0  BY <1>1, <1>2, <1>3
<1>4. CASE i # 0
  <2>1. i \in DOMAIN q /\ f \in FreeSegs(q) /\ size <= f.size  BY <1>4, SearchFinds DEF i
  <2>2. QueueOK(q)  BY DEF ArenaOK
  <2>3. f \in Range(q) /\ f.type = "free"  BY <2>1 DEF FreeSegs
  <2>4. f.base \in Nat /\ f.size \in Nat \ {0}  BY <2>2, <2>3, SegsTyped
  <2>5. size \in 1 .. f.size  BY <2>1, <2>4
  <2>6. /\ ArenaOK(b)
        /\ Range(b.segqueue) = (Range(q) \ {f}) \cup Range(SplitInto(f, size))
        /\ Len(b.segqueue) = Len(q) - 1 + Len(SplitInto(f, size))
    <3>1. /\ ArenaOK(a) /\ i \in DOMAIN a.segqueue /\ a.segqueue[i].type = "free"
          /\ size \in 1 .. a.segqueue[i].size
      BY <2>1, <2>3, <2>5
    <3> HIDE DEF a
    <3> QED  BY <3>1, SplitArena
  <2>7. CASE size = f.size
    <3>1. SplitInto(f, size) = <<Taken(f, size)>>  BY <2>7 DEF SplitInto
    <3>2. Range(SplitInto(f, size)) = {Taken(f, size)} /\ Len(SplitInto(f, size)) = 1
      BY <3>1 DEF Range
    <3>3. b \in ArenaType /\ Len(q) \in Nat /\ Len(b.segqueue) = Len(q)
      BY <2>6, <3>2, ArenaTyped
    <3> HIDE DEF b, f
    <3>4. m1.tags + 2 + Len(m1.kva.segqueue) - Len(b.segqueue) \in Nat /\ m.tags \in Nat
          /\ m1.tags + 2 + Len(m1.kva.segqueue) - Len(b.segqueue) = m.tags
      BY <1>1, <3>3 DEF MemType
    <3>41. /\ m1 \in MemType /\ b \in ArenaType /\ 2 \in Nat
           /\ m1.tags + 2 + Len(m1.kva.segqueue) - Len(b.segqueue) \in Nat
      BY <1>1, <3>3, <3>4
    <3>42. /\ s \in MemType /\ s.kva = b /\ s.wired = m1.wired
           /\ s.tags = m1.tags + 2 + Len(m1.kva.segqueue) - Len(b.segqueue)
           /\ s.stop = m1.stop /\ s.blocks = m1.blocks /\ s.pages = m1.pages /\ s.kmap = m1.kmap
      BY <3>41, WithKva
    <3>5. /\ s \in MemType /\ s.kva = b /\ s.wired = m1.wired /\ s.tags = m.tags
          /\ s.stop = m1.stop /\ s.blocks = m1.blocks /\ s.pages = m1.pages /\ s.kmap = m1.kmap
      BY <3>42, <3>4
    <3> HIDE DEF s
    <3>6. s.tags + Len(s.kva.segqueue) = m.tags + Len(q)  BY <3>3, <3>5
    <3>7. Len(s.kva.segqueue) <= Len(q) + 1  BY <3>3, <3>5
    <3>8. Range(s.kva.segqueue) = (Range(q) \ {f}) \cup {Taken(f, size)}  BY <2>6, <3>2, <3>5
    <3>9. /\ s.stop = "no" /\ ArenaOK(s.kva) /\ s.wired = m.wired /\ s.blocks = m.blocks
          /\ s.pages = m.pages /\ s.kmap = m.kmap
      BY <1>1, <2>6, <3>5
    <3>10. kva_xalloc(m, size) = [mem |-> s, addr |-> f.base]  BY <1>2, <1>4
    <3> HIDE DEF q
    <3> QED  BY <2>1, <2>4, <3>5, <3>6, <3>7, <3>8, <3>9, <3>10 DEF q
  <2>8. CASE size # f.size
    <3>1. SplitInto(f, size) = <<Taken(f, size), Rest(f, size)>>  BY <2>8 DEF SplitInto
    <3>2. Range(SplitInto(f, size)) = {Taken(f, size), Rest(f, size)} /\ Len(SplitInto(f, size)) = 2
      BY <3>1 DEF Range
    <3>3. b \in ArenaType /\ Len(q) \in Nat /\ Len(b.segqueue) = Len(q) + 1
      BY <2>6, <3>2, ArenaTyped
    <3> HIDE DEF b, f
    <3>4. m1.tags + 2 + Len(m1.kva.segqueue) - Len(b.segqueue) \in Nat /\ m.tags \in Nat
          /\ m1.tags + 2 + Len(m1.kva.segqueue) - Len(b.segqueue) = m.tags - 1
      BY <1>1, <3>3 DEF MemType
    <3>41. /\ m1 \in MemType /\ b \in ArenaType /\ 2 \in Nat
           /\ m1.tags + 2 + Len(m1.kva.segqueue) - Len(b.segqueue) \in Nat
      BY <1>1, <3>3, <3>4
    <3>42. /\ s \in MemType /\ s.kva = b /\ s.wired = m1.wired
           /\ s.tags = m1.tags + 2 + Len(m1.kva.segqueue) - Len(b.segqueue)
           /\ s.stop = m1.stop /\ s.blocks = m1.blocks /\ s.pages = m1.pages /\ s.kmap = m1.kmap
      BY <3>41, WithKva
    <3>5. /\ s \in MemType /\ s.kva = b /\ s.wired = m1.wired /\ s.tags = m.tags - 1
          /\ s.stop = m1.stop /\ s.blocks = m1.blocks /\ s.pages = m1.pages /\ s.kmap = m1.kmap
      BY <3>42, <3>4
    <3> HIDE DEF s
    <3>6. s.tags + Len(s.kva.segqueue) = m.tags + Len(q)  BY <3>3, <3>4, <3>5
    <3> QED  BY <1>1, <1>2, <1>4, <2>1, <2>4, <2>6, <2>8, <3>2, <3>3, <3>5, <3>6
  <2> QED  BY <2>7, <2>8
<1> QED  BY <1>3, <1>4

\* The segments of kernel-va are in the heap.
LEMMA HeapSegs ==
    ASSUME NEW a, ArenaOK(a), InHeap(a), NEW s \in Range(a.segqueue)
    PROVE  Units(s) \subseteq KHeap
<1> DEFINE q == a.segqueue
<1>1. QueueOK(q) /\ Housed(q) /\ KHeapSize \in Nat  BY VmKernelAssumption DEF ArenaOK, QueueOK
<1>2. \E t \in Range(q) : t.type \in SpanTypes /\ t.base <= s.base /\ End(s) <= End(t)
  <2>1. CASE s.type \in SpanTypes
    <3>1. s.base \in Nat /\ End(s) \in Nat  BY <1>1, SegsTyped
    <3> QED  BY <2>1, <3>1
  <2>2. CASE s.type \notin SpanTypes  BY <1>1, <2>2 DEF Housed, Inside
  <2> QED  BY <2>1, <2>2
<1>3. PICK t \in Range(q) : t.type \in SpanTypes /\ t.base <= s.base /\ End(s) <= End(t)  BY <1>2
<1>4. t \in Spans(a)  BY <1>3 DEF Spans
<1>5. KHeapBase <= t.base /\ End(t) <= KHeapBase + KHeapSize  BY <1>4 DEF InHeap
<1>6. s.base \in Nat /\ End(s) \in Nat /\ t.base \in Nat /\ End(t) \in Nat  BY <1>1, SegsTyped
<1> QED  BY <1>1, <1>3, <1>5, <1>6 DEF Units, KHeap, KHeapBase

\* The first units of a free segment of kernel-va.
LEMMA TakenOfFree ==
    ASSUME NEW a, ArenaOK(a), InHeap(a), NEW f \in FreeSegs(a.segqueue), NEW n \in Nat \ {0}, n <= f.size
    PROVE  LET new == Taken(f, n)
           IN  /\ new \in SegType /\ new.base = f.base /\ new.size = n /\ new.type = "allocated"
               /\ End(new) = f.base + n
               /\ Classed(n)
               /\ Units(new) \subseteq KHeap
               /\ \A x \in Allocated(a) : End(x) <= new.base \/ End(new) <= x.base
               /\ \A x \in Allocated(a) : Units(x) \cap Units(new) = {}
<1> DEFINE q == a.segqueue
           new == Taken(f, n)
<1>1. QueueOK(q) /\ f \in Range(q) /\ f.type = "free"  BY DEF ArenaOK, FreeSegs
<1>2. f.base \in Nat /\ f.size \in Nat \ {0} /\ End(f) = f.base + f.size /\ Classed(f.size)
  BY <1>1, SegsTyped
<1>3. new.base = f.base /\ new.size = n /\ new.type = "allocated" /\ new \in SegType
  BY <1>2 DEF Taken, Seg, SegType
<1>4. End(new) = f.base + n /\ End(new) <= End(f) /\ End(new) \in Nat  BY <1>2, <1>3 DEF End
<1>5. Classed(n)  BY <1>2 DEF Classed
<1>6. Units(f) \subseteq KHeap  BY <1>1, HeapSegs
<1>7. Units(new) \subseteq Units(f)  BY <1>2, <1>3, <1>4 DEF Units
<1>8. ASSUME NEW x \in Allocated(a) PROVE End(x) <= new.base \/ End(new) <= x.base
  <2>1. x \in Range(q) /\ x.type = "allocated"  BY DEF Allocated
  <2>2. x.base \in Nat /\ End(x) \in Nat  BY <1>1, <2>1, SegsTyped
  <2>3. End(x) <= f.base \/ End(f) <= x.base  BY <1>1, <2>1, Apart DEF SpanTypes
  <2> QED  BY <1>2, <1>3, <1>4, <2>2, <2>3
<1>9. ASSUME NEW x \in Allocated(a) PROVE Units(x) \cap Units(new) = {}
  <2>1. x \in Range(q)  BY DEF Allocated
  <2>2. x.base \in Nat /\ End(x) \in Nat  BY <1>1, <2>1, SegsTyped
  <2>3. End(x) <= new.base \/ End(new) <= x.base  BY <1>8
  <2>4. new.base \in Nat /\ End(new) \in Nat  BY <1>2, <1>3, <1>4
  <2> HIDE DEF new
  <2> QED  BY <2>2, <2>3, <2>4 DEF Units
<1> QED  BY <1>3, <1>4, <1>5, <1>6, <1>7, <1>8, <1>9

\* What the queue holds when a free segment has been taken, or split.
LEMMA TakenKinds ==
    ASSUME NEW a, NEW b, NEW f, f.type = "free", NEW n,
           \/ Range(b.segqueue) = (Range(a.segqueue) \ {f}) \cup {Taken(f, n)}
           \/ Range(b.segqueue) = (Range(a.segqueue) \ {f}) \cup {Taken(f, n), Rest(f, n)}
    PROVE  Spans(b) = Spans(a) /\ Allocated(b) = Allocated(a) \cup {Taken(f, n)}
<1>1. Taken(f, n).type = "allocated" /\ Rest(f, n).type = "free"  BY DEF Taken, Rest, Seg
<1> QED  BY <1>1 DEF Spans, Allocated, SpanTypes

\* The addresses of a new span are free of others.
LEMMA FilledClear ==
    ASSUME NEW a, ArenaOK(a), Filled(a), NEW base \in Nat, NEW size \in Nat,
           \A x \in Allocated(a) : End(x) <= base \/ base + size <= x.base
    PROVE  ClearOf(a.segqueue, base, size) /\ FreeSegs(a.segqueue) = {}
<1>1. ASSUME NEW s \in Range(a.segqueue) PROVE End(s) <= base \/ base + size <= s.base
  <2>1. Seg("allocated", s.base, s.size) \in Allocated(a)  BY DEF Filled, Allocated, Seg
  <2> QED  BY <2>1 DEF End, Seg
<1>2. ClearOf(a.segqueue, base, size)  BY <1>1 DEF ClearOf
<1>3. FreeSegs(a.segqueue) = {}  BY DEF FreeSegs, Filled
<1> QED  BY <1>2, <1>3

\* MapPages.
LEMMA MapPagesIs ==
    ASSUME NEW s \in MemType, s.stop = "no", NEW addr, NEW size
    PROVE  LET r == [mem |-> s, addr |-> addr]
               e == MapPages(r, size)
               kmap == MapFirst(s.kmap, s.pages, addr, size)
               pages == SubSeq(s.pages, size + 1, Len(s.pages))
           IN  /\ addr = -1 \/ Len(s.pages) < size =>
                      e.mem = [s EXCEPT !.stop = "oom"]
               /\ ~(addr = -1 \/ Len(s.pages) < size) =>
                      e = [mem |-> [s EXCEPT !.pages = pages, !.kmap = kmap], addr |-> addr]
<1> DEFINE r == [mem |-> s, addr |-> addr]
<1>1. r.mem = s /\ r.addr = addr /\ ~Stopped(s)  BY DEF Stopped
<1>2. CASE addr = -1 \/ Len(s.pages) < size
  <2>1. MapPages(r, size) = [r EXCEPT !.mem.stop = "oom"]  BY <1>1, <1>2 DEF MapPages
  <2> QED  BY <1>2, <2>1
<1>3. CASE ~(addr = -1 \/ Len(s.pages) < size)
  BY <1>1, <1>3 DEF MapPages, MapFirst, MemType
<1> QED  BY <1>2, <1>3

\* internal_allocwired.
MapTakenOK(m, size, r) ==
    LET s == r.mem
        new == Seg("allocated", r.addr, size)
    IN  /\ s \in MemType /\ ArenaOK(s.kva) /\ s.wired = m.wired /\ s.stop \in {"no", "oom"}
        /\ s.stop = "no" =>
             /\ r.addr \in Nat /\ new \in SegType /\ Classed(size)
             /\ InHeap(s.kva) /\ Allocated(s.kva) = Allocated(m.kva) \cup {new}
             /\ Backed(s.kmap, s.pages, Allocated(s.kva))
             /\ \A x \in Allocated(m.kva) : End(x) <= r.addr \/ r.addr + size <= x.base
             /\ s.tags + Len(s.kva.segqueue) = m.tags + Len(m.kva.segqueue)
             /\ s.tags >= m.tags - 1 /\ s.blocks = m.blocks

\* internal_allocwired of a segment taken from kernel-va, or its failure.
LEMMA MapTaken ==
    ASSUME NEW m, NEW g, Sound(m, g), m.stop = "no", m.tags >= 2, NEW size \in Nat \ {0}, HasClass(size)
    PROVE  MapTakenOK(m, size, MapPages(kva_xalloc(m, size), size))
<1> DEFINE r1 == kva_xalloc(m, size)
           s1 == r1.mem
           r == MapPages(r1, size)
           kmap == MapFirst(s1.kmap, s1.pages, r1.addr, size)
           pages == SubSeq(s1.pages, size + 1, Len(s1.pages))
<1>1. /\ m \in MemType /\ ArenaOK(m.kva) /\ InHeap(m.kva) /\ Backed(m.kmap, m.pages, Allocated(m.kva))
  BY DEF Sound, Running
<1>2. /\ r1 = [mem |-> s1, addr |-> r1.addr]
      /\ s1 \in MemType /\ s1.stop = "no" /\ ArenaOK(s1.kva)
      /\ s1.wired = m.wired /\ s1.blocks = m.blocks /\ s1.pages = m.pages /\ s1.kmap = m.kmap
      /\ r1.addr # -1 =>
           /\ r1.addr \in Nat
           /\ \E f \in FreeSegs(m.kva.segqueue) :
                  /\ f.base = r1.addr /\ size <= f.size
                  /\ \/ Range(s1.kva.segqueue) = (Range(m.kva.segqueue) \ {f}) \cup {Taken(f, size)}
                     \/ /\ size # f.size
                        /\ Range(s1.kva.segqueue) =
                               (Range(m.kva.segqueue) \ {f}) \cup {Taken(f, size), Rest(f, size)}
           /\ s1.tags + Len(s1.kva.segqueue) = m.tags + Len(m.kva.segqueue)
           /\ Len(s1.kva.segqueue) <= Len(m.kva.segqueue) + 1
  BY <1>1, KvaTaken
<1> HIDE DEF r1, s1
<1>21. r = MapPages([mem |-> s1, addr |-> r1.addr], size)  BY <1>2
<1>3. /\ r1.addr = -1 \/ Len(s1.pages) < size => r.mem = [s1 EXCEPT !.stop = "oom"]
      /\ ~(r1.addr = -1 \/ Len(s1.pages) < size) =>
             r = [mem |-> [s1 EXCEPT !.pages = pages, !.kmap = kmap], addr |-> r1.addr]
  <2>1. s1 \in MemType /\ s1.stop = "no"  BY <1>2
  <2> HIDE DEF r
  <2> QED  BY <1>21, <2>1, MapPagesIs
<1> HIDE DEF r
<1> SUFFICES MapTakenOK(m, size, r)  BY DEF r, r1
<1>4. CASE r1.addr = -1 \/ Len(s1.pages) < size
  <2>1. r.mem \in MemType /\ r.mem.kva = s1.kva /\ r.mem.wired = s1.wired /\ r.mem.stop = "oom"
    BY <1>2, <1>3, <1>4 DEF MemType
  <2> QED  BY <1>2, <2>1 DEF MapTakenOK
<1>5. CASE ~(r1.addr = -1 \/ Len(s1.pages) < size)
  <2> DEFINE new == Seg("allocated", r1.addr, size)
  <2>1. PICK f \in FreeSegs(m.kva.segqueue) :
            /\ f.base = r1.addr /\ size <= f.size
            /\ \/ Range(s1.kva.segqueue) = (Range(m.kva.segqueue) \ {f}) \cup {Taken(f, size)}
               \/ Range(s1.kva.segqueue) =
                      (Range(m.kva.segqueue) \ {f}) \cup {Taken(f, size), Rest(f, size)}
    BY <1>2, <1>5
  <2>2. new = Taken(f, size)  BY <2>1 DEF Taken
  <2>3. /\ new \in SegType /\ new.base = r1.addr /\ new.size = size /\ End(new) = r1.addr + size
        /\ Classed(size) /\ Units(new) \subseteq KHeap
        /\ \A x \in Allocated(m.kva) : End(x) <= new.base \/ End(new) <= x.base
        /\ \A x \in Allocated(m.kva) : Units(x) \cap Units(new) = {}
    BY <1>1, <2>1, <2>2, TakenOfFree
  <2> HIDE DEF new
  <2>4. f.type = "free"  BY DEF FreeSegs
  <2>5. Spans(s1.kva) = Spans(m.kva) /\ Allocated(s1.kva) = Allocated(m.kva) \cup {new}
    <3>1. Spans(s1.kva) = Spans(m.kva) /\ Allocated(s1.kva) = Allocated(m.kva) \cup {Taken(f, size)}
      BY <2>1, <2>4, TakenKinds
    <3> QED  BY <3>1, <2>2
  <2>6. InHeap(s1.kva)  BY <1>1, <2>5 DEF InHeap
  <2>7. Units(new) \cap Mapped(m.kmap) = {}  BY <1>1, <2>3 DEF Backed
  <2>8. m.kmap \in [KHeap -> 0 .. PhysPages] /\ m.pages \in Seq(1 .. PhysPages) /\ Len(m.pages) \in Nat
    BY <1>1 DEF MemType
  <2>9. new.size <= Len(m.pages)  BY <1>2, <1>5, <2>3, <2>8
  <2>10. /\ kmap \in [KHeap -> 0 .. PhysPages] /\ pages \in Seq(1 .. PhysPages)
         /\ Backed(kmap, pages, Allocated(m.kva) \cup {new})
    <3>1. kmap = MapFirst(m.kmap, m.pages, new.base, new.size) /\ pages = SubSeq(m.pages, new.size + 1, Len(m.pages))
      BY <1>2, <2>3
    <3> HIDE DEF kmap, pages
    <3> QED  BY <1>1, <2>3, <2>7, <2>8, <2>9, <3>1, BackedAdd
  <2> HIDE DEF kmap, pages
  <2>11. /\ r.mem = [s1 EXCEPT !.pages = pages, !.kmap = kmap] /\ r.addr = r1.addr  BY <1>3, <1>5
  <2>12. /\ r.mem \in MemType /\ r.mem.kva = s1.kva /\ r.mem.wired = s1.wired /\ r.mem.stop = s1.stop
         /\ r.mem.tags = s1.tags /\ r.mem.blocks = s1.blocks /\ r.mem.pages = pages /\ r.mem.kmap = kmap
    BY <1>2, <2>10, <2>11 DEF MemType
  <2>13. /\ s1.tags + Len(s1.kva.segqueue) = m.tags + Len(m.kva.segqueue) /\ s1.tags >= m.tags - 1
    <3>1. /\ Len(s1.kva.segqueue) \in Nat /\ Len(m.kva.segqueue) \in Nat
      BY <1>1, <1>2, ArenaTyped
    <3>2. s1.tags \in Nat /\ m.tags \in Nat  BY <1>1, <1>2 DEF MemType
    <3>3. /\ s1.tags + Len(s1.kva.segqueue) = m.tags + Len(m.kva.segqueue)
          /\ Len(s1.kva.segqueue) <= Len(m.kva.segqueue) + 1
      BY <1>2, <1>5
    <3>4. \A a, b, c, d \in Nat : a + b = c + d /\ b <= d + 1 => a >= c - 1  OBVIOUS
    <3>5. s1.tags >= m.tags - 1  BY <3>1, <3>2, <3>3, <3>4
    <3> QED  BY <3>3, <3>5
  <2>14. /\ r.addr \in Nat /\ new = Seg("allocated", r.addr, size)
         /\ \A x \in Allocated(m.kva) : End(x) <= r.addr \/ r.addr + size <= x.base
    BY <1>2, <1>5, <2>3, <2>11 DEF new
  <2>15. r.mem.stop = "no" /\ r.mem.wired = m.wired /\ r.mem.blocks = m.blocks /\ ArenaOK(r.mem.kva)
         /\ InHeap(r.mem.kva) /\ Allocated(r.mem.kva) = Allocated(m.kva) \cup {new}
         /\ Backed(r.mem.kmap, r.mem.pages, Allocated(r.mem.kva))
         /\ r.mem.tags + Len(r.mem.kva.segqueue) = m.tags + Len(m.kva.segqueue)
         /\ r.mem.tags >= m.tags - 1
    BY <1>2, <2>5, <2>6, <2>10, <2>12, <2>13
  <2> QED  BY <2>3, <2>12, <2>14, <2>15 DEF MapTakenOK
<1> QED  BY <1>4, <1>5

\* A span that is added to an arena without free segments is what the search finds,
\* and the allocation fills it.
LEMMA FillSpan ==
    ASSUME NEW a, ArenaOK(a), Filled(a), NEW base \in Nat, NEW size \in Nat \ {0}, Classed(size),
           \A x \in Allocated(a) : End(x) <= base \/ base + size <= x.base
    PROVE  LET b == vmem_add_internal(a, "imported", base, size)
               i == Search(b, size, 0, FALSE)
               c == split_seg(b, i, base, size)
           IN  /\ ArenaOK(b) /\ Len(b.segqueue) = Len(a.segqueue) + 2
               /\ i # 0 /\ b.segqueue[i].base = base
               /\ ArenaOK(c) /\ Len(c.segqueue) = Len(a.segqueue) + 2
               /\ Filled(c)
               /\ Allocated(c) = Allocated(a) \cup {Seg("allocated", base, size)}
<1> DEFINE b == vmem_add_internal(a, "imported", base, size)
           i == Search(b, size, 0, FALSE)
           c == split_seg(b, i, base, size)
           span == Seg("imported", base, size)
           free == Seg("free", base, size)
           new == Seg("allocated", base, size)
<1>1. "imported" \in SpanTypes /\ ClearOf(a.segqueue, base, size) /\ FreeSegs(a.segqueue) = {}
  BY FilledClear DEF SpanTypes
<1>2. /\ ArenaOK(b) /\ Len(b.segqueue) = Len(a.segqueue) + 2
      /\ Range(b.segqueue) = Range(a.segqueue) \cup {span, free}
  <2>1. LET y == vmem_add_internal(a, "imported", base, size)
        IN  /\ ArenaOK(y)
            /\ Range(y.segqueue) = Range(a.segqueue) \cup {Seg("imported", base, size), Seg("free", base, size)}
            /\ Len(y.segqueue) = Len(a.segqueue) + 2
    BY <1>1, AddArena, ZenonT(30)
  <2> QED  BY <2>1
<1>3. HasClass(size) /\ Len(a.segqueue) \in Nat  BY ArenaTyped DEF Classed
<1> HIDE DEF b
<1>4. FreeSegs(b.segqueue) = {free} /\ free.size = size /\ free.base = base /\ free.type = "free"
  BY <1>1, <1>2 DEF FreeSegs, Seg
<1>5. /\ i # 0 /\ i \in DOMAIN b.segqueue /\ b.segqueue[i] \in FreeSegs(b.segqueue)
  BY <1>2, <1>3, <1>4, SearchFinds
<1>6. b.segqueue[i] = free  BY <1>4, <1>5
<1> HIDE DEF i, free
<1>7. size \in 1 .. b.segqueue[i].size  BY <1>4, <1>6
<1>8. /\ ArenaOK(c)
      /\ Range(c.segqueue) = (Range(b.segqueue) \ {free}) \cup Range(SplitInto(free, size))
      /\ Len(c.segqueue) = Len(b.segqueue) - 1 + Len(SplitInto(free, size))
  <2>1. ArenaOK(b) /\ i \in DOMAIN b.segqueue /\ b.segqueue[i].type = "free" /\ size \in 1 .. b.segqueue[i].size
    BY <1>2, <1>4, <1>5, <1>6, <1>7
  <2>2. c = split_seg(b, i, b.segqueue[i].base, size)  BY <1>4, <1>6
  <2> HIDE DEF c
  <2>3. /\ ArenaOK(c)
        /\ Range(c.segqueue) = (Range(b.segqueue) \ {b.segqueue[i]}) \cup Range(SplitInto(b.segqueue[i], size))
        /\ Len(c.segqueue) = Len(b.segqueue) - 1 + Len(SplitInto(b.segqueue[i], size))
    BY <2>1, <2>2, SplitArena
  <2> QED  BY <1>6, <2>3
<1> HIDE DEF c
<1>9. SplitInto(free, size) = <<new>>  BY <1>4 DEF SplitInto, Taken
<1>10. Range(SplitInto(free, size)) = {new} /\ Len(SplitInto(free, size)) = 1  BY <1>9 DEF Range
<1>11. Range(c.segqueue) = Range(a.segqueue) \cup {span, new}
  <2>1. free \notin Range(a.segqueue)  BY <1>1, <1>4 DEF FreeSegs
  <2>2. span # free  BY <1>4 DEF Seg
  <2> QED  BY <1>2, <1>8, <1>10, <2>1, <2>2
<1>12. Len(c.segqueue) = Len(a.segqueue) + 2  BY <1>2, <1>3, <1>8, <1>10
<1>13. Filled(c)
  <2>1. span.type = "imported" /\ new.type = "allocated" /\ span.base = base /\ new.base = base
        /\ span.size = size /\ new.size = size
    BY DEF Seg
  <2>2. ASSUME NEW x \in Range(c.segqueue)
        PROVE  /\ x.type \in {"imported", "allocated"}
               /\ Seg("imported", x.base, x.size) \in Range(c.segqueue)
               /\ Seg("allocated", x.base, x.size) \in Range(c.segqueue)
    <3>1. CASE x \in Range(a.segqueue)  BY <1>11, <3>1 DEF Filled
    <3>2. CASE x \in {span, new}  BY <1>11, <2>1, <3>2
    <3> QED  BY <1>11, <3>1, <3>2
  <2> QED  BY <2>2 DEF Filled
<1>14. Allocated(c) = Allocated(a) \cup {new}  BY <1>11 DEF Allocated, Seg
<1> QED  BY <1>2, <1>4, <1>5, <1>6, <1>8, <1>12, <1>13, <1>14 DEF b, i, c

\* An allocation from the wired arena: the memory afterwards, but for g tags, and the
\* address.
Allocs(m, r, size, g, t) ==
    /\ Sound(r.mem, g) /\ Enough(r.mem, t)
    /\ r.mem.stop = "no" =>
         /\ r.addr \in Nat
         /\ Allocated(m.wired) \cup {Seg("allocated", r.addr, size)} \subseteq Allocated(r.mem.wired)
         /\ \A s \in Allocated(m.wired) : s.base # r.addr

\* It imports a span and fills it.  Two tags have been taken for it in advance.
LEMMA WiredAlloc ==
    ASSUME NEW m, NEW g \in Nat, Sound(m, g + 2), m.stop = "no", NEW t \in Nat, m.tags >= t + 1, t >= 2,
           NEW size \in Nat \ {0}, HasClass(size)
    PROVE  Allocs(m, xalloc(Imported(m, size), "wired", size), size, g, t)
<1> DEFINE r2 == MapPages(kva_xalloc(m, size), size)
           s2 == r2.mem
           s3 == seg_alloc(s2, 2)
           b == vmem_add_internal(s2.wired, "imported", r2.addr, size)
           s4 == WithArena(s3, "wired", b, 2)
           i == Search(b, size, 0, FALSE)
           c == split_seg(b, i, r2.addr, size)
           s5 == WithArena(s4, "wired", c, 2)
           r == xalloc(Imported(m, size), "wired", size)
           new == Seg("allocated", r2.addr, size)
<1>1. /\ m \in MemType /\ m.tags \in Nat /\ ArenaOK(m.kva) /\ ArenaOK(m.wired) /\ Filled(m.wired)
      /\ Allocated(m.wired) = Allocated(m.kva) /\ TagsKept(m, g + 2)
  BY DEF Sound, Running, MemType
<1>2. m.tags >= 2 /\ m.tags >= 3  BY <1>1
<1>3. MapTakenOK(m, size, r2)  BY <1>2, MapTaken
<1> HIDE DEF r2
<1>4. /\ s2 \in MemType /\ ArenaOK(s2.kva) /\ s2.wired = m.wired /\ s2.stop \in {"no", "oom"}
      /\ s2.stop = "no" =>
           /\ r2.addr \in Nat /\ new \in SegType /\ Classed(size)
           /\ InHeap(s2.kva) /\ Allocated(s2.kva) = Allocated(m.kva) \cup {new}
           /\ Backed(s2.kmap, s2.pages, Allocated(s2.kva))
           /\ \A x \in Allocated(m.kva) : End(x) <= r2.addr \/ r2.addr + size <= x.base
           /\ s2.tags + Len(s2.kva.segqueue) = m.tags + Len(m.kva.segqueue)
           /\ s2.tags >= m.tags - 1 /\ s2.blocks = m.blocks
  BY <1>3 DEF MapTakenOK
<1>5. Imported(m, size) = AddSpan(s3, r2.addr, size)  BY DEF Imported, AddMapped, r2
<1> HIDE DEF s2
<1>6. CASE s2.stop = "oom"
  <2>1. Stopped(s2) /\ s3 = s2  BY <1>6 DEF Stopped, seg_alloc
  <2>2. Imported(m, size) = s2  BY <1>5, <2>1 DEF AddSpan
  <2>3. r.mem = s2  BY <2>1, <2>2 DEF xalloc
  <2> HIDE DEF r
  <2>4. Sound(s2, g) /\ Enough(s2, t)  BY <1>1, <1>4, <1>6 DEF Sound, Enough
  <2> QED  BY <1>6, <2>3, <2>4 DEF Allocs, r
<1>7. CASE s2.stop = "no"
  <2>1. /\ r2.addr \in Nat /\ new \in SegType /\ Classed(size)
        /\ InHeap(s2.kva) /\ Allocated(s2.kva) = Allocated(m.kva) \cup {new}
        /\ Backed(s2.kmap, s2.pages, Allocated(s2.kva))
        /\ \A x \in Allocated(m.wired) : End(x) <= r2.addr \/ r2.addr + size <= x.base
        /\ s2.tags + Len(s2.kva.segqueue) = m.tags + Len(m.kva.segqueue)
        /\ s2.tags >= m.tags - 1 /\ s2.blocks = m.blocks /\ s2.tags \in Nat
    BY <1>1, <1>4, <1>7 DEF MemType
  <2>2. s2.tags >= 2 /\ s2.tags >= t  BY <1>1, <1>2, <2>1
  <2>3. /\ s3 \in MemType /\ s3.tags = s2.tags - 2 /\ s3.stop = "no"
        /\ s3.kva = s2.kva /\ s3.wired = s2.wired /\ s3.blocks = s2.blocks
        /\ s3.pages = s2.pages /\ s3.kmap = s2.kmap
    <3>1. s2 \in MemType /\ s2.stop = "no" /\ 2 \in Nat /\ s2.tags >= 2  BY <1>4, <1>7, <2>2
    <3> QED  BY <3>1, SegAlloc
  <2>4. /\ ArenaOK(b) /\ Len(b.segqueue) = Len(m.wired.segqueue) + 2
        /\ i # 0 /\ b.segqueue[i].base = r2.addr
        /\ ArenaOK(c) /\ Len(c.segqueue) = Len(m.wired.segqueue) + 2
        /\ Filled(c)
        /\ Allocated(c) = Allocated(m.wired) \cup {new}
    <3>1. b = vmem_add_internal(m.wired, "imported", r2.addr, size)  BY <1>4
    <3>2. /\ ArenaOK(m.wired) /\ Filled(m.wired) /\ r2.addr \in Nat /\ size \in Nat \ {0} /\ Classed(size)
          /\ \A x \in Allocated(m.wired) : End(x) <= r2.addr \/ r2.addr + size <= x.base
      BY <1>1, <2>1
    <3>3. PICK base : base = r2.addr  OBVIOUS
    <3>4. PICK a : a = m.wired  OBVIOUS
    <3>5. /\ ArenaOK(a) /\ Filled(a) /\ base \in Nat /\ size \in Nat \ {0} /\ Classed(size)
          /\ \A x \in Allocated(a) : End(x) <= base \/ base + size <= x.base
      BY <3>2, <3>3, <3>4
    <3>6. LET x == vmem_add_internal(a, "imported", base, size)
               k == Search(x, size, 0, FALSE)
               y == split_seg(x, k, base, size)
           IN  /\ ArenaOK(x) /\ Len(x.segqueue) = Len(a.segqueue) + 2
               /\ k # 0 /\ x.segqueue[k].base = base
               /\ ArenaOK(y) /\ Len(y.segqueue) = Len(a.segqueue) + 2
               /\ Filled(y)
               /\ Allocated(y) = Allocated(a) \cup {Seg("allocated", base, size)}
      BY <3>5, FillSpan, ZenonT(30)
    <3>7. b = vmem_add_internal(a, "imported", base, size) /\ c = split_seg(b, i, base, size)
          /\ new = Seg("allocated", base, size) /\ i = Search(b, size, 0, FALSE)
      BY <3>1, <3>3, <3>4
    <3> HIDE DEF b, c, new, i
    <3> QED  BY <3>3, <3>4, <3>6, <3>7
  <2> HIDE DEF s3, b, i, c
  <2>5. b \in ArenaType /\ c \in ArenaType /\ Len(m.wired.segqueue) \in Nat /\ Len(s2.kva.segqueue) \in Nat
        /\ Len(m.kva.segqueue) \in Nat
    BY <1>1, <1>4, <2>4, ArenaTyped
  <2>6. /\ s4 \in MemType /\ s4.wired = b /\ s4.kva = s3.kva
        /\ s4.tags = s2.tags - 2
        /\ s4.stop = s3.stop /\ s4.blocks = s3.blocks /\ s4.pages = s3.pages /\ s4.kmap = s3.kmap
    <3>1. s3.tags + 2 + Len(s3.wired.segqueue) - Len(b.segqueue) = s2.tags - 2 /\ s2.tags - 2 \in Nat
      BY <1>4, <2>1, <2>2, <2>3, <2>4, <2>5, SMTT(30)
    <3>2. s3 \in MemType /\ b \in ArenaType /\ 2 \in Nat  BY <2>3, <2>5
    <3>3. s3.tags + 2 + Len(s3.wired.segqueue) - Len(b.segqueue) \in Nat  BY <3>1
    <3>4. /\ s4 \in MemType /\ s4.wired = b /\ s4.kva = s3.kva
          /\ s4.tags = s3.tags + 2 + Len(s3.wired.segqueue) - Len(b.segqueue)
          /\ s4.stop = s3.stop /\ s4.blocks = s3.blocks /\ s4.pages = s3.pages /\ s4.kmap = s3.kmap
      BY <3>2, <3>3, WithWired, ZenonT(60)
    <3> QED  BY <3>1, <3>4
  <2>7. Imported(m, size) = s4
    <3>1. ~Stopped(s3) /\ s3.wired = s2.wired  BY <2>3 DEF Stopped
    <3> QED  BY <1>5, <3>1 DEF AddSpan, b
  <2> HIDE DEF s4
  <2>8. /\ s5 \in MemType /\ s5.wired = c /\ s5.kva = s4.kva
        /\ s5.tags = s2.tags
        /\ s5.stop = s4.stop /\ s5.blocks = s4.blocks /\ s5.pages = s4.pages /\ s5.kmap = s4.kmap
    <3>0. /\ Len(s4.wired.segqueue) = Len(c.segqueue) /\ Len(c.segqueue) \in Nat
          /\ s4.tags = s2.tags - 2 /\ s2.tags \in Nat
      BY <2>1, <2>4, <2>5, <2>6
    <3>1. s4.tags + 2 + Len(s4.wired.segqueue) - Len(c.segqueue) = s2.tags /\ s2.tags \in Nat
      BY <3>0
    <3>2. s4 \in MemType /\ c \in ArenaType /\ 2 \in Nat  BY <2>6, <2>5
    <3>3. s4.tags + 2 + Len(s4.wired.segqueue) - Len(c.segqueue) \in Nat  BY <3>1
    <3>4. /\ s5 \in MemType /\ s5.wired = c /\ s5.kva = s4.kva
          /\ s5.tags = s4.tags + 2 + Len(s4.wired.segqueue) - Len(c.segqueue)
          /\ s5.stop = s4.stop /\ s5.blocks = s4.blocks /\ s5.pages = s4.pages /\ s5.kmap = s4.kmap
      BY <3>2, <3>3, WithWired, ZenonT(60)
    <3> QED  BY <3>1, <3>4
  <2>9. r = [mem |-> s5, addr |-> r2.addr]
    <3>1. ~Stopped(s4) /\ s4["wired"] = b  BY <2>3, <2>6 DEF Stopped
    <3>2. Search(s4["wired"], size, 0, FALSE) = i /\ b.segqueue[i].base = r2.addr /\ i # 0
      BY <2>4, <3>1 DEF i
    <3> QED  BY <2>7, <3>1, <3>2 DEF xalloc, c
  <2> HIDE DEF s5, r
  <2>10. /\ s5 \in MemType /\ s5.wired = c /\ s5.kva = s2.kva /\ s5.tags = s2.tags /\ s5.stop = "no"
         /\ s5.blocks = m.blocks /\ s5.pages = s2.pages /\ s5.kmap = s2.kmap
    BY <2>1, <2>3, <2>6, <2>8
  <2>11. TagsKept(s5, g)
    <3>1. m.tags + (g + 2) + Len(m.kva.segqueue) + Len(m.wired.segqueue) = StaticTags + BlockTags * m.blocks
      BY <1>1 DEF TagsKept
    <3>2. s2.tags + g + Len(s2.kva.segqueue) + (Len(m.wired.segqueue) + 2)
          = m.tags + (g + 2) + Len(m.kva.segqueue) + Len(m.wired.segqueue)
      <4>2. s2.tags + Len(s2.kva.segqueue) = m.tags + Len(m.kva.segqueue) /\ s2.tags \in Nat /\ m.tags \in Nat
        BY <1>1, <2>1
      <4>3. /\ s2.tags \in Nat /\ m.tags \in Nat /\ Len(m.wired.segqueue) \in Nat /\ Len(s2.kva.segqueue) \in Nat
            /\ Len(m.kva.segqueue) \in Nat
        BY <2>5, <4>2
      <4> HIDE DEF s2
      <4>4. s2.tags + Len(s2.kva.segqueue) = m.tags + Len(m.kva.segqueue)  BY <4>2
      <4>5. PICK x \in Nat : x = s2.tags  BY <4>3
      <4>6. PICK y \in Nat : y = Len(s2.kva.segqueue)  BY <4>3
      <4>7. PICK z \in Nat : z = m.tags  BY <4>3
      <4>8. PICK u \in Nat : u = Len(m.kva.segqueue)  BY <4>3
      <4>9. PICK v \in Nat : v = Len(m.wired.segqueue)  BY <4>3
      <4>11. x + y = z + u  BY <4>4, <4>5, <4>6, <4>7, <4>8
      <4>10. x + g + y + (v + 2) = z + (g + 2) + u + v  BY <4>11
      <4> QED  BY <4>5, <4>6, <4>7, <4>8, <4>9, <4>10
    <3>3. s5.tags + g + Len(s5.kva.segqueue) + Len(s5.wired.segqueue)
          = s2.tags + g + Len(s2.kva.segqueue) + (Len(m.wired.segqueue) + 2)
      BY <2>4, <2>10
    <3> QED  BY <2>10, <3>1, <3>2, <3>3 DEF TagsKept
  <2>12. Running(s5, g)
    <3>1. InHeap(s5.kva) /\ Filled(s5.wired) /\ Allocated(s5.wired) = Allocated(s5.kva)
          /\ Backed(s5.kmap, s5.pages, Allocated(s5.kva))
      BY <1>1, <2>1, <2>4, <2>10
    <3> QED  BY <2>11, <3>1 DEF Running
  <2>13. Sound(s5, g) /\ Enough(s5, t)
    <3>1. ArenaOK(s5.kva) /\ ArenaOK(s5.wired) /\ s5.tags >= t  BY <1>4, <2>2, <2>4, <2>10
    <3> QED  BY <2>10, <2>12, <3>1 DEF Sound, Enough
  <2>14. ASSUME NEW s \in Allocated(m.wired) PROVE s.base # r2.addr
    <3>1. s \in Range(m.wired.segqueue) /\ QueueOK(m.wired.segqueue)  BY <1>1 DEF Allocated, ArenaOK
    <3>2. s.base \in Nat /\ s.size \in Nat \ {0} /\ End(s) = s.base + s.size  BY <3>1, SegsTyped
    <3>3. End(s) <= r2.addr \/ r2.addr + size <= s.base  BY <2>1
    <3> QED  BY <2>1, <3>2, <3>3
  <2>15. Allocated(m.wired) \cup {new} \subseteq Allocated(s5.wired)  BY <2>4, <2>10
  <2>16. Allocs(m, r, size, g, t)
    <3>1. r.mem = s5 /\ r.addr = r2.addr  BY <2>9
    <3> QED  BY <2>1, <2>13, <2>14, <2>15, <3>1 DEF Allocs
  <2> QED  BY <2>16 DEF r
<1> QED  BY <1>4, <1>6, <1>7

\* The wired arena has no free segment: every allocation imports.
LEMMA NoRoom ==
    ASSUME NEW m, NEW g, Sound(m, g), m.stop = "no", NEW size \in Nat \ {0}, HasClass(size)
    PROVE  ~HasRoom(m, "wired", size)
<1>1. ArenaOK(m.wired) /\ Filled(m.wired) /\ m \in MemType  BY DEF Sound, Running
<1>2. FreeSegs(m.wired.segqueue) = {}  BY <1>1 DEF FreeSegs, Filled
<1>3. Search(m.wired, size, 0, FALSE) = 0  BY <1>1, <1>2, SearchFinds
<1>4. m["wired"] = m.wired  OBVIOUS
<1> QED  BY <1>3, <1>4 DEF HasRoom

\* The tags of an allocation are taken first.
LEMMA SegTaken ==
    ASSUME NEW m, NEW g \in Nat, Sound(m, g), m.stop = "no", m.tags >= 2
    PROVE  LET s == seg_alloc(m, 2)
           IN  Sound(s, g + 2) /\ s.tags = m.tags - 2 /\ s.stop = "no" /\ s.wired = m.wired
<1> DEFINE s == seg_alloc(m, 2)
<1>1. m \in MemType /\ m.tags \in Nat /\ ArenaOK(m.kva) /\ ArenaOK(m.wired) /\ Running(m, g)
  BY DEF Sound, MemType
<1>2. /\ s \in MemType /\ s.tags = m.tags - 2 /\ s.stop = "no" /\ s.kva = m.kva /\ s.wired = m.wired
      /\ s.blocks = m.blocks /\ s.pages = m.pages /\ s.kmap = m.kmap
  BY <1>1, SegAlloc
<1> HIDE DEF s
<1>3. s.tags + (g + 2) = m.tags + g  BY <1>1, <1>2
<1>4. TagsKept(s, g + 2)  BY <1>1, <1>2, <1>3 DEF Running, TagsKept
<1>5. Running(s, g + 2)  BY <1>1, <1>2, <1>4 DEF Running
<1>6. Sound(s, g + 2)  BY <1>1, <1>2, <1>5 DEF Sound
<1> QED  BY <1>2, <1>6 DEF s

\* A block of tags.
LEMMA TagsAdded ==
    ASSUME NEW m, NEW g \in Nat, Sound(m, g), m.stop = "no", m.tags >= 2
    PROVE  LET s == AddTags(m)
           IN  Sound(s, g) /\ s.tags >= 7 /\ s.wired = m.wired
<1> DEFINE s == AddTags(m)
<1>1. m \in MemType /\ m.tags \in Nat /\ m.blocks \in Nat /\ ArenaOK(m.kva) /\ ArenaOK(m.wired)
      /\ Running(m, g) /\ BlockTags \in Nat /\ BlockTags >= 5 /\ StaticTags \in Nat
  BY VmKernelAssumption DEF Sound, MemType
<1>2. s = [m EXCEPT !.tags = @ + BlockTags, !.blocks = @ + 1]  BY DEF AddTags, Stopped
<1>3. /\ s \in MemType /\ s.tags = m.tags + BlockTags /\ s.stop = "no" /\ s.kva = m.kva /\ s.wired = m.wired
      /\ s.blocks = m.blocks + 1 /\ s.pages = m.pages /\ s.kmap = m.kmap
  <2>1. m.tags + BlockTags \in Nat /\ m.blocks + 1 \in Nat  BY <1>1
  <2>2. s = [m EXCEPT !.tags = m.tags + BlockTags, !.blocks = m.blocks + 1]  BY <1>2
  <2> HIDE DEF s
  <2>3. PICK x \in Nat : x = m.tags + BlockTags  BY <2>1
  <2>4. PICK y \in Nat : y = m.blocks + 1  BY <2>1
  <2>5. s = [m EXCEPT !.tags = x, !.blocks = y]  BY <2>2, <2>3, <2>4
  <2>6. /\ s \in MemType /\ s.tags = x /\ s.stop = "no" /\ s.kva = m.kva /\ s.wired = m.wired
        /\ s.blocks = y /\ s.pages = m.pages /\ s.kmap = m.kmap
    BY <1>1, <2>5 DEF MemType
  <2> QED  BY <2>3, <2>4, <2>6
<1> HIDE DEF s
<1>4. s.tags >= 7  BY <1>1, <1>3
<1>5. BlockTags * s.blocks = BlockTags * m.blocks + BlockTags  BY <1>1, <1>3
<1>6. TagsKept(s, g)
  <2>1. Len(m.kva.segqueue) \in Nat /\ Len(m.wired.segqueue) \in Nat  BY <1>1, ArenaTyped
  <2>2. m.tags + g + Len(m.kva.segqueue) + Len(m.wired.segqueue) = StaticTags + BlockTags * m.blocks
    BY <1>1 DEF Running, TagsKept
  <2>3. BlockTags * m.blocks \in Nat  BY <1>1
  <2>4. (m.tags + BlockTags) + g + Len(m.kva.segqueue) + Len(m.wired.segqueue)
        = StaticTags + (BlockTags * m.blocks + BlockTags)
    <3>1. PICK x \in Nat : x = BlockTags * m.blocks  BY <2>3
    <3>2. PICK y \in Nat : y = m.tags  BY <1>1
    <3>3. PICK u \in Nat : u = Len(m.kva.segqueue)  BY <2>1
    <3>4. PICK v \in Nat : v = Len(m.wired.segqueue)  BY <2>1
    <3>5. BlockTags \in Nat /\ StaticTags \in Nat  BY <1>1
    <3>6. y + g + u + v = StaticTags + x  BY <2>2, <3>1, <3>2, <3>3, <3>4
    <3>7. (y + BlockTags) + g + u + v = StaticTags + (x + BlockTags)  BY <3>5, <3>6
    <3> QED  BY <3>1, <3>2, <3>3, <3>4, <3>7
  <2> QED  BY <1>3, <1>5, <2>4 DEF TagsKept
<1>7. Running(s, g)  BY <1>1, <1>3, <1>6 DEF Running
<1>8. Sound(s, g)  BY <1>1, <1>3, <1>7 DEF Sound
<1> QED  BY <1>3, <1>4, <1>8 DEF s

\* seg_refill.
Refilled(m, s, g) ==
    /\ Sound(s, g) /\ Enough(s, 7)
    /\ s.stop = "no" => m.stop = "no" /\ Allocated(m.wired) \subseteq Allocated(s.wired)

\* seg_refill leaves the memory right, with tags to go on.
LEMMA Refill ==
    ASSUME NEW m, NEW g \in Nat, Sound(m, g), Enough(m, 5)
    PROVE  Refilled(m, seg_refill(m), g)
<1> DEFINE m1 == seg_alloc(m, 2)
           r == xalloc(Imported(m1, 1), "wired", 1)
<1>1. StaticTags \in Nat /\ StaticTags >= 7 /\ 1 \in Nat \ {0} /\ m.tags \in Nat  BY VmKernelAssumption DEF Sound, MemType
<1>2. HasClass(1)
  <2>1. 1 \in 1 .. KHeapSize  BY VmKernelAssumption
  <2> QED  BY <2>1, VmKernelAssumption
<1>3. CASE m.stop # "no"
  <2>1. seg_refill(m) = m  BY <1>3 DEF seg_refill, Stopped
  <2> QED  BY <1>3, <2>1 DEF Refilled, Enough
<1>4. CASE m.stop = "no" /\ m.tags >= StaticTags
  <2>1. seg_refill(m) = m  BY <1>4 DEF seg_refill, Stopped
  <2>2. m.tags >= 7  BY <1>1, <1>4
  <2> QED  BY <1>4, <2>1, <2>2 DEF Refilled, Enough
<1>5. CASE m.stop = "no" /\ ~(m.tags >= StaticTags)
  <2>1. m.tags >= 5 /\ m.tags >= 2  BY <1>1, <1>5 DEF Enough
  <2>2. Sound(m1, g + 2) /\ m1.tags = m.tags - 2 /\ m1.stop = "no" /\ m1.wired = m.wired
    BY <1>5, <2>1, SegTaken
  <2> HIDE DEF m1
  <2>3. m1.tags >= 2 + 1 /\ 2 \in Nat /\ 2 >= 2  BY <1>1, <2>1, <2>2
  <2>4. ~HasRoom(m1, "wired", 1)
    <3>1. PICK h : h = g + 2  OBVIOUS
    <3>2. Sound(m1, h) /\ m1.stop = "no" BY <2>2, <3>1
    <3> QED  BY <1>1, <1>2, <3>2, NoRoom
  <2>5. BootSupply(m1, 1) = Imported(m1, 1)  BY <2>2, <2>4 DEF BootSupply, Stopped
  <2>6. Allocs(m1, r, 1, g, 2)
    <3>1. PICK t \in Nat : t = 2  OBVIOUS
    <3>2. PICK n \in Nat \ {0} : n = 1  OBVIOUS
    <3>3. m1.tags >= t + 1 /\ t >= 2 /\ HasClass(n)  BY <1>2, <2>3, <3>1, <3>2
    <3>4. Allocs(m1, xalloc(Imported(m1, n), "wired", n), n, g, t)  BY <2>2, <3>3, WiredAlloc
    <3> QED  BY <3>1, <3>2, <3>4
  <2>7. seg_refill(m) = AddTags(r.mem)  BY <1>5, <2>5 DEF seg_refill, Stopped, boot_xalloc, m1
  <2> HIDE DEF r
  <2>8. CASE r.mem.stop # "no"
    <3>1. AddTags(r.mem) = r.mem  BY <2>8 DEF AddTags, Stopped
    <3> QED  BY <2>6, <2>7, <2>8, <3>1 DEF Refilled, Allocs, Enough
  <2>9. CASE r.mem.stop = "no"
    <3> DEFINE s == r.mem
    <3>1. Sound(s, g) /\ s.stop = "no" /\ s.tags >= 2 /\ Allocated(m.wired) \subseteq Allocated(s.wired)
      BY <2>2, <2>6, <2>9 DEF Allocs, Enough
    <3> HIDE DEF s
    <3>2. Sound(AddTags(s), g) /\ AddTags(s).tags >= 7 /\ AddTags(s).wired = s.wired  BY <3>1, TagsAdded
    <3>3. Refilled(m, AddTags(s), g)  BY <1>5, <3>1, <3>2 DEF Refilled, Enough
    <3> QED  BY <2>7, <3>3 DEF s
  <2> QED  BY <2>8, <2>9
<1> QED  BY <1>3, <1>4, <1>5

\* vm_kalloc.
LEMMA KAlloc ==
    ASSUME NEW m, GoodMem(m), NEW size \in Nat \ {0}, HasClass(size)
    PROVE  LET r == vm_kalloc(m, size)
           IN  /\ GoodMem(r.mem) /\ Allocs(m, r, size, 0, 5)
               /\ r.mem.stop = "no" => m.stop = "no"
<1> DEFINE s1 == seg_refill(m)
           s2 == seg_alloc(s1, 2)
           s3 == seg_refill(s2)
           r == vm_kalloc(m, size)
<1> SUFFICES Allocs(m, r, size, 0, 5) /\ (r.mem.stop = "no" => m.stop = "no")
  BY DEF GoodMem, Allocs
<1>1. Refilled(m, s1, 0)  BY Refill DEF GoodMem
<1>2. r = xalloc(Supply(s2, size), "wired", size)  BY DEF vm_kalloc
<1> HIDE DEF s1, r
<1>3. CASE s1.stop # "no"
  <2>1. s2 = s1  BY <1>3 DEF seg_alloc, Stopped
  <2>2. r.mem = s1  BY <1>2, <1>3, <2>1 DEF Supply, Stopped, xalloc
  <2> QED  BY <1>1, <1>3, <2>2 DEF Allocs, Refilled, Enough
<1>4. CASE s1.stop = "no"
  <2>1. Sound(s1, 0) /\ s1.tags >= 7 /\ m.stop = "no" /\ Allocated(m.wired) \subseteq Allocated(s1.wired)
        /\ s1.tags \in Nat
    BY <1>1, <1>4 DEF Refilled, Enough, Sound, MemType
  <2>2. Sound(s2, 2) /\ s2.tags >= 5 /\ s2.stop = "no" /\ s2.wired = s1.wired
    <3>1. 0 \in Nat /\ 0 + 2 = 2 /\ s1.tags >= 2  BY <2>1
    <3>2. Sound(s2, 0 + 2) /\ s2.tags = s1.tags - 2 /\ s2.stop = "no" /\ s2.wired = s1.wired
      BY <1>4, <2>1, <3>1, SegTaken
    <3> QED  BY <2>1, <3>1, <3>2
  <2> HIDE DEF s2
  <2>3. ~HasRoom(s2, "wired", size)  BY <2>2, NoRoom
  <2>4. Supply(s2, size) = Imported(s3, size)  BY <2>2, <2>3 DEF Supply, Stopped
  <2>5. Refilled(s2, s3, 2)  BY <2>2, Refill DEF Enough
  <2> HIDE DEF s3
  <2>6. CASE s3.stop # "no"
    <3>1. r.mem = s3  BY <1>2, <2>4, <2>6, StoppedStays
    <3>2. Sound(s3, 0)  BY <2>5, <2>6 DEF Refilled, Sound
    <3> QED  BY <2>6, <3>1, <3>2 DEF Allocs, Enough
  <2>7. CASE s3.stop = "no"
    <3>1. Sound(s3, 2) /\ s3.tags >= 7 /\ Allocated(m.wired) \subseteq Allocated(s3.wired)
      BY <2>1, <2>2, <2>5, <2>7 DEF Refilled, Enough
    <3>2. PICK t \in Nat : t = 6  OBVIOUS
    <3>3. PICK g \in Nat : g = 0  OBVIOUS
    <3>4. Sound(s3, g + 2) /\ s3.tags >= t + 1 /\ t >= 2  BY <3>1, <3>2, <3>3
    <3>5. Allocs(s3, xalloc(Imported(s3, size), "wired", size), size, g, t)  BY <2>7, <3>4, WiredAlloc
    <3>6. Allocs(s3, r, size, 0, 6)  BY <1>2, <2>4, <3>2, <3>3, <3>5
    <3>7. Sound(r.mem, 0) /\ Enough(r.mem, 6)  BY <3>6 DEF Allocs
    <3>8. Enough(r.mem, 5)
      <4>1. r.mem.tags \in Nat  BY <3>7 DEF Sound, MemType
      <4> QED  BY <3>7, <4>1 DEF Enough
    <3>9. Allocs(m, r, size, 0, 5)  BY <3>1, <3>6, <3>7, <3>8 DEF Allocs
    <3> QED  BY <2>1, <3>9
  <2> QED  BY <2>6, <2>7
<1> QED  BY <1>3, <1>4

\* In the wired arena, the segment before an allocated one is its span.
LEMMA SpanBefore ==
    ASSUME NEW a, ArenaOK(a), Filled(a), NEW i \in DOMAIN a.segqueue, a.segqueue[i].type = "allocated"
    PROVE  LET s == a.segqueue[i]
           IN  i - 1 \in DOMAIN a.segqueue /\ a.segqueue[i - 1] = Seg("imported", s.base, s.size)
<1> DEFINE q == a.segqueue
           s == q[i]
           x == q[i - 1]
           t == Seg("imported", s.base, s.size)
<1>1. QueueOK(q) /\ Ordered(q) /\ q \in Seq(SegType) /\ DOMAIN q = 1 .. Len(q) /\ Len(q) \in Nat /\ i \in Nat
  BY DEF ArenaOK, QueueOK
<1>2. s \in Range(q) /\ s.type = "allocated" /\ s.type \notin SpanTypes  BY DEF Range, SpanTypes
<1>3. i - 1 \in DOMAIN q /\ (x.type \in SpanTypes => Inside(x, s))  BY <1>1, <1>2, HasLeft
<1>4. x \in Range(q) /\ t \in Range(q) /\ x.type \in {"imported", "allocated"}  BY <1>2, <1>3 DEF Filled, Range
<1>5. s.base \in Nat /\ s.size \in Nat \ {0} /\ End(s) = s.base + s.size  BY <1>1, <1>2, SegsTyped
<1>6. t.type = "imported" /\ t.type \in SpanTypes /\ t.base = s.base /\ End(t) = End(s)  BY DEF Seg, SpanTypes, End
<1>7. PICK j \in DOMAIN q : q[j] = t  BY <1>4 DEF Range
<1>8. x.base \in Nat /\ x.size \in Nat \ {0} /\ End(x) = x.base + x.size  BY <1>1, <1>4, SegsTyped
<1> HIDE DEF t
<1>9. x.type # "allocated"
  <2> SUFFICES ASSUME x.type = "allocated" PROVE FALSE  OBVIOUS
  <2>1. x.type \notin SpanTypes  BY DEF SpanTypes
  <2>2. ~(i < j)
    <3>1. i < j => InOrder(s, t)  BY <1>7 DEF Ordered, ArenaOK, QueueOK
    <3>2. ~InOrder(s, t)  BY <1>5, <1>6 DEF InOrder
    <3> QED  BY <3>1, <3>2
  <2>3. j # i /\ j # i - 1  BY <1>2, <1>6, <1>7, <2>1
  <2>4. j < i - 1 /\ i - 1 < i  BY <1>1, <1>7, <2>2, <2>3
  <2>5. InOrder(t, x)  BY <1>1, <1>3, <1>7, <2>4 DEF Ordered
  <2>6. InOrder(x, s)  BY <1>1, <1>3, <2>4 DEF Ordered
  <2>7. End(x) <= s.base  BY <2>1, <2>6 DEF InOrder, Inside
  <2>8. End(t) <= x.base \/ t.base <= x.base  BY <2>5 DEF InOrder, Inside
  <2> HIDE DEF s, x
  <2> QED  BY <1>5, <1>6, <1>8, <2>7, <2>8
<1>10. Inside(x, s)  BY <1>3, <1>4, <1>9 DEF SpanTypes
<1>11. Inside(t, s)  BY <1>5, <1>6 DEF Inside
<1>12. x = t  BY <1>1, <1>2, <1>4, <1>10, <1>11, OneSpan
<1> QED  BY <1>3, <1>12 DEF t

\* Freeing a segment of the wired arena gives its span back.
LEMMA FilledFree ==
    ASSUME NEW a, ArenaOK(a), Filled(a), NEW s \in Allocated(a)
    PROVE  LET e == vmem_xfree(a, s.base)
           IN  /\ ArenaOK(e.arena) /\ Filled(e.arena)
               /\ e.released = <<Seg("imported", s.base, s.size)>>
               /\ Allocated(e.arena) = Allocated(a) \ {s}
               /\ Len(e.arena.segqueue) <= Len(a.segqueue)
<1> DEFINE q == a.segqueue
           i == IndexOf(a, s)
           t == Seg("imported", s.base, s.size)
           l == [arena |-> a, seg |-> s]
           e == vmem_xfree(a, s.base)
           p == Spliced(q, i - 1, 2, NoSeg)
<1>1. QueueOK(q) /\ q \in Seq(SegType) /\ Ordered(q) /\ DOMAIN q = 1 .. Len(q) /\ Len(q) \in Nat
  BY DEF ArenaOK, QueueOK
<1>2. s \in Range(q) /\ s.type = "allocated"  BY DEF Allocated
<1>3. q[AllocatedAt(a, s.base)] = s  BY <1>1, <1>2, AllocatedFound
<1>4. i \in DOMAIN q /\ q[i] = s  BY <1>1, <1>2, IndexFound
<1> HIDE DEF i
<1>5. i - 1 \in DOMAIN q /\ q[i - 1] = t  BY <1>2, <1>4, SpanBefore
<1>6. t.type = "imported" /\ t.base = s.base /\ t.size = s.size  BY DEF Seg
<1> HIDE DEF t
<1>7. xfree_Left(a, s) = l  BY <1>5, <1>6 DEF xfree_Left, i
<1>8. xfree_Right(l) = l
  <2>1. i + 1 \in DOMAIN q => q[i + 1].type # "free"  BY DEF Filled, Range
  <2>2. i < Len(q) => i + 1 \in DOMAIN q  BY <1>1, <1>4
  <2>3. l.arena = a /\ l.seg = s  OBVIOUS
  <2> QED  BY <2>1, <2>2, <2>3 DEF xfree_Right, i
<1>9. xfree_Span(l) = [arena |-> Splice(a, i - 1, 2, NoSeg), released |-> <<t>>]
  <2>1. l.arena = a /\ l.seg = s /\ Unlisted(a, s) = a  BY <1>2 DEF Unlisted
  <2> QED  BY <1>5, <1>6, <2>1 DEF xfree_Span, i, NoSeg
<1>10. e = xfree_Span(l)  BY <1>3, <1>7, <1>8 DEF vmem_xfree
<1>11. e.arena = Splice(a, i - 1, 2, NoSeg) /\ e.released = <<t>>  BY <1>9, <1>10
<1>12. FreedArena(a, s, e)  BY FreeArena
<1> HIDE DEF e
<1>13. ArenaOK(e.arena) /\ Allocated(e.arena) = Allocated(a) \ {s} /\ Len(e.arena.segqueue) <= Len(q)
  BY <1>12 DEF FreedArena
<1>14. e.arena.segqueue = p
  BY <1>11 DEF Splice, Spliced, ArenaOK, Has
<1>15. Range(p) = Range(q) \ {t, s}
  <2> DEFINE j == i - 1
  <2>1. /\ QueueOK(q) /\ NoSeg \in Seq(SegType) /\ j \in 1 .. Len(q) + 1 /\ 2 \in 0 .. 2
        /\ j + 2 <= Len(q) + 1 /\ j \in Int /\ j + 1 = i /\ Range(NoSeg) = {}
    BY <1>1, <1>4, <1>5, NoSegType
  <2>2. p = Spliced(q, j, 2, NoSeg)  OBVIOUS
  <2>3. Cut(q, j, 2) = {t, s}
    <3>1. Cut(q, j, 2) = {q[j], q[j + 1]}  BY <2>1, CutTwo
    <3> QED  BY <1>4, <1>5, <2>1, <3>1
  <2> HIDE DEF q, j, p
  <2>4. Range(p) = (Range(q) \ Cut(q, j, 2)) \cup Range(NoSeg)  BY <2>1, <2>2, SplicedSegs
  <2> QED  BY <2>1, <2>3, <2>4
<1>16. Filled(e.arena)
  <2>1. ASSUME NEW x \in Range(p)
        PROVE  /\ x.type \in {"imported", "allocated"}
               /\ Seg("imported", x.base, x.size) \in Range(p)
               /\ Seg("allocated", x.base, x.size) \in Range(p)
    <3>1. x \in Range(q) /\ x # t /\ x # s  BY <1>15
    <3>2. /\ x.type \in {"imported", "allocated"}
          /\ Seg("imported", x.base, x.size) \in Range(q)
          /\ Seg("allocated", x.base, x.size) \in Range(q)
      BY <3>1 DEF Filled
    <3>3. x \in SegType /\ s \in SegType  BY <1>1, <1>2, <3>1, SegsTyped
    <3>4. x = Seg(x.type, x.base, x.size) /\ s = Seg("allocated", s.base, s.size)
      BY <1>2, <3>3 DEF Seg, SegType
    <3>5. ~(x.base = s.base /\ x.size = s.size)  BY <3>1, <3>2, <3>4 DEF t
    <3>6. Seg("imported", x.base, x.size) # t /\ Seg("allocated", x.base, x.size) # s
          /\ Seg("imported", x.base, x.size) # s /\ Seg("allocated", x.base, x.size) # t
      BY <1>2, <1>6, <3>5 DEF Seg
    <3> QED  BY <1>15, <3>2, <3>6
  <2> QED  BY <1>14, <2>1 DEF Filled
<1> QED  BY <1>11, <1>13, <1>16 DEF e, t

\* Freeing in kernel-va, whose spans are its own.
LEMMA KvaFree ==
    ASSUME NEW a, ArenaOK(a), InHeap(a), NEW s \in Allocated(a)
    PROVE  LET b == vmem_xfree(a, s.base).arena
           IN  /\ ArenaOK(b) /\ InHeap(b) /\ Allocated(b) = Allocated(a) \ {s}
               /\ Len(b.segqueue) <= Len(a.segqueue)
<1> DEFINE e == vmem_xfree(a, s.base)
<1>1. FreedArena(a, s, e)  BY FreeArena
<1> HIDE DEF e
<1>2. Spans(e.arena) = Spans(a)  BY <1>1 DEF FreedArena, InHeap
<1>3. InHeap(e.arena)  BY <1>2 DEF InHeap
<1> QED  BY <1>1, <1>3 DEF FreedArena, e

\* The allocated segments of an arena share no unit.
LEMMA UnitsApart ==
    ASSUME NEW a, ArenaOK(a), NEW s \in Allocated(a), NEW t \in Allocated(a), s # t
    PROVE  Units(t) \cap Units(s) = {}
<1>1. QueueOK(a.segqueue) /\ s \in Range(a.segqueue) /\ t \in Range(a.segqueue)
      /\ s.type \notin SpanTypes /\ t.type \notin SpanTypes
  BY DEF ArenaOK, Allocated, SpanTypes
<1>2. s.base \in Nat /\ End(s) \in Nat /\ t.base \in Nat /\ End(t) \in Nat  BY <1>1, SegsTyped
<1>3. End(s) <= t.base \/ End(t) <= s.base  BY <1>1, Apart
<1> QED  BY <1>2, <1>3 DEF Units

\* Tags that go back to the reserve.
LEMMA GivenBack ==
    ASSUME NEW x \in Nat, NEW y \in Nat, NEW z \in Nat, z <= y
    PROVE  x + 0 + y - z \in Nat /\ x + 0 + y - z >= x
OBVIOUS

\* vm_kfree.
LEMMA KFree ==
    ASSUME NEW m, GoodMem(m), m.stop = "no", NEW s \in Allocated(m.wired)
    PROVE  LET f == vm_kfree(m, s.base)
           IN  GoodMem(f) /\ f.stop = "no" /\ Allocated(f.wired) = Allocated(m.wired) \ {s}
<1> DEFINE e == vmem_xfree(m.wired, s.base)
           t == Seg("imported", s.base, s.size)
           w == WithArena(m, "wired", e.arena, 0)
           b == vmem_xfree(m.kva, s.base).arena
           k == WithArena(w, "kva", b, 0)
           pages == Reverse(PagesOf(m.kmap, s)) \o m.pages
           kmap == Unmap(m.kmap, s)
           f == vm_kfree(m, s.base)
<1>1. /\ m \in MemType /\ m.tags \in Nat /\ m.tags >= 5 /\ ArenaOK(m.kva) /\ ArenaOK(m.wired)
      /\ InHeap(m.kva) /\ Filled(m.wired) /\ Allocated(m.wired) = Allocated(m.kva) /\ TagsKept(m, 0)
      /\ Backed(m.kmap, m.pages, Allocated(m.kva))
      /\ m.kmap \in [KHeap -> 0 .. PhysPages] /\ m.pages \in Seq(1 .. PhysPages)
  BY DEF GoodMem, Sound, Enough, Running, MemType
<1>2. /\ ArenaOK(e.arena) /\ Filled(e.arena) /\ e.released = <<t>>
      /\ Allocated(e.arena) = Allocated(m.wired) \ {s}
      /\ Len(e.arena.segqueue) <= Len(m.wired.segqueue)
  BY <1>1, FilledFree
<1>3. /\ ArenaOK(b) /\ InHeap(b) /\ Allocated(b) = Allocated(m.kva) \ {s}
      /\ Len(b.segqueue) <= Len(m.kva.segqueue)
  BY <1>1, KvaFree
<1> HIDE DEF e, b
<1>4. /\ e.arena \in ArenaType /\ b \in ArenaType
      /\ Len(e.arena.segqueue) \in Nat /\ Len(b.segqueue) \in Nat
      /\ Len(m.wired.segqueue) \in Nat /\ Len(m.kva.segqueue) \in Nat
  BY <1>1, <1>2, <1>3, ArenaTyped
<1>5. /\ w \in MemType /\ w.wired = e.arena /\ w.kva = m.kva
      /\ w.tags = m.tags + 0 + Len(m.wired.segqueue) - Len(e.arena.segqueue)
      /\ w.stop = m.stop /\ w.blocks = m.blocks /\ w.pages = m.pages /\ w.kmap = m.kmap
  <2>0. m.tags \in Nat /\ Len(m.wired.segqueue) \in Nat /\ Len(e.arena.segqueue) \in Nat
        /\ Len(e.arena.segqueue) <= Len(m.wired.segqueue)
    BY <1>1, <1>2, <1>4
  <2>1. m.tags + 0 + Len(m.wired.segqueue) - Len(e.arena.segqueue) \in Nat  BY <2>0, GivenBack
  <2>2. m \in MemType /\ e.arena \in ArenaType /\ 0 \in Nat  BY <1>1, <1>4
  <2> QED  BY <2>1, <2>2, WithWired
<1> HIDE DEF w
<1>6. w.tags \in Nat /\ w.tags >= 5
  <2>0. m.tags \in Nat /\ Len(m.wired.segqueue) \in Nat /\ Len(e.arena.segqueue) \in Nat
        /\ Len(e.arena.segqueue) <= Len(m.wired.segqueue)
    BY <1>1, <1>2, <1>4
  <2>1. m.tags + 0 + Len(m.wired.segqueue) - Len(e.arena.segqueue) >= m.tags  BY <2>0, GivenBack
  <2>2. w.tags >= m.tags /\ w.tags \in Nat /\ m.tags \in Nat /\ m.tags >= 5  BY <1>1, <1>5, <2>1 DEF MemType
  <2> QED  BY <2>2
<1>7. /\ k \in MemType /\ k.kva = b /\ k.wired = w.wired
      /\ k.tags = w.tags + 0 + Len(w.kva.segqueue) - Len(b.segqueue)
      /\ k.stop = w.stop /\ k.blocks = w.blocks /\ k.pages = w.pages /\ k.kmap = w.kmap
  <2>0. w.tags \in Nat /\ Len(w.kva.segqueue) \in Nat /\ Len(b.segqueue) \in Nat
        /\ Len(b.segqueue) <= Len(w.kva.segqueue)
    BY <1>3, <1>4, <1>5, <1>6
  <2>1. w.tags + 0 + Len(w.kva.segqueue) - Len(b.segqueue) \in Nat  BY <2>0, GivenBack
  <2>2. w \in MemType /\ b \in ArenaType /\ 0 \in Nat  BY <1>4, <1>5
  <2> QED  BY <2>1, <2>2, WithKva
<1> HIDE DEF k
<1>8. f = [k EXCEPT !.pages = pages, !.kmap = kmap]
  <2>1. e.released # <<>> /\ Head(e.released) = t  BY <1>2
  <2>2. t.base = s.base /\ t.size = s.size  BY DEF Seg
  <2>3. f = internal_freewired(w, t)  BY <2>1 DEF vm_kfree, e, w
  <2> HIDE DEF f, t
  <2>4. vmem_xfree(w.kva, t.base).arena = b  BY <1>5, <2>2 DEF b
  <2>5. [i \in 1 .. t.size |-> w.kmap[t.base + i - 1]] = PagesOf(m.kmap, s)  BY <1>5, <2>2 DEF PagesOf
  <2>6. [va \in KHeap |-> IF va \in t.base .. End(t) - 1 THEN NoPage ELSE k.kmap[va]] = kmap
    BY <1>5, <1>7, <2>2 DEF Unmap, End
  <2>7. internal_freewired(w, t)
        = [k EXCEPT !.pages = Reverse([i \in 1 .. t.size |-> w.kmap[t.base + i - 1]]) \o k.pages,
                    !.kmap = [va \in KHeap |-> IF va \in t.base .. End(t) - 1 THEN NoPage ELSE k.kmap[va]]]
    BY <2>4 DEF internal_freewired, k
  <2> HIDE DEF kmap
  <2> QED  BY <1>5, <1>7, <2>3, <2>5, <2>6, <2>7
<1>9. /\ kmap \in [KHeap -> 0 .. PhysPages] /\ pages \in Seq(1 .. PhysPages)
      /\ Backed(kmap, pages, Allocated(m.kva) \ {s})
  <2>1. s \in Allocated(m.kva) /\ s \in Range(m.kva.segqueue) /\ QueueOK(m.kva.segqueue)
    BY <1>1 DEF Allocated, ArenaOK
  <2>2. s \in SegType /\ Units(s) \subseteq KHeap  BY <1>1, <2>1, SegsTyped, HeapSegs
  <2>3. \A x \in Allocated(m.kva) \ {s} : Units(x) \cap Units(s) = {}  BY <1>1, <2>1, UnitsApart
  <2>4. PICK A : A = Allocated(m.kva)  OBVIOUS
  <2>5. Backed(m.kmap, m.pages, A) /\ s \in A /\ \A x \in A \ {s} : Units(x) \cap Units(s) = {}
    BY <1>1, <2>1, <2>3, <2>4
  <2>6. PICK km \in [KHeap -> 0 .. PhysPages] : km = m.kmap  BY <1>1
  <2>7. PICK pg \in Seq(1 .. PhysPages) : pg = m.pages  BY <1>1
  <2>8. Backed(km, pg, A)  BY <2>5, <2>6, <2>7
  <2>9. LET kmap2 == Unmap(km, s)
            pages2 == Reverse(PagesOf(km, s)) \o pg
        IN  /\ kmap2 \in [KHeap -> 0 .. PhysPages] /\ pages2 \in Seq(1 .. PhysPages)
            /\ Backed(kmap2, pages2, A \ {s})
    BY <2>2, <2>5, <2>8, BackedRemove
  <2> QED  BY <2>4, <2>6, <2>7, <2>9
<1> HIDE DEF kmap, pages, f
<1>10. /\ f \in MemType /\ f.kva = b /\ f.wired = e.arena /\ f.tags = k.tags /\ f.stop = "no"
       /\ f.blocks = m.blocks /\ f.pages = pages /\ f.kmap = kmap
  <2>1. /\ f \in MemType /\ f.kva = k.kva /\ f.wired = k.wired /\ f.tags = k.tags /\ f.stop = k.stop
        /\ f.blocks = k.blocks /\ f.pages = pages /\ f.kmap = kmap
    BY <1>7, <1>8, <1>9 DEF MemType
  <2> QED  BY <1>5, <1>7, <2>1
<1>11. f.tags + 0 + Len(f.kva.segqueue) + Len(f.wired.segqueue)
       = m.tags + 0 + Len(m.kva.segqueue) + Len(m.wired.segqueue) /\ f.tags >= 5
  <2>1. PICK x \in Nat : x = m.tags  BY <1>1
  <2>2. PICK y \in Nat : y = Len(m.wired.segqueue)  BY <1>4
  <2>3. PICK z \in Nat : z = Len(e.arena.segqueue)  BY <1>4
  <2>4. PICK u \in Nat : u = Len(m.kva.segqueue)  BY <1>4
  <2>5. PICK v \in Nat : v = Len(b.segqueue)  BY <1>4
  <2>6. z <= y /\ v <= u /\ x >= 5  BY <1>1, <1>2, <1>3, <2>1, <2>2, <2>3, <2>4, <2>5
  <2>7. w.tags = x + 0 + y - z  BY <1>5, <2>1, <2>2, <2>3
  <2>8. f.tags = w.tags + 0 + u - v  BY <1>5, <1>7, <1>10, <2>4, <2>5
  <2>9. PICK d \in Nat : d = w.tags  BY <1>6
  <2>10. PICK h : h = f.tags  OBVIOUS
  <2>11. d = x + 0 + y - z /\ h = d + 0 + u - v  BY <2>7, <2>8, <2>9, <2>10
  <2>12. h + 0 + v + z = x + 0 + u + y /\ h >= 5  BY <2>6, <2>11
  <2> QED  BY <1>10, <2>1, <2>2, <2>3, <2>4, <2>5, <2>10, <2>12
<1>12. TagsKept(f, 0)  BY <1>1, <1>10, <1>11 DEF TagsKept
<1>13. Running(f, 0)
  <2>1. InHeap(f.kva) /\ Filled(f.wired) /\ Allocated(f.wired) = Allocated(f.kva)
        /\ Backed(f.kmap, f.pages, Allocated(f.kva))
    BY <1>1, <1>2, <1>3, <1>9, <1>10
  <2> QED  BY <1>12, <2>1 DEF Running
<1>14. Sound(f, 0)
  <2>1. ArenaOK(f.kva) /\ ArenaOK(f.wired) /\ f.stop # "assert"  BY <1>2, <1>3, <1>10
  <2> QED  BY <1>10, <1>13, <2>1 DEF Sound
<1>15. Enough(f, 5)  BY <1>11 DEF Enough
<1> QED  BY <1>2, <1>10, <1>14, <1>15 DEF GoodMem, f

------------------------------------------------------------------------------
\* The slab allocator.

\* The sizes that wired memory is asked for.
LEMMA PagesFor ==
    ASSUME NEW n \in Nat \ {0}
    PROVE  PGROUNDUP(n) \div PGSIZE \in Nat \ {0} /\ PGROUNDUP(n) \in Nat
<1>1. PGSIZE \in Nat \ {0}  BY KmemAssumption
<1>2. PICK k \in Int : k = (n + PGSIZE - 1) \div PGSIZE  BY <1>1
<1>3. k >= 1  BY <1>1, <1>2
<1>4. (k * PGSIZE) \div PGSIZE = k /\ k * PGSIZE \in Nat  BY <1>1, <1>3
<1> QED  BY <1>2, <1>3, <1>4 DEF PGROUNDUP

\* A request that has no zone is for some pages.
LEMMA RequestPages ==
    ASSUME NEW size \in Requests
    PROVE  PGROUNDUP(size) \div PGSIZE \in Nat \ {0} /\ HasClass(PGROUNDUP(size) \div PGSIZE)
<1>1. size \in Nat \ {0}  BY KmemAssumption
<1> QED  BY <1>1, PagesFor, KmemSizes

\* A large slab is of some pages.
LEMMA LargeZone ==
    ASSUME NEW z \in Zones, ~IsSmall(z)
    PROVE  /\ slabcapacity(z) \in Nat
           /\ slabsize(z) \div PGSIZE \in Nat \ {0} /\ HasClass(slabsize(z) \div PGSIZE)
<1>1. ZoneSize(z) \in Nat \ {0}  BY KmemAssumption DEF Zones, ZoneSize, kmem_slab, kmem_bufctl
<1>2. MinEntries \in Nat \ {0}  BY KmemAssumption
<1>3. PICK n \in Nat \ {0} : n = ZoneSize(z) * MinEntries  BY <1>1, <1>2
<1>4. slabsize(z) = PGROUNDUP(n)  BY <1>3 DEF slabsize
<1>5. PGROUNDUP(n) \div PGSIZE \in Nat \ {0} /\ PGROUNDUP(n) \in Nat  BY PagesFor
<1>6. slabcapacity(z) = slabsize(z) \div ZoneSize(z)  BY DEF slabcapacity
<1>7. PICK y \in Nat : y = slabsize(z)  BY <1>4, <1>5
<1>8. y \div ZoneSize(z) \in Nat  BY <1>1
<1> QED  BY <1>4, <1>5, <1>6, <1>7, <1>8, KmemSizes

------------------------------------------------------------------------------
\* What allocations do to the memory.
Grown(m, n) ==
    /\ GoodMem(n)
    /\ n.stop = "no" => m.stop = "no" /\ Allocated(m.wired) \subseteq Allocated(n.wired)

\* Nothing has been allocated yet.
LEMMA GrownSame == ASSUME NEW m, GoodMem(m) PROVE Grown(m, m)
BY DEF Grown

\* Allocations one after the other.
LEMMA GrownTwice == ASSUME NEW l, NEW m, NEW n, Grown(l, m), Grown(m, n) PROVE Grown(l, n)
BY DEF Grown

\* vm_kalloc frees nothing.
LEMMA KAllocGrown ==
    ASSUME NEW m, GoodMem(m), NEW size \in Nat \ {0}, HasClass(size)
    PROVE  Grown(m, vm_kalloc(m, size).mem)
<1> DEFINE r == vm_kalloc(m, size)
<1> HIDE DEF r
<1>2. GoodMem(r.mem) /\ (r.mem.stop = "no" => m.stop = "no")
  BY KAlloc DEF r
<1>3. r.mem.stop = "no" => Allocated(m.wired) \subseteq Allocated(r.mem.wired)
  <2>1. Allocs(m, r, size, 0, 5)  BY KAlloc DEF r
  <2> QED  BY <2>1 DEF Allocs
<1> QED  BY <1>2, <1>3 DEF Grown, r

\* A state of the allocator.
IsState(k) == k = [mem |-> k.mem, zones |-> k.zones]

\* A new slab leaves the memory alone.
LEMMA SlabAdded ==
    ASSUME NEW k, IsState(k), NEW z, NEW slab
    PROVE  IsState(WithSlab(k, z, slab)) /\ WithSlab(k, z, slab).mem = k.mem
<1>1. WithSlab(k, z, slab) = [k EXCEPT !.zones = [k.zones EXCEPT ![z] = <<slab>> \o @]]
  BY DEF WithSlab
<1>2. PICK y : y = [k.zones EXCEPT ![z] = <<slab>> \o @]  OBVIOUS
<1>3. PICK x : x = k.mem  OBVIOUS
<1>4. PICK w : w = k.zones  OBVIOUS
<1>5. k = [mem |-> x, zones |-> w]  BY <1>3, <1>4 DEF IsState
<1>6. [k EXCEPT !.zones = y] = [mem |-> x, zones |-> y]  BY <1>5
<1> QED  BY <1>1, <1>2, <1>3, <1>6 DEF IsState

\* And so does taking an object off a slab.
LEMMA FirstTaken ==
    ASSUME NEW k, NEW z
    PROVE  FromFirst(k, z).mem = k.mem
BY DEF FromFirst, Failed, TakeFirst

\* kmem_zonealloc of small objects allocates at most a page.
LEMMA SmallAlloc ==
    ASSUME NEW k, IsState(k), GoodMem(k.mem), NEW z
    PROVE  Grown(k.mem, small_zonealloc(k, z).mem)
<1> DEFINE pg == vm_kalloc(k.mem, 1)
           s == small_slab_new(k, z, pg)
           e == [k EXCEPT !.mem = pg.mem]
<1>1. Grown(k.mem, pg.mem)
  <2>1. 1 \in Nat \ {0} /\ 1 \in 1 .. KHeapSize  BY VmKernelAssumption
  <2>2. HasClass(1)  BY <2>1, VmKernelAssumption
  <2>3. PICK n \in Nat \ {0} : n = 1  BY <2>1
  <2>4. Grown(k.mem, vm_kalloc(k.mem, n).mem)  BY <2>2, <2>3, KAllocGrown
  <2> QED  BY <2>3, <2>4
<1> HIDE DEF pg
<1>2. IsState(e) /\ e.mem = pg.mem
  <2>1. PICK x : x = k.mem  OBVIOUS
  <2>2. PICK w : w = k.zones  OBVIOUS
  <2>3. PICK y : y = pg.mem  OBVIOUS
  <2>4. k = [mem |-> x, zones |-> w]  BY <2>1, <2>2 DEF IsState
  <2>5. [k EXCEPT !.mem = y] = [mem |-> y, zones |-> w]  BY <2>4
  <2> QED  BY <2>3, <2>5 DEF IsState
<1>3. s.mem = pg.mem
  <2> HIDE DEF e
  <2>1. \/ s = e
        \/ s = WithSlab(e, z, NewSlab(z, pg.addr * PGSIZE, 0, {}))
    BY DEF small_slab_new, e
  <2>2. WithSlab(e, z, NewSlab(z, pg.addr * PGSIZE, 0, {})).mem = e.mem  BY <1>2, SlabAdded
  <2> HIDE DEF s
  <2> QED  BY <1>2, <2>1, <2>2
<1> HIDE DEF s
<1>4. \/ small_zonealloc(k, z).mem = s.mem
      \/ small_zonealloc(k, z).mem = k.mem
  BY FirstTaken DEF small_zonealloc, s, pg
<1>5. Grown(k.mem, k.mem)  BY GrownSame
<1> QED  BY <1>1, <1>3, <1>4, <1>5

\* What large_slab_new makes of each bufctl: the function that Bufctls defines.
MadeBy(f, k, n) ==
    f = [i \in 0 .. n |-> IF i = 0 THEN [k |-> k, ctl |-> {}] ELSE AddBufctl(f[i - 1])]

\* The recursion of Bufctls defines a function.
LEMMA MadeExists ==
    ASSUME NEW k, NEW n \in Nat
    PROVE  \E f : MadeBy(f, k, n)
<1> DEFINE T == {j \in Nat : ~\E f : MadeBy(f, k, j)}
<1> SUFFICES T = {}  OBVIOUS
<1> SUFFICES ASSUME T # {} PROVE FALSE  OBVIOUS
<1>1. PICK j \in T : \A i \in T : j <= i  BY LeastNatural
<1>2. j # 0
  <2> DEFINE f == [i \in 0 .. 0 |-> [k |-> k, ctl |-> {}]]
  <2>1. MadeBy(f, k, 0)  BY DEF MadeBy
  <2> HIDE DEF f
  <2> QED  BY <2>1
<1>3. j - 1 \in Nat /\ j - 1 \notin T  BY <1>1, <1>2
<1>4. PICK f : MadeBy(f, k, j - 1)  BY <1>3
<1> DEFINE h == [i \in 0 .. j |-> IF i = j THEN AddBufctl(f[j - 1]) ELSE f[i]]
<1>5. \A i \in 0 .. j - 1 : f[i] = IF i = 0 THEN [k |-> k, ctl |-> {}] ELSE AddBufctl(f[i - 1])
  BY <1>4 DEF MadeBy
<1>6. ASSUME NEW i \in 0 .. j
      PROVE  h[i] = IF i = 0 THEN [k |-> k, ctl |-> {}] ELSE AddBufctl(h[i - 1])
  <2>1. CASE i = j
    <3>1. h[i] = AddBufctl(f[j - 1]) /\ i # 0  BY <1>2, <2>1
    <3>2. h[i - 1] = f[j - 1]  BY <1>3, <2>1
    <3> HIDE DEF h
    <3> QED  BY <3>1, <3>2
  <2>2. CASE i # j /\ i = 0
    <3>1. h[i] = f[0] /\ 0 \in 0 .. j - 1  BY <1>3, <2>2
    <3> HIDE DEF h
    <3> QED  BY <1>5, <2>2, <3>1
  <2>3. CASE i # j /\ i # 0
    <3>1. i \in 0 .. j - 1 /\ i - 1 \in 0 .. j - 1 /\ i - 1 # j /\ i - 1 \in 0 .. j  BY <1>1, <2>3
    <3>2. h[i] = f[i] /\ h[i - 1] = f[i - 1]  BY <2>3, <3>1
    <3> HIDE DEF h
    <3> QED  BY <1>5, <2>3, <3>1, <3>2
  <2> QED  BY <2>1, <2>2, <2>3
<1>7. MadeBy(h, k, j)
  <2>1. h = [i \in 0 .. j |-> h[i]]  OBVIOUS
  <2> HIDE DEF h
  <2> QED  BY <1>6, <2>1 DEF MadeBy
<1> HIDE DEF h
<1> QED  BY <1>1, <1>7

\* A bufctl.
LEMMA BufctlAdded ==
    ASSUME NEW acc, IsState(acc.k), GoodMem(acc.k.mem)
    PROVE  LET e == AddBufctl(acc)
           IN  IsState(e.k) /\ Grown(acc.k.mem, e.k.mem)
<1> DEFINE r == small_zonealloc(acc.k, kmem_bufctl)
<1>1. Grown(acc.k.mem, r.mem)  BY SmallAlloc
<1> HIDE DEF r
<1>2. AddBufctl(acc) = [k |-> [mem |-> r.mem, zones |-> r.zones], ctl |-> acc.ctl \cup {r.addr}]
  BY DEF AddBufctl, WithBufctl, State, r
<1>3. AddBufctl(acc).k = [mem |-> r.mem, zones |-> r.zones]  BY <1>2
<1> QED  BY <1>1, <1>3 DEF IsState

\* The bufctls of a large slab.
LEMMA BufctlsGrown ==
    ASSUME NEW k, IsState(k), GoodMem(k.mem), NEW z, slabcapacity(z) \in Nat
    PROVE  IsState(Bufctls(k, z).k) /\ Grown(k.mem, Bufctls(k, z).k.mem)
<1> DEFINE n == slabcapacity(z)
           f == CHOOSE f : f = [i \in 0 .. n |-> IF i = 0 THEN [k |-> k, ctl |-> {}] ELSE AddBufctl(f[i - 1])]
           T == {i \in Nat : i <= n /\ ~(IsState(f[i].k) /\ Grown(k.mem, f[i].k.mem))}
<1>1. Bufctls(k, z) = f[n]  BY DEF Bufctls
<1>2. \E x : x = [i \in 0 .. n |-> IF i = 0 THEN [k |-> k, ctl |-> {}] ELSE AddBufctl(x[i - 1])]
  BY MadeExists DEF MadeBy
<1>3. f = [i \in 0 .. n |-> IF i = 0 THEN [k |-> k, ctl |-> {}] ELSE AddBufctl(f[i - 1])]  BY <1>2
<1> HIDE DEF f
<1>4. \A i \in 0 .. n : f[i] = IF i = 0 THEN [k |-> k, ctl |-> {}] ELSE AddBufctl(f[i - 1])  BY <1>3
<1>5. T = {}
  <2> SUFFICES ASSUME T # {} PROVE FALSE  OBVIOUS
  <2>1. PICK j \in T : \A i \in T : j <= i  BY LeastNatural
  <2>2. j \in 0 .. n  BY <2>1
  <2>3. j # 0
    <3>1. 0 \in 0 .. n  BY <2>2
    <3>2. f[0].k = k  BY <1>4, <3>1
    <3>3. Grown(k.mem, k.mem)  BY GrownSame
    <3> QED  BY <2>1, <3>2, <3>3
  <2>4. j - 1 \in Nat /\ j - 1 <= n /\ j - 1 \notin T  BY <2>1, <2>2, <2>3
  <2>5. IsState(f[j - 1].k) /\ Grown(k.mem, f[j - 1].k.mem)  BY <2>4
  <2>6. f[j] = AddBufctl(f[j - 1])  BY <1>4, <2>2, <2>3
  <2>7. PICK acc : acc = f[j - 1]  OBVIOUS
  <2>8. IsState(acc.k) /\ Grown(k.mem, acc.k.mem) /\ GoodMem(acc.k.mem)  BY <2>5, <2>7 DEF Grown
  <2>9. IsState(AddBufctl(acc).k) /\ Grown(acc.k.mem, AddBufctl(acc).k.mem)  BY <2>8, BufctlAdded
  <2>10. Grown(k.mem, AddBufctl(acc).k.mem)  BY <2>8, <2>9, GrownTwice
  <2> QED  BY <2>1, <2>6, <2>7, <2>9, <2>10
<1>6. n \in Nat /\ n \notin T  BY <1>5
<1> QED  BY <1>1, <1>6

\* large_slab_new.
LEMMA LargeSlab ==
    ASSUME NEW k, IsState(k), GoodMem(k.mem), NEW z \in Zones, ~IsSmall(z)
    PROVE  Grown(k.mem, large_slab_new(k, z).mem)
<1> DEFINE h == small_zonealloc(k, kmem_slab)
           pages == slabsize(z) \div PGSIZE
           data == vm_kalloc(h.mem, pages)
           k2 == [mem |-> data.mem, zones |-> h.zones]
           c == Bufctls(k2, z)
           e == large_slab_new(k, z)
<1>1. Grown(k.mem, h.mem)  BY SmallAlloc
<1>2. slabcapacity(z) \in Nat /\ pages \in Nat \ {0} /\ HasClass(pages)  BY LargeZone
<1>3. e = WithHeader(h, z)  BY DEF large_slab_new
<1> HIDE DEF h, pages
<1>4. CASE Stopped(h.mem)
  <2>1. e = State(h)  BY <1>3, <1>4 DEF WithHeader
  <2>2. e.mem = h.mem  BY <2>1 DEF State
  <2> QED  BY <1>1, <2>2
<1>5. CASE ~Stopped(h.mem)
  <2>1. e = WithBufctls(h, data, c, z)  BY <1>3, <1>5 DEF WithHeader, WithData, pages
  <2>2. GoodMem(h.mem)  BY <1>1 DEF Grown
  <2>3. Grown(h.mem, data.mem)  BY <1>2, <2>2, KAllocGrown
  <2> HIDE DEF data, e
  <2>4. IsState(k2) /\ k2.mem = data.mem /\ GoodMem(k2.mem)  BY <2>3 DEF IsState, Grown
  <2> HIDE DEF k2
  <2>5. IsState(c.k) /\ Grown(k2.mem, c.k.mem)  BY <1>2, <2>4, BufctlsGrown
  <2> HIDE DEF c
  <2>6. Grown(k.mem, c.k.mem)  BY <1>1, <2>3, <2>4, <2>5, GrownTwice
  <2>7. e = c.k \/ e = WithSlab(c.k, z, NewSlab(z, data.addr * PGSIZE, h.addr, c.ctl))  BY <2>1 DEF WithBufctls
  <2>8. WithSlab(c.k, z, NewSlab(z, data.addr * PGSIZE, h.addr, c.ctl)).mem = c.k.mem  BY <2>5, SlabAdded
  <2>9. e.mem = c.k.mem  BY <2>7, <2>8
  <2> QED  BY <2>6, <2>9 DEF e
<1> QED  BY <1>4, <1>5

\* kmem_zonealloc frees nothing.
LEMMA ZoneAlloc ==
    ASSUME NEW k, IsState(k), GoodMem(k.mem), NEW z \in Zones
    PROVE  Grown(k.mem, kmem_zonealloc(k, z).mem)
<1>1. CASE IsSmall(z)
  <2>1. kmem_zonealloc(k, z) = small_zonealloc(k, z)  BY <1>1 DEF kmem_zonealloc
  <2> QED  BY <2>1, SmallAlloc
<1>2. CASE ~IsSmall(z)
  <2>1. Grown(k.mem, large_slab_new(k, z).mem)  BY <1>2, LargeSlab
  <2>2. Grown(k.mem, k.mem)  BY GrownSame
  <2>3. \/ kmem_zonealloc(k, z).mem = large_slab_new(k, z).mem
        \/ kmem_zonealloc(k, z).mem = k.mem
    BY <1>2, FirstTaken DEF kmem_zonealloc
  <2> QED  BY <2>1, <2>2, <2>3
<1> QED  BY <1>1, <1>2

\* The zone of a request is one of the zones.
LEMMA ZoneForType ==
    ASSUME NEW size \in Nat, ZoneFor(size) # NoZone
    PROVE  ZoneFor(size) \in Zones
<1> DEFINE T == {z \in AllocSizes : z >= size}
<1>1. AllocSizes \subseteq Nat  BY KmemAssumption
<1>2. ~\A z \in AllocSizes : z < size  BY DEF ZoneFor
<1>20. PICK w \in AllocSizes : ~(w < size)  BY <1>2
<1>21. w \in Nat /\ w >= size  BY <1>1, <1>20
<1>3. T \subseteq Nat /\ T # {}  BY <1>1, <1>20, <1>21
<1>4. PICK n \in T : \A y \in T : n <= y  BY <1>3, LeastNatural
<1>5. \E z \in AllocSizes : z >= size /\ \A y \in AllocSizes : y >= size => z <= y  BY <1>4
<1>6. ZoneFor(size) \in AllocSizes  BY <1>2, <1>5 DEF ZoneFor
<1> QED  BY <1>6 DEF Zones

\* The objects without a zone are allocations of wired memory, one each.
Owned(m, l) == m.stop = "no" =>
    /\ \A o \in l : ZoneFor(o.size) = NoZone => \E s \in Allocated(m.wired) : o.addr = s.base * PGSIZE
    /\ \A o, p \in l : ZoneFor(o.size) = NoZone /\ ZoneFor(p.size) = NoZone /\ o.addr = p.addr => o = p

\* Allocations leave those of others alone.
LEMMA OwnedGrown ==
    ASSUME NEW m, NEW n, NEW l, Owned(m, l), Grown(m, n)
    PROVE  Owned(n, l)
BY DEF Owned, Grown

\* The page of a page's address.
LEMMA PageAddress == ASSUME NEW b \in Nat PROVE PageOf(b * PGSIZE) = b
<1>1. PGSIZE \in Nat \ {0}  BY KmemAssumption
<1> QED  BY <1>1 DEF PageOf

\* The fields of the wired arena's segments.
LEMMA WiredTyped ==
    ASSUME NEW m, GoodMem(m), NEW s \in Allocated(m.wired)
    PROVE  s.base \in Nat
<1>1. QueueOK(m.wired.segqueue) /\ s \in Range(m.wired.segqueue)  BY DEF GoodMem, Sound, ArenaOK, Allocated
<1> QED  BY <1>1, SegsTyped

\* _kmem_alloc.
LEMMA AllocOwned ==
    ASSUME NEW k, IsState(k), GoodMem(k.mem), NEW l, Owned(k.mem, l), NEW size \in Requests
    PROVE  LET r == Alloc(k, size)
           IN  Grown(k.mem, r.mem) /\ Owned(r.mem, l \cup {[addr |-> r.addr, size |-> size]})
<1> DEFINE r == Alloc(k, size)
           o == [addr |-> r.addr, size |-> size]
<1>1. size \in Nat  BY KmemAssumption
<1>2. o.addr = r.addr /\ o.size = size  OBVIOUS
<1>3. CASE ZoneFor(size) # NoZone
  <2>1. r = kmem_zonealloc(k, ZoneFor(size))  BY <1>3 DEF Alloc
  <2>2. Grown(k.mem, r.mem)  BY <1>1, <1>3, <2>1, ZoneForType, ZoneAlloc
  <2>3. Owned(r.mem, l)  BY <2>2, OwnedGrown
  <2> HIDE DEF r, o
  <2>4. Owned(r.mem, l \cup {o})  BY <1>2, <1>3, <2>3 DEF Owned
  <2> QED  BY <2>2, <2>4 DEF r, o
<1>4. CASE ZoneFor(size) = NoZone
  <2> DEFINE n == PGROUNDUP(size) \div PGSIZE
             v == vm_kalloc(k.mem, n)
             new == Seg("allocated", v.addr, n)
  <2>1. n \in Nat \ {0} /\ HasClass(n)  BY RequestPages
  <2>2. r.mem = v.mem /\ r.addr = v.addr * PGSIZE  BY <1>4 DEF Alloc, WithPages
  <2> HIDE DEF n
  <2>3. Grown(k.mem, v.mem)  BY <2>1, KAllocGrown
  <2>4. Allocs(k.mem, v, n, 0, 5)  BY <2>1, KAlloc
  <2> HIDE DEF v, r, o
  <2>5. Owned(v.mem, l)  BY <2>3, OwnedGrown
  <2>6. Owned(v.mem, l \cup {o})
    <3> SUFFICES ASSUME v.mem.stop = "no"
                 PROVE  /\ \A p \in l \cup {o} : ZoneFor(p.size) = NoZone =>
                               \E s \in Allocated(v.mem.wired) : p.addr = s.base * PGSIZE
                        /\ \A p, q \in l \cup {o} : ZoneFor(p.size) = NoZone /\ ZoneFor(q.size) = NoZone
                               /\ p.addr = q.addr => p = q
      BY DEF Owned
    <3>1. /\ new \in Allocated(v.mem.wired) /\ v.addr \in Nat /\ k.mem.stop = "no"
          /\ \A s \in Allocated(k.mem.wired) : s.base # v.addr
      BY <2>3, <2>4 DEF Allocs, Grown
    <3>2. new.base = v.addr  BY DEF Seg
    <3>3. o.addr = new.base * PGSIZE  BY <1>2, <2>2, <3>2
    <3> HIDE DEF new
    <3>4. ASSUME NEW p \in l, ZoneFor(p.size) = NoZone PROVE p.addr # o.addr
      <4>1. PICK s \in Allocated(k.mem.wired) : p.addr = s.base * PGSIZE  BY <3>1, <3>4 DEF Owned
      <4>2. s.base \in Nat /\ s.base # v.addr  BY <3>1, <4>1, WiredTyped
      <4>3. PageOf(p.addr) = s.base  BY <4>1, <4>2, PageAddress
      <4>4. PageOf(o.addr) = v.addr  BY <3>1, <3>2, <3>3, PageAddress
      <4> QED  BY <4>2, <4>3, <4>4
    <3> QED  BY <2>5, <3>1, <3>3, <3>4 DEF Owned
  <2> QED  BY <2>2, <2>3, <2>6 DEF r, o
<1> QED  BY <1>3, <1>4

\* kmem_free.
LEMMA FreeOwned ==
    ASSUME NEW k, IsState(k), GoodMem(k.mem), k.mem.stop = "no", NEW l, Owned(k.mem, l), NEW o \in l
    PROVE  LET f == Free(k, o.addr, o.size)
           IN  GoodMem(f.mem) /\ Owned(f.mem, l \ {o})
<1> DEFINE f == Free(k, o.addr, o.size)
<1>0. PICK x : x = k.mem  OBVIOUS
<1>1. PICK w : w = k.zones  OBVIOUS
<1>2. k = [mem |-> x, zones |-> w]  BY <1>0, <1>1 DEF IsState
<1>3. CASE ZoneFor(o.size) # NoZone
  <2> DEFINE z == ZoneFor(o.size)
  <2>1. f = kmem_zonefree(k, z, o.addr)  BY <1>3 DEF Free
  <2>2. kmem_zonefree(k, z, o.addr).mem = k.mem
    <3> HIDE DEF z
    <3>1. \E y : kmem_zonefree(k, z, o.addr) = [k EXCEPT !.zones = y]  BY DEF kmem_zonefree
    <3>2. PICK y : kmem_zonefree(k, z, o.addr) = [k EXCEPT !.zones = y]  BY <3>1
    <3>3. [k EXCEPT !.zones = y] = [mem |-> x, zones |-> y]  BY <1>2
    <3> QED  BY <1>0, <3>2, <3>3
  <2> HIDE DEF f, z
  <2>3. Owned(k.mem, l \ {o})  BY DEF Owned
  <2> QED  BY <2>1, <2>2, <2>3 DEF f
<1>4. CASE ZoneFor(o.size) = NoZone
  <2>1. PICK s \in Allocated(k.mem.wired) : o.addr = s.base * PGSIZE  BY <1>4 DEF Owned
  <2>2. s.base \in Nat  BY <2>1, WiredTyped
  <2>3. PageOf(o.addr) = s.base  BY <2>1, <2>2, PageAddress
  <2> DEFINE n == vm_kfree(k.mem, s.base)
  <2>4. f.mem = n
    <3>1. f = [k EXCEPT !.mem = vm_kfree(k.mem, PageOf(o.addr))]  BY <1>4 DEF Free
    <3> HIDE DEF f, n
    <3>2. f = [k EXCEPT !.mem = n]  BY <2>3, <3>1 DEF n
    <3> QED  BY <1>2, <3>2
  <2>5. GoodMem(n) /\ n.stop = "no" /\ Allocated(n.wired) = Allocated(k.mem.wired) \ {s}  BY <2>1, KFree
  <2> HIDE DEF n, f
  <2>6. ASSUME NEW p \in l \ {o}, ZoneFor(p.size) = NoZone
        PROVE  \E t \in Allocated(n.wired) : p.addr = t.base * PGSIZE
    <3>1. PICK t \in Allocated(k.mem.wired) : p.addr = t.base * PGSIZE  BY <2>6 DEF Owned
    <3>2. p.addr # o.addr  BY <1>4, <2>6 DEF Owned
    <3>3. t # s  BY <2>1, <3>1, <3>2
    <3> QED  BY <2>5, <3>1, <3>3
  <2>7. Owned(n, l \ {o})  BY <2>6 DEF Owned
  <2> QED  BY <2>4, <2>5, <2>7 DEF f
<1> QED  BY <1>3, <1>4

------------------------------------------------------------------------------
\* The invariant of the kernel's heap.
HeapInv == GoodMem(mem) /\ Owned(mem, live)

\* Every step of kmem_alloc, kmem_free and kmem_realloc keeps it.
LEMMA HeapStep ==
    ASSUME HeapInv, KmemNext
    PROVE  HeapInv'
<1>1. IsState(Now) /\ Now.mem = mem  BY DEF IsState, Now
<1>2. GoodMem(Now.mem) /\ Owned(Now.mem, live)  BY <1>1 DEF HeapInv
<1>3. ASSUME NEW size \in Requests, kmem_alloc(size) PROVE HeapInv'
  <2> DEFINE r == Alloc(Now, size)
  <2>1. Grown(Now.mem, r.mem) /\ Owned(r.mem, live \cup {[addr |-> r.addr, size |-> size]})
    BY <1>1, <1>2, AllocOwned
  <2>2. mem' = r.mem
        /\ live' = IF Stopped(r.mem) THEN live ELSE live \cup {[addr |-> r.addr, size |-> size]}
    BY <1>3 DEF kmem_alloc, Allocates, Becomes, Live
  <2> HIDE DEF r
  <2>3. Owned(mem', live')  BY <2>1, <2>2 DEF Owned, Stopped
  <2> QED  BY <2>1, <2>2, <2>3 DEF HeapInv, Grown
<1>4. ASSUME NEW o \in live, kmem_free(o) PROVE HeapInv'
  <2> DEFINE f == Free(Now, o.addr, o.size)
  <2>1. Now.mem.stop = "no" /\ mem' = f.mem /\ live' = live \ {o}
    BY <1>4 DEF kmem_free, Halted, Stopped, Becomes
  <2>2. GoodMem(f.mem) /\ Owned(f.mem, live \ {o})  BY <1>1, <1>2, <2>1, FreeOwned
  <2> QED  BY <2>1, <2>2 DEF HeapInv
<1>5. ASSUME NEW o \in live, NEW size \in Requests, kmem_realloc(o, size) PROVE HeapInv'
  <2> DEFINE r == Alloc(Now, size)
             new == [addr |-> r.addr, size |-> size]
             f == Free(State(r), o.addr, o.size)
  <2>1. Grown(Now.mem, r.mem) /\ Owned(r.mem, live \cup {new})
    BY <1>1, <1>2, AllocOwned
  <2>2. /\ size > o.size
        /\ mem' = (IF Stopped(r.mem) THEN State(r) ELSE f).mem
        /\ live' = IF Stopped(r.mem) THEN live ELSE (live \ {o}) \cup {new}
    BY <1>5 DEF kmem_realloc, Reallocates, Becomes, Live
  <2>3. new # o
    <3>1. size \in Nat /\ new.size = size  BY KmemAssumption
    <3> QED  BY <2>2, <3>1
  <2> HIDE DEF r, new
  <2>4. IsState(State(r)) /\ State(r).mem = r.mem  BY DEF State, IsState
  <2>5. CASE Stopped(r.mem)
    <3>1. mem' = r.mem  BY <2>2, <2>4, <2>5
    <3>2. Owned(mem', live')  BY <2>5, <3>1 DEF Owned, Stopped
    <3> QED  BY <2>1, <3>1, <3>2 DEF HeapInv, Grown
  <2>6. CASE ~Stopped(r.mem)
    <3>1. GoodMem(State(r).mem) /\ State(r).mem.stop = "no" /\ Owned(State(r).mem, live \cup {new})
      BY <2>1, <2>4, <2>6 DEF Grown, Stopped
    <3>2. PICK k : k = State(r)  OBVIOUS
    <3>3. PICK l : l = live \cup {new}  OBVIOUS
    <3>4. IsState(k) /\ GoodMem(k.mem) /\ k.mem.stop = "no" /\ Owned(k.mem, l) /\ o \in l
      BY <2>4, <3>1, <3>2, <3>3
    <3>5. GoodMem(Free(k, o.addr, o.size).mem) /\ Owned(Free(k, o.addr, o.size).mem, l \ {o})
      BY <3>4, FreeOwned
    <3>6. l \ {o} = (live \ {o}) \cup {new}  BY <2>3, <3>3
    <3>7. mem' = f.mem /\ live' = l \ {o}  BY <2>2, <2>6, <3>6
    <3> QED  BY <3>2, <3>5, <3>7 DEF HeapInv
  <2> QED  BY <2>5, <2>6
<1> QED  BY <1>3, <1>4, <1>5 DEF KmemNext

\* An arena without segments is right.
LEMMA NoSegsOK ==
    ArenaOK(NoSegs) /\ Range(NoSegs.segqueue) = {} /\ Len(NoSegs.segqueue) = 0
<1>1. /\ NoSegs.segqueue = NoSeg /\ NoSegs.freelist = [k \in 0 .. NFreeLists - 1 |-> <<>>]
      /\ NoSegs = [segqueue |-> NoSegs.segqueue, freelist |-> NoSegs.freelist]
  BY DEF NoSegs, NoSeg
<1>2. NoSeg \in Seq(SegType) /\ Range(NoSeg) = {} /\ Len(NoSeg) = 0 /\ DOMAIN NoSeg = {}  BY NoSegType
<1>3. QueueOK(NoSeg)  BY <1>2 DEF QueueOK, Ordered, Housed
<1>4. FreeSegs(NoSeg) = {}  BY <1>2 DEF FreeSegs
<1>5. Listing(NoSegs.freelist, {})
  <2>1. ASSUME NEW k \in 0 .. NFreeLists - 1
        PROVE  IsInjective(NoSegs.freelist[k]) /\ Range(NoSegs.freelist[k]) = Bases({}, k)
    <3>1. NoSegs.freelist[k] = <<>>  BY <1>1
    <3>2. Bases({}, k) = {}  BY DEF Bases
    <3> QED  BY <3>1, <3>2 DEF IsInjective, Range
  <2>2. NoSegs.freelist \in [0 .. NFreeLists - 1 -> Seq(Nat)]  BY <1>1
  <2> QED  BY <2>1, <2>2 DEF Listing
<1>6. NoSegs \in [segqueue : Seq(SegType), freelist : [0 .. NFreeLists - 1 -> Seq(Nat)]]
  BY <1>1, <1>2, <1>5 DEF Listing
<1> QED  BY <1>1, <1>2, <1>3, <1>4, <1>5, <1>6 DEF ArenaOK, Has

\* And so are the arenas that vm_kernel_init leaves behind.
LEMMA HeapStart == GoodMem(vm_kernel_init)
<1> DEFINE kva == vmem_init(KHeapBase, KHeapSize)
           m == vm_kernel_init
<1>1. /\ KHeapSize \in Nat \ {0} /\ PhysPages \in Nat /\ StaticTags \in Nat /\ StaticTags >= 7 /\ BlockTags \in Nat
      /\ Classed(KHeapSize) /\ KHeapBase = 1
  BY VmKernelAssumption DEF Classed, KHeapBase
<1>2. /\ ArenaOK(kva) /\ Len(kva.segqueue) = 2
      /\ Range(kva.segqueue) = {Seg("span", KHeapBase, KHeapSize), Seg("free", KHeapBase, KHeapSize)}
  <2>1. "span" \in SpanTypes /\ ClearOf(NoSegs.segqueue, KHeapBase, KHeapSize) /\ KHeapBase \in Nat
    BY <1>1, NoSegsOK DEF ClearOf, SpanTypes
  <2>20. PICK a : a = NoSegs  OBVIOUS
  <2>21. PICK base \in Nat : base = KHeapBase  BY <2>1
  <2>22. PICK size \in Nat \ {0} : size = KHeapSize  BY <1>1
  <2>23. ArenaOK(a) /\ "span" \in SpanTypes /\ Classed(size) /\ ClearOf(a.segqueue, base, size)
    BY <1>1, <2>1, <2>20, <2>21, <2>22, NoSegsOK
  <2>24. LET b == vmem_add_internal(a, "span", base, size)
         IN  /\ ArenaOK(b)
             /\ Range(b.segqueue) = Range(a.segqueue) \cup {Seg("span", base, size), Seg("free", base, size)}
             /\ Len(b.segqueue) = Len(a.segqueue) + 2
    BY <2>23, AddArena, ZenonT(30)
  <2>2. LET b == vmem_add_internal(NoSegs, "span", KHeapBase, KHeapSize)
        IN  /\ ArenaOK(b)
            /\ Range(b.segqueue) = Range(NoSegs.segqueue)
                   \cup {Seg("span", KHeapBase, KHeapSize), Seg("free", KHeapBase, KHeapSize)}
            /\ Len(b.segqueue) = Len(NoSegs.segqueue) + 2
    BY <2>20, <2>21, <2>22, <2>24
  <2>3. kva = vmem_add_internal(NoSegs, "span", KHeapBase, KHeapSize)  BY <1>1 DEF vmem_init
  <2> HIDE DEF kva
  <2> QED  BY <2>2, <2>3, NoSegsOK
<1> HIDE DEF kva
<1>3. /\ m.kva = kva /\ m.wired = NoSegs /\ m.tags = StaticTags - 2 /\ m.blocks = 0
      /\ m.pages = [i \in 1 .. PhysPages |-> i] /\ m.kmap = [va \in KHeap |-> NoPage] /\ m.stop = "no"
      /\ m = [kva |-> m.kva, wired |-> m.wired, tags |-> m.tags, blocks |-> m.blocks, pages |-> m.pages,
              kmap |-> m.kmap, stop |-> m.stop]
  BY <1>2 DEF vm_kernel_init, vmem_init, kva
<1> HIDE DEF m
<1>4. kva \in ArenaType /\ NoSegs \in ArenaType  BY <1>2, NoSegsOK, ArenaTyped
<1>5. m.pages \in Seq(1 .. PhysPages) /\ Len(m.pages) = PhysPages /\ IsInjective(m.pages)
  BY <1>1, <1>3, SMTT(30) DEF IsInjective
<1>6. m \in MemType
  <2>1. m.tags \in Nat /\ m.blocks \in Nat /\ m.kmap \in [KHeap -> 0 .. PhysPages]  BY <1>1, <1>3 DEF NoPage
  <2> QED  BY <1>3, <1>4, <1>5, <2>1 DEF MemType
<1>7. Spans(kva) = {Seg("span", KHeapBase, KHeapSize)} /\ Allocated(kva) = {} /\ Allocated(NoSegs) = {}
  BY <1>2, NoSegsOK DEF Spans, Allocated, Seg, SpanTypes
<1>8. InHeap(m.kva)
  <2>1. PICK t : t = Seg("span", KHeapBase, KHeapSize)  OBVIOUS
  <2>2. t.type = "span" /\ t.base = KHeapBase /\ End(t) = KHeapBase + KHeapSize  BY <2>1 DEF Seg, End
  <2> QED  BY <1>1, <1>3, <1>7, <2>1, <2>2 DEF InHeap
<1>9. Filled(m.wired)  BY <1>3, NoSegsOK DEF Filled
<1>10. TagsKept(m, 0)
  <2>1. Len(m.kva.segqueue) = 2 /\ Len(m.wired.segqueue) = 0  BY <1>2, <1>3, NoSegsOK
  <2>2. (StaticTags - 2) + 0 + 2 + 0 = StaticTags + BlockTags * 0  BY <1>1
  <2> QED  BY <1>3, <2>1, <2>2 DEF TagsKept
<1>11. Backed(m.kmap, m.pages, Allocated(m.kva))
  <2>1. Mapped(m.kmap) = {}  BY <1>3 DEF Mapped
  <2>2. Cardinality({}) = 0  BY FS_EmptySet
  <2>3. 0 + PhysPages = PhysPages  BY <1>1
  <2> QED  BY <1>3, <1>5, <1>7, <2>1, <2>2, <2>3 DEF Backed
<1>12. Running(m, 0)  BY <1>3, <1>7, <1>8, <1>9, <1>10, <1>11 DEF Running
<1>13. m.tags >= 5  BY <1>1, <1>3
<1> QED  BY <1>2, <1>3, <1>6, <1>12, <1>13, NoSegsOK DEF GoodMem, Sound, Enough, m

\* What the invariant says of the runs' properties.
LEMMA HeapArenas == ASSUME HeapInv PROVE ArenasIntact
<1>1. ArenaOK(mem.kva) /\ ArenaOK(mem.wired)  BY DEF HeapInv, GoodMem, Sound
<1>2. /\ SegmentsInOrder(mem.kva) /\ FreelistsExact(mem.kva)
      /\ SegmentsInOrder(mem.wired) /\ FreelistsExact(mem.wired)
  BY <1>1, ArenaIntact
<1>3. mem["kva"] = mem.kva /\ mem["wired"] = mem.wired  OBVIOUS
<1> QED  BY <1>2, <1>3 DEF ArenasIntact

\* The reserve of tags.
LEMMA HeapTags == ASSUME HeapInv PROVE TagReserve
<1>1. mem.stop # "assert"  BY DEF HeapInv, GoodMem, Sound
<1>2. ASSUME mem.stop = "no"
      PROVE  mem.tags + Len(mem.kva.segqueue) + Len(mem.wired.segqueue) = StaticTags + BlockTags * mem.blocks
  <2>1. mem.tags + 0 + Len(mem.kva.segqueue) + Len(mem.wired.segqueue) = StaticTags + BlockTags * mem.blocks
    BY <1>2 DEF HeapInv, GoodMem, Sound, Running, TagsKept
  <2>2. mem.tags \in Nat  BY DEF HeapInv, GoodMem, Sound, MemType
  <2>3. mem.tags + 0 = mem.tags  BY <2>2
  <2> QED  BY <2>1, <2>3
<1> QED  BY <1>1, <1>2 DEF TagReserve

\* The wired memory is backed.
LEMMA HeapBacked == ASSUME HeapInv PROVE WiredBacked
<1> SUFFICES ASSUME mem.stop = "no"
             PROVE  LET wired == Allocated(mem.wired)
                        mapped == {va \in KHeap : mem.kmap[va] # NoPage}
                    IN  /\ wired = Allocated(mem.kva)
                        /\ mapped = UNION {Units(s) : s \in wired}
                        /\ \A va, vb \in mapped : va # vb => mem.kmap[va] # mem.kmap[vb]
                        /\ {mem.kmap[va] : va \in mapped} \cap Range(mem.pages) = {}
                        /\ IsInjective(mem.pages)
                        /\ Cardinality(mapped) + Len(mem.pages) = PhysPages
  BY DEF WiredBacked
<1>1. Allocated(mem.wired) = Allocated(mem.kva) /\ Backed(mem.kmap, mem.pages, Allocated(mem.kva))
  BY DEF HeapInv, GoodMem, Sound, Running
<1>2. {mem.kmap[va] : va \in Mapped(mem.kmap)} \cap Range(mem.pages) = {}  BY <1>1 DEF Backed, Range
<1> QED  BY <1>1, <1>2 DEF Backed, Mapped

------------------------------------------------------------------------------
\* The sizes of zones.

\* What zonenum finds for a size: the smallest zone that holds it.
ZoneFound(size) ==
    LET n == zonenum(size) + 1
    IN  /\ n \in DOMAIN ZONE_SIZES
        /\ ZONE_SIZES[n] >= size
        /\ n > 1 => ZONE_SIZES[n - 1] < size

\* A size of a class, whose zones, from the i-th on, have sizes that are a apart.
InZoneClass(size, base, a, i, top) ==
    /\ a \in Nat \ {0} /\ base \in Nat /\ i \in Nat /\ top \in {4, 8} /\ i + top <= 32
    /\ \A j \in 0 .. top : i + j >= 1 => ZONE_SIZES[i + j] = base + a * j
    /\ size \in Nat /\ base < size /\ size <= base + a * top
    /\ zonenum(size) = ROUNDUP(size - base, a) \div a + (i - 1)

\* zonenum finds the zone of a size of that class.
LEMMA ZoneOfClass ==
    ASSUME NEW size, NEW base, NEW a, NEW i, NEW top, InZoneClass(size, base, a, i, top)
    PROVE  ZoneFound(size)
<1> USE DEF InZoneClass
<1> DEFINE d == size - base
<1>1. PICK k \in Int : k = (d + a - 1) \div a  OBVIOUS
<1>2. d \in Nat \ {0} /\ d <= a * top  OBVIOUS
<1> HIDE DEF d
<1>3. a * k <= d + a - 1 /\ d + a - 1 < a * k + a  BY <1>1, <1>2
<1>4. k >= 1  BY <1>2, <1>3
<1>5. k <= top
  <2>1. CASE top = 4  BY <1>2, <1>3, <2>1
  <2>2. CASE top = 8  BY <1>2, <1>3, <2>2
  <2> QED  BY <2>1, <2>2
<1>6. ROUNDUP(d, a) \div a = k  BY <1>1 DEF ROUNDUP
<1>7. zonenum(size) + 1 = i + k  BY <1>6 DEF d
<1>8. DOMAIN ZONE_SIZES = 1 .. 32  BY DEF ZONE_SIZES
<1>9. i + k \in 1 .. 32 /\ k \in 0 .. top /\ k - 1 \in 0 .. top /\ i + k >= 1  BY <1>4, <1>5
<1>10. ZONE_SIZES[i + k] = base + a * k  BY <1>9
<1>11. i + k > 1 => ZONE_SIZES[i + k - 1] = base + a * (k - 1)
  <2>1. i + k > 1 => i + (k - 1) >= 1 /\ i + (k - 1) = i + k - 1  BY <1>4
  <2> QED  BY <1>9, <2>1
<1>12. base + a * k >= size /\ base + a * (k - 1) < size
  <2>1. d <= a * k /\ a * (k - 1) = a * k - a  BY <1>2, <1>3
  <2>2. a * (k - 1) < d  BY <1>2, <1>3, <2>1
  <2> QED  BY <2>1, <2>2 DEF d
<1> QED  BY <1>7, <1>8, <1>9, <1>10, <1>11, <1>12 DEF ZoneFound

\* Every size that has a zone.
LEMMA ZonesFound == \A size \in Nat : 0 < size /\ size <= 4096 => ZoneFound(size)
<1> SUFFICES ASSUME NEW size \in Nat, 0 < size, size <= 4096 PROVE ZoneFound(size)  OBVIOUS
<1>1. CASE 0 < size /\ size <= 64
  <2>1. \A j \in 0 .. 8 : 0 + j >= 1 => ZONE_SIZES[0 + j] = 0 + 8 * j  BY DEF ZONE_SIZES
  <2>2. zonenum(size) = ROUNDUP(size - 0, 8) \div 8 + (0 - 1)  BY <1>1 DEF zonenum, ROUNDUP
  <2>3. size <= 0 + 8 * 8 /\ 0 + 8 <= 32  BY <1>1
  <2>4. InZoneClass(size, 0, 8, 0, 8)  BY <1>1, <2>1, <2>2, <2>3 DEF InZoneClass
  <2> QED  BY <2>4, ZoneOfClass
<1>2. CASE 64 < size /\ size <= 128
  <2>1. \A j \in 0 .. 4 : 8 + j >= 1 => ZONE_SIZES[8 + j] = 64 + 16 * j  BY DEF ZONE_SIZES
  <2>2. zonenum(size) = ROUNDUP(size - 64, 16) \div 16 + (8 - 1)  BY <1>2 DEF zonenum
  <2>3. size <= 64 + 16 * 4 /\ 8 + 4 <= 32  BY <1>2
  <2>4. InZoneClass(size, 64, 16, 8, 4)  BY <1>2, <2>1, <2>2, <2>3 DEF InZoneClass
  <2> QED  BY <2>4, ZoneOfClass
<1>3. CASE 128 < size /\ size <= 256
  <2>1. \A j \in 0 .. 4 : 12 + j >= 1 => ZONE_SIZES[12 + j] = 128 + 32 * j  BY DEF ZONE_SIZES
  <2>2. zonenum(size) = ROUNDUP(size - 128, 32) \div 32 + (12 - 1)  BY <1>3 DEF zonenum
  <2>3. size <= 128 + 32 * 4 /\ 12 + 4 <= 32  BY <1>3
  <2>4. InZoneClass(size, 128, 32, 12, 4)  BY <1>3, <2>1, <2>2, <2>3 DEF InZoneClass
  <2> QED  BY <2>4, ZoneOfClass
<1>4. CASE 256 < size /\ size <= 512
  <2>1. \A j \in 0 .. 4 : 16 + j >= 1 => ZONE_SIZES[16 + j] = 256 + 64 * j  BY DEF ZONE_SIZES
  <2>2. zonenum(size) = ROUNDUP(size - 256, 64) \div 64 + (16 - 1)  BY <1>4 DEF zonenum
  <2>3. size <= 256 + 64 * 4 /\ 16 + 4 <= 32  BY <1>4
  <2>4. InZoneClass(size, 256, 64, 16, 4)  BY <1>4, <2>1, <2>2, <2>3 DEF InZoneClass
  <2> QED  BY <2>4, ZoneOfClass
<1>5. CASE 512 < size /\ size <= 1024
  <2>1. \A j \in 0 .. 4 : 20 + j >= 1 => ZONE_SIZES[20 + j] = 512 + 128 * j  BY DEF ZONE_SIZES
  <2>2. zonenum(size) = ROUNDUP(size - 512, 128) \div 128 + (20 - 1)  BY <1>5 DEF zonenum
  <2>3. size <= 512 + 128 * 4 /\ 20 + 4 <= 32  BY <1>5
  <2>4. InZoneClass(size, 512, 128, 20, 4)  BY <1>5, <2>1, <2>2, <2>3 DEF InZoneClass
  <2> QED  BY <2>4, ZoneOfClass
<1>6. CASE 1024 < size /\ size <= 2048
  <2>1. \A j \in 0 .. 4 : 24 + j >= 1 => ZONE_SIZES[24 + j] = 1024 + 256 * j  BY DEF ZONE_SIZES
  <2>2. zonenum(size) = ROUNDUP(size - 1024, 256) \div 256 + (24 - 1)  BY <1>6 DEF zonenum
  <2>3. size <= 1024 + 256 * 4 /\ 24 + 4 <= 32  BY <1>6
  <2>4. InZoneClass(size, 1024, 256, 24, 4)  BY <1>6, <2>1, <2>2, <2>3 DEF InZoneClass
  <2> QED  BY <2>4, ZoneOfClass
<1>7. CASE 2048 < size /\ size <= 4096
  <2>1. \A j \in 0 .. 4 : 28 + j >= 1 => ZONE_SIZES[28 + j] = 2048 + 512 * j  BY DEF ZONE_SIZES
  <2>2. zonenum(size) = ROUNDUP(size - 2048, 512) \div 512 + (28 - 1)  BY <1>7 DEF zonenum
  <2>3. size <= 2048 + 512 * 4 /\ 28 + 4 <= 32  BY <1>7
  <2>4. InZoneClass(size, 2048, 512, 28, 4)  BY <1>7, <2>1, <2>2, <2>3 DEF InZoneClass
  <2> QED  BY <2>4, ZoneOfClass
<1> QED  BY <1>1, <1>2, <1>3, <1>4, <1>5, <1>6, <1>7

------------------------------------------------------------------------------
\* Objects in slabs.

\* Multiples keep their order.
LEMMA TimesMono ==
    ASSUME NEW a \in Nat, NEW b \in Nat, NEW p \in Nat, a <= b
    PROVE  a * p <= b * p
<1>1. PICK d \in Nat : b = a + d  BY SMT
<1>2. b * p = a * p + d * p  BY <1>1
<1>3. d * p >= 0 /\ a * p \in Nat /\ d * p \in Nat  OBVIOUS
<1> QED  BY <1>2, <1>3

\* Dividing and multiplying again loses less than a multiple.
LEMMA DivBounds ==
    ASSUME NEW n \in Nat, NEW p \in Nat \ {0}
    PROVE  n \div p \in Nat /\ (n \div p) * p <= n /\ n < (n \div p + 1) * p
<1>1. PICK k \in Int : k = n \div p  OBVIOUS
<1>2. k \in Nat  BY <1>1
<1>3. PICK r \in Int : r = n % p  OBVIOUS
<1>4. r \in 0 .. p - 1 /\ n = p * k + r  BY <1>1, <1>3
<1>5. p * k = k * p /\ (k + 1) * p = k * p + p  BY <1>2
<1>6. k * p \in Nat  BY <1>2
<1> QED  BY <1>1, <1>2, <1>4, <1>5, <1>6

\* The page of an address in a range of pages.
LEMMA PageInRange ==
    ASSUME NEW x \in Nat, NEW y \in Nat, NEW b \in Nat, x * PGSIZE <= b, b < y * PGSIZE
    PROVE  PageOf(b) \in x .. y - 1
<1>1. PGSIZE \in Nat \ {0}  BY KmemAssumption
<1>2. PICK k \in Nat : k = PageOf(b) /\ k * PGSIZE <= b /\ b < (k + 1) * PGSIZE
  BY <1>1, DivBounds DEF PageOf
<1>3. x <= k
  <2> SUFFICES ASSUME k + 1 <= x PROVE FALSE  OBVIOUS
  <2>1. (k + 1) * PGSIZE <= x * PGSIZE  BY <1>1, TimesMono
  <2>2. (k + 1) * PGSIZE \in Nat /\ x * PGSIZE \in Nat  BY <1>1
  <2> QED  BY <1>2, <2>1, <2>2
<1>4. k < y
  <2> SUFFICES ASSUME y <= k PROVE FALSE  OBVIOUS
  <2>1. y * PGSIZE <= k * PGSIZE  BY <1>1, TimesMono
  <2>2. y * PGSIZE \in Nat /\ k * PGSIZE \in Nat  BY <1>1
  <2> QED  BY <1>2, <2>1, <2>2
<1> QED  BY <1>2, <1>3, <1>4

\* The objects of a slab fit in its pages, and leave room for a small slab's header.
SlabPages(z) == slabsize(z) \div PGSIZE

\* A zone's sizes are numbers, a slab is whole pages and its objects fit in it.
LEMMA ZoneNumbers ==
    ASSUME NEW z \in Zones
    PROVE  /\ ZoneSize(z) \in Nat \ {0} /\ slabcapacity(z) \in Nat \ {0} /\ slabsize(z) \in Nat
           /\ SlabPages(z) \in Nat \ {0} /\ SlabPages(z) * PGSIZE = slabsize(z)
           /\ slabcapacity(z) * ZoneSize(z) <= slabsize(z)
           /\ IsSmall(z) => /\ slabsize(z) = PGSIZE /\ SlabPages(z) = 1
                            /\ slabcapacity(z) * ZoneSize(z) <= PGSIZE - SlabSize
<1>1. /\ PGSIZE \in Nat \ {0} /\ SlabSize \in Nat \ {0} /\ kSmallSlabMax \in Nat /\ MinEntries \in Nat \ {0}
      /\ SlabSize + kSmallSlabMax <= PGSIZE
  BY KmemAssumption, KmemSmall
<1>2. PICK s \in Nat \ {0} : s = ZoneSize(z)  BY KmemAssumption DEF Zones, ZoneSize, kmem_slab, kmem_bufctl
<1>3. CASE IsSmall(z)
  <2>1. s <= kSmallSlabMax  BY <1>2, <1>3 DEF IsSmall
  <2>2. slabsize(z) = PGSIZE /\ slabcapacity(z) = (PGSIZE - SlabSize) \div s
    BY <1>2, <1>3 DEF slabsize, slabcapacity
  <2>3. PICK n \in Nat : n = PGSIZE - SlabSize  BY <1>1
  <2>4. PICK c \in Nat : c = n \div s /\ c * s <= n /\ n < (c + 1) * s  BY DivBounds
  <2>5. c # 0
    <3>1. s <= n  BY <1>1, <2>1, <2>3
    <3>2. c = 0 => (c + 1) * s = s  OBVIOUS
    <3> QED  BY <2>4, <3>1, <3>2
  <2>6. PGSIZE \div PGSIZE = 1 /\ 1 * PGSIZE = PGSIZE  BY <1>1
  <2>7. n <= PGSIZE /\ c * s \in Nat  BY <1>1, <2>3
  <2> QED  BY <1>1, <1>2, <2>2, <2>3, <2>4, <2>5, <2>6, <2>7 DEF SlabPages
<1>4. CASE ~IsSmall(z)
  <2>1. PICK n \in Nat : n = s * MinEntries /\ n >= s
    <3>1. 1 * s <= MinEntries * s  BY <1>1, TimesMono
    <3>2. s * MinEntries = MinEntries * s /\ MinEntries * s \in Nat /\ 1 * s = s  BY <1>1
    <3> QED  BY <3>1, <3>2
  <2>2. slabsize(z) = PGROUNDUP(n) /\ slabcapacity(z) = slabsize(z) \div s
    BY <1>2, <1>4, <2>1 DEF slabsize, slabcapacity
  <2>3. PICK k \in Nat : /\ k = (n + PGSIZE - 1) \div PGSIZE
                         /\ k * PGSIZE <= n + PGSIZE - 1 /\ n + PGSIZE - 1 < (k + 1) * PGSIZE
    <3>1. n + PGSIZE - 1 \in Nat  BY <1>1
    <3> QED  BY <1>1, <3>1, DivBounds
  <2>4. PICK y \in Nat : y = k * PGSIZE /\ (k + 1) * PGSIZE = y + PGSIZE  BY <1>1
  <2>5. n <= y  BY <1>1, <2>3, <2>4
  <2>6. slabsize(z) = y  BY <2>2, <2>3, <2>4 DEF PGROUNDUP
  <2>7. y \div PGSIZE = k  BY <1>1, <2>4
  <2>8. k # 0
    <3>1. k = 0 => y = 0  BY <1>1, <2>4
    <3> QED  BY <2>1, <2>5, <3>1
  <2>9. PICK c \in Nat : c = y \div s /\ c * s <= y /\ y < (c + 1) * s  BY DivBounds
  <2>10. c # 0
    <3>1. s <= y  BY <2>1, <2>5
    <3>2. c = 0 => (c + 1) * s = s  OBVIOUS
    <3> QED  BY <2>9, <3>1, <3>2
  <2> QED  BY <1>2, <1>4, <2>2, <2>4, <2>6, <2>7, <2>8, <2>9, <2>10 DEF SlabPages
<1> QED  BY <1>3, <1>4

\* An object of a slab: its bytes lie in the slab, those of another one elsewhere.
LEMMA ObjectPlace ==
    ASSUME NEW z \in Zones, NEW base \in Nat, NEW a \in Range(Objects(base, z))
    PROVE  /\ a \in Nat /\ base <= a /\ a + ZoneSize(z) <= base + slabcapacity(z) * ZoneSize(z)
           /\ \A b \in Range(Objects(base, z)) :
                  a # b => a + ZoneSize(z) <= b \/ b + ZoneSize(z) <= a
<1>1. PICK s \in Nat \ {0} : s = ZoneSize(z)  BY ZoneNumbers
<1>2. PICK c \in Nat \ {0} : c = slabcapacity(z)  BY ZoneNumbers
<1>3. ASSUME NEW b \in Range(Objects(base, z))
      PROVE  \E i \in Nat : b = base + i * s /\ i + 1 <= c
  <2>1. PICK j \in 1 .. c : b = base + (j - 1) * s  BY <1>1, <1>2 DEF Range, Objects
  <2>2. PICK i \in Nat : i = j - 1  BY <2>1
  <2>3. i + 1 <= c  BY <2>1, <2>2
  <2> QED  BY <2>1, <2>2, <2>3
<1>4. ASSUME NEW i \in Nat, NEW j \in Nat, i < j PROVE i * s + s <= j * s
  <2>1. i + 1 \in Nat /\ i + 1 <= j  BY <1>4
  <2>2. (i + 1) * s <= j * s  BY <2>1, TimesMono
  <2> QED  BY <2>2
<1>5. PICK i \in Nat : a = base + i * s /\ i + 1 <= c  BY <1>3
<1>6. i * s + s <= c * s  BY <1>4, <1>5
<1>7. i * s \in Nat /\ c * s \in Nat  OBVIOUS
<1>8. a \in Nat /\ base <= a /\ a + s <= base + c * s  BY <1>5, <1>6, <1>7
<1>9. ASSUME NEW b \in Range(Objects(base, z)), a # b PROVE a + s <= b \/ b + s <= a
  <2>1. PICK j \in Nat : b = base + j * s  BY <1>3
  <2>2. i < j \/ j < i  BY <1>5, <1>9, <2>1
  <2>3. i < j => i * s + s <= j * s  BY <1>4
  <2>4. j < i => j * s + s <= i * s  BY <1>4
  <2>5. j * s \in Nat  OBVIOUS
  <2> QED  BY <1>5, <1>7, <2>1, <2>2, <2>3, <2>4, <2>5
<1> QED  BY <1>1, <1>2, <1>8, <1>9

\* There are as many of them as the slab has room for.
LEMMA ObjectsType ==
    ASSUME NEW z \in Zones, NEW base \in Nat
    PROVE  /\ Objects(base, z) \in Seq(Nat) /\ Len(Objects(base, z)) = slabcapacity(z)
           /\ IsInjective(Objects(base, z))
<1>1. PICK s \in Nat \ {0} : s = ZoneSize(z)  BY ZoneNumbers
<1>2. PICK c \in Nat \ {0} : c = slabcapacity(z)  BY ZoneNumbers
<1>3. Objects(base, z) = [i \in 1 .. c |-> base + (i - 1) * s]  BY <1>1, <1>2 DEF Objects
<1>4. ASSUME NEW i \in 1 .. c PROVE base + (i - 1) * s \in Nat
  <2>1. PICK j \in Nat : j = i - 1  OBVIOUS
  <2>2. j * s \in Nat  OBVIOUS
  <2> QED  BY <2>1, <2>2
<1>5. ASSUME NEW i \in 1 .. c, NEW j \in 1 .. c, base + (i - 1) * s = base + (j - 1) * s PROVE i = j
  <2>1. PICK x \in Nat : x = i - 1  OBVIOUS
  <2>2. PICK y \in Nat : y = j - 1  OBVIOUS
  <2>3. x * s = y * s
    <3>1. x * s \in Nat /\ y * s \in Nat  OBVIOUS
    <3> QED  BY <1>5, <2>1, <2>2, <3>1
  <2>4. x = y  BY <2>3
  <2> QED  BY <2>1, <2>2, <2>4
<1>6. IsInjective([i \in 1 .. c |-> base + (i - 1) * s])  BY <1>5 DEF IsInjective
<1> QED  BY <1>2, <1>3, <1>4, <1>6

------------------------------------------------------------------------------
\* The queue of slabs of a zone.

\* A slab in the queue of its zone.
SlabType == [base : Nat, nfree : Nat, free : Seq(Nat), hdr : Nat, ctl : SUBSET Nat]

\* A slab's free list holds some of its objects, each once, and nfree counts them.
SlabOK(z, s) ==
    /\ s \in SlabType
    /\ s.nfree = Len(s.free) /\ s.nfree <= slabcapacity(z)
    /\ IsInjective(s.free)
    /\ Range(s.free) \subseteq Range(Objects(s.base, z))

\* The slabs of a zone share no memory.
Clear(z, a, b) == a + slabsize(z) <= b \/ b + slabsize(z) <= a
ZoneOK(z, q) ==
    /\ q \in Seq(SlabType)
    /\ \A i \in DOMAIN q : SlabOK(z, q[i])
    /\ \A i, j \in DOMAIN q : i # j => Clear(z, q[i].base, q[j].base)

\* Every zone has a queue of such slabs.
Zoned(zs) == zs \in [Zones -> Seq(SlabType)] /\ \A z \in Zones : ZoneOK(z, zs[z])

\* What stays of a slab while it exists, its objects, and the free ones.
HeadOf(z, s) == [zone |-> z, base |-> s.base, hdr |-> s.hdr, ctl |-> s.ctl]
HeadsOf(z, q) == {HeadOf(z, q[i]) : i \in DOMAIN q}
ObjectsIn(z, q) == UNION {Range(Objects(h.base, z)) : h \in HeadsOf(z, q)}
FreeAddrs(q) == UNION {Range(q[i].free) : i \in DOMAIN q}

\* An object is in one slab only.
LEMMA OneSlab ==
    ASSUME NEW z \in Zones, NEW b \in Nat, NEW c \in Nat, Clear(z, b, c),
           NEW a \in Range(Objects(b, z))
    PROVE  a \notin Range(Objects(c, z))
<1> SUFFICES ASSUME a \in Range(Objects(c, z)) PROVE FALSE  OBVIOUS
<1>1. PICK s \in Nat \ {0} : s = ZoneSize(z)  BY ZoneNumbers
<1>2. PICK n \in Nat : n = slabcapacity(z) * ZoneSize(z)  BY ZoneNumbers
<1>3. PICK y \in Nat : y = slabsize(z) /\ n <= y  BY <1>2, ZoneNumbers
<1>4. a \in Nat /\ b <= a /\ a + s <= b + n  BY <1>1, <1>2, ObjectPlace
<1>5. c <= a /\ a + s <= c + n  BY <1>1, <1>2, ObjectPlace
<1>6. b + y <= c \/ c + y <= b  BY <1>3 DEF Clear
<1> QED  BY <1>3, <1>4, <1>5, <1>6

\* The queue p has the slabs of q, in an order given by g, but for new in the place of q[i].
Replaces(p, q, i, new, g) ==
    /\ g \in [DOMAIN p -> DOMAIN q]
    /\ \A j, l \in DOMAIN p : g[j] = g[l] => j = l
    /\ \A l \in DOMAIN q : \E j \in DOMAIN p : g[j] = l
    /\ \A j \in DOMAIN p : p[j] = IF g[j] = i THEN new ELSE q[g[j]]

\* A slab's free list changes.
LEMMA SlabReplaced ==
    ASSUME NEW z \in Zones, NEW q, ZoneOK(z, q), NEW i \in DOMAIN q, NEW new, SlabOK(z, new),
           HeadOf(z, new) = HeadOf(z, q[i]), NEW p \in Seq(SlabType), NEW g, Replaces(p, q, i, new, g)
    PROVE  /\ ZoneOK(z, p) /\ HeadsOf(z, p) = HeadsOf(z, q)
           /\ \A a : a \in FreeAddrs(p) <=> \/ a \in Range(new.free)
                                            \/ \E j \in DOMAIN q : j # i /\ a \in Range(q[j].free)
<1>1. new.base = q[i].base /\ new.hdr = q[i].hdr /\ new.ctl = q[i].ctl  BY Zenon DEF HeadOf
<1>2. \A j \in DOMAIN p : SlabOK(z, p[j])  BY DEF ZoneOK, Replaces
<1>3. \A j \in DOMAIN p : g[j] \in DOMAIN q /\ p[j].base = q[g[j]].base /\ HeadOf(z, p[j]) = HeadOf(z, q[g[j]])
  BY <1>1, Zenon DEF Replaces
<1>4. \A j, l \in DOMAIN p : j # l => Clear(z, p[j].base, p[l].base)
  <2> SUFFICES ASSUME NEW j \in DOMAIN p, NEW l \in DOMAIN p, j # l PROVE Clear(z, p[j].base, p[l].base)
    OBVIOUS
  <2>1. g[j] \in DOMAIN q /\ g[l] \in DOMAIN q /\ g[j] # g[l]  BY DEF Replaces
  <2>2. Clear(z, q[g[j]].base, q[g[l]].base)  BY <2>1 DEF ZoneOK
  <2> QED  BY <1>3, <2>2
<1>5. HeadsOf(z, p) = HeadsOf(z, q)
  <2>1. \A l \in DOMAIN q : \E j \in DOMAIN p : g[j] = l  BY DEF Replaces
  <2>2. ASSUME NEW h \in HeadsOf(z, p) PROVE h \in HeadsOf(z, q)
    <3>1. PICK j \in DOMAIN p : h = HeadOf(z, p[j])  BY DEF HeadsOf
    <3> QED  BY <1>3, <3>1 DEF HeadsOf
  <2>3. ASSUME NEW h \in HeadsOf(z, q) PROVE h \in HeadsOf(z, p)
    <3>1. PICK l \in DOMAIN q : h = HeadOf(z, q[l])  BY DEF HeadsOf
    <3>2. PICK j \in DOMAIN p : g[j] = l  BY <2>1
    <3>3. h = HeadOf(z, p[j])  BY <1>3, <3>1, <3>2
    <3> QED  BY <3>3 DEF HeadsOf
  <2> QED  BY <2>2, <2>3
<1>6. ASSUME NEW a
      PROVE  a \in FreeAddrs(p) <=> \/ a \in Range(new.free)
                                    \/ \E j \in DOMAIN q : j # i /\ a \in Range(q[j].free)
  <2>1. a \in FreeAddrs(p) <=> \E j \in DOMAIN p : a \in Range(p[j].free)  BY DEF FreeAddrs
  <2>2. \A j \in DOMAIN p : g[j] \in DOMAIN q /\ (g[j] = i => p[j] = new) /\ (g[j] # i => p[j] = q[g[j]])
    BY DEF Replaces
  <2>3. \A l \in DOMAIN q : \E j \in DOMAIN p : g[j] = l  BY DEF Replaces
  <2>4. ASSUME NEW j \in DOMAIN p, a \in Range(p[j].free)
        PROVE  a \in Range(new.free) \/ \E l \in DOMAIN q : l # i /\ a \in Range(q[l].free)
    BY <2>2, <2>4
  <2>5. ASSUME a \in Range(new.free) PROVE \E j \in DOMAIN p : a \in Range(p[j].free)
    <3>1. PICK j \in DOMAIN p : g[j] = i  BY <2>3
    <3> QED  BY <2>2, <2>5, <3>1
  <2>6. ASSUME NEW l \in DOMAIN q, l # i, a \in Range(q[l].free)
        PROVE  \E j \in DOMAIN p : a \in Range(p[j].free)
    <3>1. PICK j \in DOMAIN p : g[j] = l  BY <2>3
    <3> QED  BY <2>2, <2>6, <3>1
  <2> QED  BY <2>1, <2>4, <2>5, <2>6
<1> QED  BY <1>2, <1>4, <1>5, <1>6 DEF ZoneOK

\* The free objects of the other slabs are not among a slab's.
LEMMA FreeElsewhere ==
    ASSUME NEW z \in Zones, NEW q, ZoneOK(z, q), NEW i \in DOMAIN q, NEW j \in DOMAIN q, j # i,
           NEW a \in Range(Objects(q[i].base, z))
    PROVE  a \notin Range(q[j].free)
<1>1. Clear(z, q[i].base, q[j].base) /\ Range(q[j].free) \subseteq Range(Objects(q[j].base, z))
  BY DEF ZoneOK, SlabOK
<1>2. q[i].base \in Nat /\ q[j].base \in Nat  BY DEF ZoneOK, SlabOK, SlabType
<1> QED  BY <1>1, <1>2, OneSlab

\* The first free object of a slab.
LEMMA FirstFree ==
    ASSUME NEW z \in Zones, NEW s, SlabOK(z, s), s.nfree # 0
    PROVE  LET new == [s EXCEPT !.nfree = @ - 1, !.free = Tail(@)]
           IN  /\ SlabOK(z, new) /\ HeadOf(z, new) = HeadOf(z, s)
               /\ Head(s.free) \in Range(s.free) /\ Head(s.free) \in Nat
               /\ Range(new.free) = Range(s.free) \ {Head(s.free)}
<1> DEFINE new == [s EXCEPT !.nfree = @ - 1, !.free = Tail(@)]
           f == s.free
           n == s.nfree
<1>1. s \in SlabType /\ n = Len(f) /\ n <= slabcapacity(z) /\ IsInjective(f)
      /\ Range(f) \subseteq Range(Objects(s.base, z)) /\ f \in Seq(Nat) /\ n \in Nat
  BY DEF SlabOK, SlabType
<1>2. s = [base |-> s.base, nfree |-> n, free |-> f, hdr |-> s.hdr, ctl |-> s.ctl]  BY <1>1 DEF SlabType
<1>3. new = [base |-> s.base, nfree |-> n - 1, free |-> Tail(f), hdr |-> s.hdr, ctl |-> s.ctl]
  <2>1. PICK b, c, d : b = s.base /\ c = s.hdr /\ d = s.ctl  OBVIOUS
  <2>2. PICK x, y : x = n /\ y = f  OBVIOUS
  <2>3. s = [base |-> b, nfree |-> x, free |-> y, hdr |-> c, ctl |-> d]  BY <1>2, <2>1, <2>2
  <2>4. PICK v, w : v = x - 1 /\ w = Tail(y)  OBVIOUS
  <2>5. new = [s EXCEPT !.nfree = v, !.free = w]  BY <2>2, <2>4
  <2>6. new = [[s EXCEPT !.nfree = v] EXCEPT !.free = w]
    <3> HIDE DEF new
    <3> QED  BY <2>3, <2>5
  <2>7. [s EXCEPT !.nfree = v] = [base |-> b, nfree |-> v, free |-> y, hdr |-> c, ctl |-> d]  BY <2>3
  <2>8. [[base |-> b, nfree |-> v, free |-> y, hdr |-> c, ctl |-> d] EXCEPT !.free = w]
        = [base |-> b, nfree |-> v, free |-> w, hdr |-> c, ctl |-> d]
    OBVIOUS
  <2> HIDE DEF new
  <2> QED  BY <2>1, <2>2, <2>4, <2>6, <2>7, <2>8
<1> HIDE DEF f, n
<1>4. f # <<>> /\ Len(f) \in Nat \ {0} /\ Tail(f) \in Seq(Nat) /\ Len(Tail(f)) = n - 1 /\ Head(f) = f[1]  BY <1>1 DEF n
<1>5. /\ DOMAIN f = 1 .. n /\ DOMAIN Tail(f) = 1 .. n - 1
      /\ \A j \in 1 .. n - 1 : Tail(f)[j] = f[j + 1]
  BY <1>1, <1>4
<1>6. \A j, l \in 1 .. n : f[j] = f[l] => j = l  BY <1>1, <1>5 DEF IsInjective
<1>7. IsInjective(Tail(f))
  <2> SUFFICES ASSUME NEW j \in 1 .. n - 1, NEW l \in 1 .. n - 1, f[j + 1] = f[l + 1] PROVE j = l
    BY <1>5 DEF IsInjective
  <2>1. j + 1 \in 1 .. n /\ l + 1 \in 1 .. n  BY <1>1
  <2> QED  BY <1>6, <2>1
<1>8. Range(Tail(f)) = Range(f) \ {f[1]}
  <2>1. ASSUME NEW a \in Range(Tail(f)) PROVE a \in Range(f) \ {f[1]}
    <3>1. PICK j \in 1 .. n - 1 : a = f[j + 1]  BY <1>5 DEF Range
    <3>2. j + 1 \in 1 .. n /\ j + 1 # 1 /\ 1 \in 1 .. n  BY <1>1
    <3> QED  BY <1>5, <1>6, <3>1, <3>2 DEF Range
  <2>2. ASSUME NEW a \in Range(f) \ {f[1]} PROVE a \in Range(Tail(f))
    <3>1. PICK j \in 1 .. n : a = f[j]  BY <1>5 DEF Range
    <3>2. j # 1  BY <2>2, <3>1
    <3>3. PICK l \in 1 .. n - 1 : l = j - 1 /\ l + 1 = j  BY <1>1, <3>2
    <3> QED  BY <1>5, <3>1, <3>3 DEF Range
  <2> QED  BY <2>1, <2>2
<1>9. f[1] \in Range(f) /\ f[1] \in Nat
  <2>1. 1 \in DOMAIN f  BY <1>4, <1>5, <1>1
  <2> QED  BY <1>1, <2>1 DEF Range
<1>10. SlabOK(z, new)
  <2>1. new.base = s.base /\ new.nfree = n - 1 /\ new.free = Tail(f) /\ new \in SlabType
    <3>1. s.base \in Nat /\ s.hdr \in Nat /\ s.ctl \in SUBSET Nat  BY <1>1 DEF SlabType
    <3>2. n - 1 \in Nat  BY <1>1, <1>4
    <3> HIDE DEF new
    <3> QED  BY <1>3, <1>4, <3>1, <3>2 DEF SlabType
  <2>2. n - 1 <= slabcapacity(z)  BY <1>1, ZoneNumbers
  <2> HIDE DEF new
  <2> QED  BY <1>1, <1>4, <1>7, <1>8, <2>1, <2>2 DEF SlabOK
<1>11. HeadOf(z, new) = HeadOf(z, s) /\ new.free = Tail(f)  BY <1>3 DEF HeadOf
<1> HIDE DEF new
<1> QED  BY <1>4, <1>8, <1>9, <1>10, <1>11 DEF f, new

\* The first element of a queue becomes e, and its last.
LEMMA MovedLast ==
    ASSUME NEW S, NEW q \in Seq(S), NEW e \in S, NEW n \in Nat \ {0}, n = Len(q)
    PROVE  /\ Tail(q) \o <<e>> \in Seq(S) /\ Len(Tail(q) \o <<e>>) = n
           /\ DOMAIN (Tail(q) \o <<e>>) = 1 .. n
           /\ \A j \in 1 .. n : (Tail(q) \o <<e>>)[j] = IF j = n THEN e ELSE q[j + 1]
<1>1. PICK t : t = Tail(q)  OBVIOUS
<1>2. t \in Seq(S) /\ Len(t) = n - 1 /\ \A j \in 1 .. n - 1 : t[j] = q[j + 1]  BY <1>1
<1> QED  BY <1>1, <1>2

\* The rest of zonealloc: an object that was free is no longer.
Rotated(q, rest) == IF rest.free = <<>> THEN Tail(q) \o <<rest>> ELSE <<rest>> \o Tail(q)

\* The first slab gives its first free object, and goes to the end when it has no other.
LEMMA QueueTake ==
    ASSUME NEW z \in Zones, NEW q, ZoneOK(z, q), q # <<>>, Head(q).nfree # 0
    PROVE  LET s == Head(q)
               new == [s EXCEPT !.nfree = @ - 1, !.free = Tail(@)]
               p == Rotated(q, new)
           IN  /\ ZoneOK(z, p) /\ HeadsOf(z, p) = HeadsOf(z, q)
               /\ Head(s.free) \in Nat /\ Head(s.free) \in ObjectsIn(z, q) /\ Head(s.free) \in FreeAddrs(q)
               /\ FreeAddrs(p) = FreeAddrs(q) \ {Head(s.free)}
<1> DEFINE s == Head(q)
           new == [s EXCEPT !.nfree = @ - 1, !.free = Tail(@)]
           p == Rotated(q, new)
           a == Head(s.free)
<1>1. q \in Seq(SlabType) /\ Len(q) \in Nat \ {0} /\ s = q[1] /\ 1 \in DOMAIN q /\ DOMAIN q = 1 .. Len(q)  BY DEF ZoneOK
<1>2. SlabOK(z, s) /\ s.nfree # 0  BY <1>1 DEF ZoneOK
<1> HIDE DEF s
<1>3. /\ SlabOK(z, new) /\ HeadOf(z, new) = HeadOf(z, s) /\ a \in Range(s.free) /\ a \in Nat
      /\ Range(new.free) = Range(s.free) \ {a}
  BY <1>2, FirstFree
<1>4. new \in SlabType  BY <1>3 DEF SlabOK
<1> HIDE DEF new, a
<1>5. PICK n \in Nat \ {0} : n = Len(q)  BY <1>1
<1>6. \E g : p \in Seq(SlabType) /\ Replaces(p, q, 1, new, g)
  <2>1. CASE new.free = <<>>
    <3>1. p = Tail(q) \o <<new>>  BY <2>1 DEF Rotated
    <3>20. q \in Seq(SlabType) /\ new \in SlabType /\ n = Len(q)  BY <1>1, <1>4, <1>5
    <3> HIDE DEF p
    <3>21. PICK e, x : e = new /\ x = Tail(q) \o <<e>>  OBVIOUS
    <3>22. /\ x \in Seq(SlabType) /\ Len(x) = n /\ DOMAIN x = 1 .. n
           /\ \A j \in 1 .. n : x[j] = IF j = n THEN e ELSE q[j + 1]
      BY <3>20, <3>21, MovedLast
    <3>2. p \in Seq(SlabType) /\ Len(p) = n /\ DOMAIN p = 1 .. n  BY <3>1, <3>21, <3>22
    <3>3. \A j \in 1 .. n : p[j] = IF j = n THEN new ELSE q[j + 1]  BY <3>1, <3>21, <3>22
    <3> HIDE DEF p
    <3> DEFINE g == [j \in 1 .. n |-> IF j = n THEN 1 ELSE j + 1]
    <3>4. \A j \in 1 .. n : g[j] \in 1 .. n  OBVIOUS
    <3>5. \A j, l \in 1 .. n : g[j] = g[l] => j = l  OBVIOUS
    <3>6. \A l \in 1 .. n : \E j \in 1 .. n : g[j] = l
      <4> SUFFICES ASSUME NEW l \in 1 .. n PROVE \E j \in 1 .. n : g[j] = l  OBVIOUS
      <4>1. CASE l = 1  
        <5>1. n \in 1 .. n /\ g[n] = 1  OBVIOUS
        <5> QED  BY <4>1, <5>1
      <4>2. CASE l # 1
        <5>1. l - 1 \in 1 .. n /\ l - 1 # n /\ g[l - 1] = l  BY <4>2
        <5> QED  BY <5>1
      <4> QED  BY <4>1, <4>2
    <3>7. \A j \in 1 .. n : (g[j] = 1 <=> j = n) /\ (j # n => g[j] = j + 1)  OBVIOUS
    <3>8. g \in [1 .. n -> 1 .. n]  BY <3>4
    <3> HIDE DEF g
    <3>9. \A j \in 1 .. n : p[j] = IF g[j] = 1 THEN new ELSE q[g[j]]  BY <3>3, <3>7
    <3>10. DOMAIN q = 1 .. n  BY <1>1, <1>5
    <3>11. Replaces(p, q, 1, new, g)
      <4> HIDE DEF Replaces
      <4>1. g \in [DOMAIN p -> DOMAIN q]  BY <3>2, <3>8, <3>10
      <4>2. \A j, l \in DOMAIN p : g[j] = g[l] => j = l  BY <3>2, <3>5
      <4>3. \A l \in DOMAIN q : \E j \in DOMAIN p : g[j] = l  BY <3>2, <3>6, <3>10
      <4>4. \A j \in DOMAIN p : p[j] = IF g[j] = 1 THEN new ELSE q[g[j]]  BY <3>2, <3>9
      <4> QED  BY <4>1, <4>2, <4>3, <4>4 DEF Replaces
    <3> QED  BY <3>2, <3>11
  <2>2. CASE new.free # <<>>
    <3>1. p = <<new>> \o Tail(q)  BY <2>2 DEF Rotated
    <3>2. p \in Seq(SlabType) /\ Len(p) = n /\ DOMAIN p = 1 .. n  BY <1>1, <1>4, <1>5, <3>1
    <3>3. \A j \in 1 .. n : p[j] = IF j = 1 THEN new ELSE q[j]  BY <1>1, <1>4, <1>5, <3>1
    <3> HIDE DEF p
    <3> DEFINE g == [j \in 1 .. n |-> j]
    <3>4. \A j \in 1 .. n : g[j] = j  OBVIOUS
    <3>5. g \in [1 .. n -> 1 .. n]  OBVIOUS
    <3> HIDE DEF g
    <3> QED  BY <1>1, <1>5, <3>2, <3>3, <3>4, <3>5 DEF Replaces
  <2> QED  BY <2>1, <2>2
<1> HIDE DEF p
<1>7. PICK g : p \in Seq(SlabType) /\ Replaces(p, q, 1, new, g)  BY <1>6
<1>8. HeadOf(z, new) = HeadOf(z, q[1])  BY <1>1, <1>3
<1>9. /\ ZoneOK(z, p) /\ HeadsOf(z, p) = HeadsOf(z, q)
      /\ \A x : x \in FreeAddrs(p) <=> \/ x \in Range(new.free)
                                       \/ \E j \in DOMAIN q : j # 1 /\ x \in Range(q[j].free)
  BY <1>1, <1>3, <1>7, <1>8, SlabReplaced
<1>10. a \in Range(Objects(q[1].base, z))  BY <1>1, <1>2, <1>3 DEF SlabOK
<1>11. \A j \in DOMAIN q : j # 1 => a \notin Range(q[j].free)  BY <1>1, <1>10, FreeElsewhere
<1>12. \A x : x \in FreeAddrs(q) <=> \E j \in DOMAIN q : x \in Range(q[j].free)  BY DEF FreeAddrs
<1>13. FreeAddrs(p) = FreeAddrs(q) \ {a} /\ a \in FreeAddrs(q)  BY <1>1, <1>3, <1>9, <1>11, <1>12
<1>14. a \in ObjectsIn(z, q)
  <2>1. HeadOf(z, q[1]) \in HeadsOf(z, q)  BY <1>1 DEF HeadsOf
  <2>2. HeadOf(z, q[1]).base = q[1].base  BY DEF HeadOf
  <2> QED  BY <1>10, <2>1, <2>2 DEF ObjectsIn
<1> QED  BY <1>3, <1>9, <1>13, <1>14 DEF p, new, s, a

\* A list without repetitions is not longer than one that has its elements.
LEMMA NotLonger ==
    ASSUME NEW m \in Nat, NEW n \in Nat, NEW s, DOMAIN s = 1 .. m, NEW t, DOMAIN t = 1 .. n,
           IsInjective(s), Range(s) \subseteq Range(t)
    PROVE  m <= n
<1> SUFFICES ASSUME n < m PROVE FALSE  OBVIOUS
<1> DEFINE f == [i \in 1 .. m |-> CHOOSE j \in 1 .. n : t[j] = s[i]]
<1>1. ASSUME NEW i \in 1 .. m PROVE f[i] \in 1 .. n /\ t[f[i]] = s[i]
  <2>1. s[i] \in Range(s)  BY DEF Range
  <2>2. \E j \in 1 .. n : t[j] = s[i]  BY <2>1 DEF Range
  <2> QED  BY <2>2
<1>2. f \in [1 .. m -> 1 .. n]  BY <1>1
<1> HIDE DEF f
<1>3. /\ IsFiniteSet(1 .. m) /\ IsFiniteSet(1 .. n)
      /\ Cardinality(1 .. n) < Cardinality(1 .. m)
  <2>1. /\ IsFiniteSet(1 .. m) /\ Cardinality(1 .. m) = IF 1 > m THEN 0 ELSE m - 1 + 1  BY FS_Interval
  <2>2. /\ IsFiniteSet(1 .. n) /\ Cardinality(1 .. n) = IF 1 > n THEN 0 ELSE n - 1 + 1  BY FS_Interval
  <2> QED  BY <2>1, <2>2
<1>4. \E x, y \in 1 .. m : x # y /\ f[x] = f[y]  BY <1>2, <1>3, FS_PigeonHole
<1>5. PICK x \in 1 .. m, y \in 1 .. m : x # y /\ f[x] = f[y]  BY <1>4
<1>6. s[x] = s[y]  BY <1>1, <1>5
<1> QED  BY <1>5, <1>6 DEF IsInjective

\* A queue with one more slab.
LEMMA QueuePush ==
    ASSUME NEW z \in Zones, NEW q, ZoneOK(z, q), NEW base \in Nat, NEW hdr \in Nat, NEW ctl \in SUBSET Nat,
           \A i \in DOMAIN q : Clear(z, base, q[i].base)
    PROVE  LET s == NewSlab(z, base, hdr, ctl)
               p == <<s>> \o q
           IN  /\ ZoneOK(z, p) /\ HeadsOf(z, p) = HeadsOf(z, q) \cup {HeadOf(z, s)}
               /\ HeadOf(z, s) = [zone |-> z, base |-> base, hdr |-> hdr, ctl |-> ctl]
               /\ FreeAddrs(p) = FreeAddrs(q) \cup Range(Objects(base, z))
               /\ s.nfree # 0 /\ Head(p) = s /\ p # <<>>
<1> DEFINE s == NewSlab(z, base, hdr, ctl)
           p == <<s>> \o q
<1>1. q \in Seq(SlabType) /\ Len(q) \in Nat /\ DOMAIN q = 1 .. Len(q)  BY DEF ZoneOK
<1>2. s = [base |-> base, nfree |-> slabcapacity(z), free |-> Objects(base, z), hdr |-> hdr, ctl |-> ctl]
  BY DEF NewSlab
<1>3. /\ s.base = base /\ s.nfree = slabcapacity(z) /\ s.free = Objects(base, z) /\ s.hdr = hdr
      /\ s.ctl = ctl
  BY <1>2
<1>4. slabcapacity(z) \in Nat \ {0}  BY ZoneNumbers
<1>5. /\ Objects(base, z) \in Seq(Nat) /\ Len(Objects(base, z)) = slabcapacity(z)
      /\ IsInjective(Objects(base, z))
  BY ObjectsType
<1>6. s \in SlabType  BY <1>2, <1>4, <1>5 DEF SlabType
<1> HIDE DEF s
<1>7. SlabOK(z, s)  BY <1>3, <1>4, <1>5, <1>6 DEF SlabOK
<1>8. PICK n \in Nat : n = Len(q)  BY <1>1
<1>9. /\ p \in Seq(SlabType) /\ DOMAIN p = 1 .. n + 1
      /\ \A j \in 1 .. n + 1 : p[j] = IF j = 1 THEN s ELSE q[j - 1]
  BY <1>1, <1>6, <1>8
<1>10. Head(p) = s /\ p # <<>>  BY <1>1, <1>6
<1> HIDE DEF p
<1>11. \A j \in DOMAIN p : j = 1 \/ (j - 1 \in DOMAIN q /\ p[j] = q[j - 1])
  BY <1>1, <1>8, <1>9
<1>12. 1 \in DOMAIN p /\ p[1] = s  BY <1>8, <1>9
<1>13. \A j \in DOMAIN q : j + 1 \in DOMAIN p /\ j + 1 # 1 /\ p[j + 1] = q[j]
  <2> SUFFICES ASSUME NEW j \in DOMAIN q PROVE j + 1 \in DOMAIN p /\ j + 1 # 1 /\ p[j + 1] = q[j]  OBVIOUS
  <2>1. j \in 1 .. n  BY <1>1, <1>8
  <2>2. j + 1 \in 1 .. n + 1 /\ j + 1 # 1 /\ (j + 1) - 1 = j  BY <2>1
  <2> QED  BY <1>9, <2>2
<1>14. \A j \in DOMAIN p : SlabOK(z, p[j])  BY <1>7, <1>11, <1>12 DEF ZoneOK
<1>15. ASSUME NEW i \in DOMAIN p, NEW j \in DOMAIN p, i # j PROVE Clear(z, p[i].base, p[j].base)
  <2>1. \A k \in DOMAIN q : Clear(z, base, q[k].base) /\ Clear(z, q[k].base, base)
    BY DEF Clear
  <2>2. CASE i = 1
    <3>1. p[i].base = base /\ j - 1 \in DOMAIN q /\ p[j] = q[j - 1]  BY <1>3, <1>11, <1>12, <1>15, <2>2
    <3> QED  BY <2>1, <3>1
  <2>3. CASE j = 1
    <3>1. p[j].base = base /\ i - 1 \in DOMAIN q /\ p[i] = q[i - 1]  BY <1>3, <1>11, <1>12, <1>15, <2>3
    <3> QED  BY <2>1, <3>1
  <2>4. CASE i # 1 /\ j # 1
    <3>1. i - 1 \in DOMAIN q /\ p[i] = q[i - 1] /\ j - 1 \in DOMAIN q /\ p[j] = q[j - 1]  BY <1>11, <2>4
    <3>2. i - 1 # j - 1  BY <1>9, <1>15
    <3>3. Clear(z, q[i - 1].base, q[j - 1].base)  BY <3>1, <3>2 DEF ZoneOK
    <3> QED  BY <3>1, <3>3
  <2> QED  BY <2>2, <2>3, <2>4
<1>16. HeadsOf(z, p) = HeadsOf(z, q) \cup {HeadOf(z, s)}
  <2>1. ASSUME NEW h \in HeadsOf(z, p) PROVE h \in HeadsOf(z, q) \cup {HeadOf(z, s)}
    <3>1. PICK j \in DOMAIN p : h = HeadOf(z, p[j])  BY DEF HeadsOf
    <3> QED  BY <1>11, <1>12, <3>1 DEF HeadsOf
  <2>2. ASSUME NEW h \in HeadsOf(z, q) PROVE h \in HeadsOf(z, p)
    <3>1. PICK j \in DOMAIN q : h = HeadOf(z, q[j])  BY DEF HeadsOf
    <3>2. j + 1 \in DOMAIN p /\ h = HeadOf(z, p[j + 1])  BY <1>13, <3>1
    <3> QED  BY <3>2 DEF HeadsOf
  <2>3. HeadOf(z, s) \in HeadsOf(z, p)
    <3>1. HeadOf(z, s) = HeadOf(z, p[1])  BY <1>12
    <3> QED  BY <1>12, <3>1 DEF HeadsOf
  <2> QED  BY <2>1, <2>2, <2>3
<1>17. FreeAddrs(p) = FreeAddrs(q) \cup Range(Objects(base, z))
  <2>1. ASSUME NEW a \in FreeAddrs(p) PROVE a \in FreeAddrs(q) \cup Range(Objects(base, z))
    <3>1. PICK j \in DOMAIN p : a \in Range(p[j].free)  BY DEF FreeAddrs
    <3> QED  BY <1>3, <1>11, <1>12, <3>1 DEF FreeAddrs
  <2>2. ASSUME NEW a \in FreeAddrs(q) PROVE a \in FreeAddrs(p)
    <3>1. PICK j \in DOMAIN q : a \in Range(q[j].free)  BY DEF FreeAddrs
    <3>2. j + 1 \in DOMAIN p /\ a \in Range(p[j + 1].free)  BY <1>13, <3>1
    <3> QED  BY <3>2 DEF FreeAddrs
  <2>3. Range(Objects(base, z)) \subseteq FreeAddrs(p)
    <3>1. Objects(base, z) = p[1].free  BY <1>3, <1>12
    <3> QED  BY <1>12, <3>1 DEF FreeAddrs
  <2> QED  BY <2>1, <2>2, <2>3
<1>18. ZoneOK(z, p)  BY <1>9, <1>14, <1>15 DEF ZoneOK
<1>19. HeadOf(z, s) = [zone |-> z, base |-> base, hdr |-> hdr, ctl |-> ctl]  BY <1>3 DEF HeadOf
<1>20. s.nfree # 0  BY <1>3, <1>4
<1> QED  BY <1>10, <1>16, <1>17, <1>18, <1>19, <1>20 DEF p, s

\* An object back on its slab's free list.
LEMMA ObjectBack ==
    ASSUME NEW z \in Zones, NEW s, SlabOK(z, s), NEW a \in Range(Objects(s.base, z)), a \notin Range(s.free)
    PROVE  LET new == PutBack(s, a)
           IN  /\ SlabOK(z, new) /\ HeadOf(z, new) = HeadOf(z, s)
               /\ Range(new.free) = Range(s.free) \cup {a}
<1> DEFINE new == [s EXCEPT !.nfree = @ + 1, !.free = <<a>> \o @]
           f == s.free
           n == s.nfree
           e == <<a>> \o f
<1>1. s \in SlabType /\ n = Len(f) /\ n <= slabcapacity(z) /\ IsInjective(f)
      /\ Range(f) \subseteq Range(Objects(s.base, z)) /\ f \in Seq(Nat) /\ n \in Nat /\ s.base \in Nat
  BY DEF SlabOK, SlabType
<1>2. s = [base |-> s.base, nfree |-> n, free |-> f, hdr |-> s.hdr, ctl |-> s.ctl]  BY <1>1 DEF SlabType
<1>3. new = [base |-> s.base, nfree |-> n + 1, free |-> e, hdr |-> s.hdr, ctl |-> s.ctl]
  <2>1. PICK b, c, d : b = s.base /\ c = s.hdr /\ d = s.ctl  OBVIOUS
  <2>2. PICK x, y : x = n /\ y = f  OBVIOUS
  <2>3. s = [base |-> b, nfree |-> x, free |-> y, hdr |-> c, ctl |-> d]  BY <1>2, <2>1, <2>2
  <2>4. PICK v, w : v = x + 1 /\ w = <<a>> \o y  OBVIOUS
  <2>5. new = [s EXCEPT !.nfree = v, !.free = w]  BY <2>2, <2>4
  <2>6. new = [[s EXCEPT !.nfree = v] EXCEPT !.free = w]
    <3> HIDE DEF new
    <3> QED  BY <2>3, <2>5
  <2>7. [s EXCEPT !.nfree = v] = [base |-> b, nfree |-> v, free |-> y, hdr |-> c, ctl |-> d]  BY <2>3
  <2>8. [[base |-> b, nfree |-> v, free |-> y, hdr |-> c, ctl |-> d] EXCEPT !.free = w]
        = [base |-> b, nfree |-> v, free |-> w, hdr |-> c, ctl |-> d]
    OBVIOUS
  <2> HIDE DEF new
  <2> QED  BY <2>1, <2>2, <2>4, <2>6, <2>7, <2>8
<1>4. a \in Nat  BY <1>1, ObjectPlace
<1> HIDE DEF f, n
<1>5. /\ e \in Seq(Nat) /\ Len(e) = n + 1 /\ DOMAIN e = 1 .. n + 1 /\ DOMAIN f = 1 .. n
      /\ \A j \in 1 .. n + 1 : e[j] = IF j = 1 THEN a ELSE f[j - 1]
  BY <1>1, <1>4
<1> HIDE DEF e
<1>6. \A j, l \in 1 .. n : f[j] = f[l] => j = l  BY <1>1, <1>5 DEF IsInjective
<1>7. \A j \in 1 .. n : f[j] # a  BY <1>5 DEF Range, f
<1>8. IsInjective(e)
  <2> SUFFICES ASSUME NEW j \in 1 .. n + 1, NEW l \in 1 .. n + 1, e[j] = e[l] PROVE j = l
    BY <1>5 DEF IsInjective
  <2>1. CASE j = 1 /\ l # 1
    <3>1. l - 1 \in 1 .. n /\ e[l] = f[l - 1] /\ e[j] = a  BY <1>1, <1>5, <2>1
    <3> QED  BY <1>7, <3>1
  <2>2. CASE j # 1 /\ l = 1
    <3>1. j - 1 \in 1 .. n /\ e[j] = f[j - 1] /\ e[l] = a  BY <1>1, <1>5, <2>2
    <3> QED  BY <1>7, <3>1
  <2>3. CASE j # 1 /\ l # 1
    <3>1. j - 1 \in 1 .. n /\ e[j] = f[j - 1] /\ l - 1 \in 1 .. n /\ e[l] = f[l - 1]  BY <1>1, <1>5, <2>3
    <3>2. j - 1 = l - 1  BY <1>6, <3>1
    <3> QED  BY <3>2
  <2> QED  BY <2>1, <2>2, <2>3
<1>9. Range(e) = Range(f) \cup {a}
  <2>1. ASSUME NEW x \in Range(e) PROVE x \in Range(f) \cup {a}
    <3>1. PICK j \in 1 .. n + 1 : x = e[j]  BY <1>5 DEF Range
    <3>2. j = 1 \/ (j - 1 \in 1 .. n /\ x = f[j - 1])  BY <1>1, <1>5, <3>1
    <3> QED  BY <1>5, <3>1, <3>2 DEF Range
  <2>2. ASSUME NEW x \in Range(f) PROVE x \in Range(e)
    <3>1. PICK j \in 1 .. n : x = f[j]  BY <1>5 DEF Range
    <3>2. j + 1 \in 1 .. n + 1 /\ j + 1 # 1 /\ (j + 1) - 1 = j  BY <1>1
    <3>3. x = e[j + 1]  BY <1>5, <3>1, <3>2
    <3> QED  BY <1>5, <3>2, <3>3 DEF Range
  <2>3. a \in Range(e)
    <3>1. 1 \in 1 .. n + 1 /\ e[1] = a  BY <1>1, <1>5
    <3> QED  BY <1>5, <3>1 DEF Range
  <2> QED  BY <2>1, <2>2, <2>3
<1>10. n + 1 <= slabcapacity(z)
  <2>1. PICK m \in Nat : m = n + 1  BY <1>1
  <2>2. PICK c \in Nat : c = slabcapacity(z)  BY ZoneNumbers
  <2>3. PICK t : t = Objects(s.base, z)  OBVIOUS
  <2>4. DOMAIN t = 1 .. c  BY <1>1, <2>2, <2>3, ObjectsType
  <2>5. DOMAIN e = 1 .. m /\ IsInjective(e) /\ Range(e) \subseteq Range(t)  BY <1>1, <1>5, <1>8, <1>9, <2>1, <2>3 DEF f
  <2>6. m <= c  BY <2>4, <2>5, NotLonger
  <2> QED  BY <2>1, <2>2, <2>6
<1>11. SlabOK(z, new)
  <2>1. new.base = s.base /\ new.nfree = n + 1 /\ new.free = e /\ new \in SlabType
    <3>1. s.base \in Nat /\ s.hdr \in Nat /\ s.ctl \in SUBSET Nat  BY <1>1 DEF SlabType
    <3>2. n + 1 \in Nat  BY <1>1
    <3> HIDE DEF new
    <3> QED  BY <1>3, <1>5, <3>1, <3>2 DEF SlabType
  <2> HIDE DEF new
  <2>2. Range(e) \subseteq Range(Objects(s.base, z))  BY <1>1, <1>9
  <2> QED  BY <1>5, <1>8, <1>10, <2>1, <2>2 DEF SlabOK
<1>12. HeadOf(z, new) = HeadOf(z, s) /\ new.free = e  BY <1>3 DEF HeadOf
<1> HIDE DEF new
<1> QED  BY <1>9, <1>11, <1>12 DEF f, new, PutBack

\* The slab that kmem_zonefree finds.
SlabAt(z, q, a) == SelectInSeq(q, LAMBDA s : a \in s.base .. s.base + slabsize(z) - 1)

\* The slab whose addresses include an object's is the one the object is of.
LEMMA SlabFound ==
    ASSUME NEW z \in Zones, NEW q, ZoneOK(z, q), NEW a \in ObjectsIn(z, q)
    PROVE  SlabAt(z, q, a) \in DOMAIN q /\ a \in Range(Objects(q[SlabAt(z, q, a)].base, z))
<1> DEFINE I == {i \in 1 .. Len(q) : a \in q[i].base .. q[i].base + slabsize(z) - 1}
<1>1. q \in Seq(SlabType) /\ DOMAIN q = 1 .. Len(q) /\ Len(q) \in Nat  BY DEF ZoneOK
<1>2. \A i \in DOMAIN q : q[i].base \in Nat  BY <1>1 DEF ZoneOK, SlabOK, SlabType
<1>3. PICK i \in DOMAIN q : a \in Range(Objects(q[i].base, z))  BY DEF ObjectsIn, HeadsOf, HeadOf
<1>4. PICK y \in Nat : y = slabsize(z)  BY ZoneNumbers
<1>5. a \in Nat /\ q[i].base <= a /\ a < q[i].base + y
  <2>1. PICK s \in Nat \ {0} : s = ZoneSize(z)  BY ZoneNumbers
  <2>2. PICK n \in Nat : n = slabcapacity(z) * ZoneSize(z)  BY ZoneNumbers
  <2>3. n <= y  BY <1>4, <2>2, ZoneNumbers
  <2>4. q[i].base \in Nat  BY <1>2
  <2>5. a \in Nat /\ q[i].base <= a /\ a + s <= q[i].base + n  BY <1>3, <2>1, <2>2, <2>4, ObjectPlace
  <2> QED  BY <2>3, <2>4, <2>5
<1>6. i \in I  BY <1>1, <1>2, <1>4, <1>5
<1>7. I \subseteq Nat /\ I # {}  BY <1>1, <1>6
<1>8. Min(I) \in I  BY <1>7, MinNatural
<1>9. SlabAt(z, q, a) = Min(I)  BY <1>7 DEF SlabAt, SelectInSeq
<1>10. PICK j : j = Min(I)  OBVIOUS
<1>11. j \in DOMAIN q /\ a \in q[j].base .. q[j].base + slabsize(z) - 1  BY <1>1, <1>8, <1>10
<1>12. j = i
  <2> SUFFICES ASSUME j # i PROVE FALSE  OBVIOUS
  <2>1. Clear(z, q[i].base, q[j].base)  BY <1>11 DEF ZoneOK
  <2>2. PICK b \in Nat : b = q[i].base  BY <1>2
  <2>3. PICK c \in Nat : c = q[j].base  BY <1>2, <1>11
  <2>4. b + y <= c \/ c + y <= b  BY <1>4, <2>1, <2>2, <2>3 DEF Clear
  <2>5. c <= a /\ a < c + y /\ b <= a /\ a < b + y  BY <1>4, <1>5, <1>11, <2>2, <2>3
  <2> QED  BY <1>5, <2>4, <2>5
<1> HIDE DEF I
<1> QED  BY <1>3, <1>9, <1>10, <1>12

\* kmem_zonefree: the object is free again.
LEMMA QueueFree ==
    ASSUME NEW z \in Zones, NEW q, ZoneOK(z, q), NEW a \in ObjectsIn(z, q), a \notin FreeAddrs(q)
    PROVE  LET i == SlabAt(z, q, a)
               s == q[i]
               p == [q EXCEPT ![i] = PutBack(s, a)]
           IN  /\ ZoneOK(z, p) /\ HeadsOf(z, p) = HeadsOf(z, q)
               /\ FreeAddrs(p) = FreeAddrs(q) \cup {a}
<1>1. PICK i : i = SlabAt(z, q, a)  OBVIOUS
<1>2. i \in DOMAIN q /\ a \in Range(Objects(q[i].base, z))  BY <1>1, SlabFound
<1>3. PICK s : s = q[i]  OBVIOUS
<1>4. SlabOK(z, s) /\ a \in Range(Objects(s.base, z)) /\ a \notin Range(s.free)
  BY <1>2, <1>3 DEF ZoneOK, FreeAddrs
<1>5. PICK new : new = PutBack(s, a)  OBVIOUS
<1>6. /\ SlabOK(z, new) /\ HeadOf(z, new) = HeadOf(z, s)
      /\ Range(new.free) = Range(s.free) \cup {a}
  BY <1>4, <1>5, ObjectBack
<1>7. PICK p : p = [q EXCEPT ![i] = new]  OBVIOUS
<1>8. q \in Seq(SlabType) /\ new \in SlabType  BY <1>6 DEF ZoneOK, SlabOK
<1>9. p \in Seq(SlabType) /\ DOMAIN p = DOMAIN q /\ \A j \in DOMAIN q : p[j] = IF j = i THEN new ELSE q[j]
  BY <1>2, <1>7, <1>8
<1> DEFINE g == [j \in DOMAIN q |-> j]
<1>10. Replaces(p, q, i, new, g)  BY <1>9 DEF Replaces
<1> HIDE DEF g
<1>11. HeadOf(z, new) = HeadOf(z, q[i])  BY <1>3, <1>6
<1>12. /\ ZoneOK(z, p) /\ HeadsOf(z, p) = HeadsOf(z, q)
       /\ \A x : x \in FreeAddrs(p) <=> \/ x \in Range(new.free)
                                        \/ \E j \in DOMAIN q : j # i /\ x \in Range(q[j].free)
  BY <1>2, <1>6, <1>9, <1>10, <1>11, SlabReplaced
<1>13. \A x : x \in FreeAddrs(q) <=> \E j \in DOMAIN q : x \in Range(q[j].free)  BY DEF FreeAddrs
<1>14. FreeAddrs(p) = FreeAddrs(q) \cup {a}  BY <1>2, <1>3, <1>6, <1>12, <1>13
<1> QED  BY <1>1, <1>3, <1>5, <1>7, <1>12, <1>14

------------------------------------------------------------------------------
\* The slabs of all zones.

\* An object of a zone, the slabs of all zones, and the pages of a slab.
Cell(z, a) == [zone |-> z, addr |-> a]
Heads(zs) == UNION {HeadsOf(z, zs[z]) : z \in Zones}
Room(h) == Seg("allocated", PageOf(h.base), SlabPages(h.zone))

\* Each slab has an allocation of its own among A.
Rooms(zs, A) ==
    /\ \A h \in Heads(zs) : h.base = PageOf(h.base) * PGSIZE /\ Room(h) \in A
    /\ \A h, g \in Heads(zs) : h.base = g.base => h = g

\* The objects H are in use.
Held(zs, H) ==
    \A c \in H : /\ c = Cell(c.zone, c.addr) /\ c.zone \in Zones
                 /\ c.addr \in ObjectsIn(c.zone, zs[c.zone]) /\ c.addr \notin FreeAddrs(zs[c.zone])

\* A state of the allocator in which the objects H and the allocations P, which are not
\* slabs, are in use.
Tidy(k, H, P) ==
    /\ IsState(k) /\ GoodMem(k.mem) /\ Zoned(k.zones)
    /\ k.mem.stop = "no" =>
         /\ P \subseteq Allocated(k.mem.wired)
         /\ Rooms(k.zones, Allocated(k.mem.wired) \ P)
         /\ Held(k.zones, H)

\* The queue of one zone changes.
LEMMA ZoneChanged ==
    ASSUME NEW zs, Zoned(zs), NEW z \in Zones, NEW p, ZoneOK(z, p)
    PROVE  LET ys == [zs EXCEPT ![z] = p]
           IN  Zoned(ys) /\ ys[z] = p /\ \A y \in Zones : y # z => ys[y] = zs[y]
<1>1. PICK ys : ys = [zs EXCEPT ![z] = p]  OBVIOUS
<1>2. p \in Seq(SlabType) /\ zs \in [Zones -> Seq(SlabType)]  BY DEF ZoneOK, Zoned
<1>3. ys \in [Zones -> Seq(SlabType)] /\ ys[z] = p /\ \A y \in Zones : y # z => ys[y] = zs[y]  BY <1>1, <1>2
<1>4. \A y \in Zones : ZoneOK(y, ys[y])  BY <1>3 DEF Zoned
<1> QED  BY <1>1, <1>3, <1>4 DEF Zoned

\* Its slabs stay the same but for their free lists, and with them those of all zones.
LEMMA HeadsKept ==
    ASSUME NEW zs, NEW ys, NEW z \in Zones, HeadsOf(z, ys[z]) = HeadsOf(z, zs[z]),
           \A y \in Zones : y # z => ys[y] = zs[y]
    PROVE  Heads(ys) = Heads(zs) /\ \A y \in Zones : ObjectsIn(y, ys[y]) = ObjectsIn(y, zs[y])
<1>1. \A y \in Zones : HeadsOf(y, ys[y]) = HeadsOf(y, zs[y])  OBVIOUS
<1> QED  BY <1>1 DEF Heads, ObjectsIn

\* The first free object of the first slab.
LEMMA TidyTake ==
    ASSUME NEW k, NEW H, NEW P, Tidy(k, H, P), k.mem.stop = "no", NEW z \in Zones,
           k.zones[z] # <<>>, Head(k.zones[z]).nfree # 0
    PROVE  LET r == TakeFirst(k, z)
           IN  /\ Tidy(State(r), H \cup {Cell(z, r.addr)}, P) /\ Cell(z, r.addr) \notin H /\ r.addr \in Nat
               /\ Heads(r.zones) = Heads(k.zones) /\ r.mem = k.mem
<1>1. PICK q : q = k.zones[z]  OBVIOUS
<1>2. PICK s : s = Head(q)  OBVIOUS
<1>3. PICK new : new = [s EXCEPT !.nfree = @ - 1, !.free = Tail(@)]  OBVIOUS
<1>4. PICK p : p = Rotated(q, new)  OBVIOUS
<1>5. PICK a : a = Head(s.free)  OBVIOUS
<1>6. Zoned(k.zones) /\ ZoneOK(z, q) /\ q # <<>> /\ Head(q).nfree # 0  BY <1>1 DEF Tidy, Zoned
<1>7. /\ ZoneOK(z, p) /\ HeadsOf(z, p) = HeadsOf(z, q)
      /\ a \in Nat /\ a \in ObjectsIn(z, q) /\ a \in FreeAddrs(q)
      /\ FreeAddrs(p) = FreeAddrs(q) \ {a}
  <2>1. /\ ZoneOK(z, Rotated(q, [Head(q) EXCEPT !.nfree = @ - 1, !.free = Tail(@)]))
        /\ HeadsOf(z, Rotated(q, [Head(q) EXCEPT !.nfree = @ - 1, !.free = Tail(@)])) = HeadsOf(z, q)
        /\ Head(Head(q).free) \in Nat /\ Head(Head(q).free) \in ObjectsIn(z, q)
        /\ Head(Head(q).free) \in FreeAddrs(q)
        /\ FreeAddrs(Rotated(q, [Head(q) EXCEPT !.nfree = @ - 1, !.free = Tail(@)]))
           = FreeAddrs(q) \ {Head(Head(q).free)}
    BY <1>6, QueueTake
  <2>2. new = [Head(q) EXCEPT !.nfree = @ - 1, !.free = Tail(@)]  BY <1>2, <1>3
  <2> QED  BY <1>2, <1>4, <1>5, <2>1, <2>2, Zenon
<1> DEFINE r == TakeFirst(k, z)
           ys == [k.zones EXCEPT ![z] = p]
<1>8. r = [mem |-> k.mem, addr |-> a, zones |-> ys]
  <2>1. r = [mem |-> k.mem, addr |-> Head(s.free),
             zones |-> [k.zones EXCEPT ![z] = IF new.free = <<>> THEN Tail(@) \o <<new>> ELSE <<new>> \o Tail(@)]]
    BY <1>1, <1>2, <1>3 DEF TakeFirst
  <2> QED  BY <1>1, <1>4, <1>5, <2>1 DEF Rotated
<1>9. r.mem = k.mem /\ r.addr = a /\ r.zones = ys  BY <1>8
<1>10. Zoned(ys) /\ ys[z] = p /\ \A y \in Zones : y # z => ys[y] = k.zones[y]  BY <1>6, <1>7, ZoneChanged
<1> HIDE DEF ys, r
<1>11. Heads(ys) = Heads(k.zones) /\ \A y \in Zones : ObjectsIn(y, ys[y]) = ObjectsIn(y, k.zones[y])
  BY <1>1, <1>7, <1>10, HeadsKept
<1>12. Held(k.zones, H) /\ Rooms(k.zones, Allocated(k.mem.wired) \ P) /\ P \subseteq Allocated(k.mem.wired)
       /\ GoodMem(k.mem)
  BY DEF Tidy
<1>13. Cell(z, a).zone = z /\ Cell(z, a).addr = a  BY DEF Cell
<1>14. Cell(z, a) \notin H  BY <1>1, <1>7, <1>12, <1>13 DEF Held
<1>15. ASSUME NEW c \in H \cup {Cell(z, a)}
       PROVE  c = Cell(c.zone, c.addr) /\ c.zone \in Zones /\ c.addr \in ObjectsIn(c.zone, ys[c.zone]) /\ c.addr \notin FreeAddrs(ys[c.zone])
  <2>1. CASE c = Cell(z, a)  BY <1>1, <1>7, <1>10, <1>11, <1>13, <2>1
  <2>2. CASE c \in H
    <3>1. c = Cell(c.zone, c.addr) /\ c.zone \in Zones /\ c.addr \in ObjectsIn(c.zone, k.zones[c.zone]) /\ c.addr \notin FreeAddrs(k.zones[c.zone])
      BY <1>12, <2>2 DEF Held
    <3>2. CASE c.zone = z
      <4>1. c.addr \notin FreeAddrs(p)  BY <1>1, <1>7, <3>1, <3>2
      <4> QED  BY <1>10, <1>11, <3>1, <3>2, <4>1
    <3>3. CASE c.zone # z  BY <1>10, <1>11, <3>1, <3>3
    <3> QED  BY <3>2, <3>3
  <2> QED  BY <2>1, <2>2
<1>16. Held(ys, H \cup {Cell(z, a)})  BY <1>15 DEF Held
<1>17. Rooms(ys, Allocated(k.mem.wired) \ P)  BY <1>11, <1>12 DEF Rooms
<1>18. State(r) = [mem |-> k.mem, zones |-> ys]  BY <1>9 DEF State
<1>19. IsState(State(r)) /\ State(r).mem = k.mem /\ State(r).zones = ys  BY <1>18 DEF IsState
<1>20. Tidy(State(r), H \cup {Cell(z, a)}, P)  BY <1>10, <1>12, <1>16, <1>17, <1>19 DEF Tidy
<1> QED  BY <1>7, <1>9, <1>11, <1>14, <1>20 DEF r

\* Rooms are as far apart as slabs.
LEMMA RoomsApart ==
    ASSUME NEW x \in Nat, NEW y \in Nat, NEW n \in Nat, x + n <= y
    PROVE  x * PGSIZE + n * PGSIZE <= y * PGSIZE
<1>1. PGSIZE \in Nat  BY KmemAssumption
<1>2. (x + n) * PGSIZE <= y * PGSIZE  BY <1>1, TimesMono
<1> QED  BY <1>1, <1>2

\* The head of a slab.
LEMMA HeadFields ==
    ASSUME NEW zs, Zoned(zs), NEW h \in Heads(zs)
    PROVE  /\ h.zone \in Zones /\ h.base \in Nat /\ h \in HeadsOf(h.zone, zs[h.zone])
           /\ h = [zone |-> h.zone, base |-> h.base, hdr |-> h.hdr, ctl |-> h.ctl]
<1>1. PICK z \in Zones : h \in HeadsOf(z, zs[z])  BY DEF Heads
<1>2. PICK i \in DOMAIN zs[z] : h = HeadOf(z, zs[z][i])  BY <1>1 DEF HeadsOf
<1>3. zs[z][i].base \in Nat  BY <1>2 DEF Zoned, ZoneOK, SlabOK, SlabType
<1> QED  BY <1>1, <1>2, <1>3 DEF HeadOf

\* A new slab in the allocation at page pg: from k to e.
Placed(k, e, H, P, z, pg, hdr, ctl) ==
    /\ Tidy(e, H, P \ {Seg("allocated", pg, SlabPages(z))}) /\ e.mem = k.mem
    /\ Heads(e.zones) = Heads(k.zones) \cup {[zone |-> z, base |-> pg * PGSIZE, hdr |-> hdr, ctl |-> ctl]}
    /\ e.zones[z] # <<>> /\ Head(e.zones[z]).nfree # 0

\* A new slab in an allocation that was nobody's slab keeps the zones tidy.
LEMMA TidySlab ==
    ASSUME NEW k, NEW H, NEW P, Tidy(k, H, P), k.mem.stop = "no", NEW z \in Zones,
           NEW pg \in Nat, Seg("allocated", pg, SlabPages(z)) \in P,
           NEW hdr \in Nat, NEW ctl \in SUBSET Nat
    PROVE  Placed(k, WithSlab(k, z, NewSlab(z, pg * PGSIZE, hdr, ctl)), H, P, z, pg, hdr, ctl)
<1> DEFINE s == NewSlab(z, pg * PGSIZE, hdr, ctl)
           e == WithSlab(k, z, s)
<1>1. PICK q : q = k.zones[z]  OBVIOUS
<1>2. PICK base \in Nat : base = pg * PGSIZE  BY KmemAssumption
<1>3. PICK A : A = Allocated(k.mem.wired)  OBVIOUS
<1>4. PICK seg : seg = Seg("allocated", pg, SlabPages(z))  OBVIOUS
<1>5. PICK h : h = [zone |-> z, base |-> base, hdr |-> hdr, ctl |-> ctl]  OBVIOUS
<1>6. /\ Zoned(k.zones) /\ ZoneOK(z, q) /\ GoodMem(k.mem) /\ IsState(k) /\ Held(k.zones, H)
      /\ Rooms(k.zones, A \ P) /\ P \subseteq A /\ seg \in P
  BY <1>1, <1>3, <1>4 DEF Tidy, Zoned
<1>7. SlabPages(z) \in Nat \ {0} /\ SlabPages(z) * PGSIZE = slabsize(z)  BY ZoneNumbers
<1>8. ArenaOK(k.mem.wired)  BY <1>6 DEF GoodMem, Sound
<1>9. seg.base = pg /\ seg.size = SlabPages(z) /\ End(seg) = pg + SlabPages(z)  BY <1>4, <1>7 DEF Seg, End
<1>10. Room(h) = seg /\ h.base = base /\ PageOf(base) = pg /\ h.zone = z
       /\ h.base = PageOf(h.base) * PGSIZE
  <2>1. h.base = base /\ h.zone = z  BY <1>5
  <2>2. PageOf(base) = pg  BY <1>2, PageAddress
  <2> QED  BY <1>2, <1>4, <2>1, <2>2 DEF Room
<1>11. ASSUME NEW g \in Heads(k.zones)
       PROVE  /\ g.base # base
              /\ g.zone = z => Clear(z, base, g.base)
  <2>1. PICK t : t = Room(g)  OBVIOUS
  <2>2. t \in A /\ t # seg /\ seg \in A /\ g.base = PageOf(g.base) * PGSIZE  BY <1>6, <2>1 DEF Rooms
  <2>3. g.zone \in Zones /\ g.base \in Nat  BY <1>6, HeadFields
  <2>4. PICK gp \in Nat : gp = PageOf(g.base)
    <3>1. PGSIZE \in Nat \ {0}  BY KmemAssumption
    <3> QED  BY <2>3, <3>1, DivBounds DEF PageOf
  <2>5. SlabPages(g.zone) \in Nat \ {0}  BY <2>3, ZoneNumbers
  <2>6. t.base = gp /\ End(t) = gp + SlabPages(g.zone)  BY <2>1, <2>4, <2>5 DEF Room, Seg, End
  <2>7. End(t) <= seg.base \/ End(seg) <= t.base
    <3>1. t.type \notin SpanTypes /\ seg.type \notin SpanTypes
      BY <1>3, <2>2 DEF Allocated, SpanTypes
    <3>2. QueueOK(k.mem.wired.segqueue) /\ t \in Range(k.mem.wired.segqueue) /\ seg \in Range(k.mem.wired.segqueue)
      BY <1>3, <1>8, <2>2 DEF ArenaOK, Allocated
    <3> QED  BY <2>2, <3>1, <3>2, Apart
  <2>8. gp + SlabPages(g.zone) <= pg \/ pg + SlabPages(z) <= gp  BY <1>9, <2>6, <2>7
  <2>9. gp # pg  BY <1>7, <2>5, <2>8
  <2>10. g.base # base  BY <1>10, <2>4, <2>9
  <2>11. ASSUME g.zone = z PROVE Clear(z, base, g.base)
    <3>1. PICK n \in Nat : n = SlabPages(z) /\ n * PGSIZE = slabsize(z)  BY <1>7
    <3>2. gp + n <= pg \/ pg + n <= gp  BY <2>8, <2>11, <3>1
    <3>3. gp + n <= pg => gp * PGSIZE + n * PGSIZE <= pg * PGSIZE  BY RoomsApart
    <3>4. pg + n <= gp => pg * PGSIZE + n * PGSIZE <= gp * PGSIZE  BY RoomsApart
    <3>5. g.base = gp * PGSIZE  BY <2>2, <2>4
    <3> QED  BY <1>2, <3>1, <3>2, <3>3, <3>4, <3>5 DEF Clear
  <2> QED  BY <2>10, <2>11
<1>12. \A i \in DOMAIN q : Clear(z, base, q[i].base)
  <2> SUFFICES ASSUME NEW i \in DOMAIN q PROVE Clear(z, base, q[i].base)  OBVIOUS
  <2>1. HeadOf(z, q[i]) \in Heads(k.zones)  BY <1>1 DEF Heads, HeadsOf
  <2>2. HeadOf(z, q[i]).base = q[i].base /\ HeadOf(z, q[i]).zone = z  BY DEF HeadOf
  <2> QED  BY <1>11, <2>1, <2>2
<1> DEFINE p == <<s>> \o q
           ys == [k.zones EXCEPT ![z] = p]
<1>13. s = NewSlab(z, base, hdr, ctl)  BY <1>2
<1> HIDE DEF s
<1>14. /\ ZoneOK(z, p) /\ HeadsOf(z, p) = HeadsOf(z, q) \cup {h}
       /\ FreeAddrs(p) = FreeAddrs(q) \cup Range(Objects(base, z))
       /\ s.nfree # 0 /\ Head(p) = s /\ p # <<>>
  BY <1>5, <1>6, <1>12, <1>13, QueuePush
<1> HIDE DEF p
<1>15. Zoned(ys) /\ ys[z] = p /\ \A y \in Zones : y # z => ys[y] = k.zones[y]  BY <1>6, <1>14, ZoneChanged
<1>16. e = [mem |-> k.mem, zones |-> ys] /\ IsState(e) /\ e.mem = k.mem /\ e.zones = ys
  <2>1. e = [k EXCEPT !.zones = [k.zones EXCEPT ![z] = p]]  BY <1>1 DEF WithSlab, p
  <2>2. PICK x, w, v : x = k.mem /\ w = k.zones /\ v = ys  OBVIOUS
  <2>3. k = [mem |-> x, zones |-> w]  BY <1>6, <2>2 DEF IsState
  <2>4. e = [k EXCEPT !.zones = v]  BY <2>1, <2>2
  <2> HIDE DEF e, ys
  <2>5. e = [mem |-> x, zones |-> v]  BY <2>3, <2>4
  <2> QED  BY <2>2, <2>5 DEF IsState
<1> HIDE DEF ys, e
<1>17. Heads(ys) = Heads(k.zones) \cup {h}
  <2>1. \A y \in Zones : y # z => HeadsOf(y, ys[y]) = HeadsOf(y, k.zones[y])  BY <1>15
  <2>2. HeadsOf(z, ys[z]) = HeadsOf(z, k.zones[z]) \cup {h}  BY <1>1, <1>14, <1>15
  <2> QED  BY <2>1, <2>2 DEF Heads
<1>18. Rooms(ys, A \ (P \ {seg}))
  <2>1. \A g \in Heads(ys) : g.base = PageOf(g.base) * PGSIZE /\ Room(g) \in A \ (P \ {seg})
    BY <1>6, <1>10, <1>17 DEF Rooms
  <2>2. \A g, f \in Heads(ys) : g.base = f.base => g = f
    BY <1>6, <1>10, <1>11, <1>17 DEF Rooms
  <2> QED  BY <2>1, <2>2 DEF Rooms
<1>19. Held(ys, H)
  <2> SUFFICES ASSUME NEW c \in H
               PROVE  c = Cell(c.zone, c.addr) /\ c.zone \in Zones /\ c.addr \in ObjectsIn(c.zone, ys[c.zone]) /\ c.addr \notin FreeAddrs(ys[c.zone])
    BY DEF Held
  <2>1. c = Cell(c.zone, c.addr) /\ c.zone \in Zones /\ c.addr \in ObjectsIn(c.zone, k.zones[c.zone]) /\ c.addr \notin FreeAddrs(k.zones[c.zone])
    BY <1>6 DEF Held
  <2>2. CASE c.zone # z  BY <1>15, <2>1, <2>2
  <2>3. CASE c.zone = z
    <3>1. PICK g \in HeadsOf(z, q) : c.addr \in Range(Objects(g.base, z))  BY <1>1, <2>1, <2>3 DEF ObjectsIn
    <3>2. g \in HeadsOf(z, ys[z])  BY <1>14, <1>15, <3>1
    <3>3. g \in Heads(k.zones) /\ g.zone = z  BY <1>1, <3>1 DEF Heads, HeadsOf, HeadOf
    <3>4. Clear(z, base, g.base) /\ g.base \in Nat  BY <1>6, <1>11, <3>3, HeadFields
    <3>5. c.addr \notin Range(Objects(base, z))  BY <3>1, <3>4, OneSlab
    <3>6. c.addr \notin FreeAddrs(ys[z])  BY <1>1, <1>14, <1>15, <2>1, <2>3, <3>5
    <3> QED  BY <2>1, <2>3, <3>1, <3>2, <3>6 DEF ObjectsIn
  <2> QED  BY <2>2, <2>3
<1>20. Tidy(e, H, P \ {seg})  BY <1>3, <1>6, <1>15, <1>16, <1>18, <1>19 DEF Tidy
<1>21. e.zones[z] # <<>> /\ Head(e.zones[z]).nfree # 0  BY <1>14, <1>15, <1>16
<1> QED  BY <1>2, <1>4, <1>5, <1>16, <1>17, <1>20, <1>21 DEF e, s, Placed

------------------------------------------------------------------------------
\* Allocating from the zones.

\* vm_kalloc adds an allocation that is nobody's slab.
LEMMA TidyPages ==
    ASSUME NEW k, NEW H, NEW P, Tidy(k, H, P), NEW n \in Nat \ {0}, HasClass(n)
    PROVE  LET v == vm_kalloc(k.mem, n)
               new == Seg("allocated", v.addr, n)
           IN  /\ Tidy([mem |-> v.mem, zones |-> k.zones], H, P \cup {new})
               /\ v.mem.stop = "no" => k.mem.stop = "no" /\ v.addr \in Nat /\ new \notin P
<1> DEFINE v == vm_kalloc(k.mem, n)
           new == Seg("allocated", v.addr, n)
           e == [mem |-> v.mem, zones |-> k.zones]
<1>1. GoodMem(k.mem) /\ Zoned(k.zones)  BY DEF Tidy
<1>2. GoodMem(v.mem) /\ Allocs(k.mem, v, n, 0, 5) /\ (v.mem.stop = "no" => k.mem.stop = "no")
  BY <1>1, KAlloc
<1> HIDE DEF v
<1>3. new.base = v.addr  BY DEF Seg
<1> HIDE DEF new
<1>4. IsState(e) /\ e.mem = v.mem /\ e.zones = k.zones  BY DEF IsState
<1> HIDE DEF e
<1>5. ASSUME v.mem.stop = "no"
      PROVE  /\ v.addr \in Nat /\ new \notin P /\ P \cup {new} \subseteq Allocated(v.mem.wired)
             /\ Rooms(k.zones, Allocated(v.mem.wired) \ (P \cup {new}))
             /\ Held(k.zones, H)
  <2>1. /\ P \subseteq Allocated(k.mem.wired) /\ Rooms(k.zones, Allocated(k.mem.wired) \ P)
        /\ Held(k.zones, H)
    BY <1>2, <1>5 DEF Tidy
  <2>2. /\ v.addr \in Nat /\ Allocated(k.mem.wired) \cup {new} \subseteq Allocated(v.mem.wired)
        /\ \A s \in Allocated(k.mem.wired) : s.base # v.addr
    BY <1>2, <1>5 DEF Allocs, new
  <2>3. new \notin Allocated(k.mem.wired)  BY <1>3, <2>2
  <2>4. Allocated(k.mem.wired) \ P \subseteq Allocated(v.mem.wired) \ (P \cup {new})  BY <2>2, <2>3
  <2>5. Rooms(k.zones, Allocated(v.mem.wired) \ (P \cup {new}))  BY <2>1, <2>4 DEF Rooms
  <2> QED  BY <2>1, <2>2, <2>3, <2>5
<1>6. Tidy(e, H, P \cup {new})  BY <1>1, <1>2, <1>4, <1>5 DEF Tidy
<1> QED  BY <1>2, <1>5, <1>6 DEF e, new, v

\* New slabs are of zones with small objects only.
OnlySmall(zs, ys) == Heads(zs) \subseteq Heads(ys) /\ \A h \in Heads(ys) \ Heads(zs) : IsSmall(h.zone)

\* The result of an allocation from zone z: an object that was not in use.
Gives(k, H, P, r, z) ==
    /\ Tidy(State(r), H \cup {Cell(z, r.addr)}, P) /\ r.addr \in Nat
    /\ r.mem.stop = "no" => k.mem.stop = "no" /\ Cell(z, r.addr) \notin H

\* The kernel has stopped.
LEMMA GivesFailed ==
    ASSUME NEW k, NEW H, NEW P, NEW e, Tidy(e, H, P), e.mem.stop # "no", NEW z
    PROVE  Gives(k, H, P, Failed(e), z)
<1> DEFINE r == Failed(e)
<1>1. r = [mem |-> e.mem, zones |-> e.zones, addr |-> 0]  BY DEF Failed
<1>2. r.mem = e.mem /\ r.zones = e.zones /\ r.addr = 0  BY <1>1
<1> HIDE DEF r
<1>3. State(r) = e  BY <1>2 DEF State, Tidy, IsState
<1>4. Tidy(State(r), H \cup {Cell(z, r.addr)}, P)  BY <1>3 DEF Tidy
<1> QED  BY <1>2, <1>4 DEF Gives, r

\* kmem_zonealloc of small objects.
LEMMA SmallGives ==
    ASSUME NEW k, NEW H, NEW P, Tidy(k, H, P), NEW z \in Zones, IsSmall(z)
    PROVE  LET r == small_zonealloc(k, z)
           IN  Gives(k, H, P, r, z) /\ (r.mem.stop = "no" => OnlySmall(k.zones, r.zones))
<1> DEFINE r == small_zonealloc(k, z)
           pg == vm_kalloc(k.mem, 1)
           new == Seg("allocated", pg.addr, 1)
           e == [mem |-> pg.mem, zones |-> k.zones]
           t == NewSlab(z, pg.addr * PGSIZE, 0, {})
           s == WithSlab(e, z, t)
<1>1. IsState(k)  BY DEF Tidy
<1>2. CASE Halted(k)
  <2>1. r = Failed(k) /\ k.mem.stop # "no"  BY <1>2 DEF small_zonealloc, FromFirst, Halted, Stopped
  <2>2. Gives(k, H, P, r, z)  BY <2>1, GivesFailed
  <2>3. r.mem = k.mem  BY <2>1 DEF Failed
  <2> QED  BY <2>1, <2>2, <2>3
<1>3. CASE ~Halted(k) /\ ~NeedsSlab(k, z)
  <2>1. r = TakeFirst(k, z) /\ k.mem.stop = "no" /\ k.zones[z] # <<>> /\ Head(k.zones[z]).nfree # 0
    BY <1>3 DEF small_zonealloc, FromFirst, Halted, Stopped, NeedsSlab
  <2> HIDE DEF r
  <2>2. /\ Tidy(State(r), H \cup {Cell(z, r.addr)}, P) /\ Cell(z, r.addr) \notin H /\ r.addr \in Nat
        /\ Heads(r.zones) = Heads(k.zones) /\ r.mem = k.mem
    BY <2>1, TidyTake
  <2> QED  BY <2>1, <2>2 DEF Gives, OnlySmall, r
<1>4. CASE ~Halted(k) /\ NeedsSlab(k, z)
  <2>1. r = FromFirst(small_slab_new(k, z, pg), z)  BY <1>4 DEF small_zonealloc
  <2>2. HasClass(1)
    <3>1. 1 \in 1 .. KHeapSize  BY VmKernelAssumption
    <3> QED  BY <3>1, VmKernelAssumption
  <2>3. PICK n \in Nat \ {0} : n = 1  OBVIOUS
  <2>4. SlabPages(z) = n  BY <2>3, ZoneNumbers
  <2>5. /\ Tidy([mem |-> vm_kalloc(k.mem, n).mem, zones |-> k.zones], H,
                P \cup {Seg("allocated", vm_kalloc(k.mem, n).addr, n)})
        /\ vm_kalloc(k.mem, n).mem.stop = "no" =>
             k.mem.stop = "no" /\ vm_kalloc(k.mem, n).addr \in Nat /\ Seg("allocated", vm_kalloc(k.mem, n).addr, n) \notin P
    BY <2>2, <2>3, TidyPages
  <2>6. /\ Tidy(e, H, P \cup {new})
        /\ pg.mem.stop = "no" => k.mem.stop = "no" /\ pg.addr \in Nat /\ new \notin P
    BY <2>3, <2>5
  <2>7. [k EXCEPT !.mem = pg.mem] = e
    <3>1. PICK x, w, y : x = k.mem /\ w = k.zones /\ y = pg.mem  OBVIOUS
    <3>2. k = [mem |-> x, zones |-> w]  BY <1>1, <3>1 DEF IsState
    <3> HIDE DEF pg
    <3>3. [k EXCEPT !.mem = y] = [mem |-> y, zones |-> w]  BY <3>2
    <3> QED  BY <3>1, <3>3
  <2>8. small_slab_new(k, z, pg) = IF Stopped(pg.mem) THEN e ELSE s  BY <2>7 DEF small_slab_new
  <2>9. new = Seg("allocated", pg.addr, SlabPages(z))  BY <2>3, <2>4
  <2> HIDE DEF r, pg, new
  <2>10. e.mem = pg.mem /\ e.zones = k.zones  OBVIOUS
  <2> HIDE DEF e
  <2>11. CASE Stopped(pg.mem)
    <3>1. r = Failed(e) /\ e.mem.stop # "no"  BY <2>1, <2>8, <2>10, <2>11 DEF FromFirst, Halted, Stopped
    <3>2. Tidy(e, H, P)  BY <2>6, <3>1 DEF Tidy
    <3>3. Gives(k, H, P, r, z)  BY <3>1, <3>2, GivesFailed
    <3>4. r.mem = e.mem  BY <3>1 DEF Failed
    <3> QED  BY <3>1, <3>3, <3>4 DEF r
  <2>12. CASE ~Stopped(pg.mem)
    <3>1. pg.mem.stop = "no" /\ k.mem.stop = "no" /\ pg.addr \in Nat /\ new \notin P /\ e.mem.stop = "no"
      BY <2>6, <2>10, <2>12 DEF Stopped
    <3> DEFINE h == [zone |-> z, base |-> pg.addr * PGSIZE, hdr |-> 0, ctl |-> {}]
    <3>2. PICK Q : Q = P \cup {new}  OBVIOUS
    <3>3. Tidy(e, H, Q) /\ Seg("allocated", pg.addr, SlabPages(z)) \in Q  BY <2>6, <2>9, <3>2
    <3>4. PICK hdr \in Nat, ctl \in SUBSET Nat : hdr = 0 /\ ctl = {}  OBVIOUS
    <3>5. /\ Tidy(s, H, Q \ {Seg("allocated", pg.addr, SlabPages(z))}) /\ s.mem = e.mem
          /\ Heads(s.zones) = Heads(e.zones) \cup {h}
          /\ s.zones[z] # <<>> /\ Head(s.zones[z]).nfree # 0
      <4>1. PICK b \in Nat : b = pg.addr  BY <3>1
      <4>2. Tidy(e, H, Q) /\ e.mem.stop = "no" /\ Seg("allocated", b, SlabPages(z)) \in Q
        BY <3>1, <3>3, <4>1
      <4>3. Placed(e, WithSlab(e, z, NewSlab(z, b * PGSIZE, hdr, ctl)), H, Q, z, b, hdr, ctl)
        BY <4>2, TidySlab
      <4>4. WithSlab(e, z, NewSlab(z, b * PGSIZE, hdr, ctl)) = s  BY <3>4, <4>1
      <4> HIDE DEF s
      <4>5. Placed(e, s, H, Q, z, pg.addr, 0, {})  BY <3>4, <4>1, <4>3, <4>4
      <4> QED  BY <4>5 DEF Placed
    <3> HIDE DEF s
    <3>6. Q \ {Seg("allocated", pg.addr, SlabPages(z))} = P  BY <2>9, <3>1, <3>2
    <3>7. Tidy(s, H, P) /\ s.mem.stop = "no"  BY <3>1, <3>5, <3>6
    <3>8. r = TakeFirst(s, z)  BY <2>1, <2>8, <2>12, <3>7 DEF FromFirst, Halted, Stopped
    <3>9. /\ Tidy(State(r), H \cup {Cell(z, r.addr)}, P) /\ Cell(z, r.addr) \notin H /\ r.addr \in Nat
          /\ Heads(r.zones) = Heads(s.zones) /\ r.mem = s.mem
      BY <3>5, <3>7, <3>8, TidyTake
    <3>10. Gives(k, H, P, r, z)  BY <3>1, <3>9 DEF Gives
    <3>11. Heads(r.zones) = Heads(k.zones) \cup {h}  BY <2>10, <3>5, <3>9
    <3>12. h.zone = z  OBVIOUS
    <3> HIDE DEF h
    <3>13. OnlySmall(k.zones, r.zones)  BY <3>11, <3>12 DEF OnlySmall
    <3> QED  BY <3>10, <3>13 DEF r
  <2> QED  BY <2>11, <2>12
<1> QED  BY <1>2, <1>3, <1>4

\* The bufctls ctl.
Ctls(ctl) == {Cell(kmem_bufctl, c) : c \in ctl}

\* So far: the bufctls made were not in use, and now are.
MadeOK(k, H, P, acc) ==
    /\ Tidy(acc.k, H \cup Ctls(acc.ctl), P) /\ acc.ctl \in SUBSET Nat
    /\ acc.k.mem.stop = "no" => /\ k.mem.stop = "no" /\ H \cap Ctls(acc.ctl) = {}
                                /\ OnlySmall(k.zones, acc.k.zones)

\* The zones of headers and bufctls.
LEMMA SmallZones ==
    /\ kmem_slab \in Zones /\ IsSmall(kmem_slab) /\ kmem_bufctl \in Zones /\ IsSmall(kmem_bufctl)
    /\ \A z \in Zones : z = kmem_slab \/ z = kmem_bufctl \/ z \in AllocSizes
    /\ kmem_slab # kmem_bufctl /\ kmem_slab \notin AllocSizes /\ kmem_bufctl \notin AllocSizes
<1>1. AllocSizes \subseteq Nat  BY KmemAssumption
<1>2. kmem_slab \in Zones /\ kmem_bufctl \in Zones /\ \A z \in Zones : z = kmem_slab \/ z = kmem_bufctl \/ z \in AllocSizes
  BY DEF Zones
<1>3. kmem_slab # kmem_bufctl /\ kmem_slab \notin Nat /\ kmem_bufctl \notin Nat  BY DEF kmem_slab, kmem_bufctl
<1>4. ZoneSize(kmem_slab) = SlabPtrSize /\ ZoneSize(kmem_bufctl) = BufctlSize  BY <1>3 DEF ZoneSize
<1>5. IsSmall(kmem_slab) /\ IsSmall(kmem_bufctl)  BY <1>4, KmemSmall DEF IsSmall
<1> QED  BY <1>1, <1>2, <1>3, <1>5

\* New slabs in two steps.
LEMMA OnlySmallTwice ==
    ASSUME NEW xs, NEW ys, NEW zs, OnlySmall(xs, ys), OnlySmall(ys, zs)
    PROVE  OnlySmall(xs, zs)
BY DEF OnlySmall

\* One more bufctl.
LEMMA MadeOneMore ==
    ASSUME NEW k, NEW H, NEW P, NEW acc, MadeOK(k, H, P, acc)
    PROVE  MadeOK(k, H, P, AddBufctl(acc))
<1> DEFINE r == small_zonealloc(acc.k, kmem_bufctl)
           G == H \cup Ctls(acc.ctl)
           e == AddBufctl(acc)
<1>1. Tidy(acc.k, G, P)  BY DEF MadeOK
<1> HIDE DEF G
<1>2. Gives(acc.k, G, P, r, kmem_bufctl) /\ (r.mem.stop = "no" => OnlySmall(acc.k.zones, r.zones))
  BY <1>1, SmallGives, SmallZones
<1>3. e = WithBufctl(acc, r)  BY DEF AddBufctl
<1> HIDE DEF r
<1>4. e = [k |-> State(r), ctl |-> acc.ctl \cup {r.addr}]  BY <1>3 DEF WithBufctl
<1>5. e.k = State(r) /\ e.ctl = acc.ctl \cup {r.addr}  BY <1>4
<1> HIDE DEF e
<1>6. State(r).mem = r.mem /\ State(r).zones = r.zones  BY DEF State
<1>7. H \cup Ctls(e.ctl) = G \cup {Cell(kmem_bufctl, r.addr)}  BY <1>5 DEF Ctls, G
<1>8. Tidy(e.k, H \cup Ctls(e.ctl), P) /\ e.ctl \in SUBSET Nat  BY <1>2, <1>5, <1>7 DEF Gives, MadeOK
<1>9. ASSUME e.k.mem.stop = "no"
      PROVE  k.mem.stop = "no" /\ H \cap Ctls(e.ctl) = {} /\ OnlySmall(k.zones, e.k.zones)
  <2>1. r.mem.stop = "no"  BY <1>5, <1>6, <1>9
  <2>2. acc.k.mem.stop = "no" /\ Cell(kmem_bufctl, r.addr) \notin G /\ OnlySmall(acc.k.zones, r.zones)
    BY <1>2, <2>1 DEF Gives
  <2>3. k.mem.stop = "no" /\ H \cap Ctls(acc.ctl) = {} /\ OnlySmall(k.zones, acc.k.zones)
    BY <2>2 DEF MadeOK
  <2>4. Ctls(e.ctl) = Ctls(acc.ctl) \cup {Cell(kmem_bufctl, r.addr)}  BY <1>5 DEF Ctls
  <2>5. H \cap Ctls(e.ctl) = {}  BY <2>2, <2>3, <2>4 DEF G
  <2>6. OnlySmall(k.zones, r.zones)  BY <2>2, <2>3, OnlySmallTwice
  <2> QED  BY <1>5, <1>6, <2>3, <2>5, <2>6
<1> QED  BY <1>8, <1>9 DEF MadeOK, e

\* The bufctls of a large slab.
LEMMA BufctlsMade ==
    ASSUME NEW k, NEW H, NEW P, Tidy(k, H, P), NEW z, slabcapacity(z) \in Nat
    PROVE  MadeOK(k, H, P, Bufctls(k, z))
<1> DEFINE n == slabcapacity(z)
           f == CHOOSE f : f = [i \in 0 .. n |-> IF i = 0 THEN [k |-> k, ctl |-> {}] ELSE AddBufctl(f[i - 1])]
           T == {i \in Nat : i <= n /\ ~MadeOK(k, H, P, f[i])}
<1>1. Bufctls(k, z) = f[n]  BY DEF Bufctls
<1>2. \E x : x = [i \in 0 .. n |-> IF i = 0 THEN [k |-> k, ctl |-> {}] ELSE AddBufctl(x[i - 1])]
  BY MadeExists DEF MadeBy
<1>3. f = [i \in 0 .. n |-> IF i = 0 THEN [k |-> k, ctl |-> {}] ELSE AddBufctl(f[i - 1])]  BY <1>2
<1> HIDE DEF f
<1>4. \A i \in 0 .. n : f[i] = IF i = 0 THEN [k |-> k, ctl |-> {}] ELSE AddBufctl(f[i - 1])  BY <1>3
<1>5. T = {}
  <2> SUFFICES ASSUME T # {} PROVE FALSE  OBVIOUS
  <2>1. PICK j \in T : \A i \in T : j <= i  BY LeastNatural
  <2>2. j \in 0 .. n  BY <2>1
  <2>3. j # 0
    <3>1. 0 \in 0 .. n  BY <2>2
    <3>2. f[0].k = k /\ f[0].ctl = {}  BY <1>4, <3>1
    <3>3. Ctls(f[0].ctl) = {}  BY <3>2 DEF Ctls
    <3>4. H \cup Ctls(f[0].ctl) = H  BY <3>3
    <3>5. MadeOK(k, H, P, f[0])  BY <3>2, <3>3, <3>4 DEF MadeOK, OnlySmall
    <3> QED  BY <2>1, <3>5
  <2>4. j - 1 \in Nat /\ j - 1 <= n /\ j - 1 \notin T  BY <2>1, <2>2, <2>3
  <2>5. MadeOK(k, H, P, f[j - 1])  BY <2>4
  <2>6. f[j] = AddBufctl(f[j - 1])  BY <1>4, <2>2, <2>3
  <2>7. MadeOK(k, H, P, f[j])  BY <2>5, <2>6, MadeOneMore
  <2> QED  BY <2>1, <2>7
<1>6. n \in Nat /\ n \notin T  BY <1>5
<1> QED  BY <1>1, <1>6

\* The objects that a slab uses: a large one's header and bufctls.
Claims(h) == IF IsSmall(h.zone) THEN {} ELSE {Cell(kmem_slab, h.hdr)} \cup Ctls(h.ctl)
AllClaims(zs) == UNION {Claims(h) : h \in Heads(zs)}
Separate(zs) == \A h, g \in Heads(zs) : h # g => Claims(h) \cap Claims(g) = {}

\* A state in which the objects O are in use outside the allocator, and the allocations P.
Kept(k, O, P) ==
    /\ Tidy(k, O \cup AllClaims(k.zones), P)
    /\ k.mem.stop = "no" => O \cap AllClaims(k.zones) = {} /\ Separate(k.zones)

\* Nothing is said of a kernel that has stopped but that its free lists are right.
LEMMA StoppedKept ==
    ASSUME NEW k, NEW H, NEW P, Tidy(k, H, P), k.mem.stop # "no", NEW O, NEW Q
    PROVE  Kept(k, O, Q)
BY DEF Kept, Tidy

\* New small slabs use no objects.
LEMMA ClaimsKept ==
    ASSUME NEW zs, NEW ys, OnlySmall(zs, ys)
    PROVE  AllClaims(ys) = AllClaims(zs) /\ (Separate(zs) => Separate(ys))
<1>1. \A h \in Heads(ys) \ Heads(zs) : Claims(h) = {}  BY DEF OnlySmall, Claims
<1>2. Heads(zs) \subseteq Heads(ys)  BY DEF OnlySmall
<1>3. AllClaims(ys) = AllClaims(zs)  BY <1>1, <1>2 DEF AllClaims
<1>4. Separate(zs) => Separate(ys)  BY <1>1 DEF Separate
<1> QED  BY <1>3, <1>4

\* An object of a zone of kmem_alloc is nobody's header or bufctl.
LEMMA NotClaimed ==
    ASSUME NEW z \in AllocSizes, NEW a, NEW zs
    PROVE  Cell(z, a) \notin AllClaims(zs)
<1>1. Cell(z, a).zone = z  BY DEF Cell
<1>2. ASSUME NEW h, NEW c \in Claims(h) PROVE c.zone = kmem_slab \/ c.zone = kmem_bufctl
  <2>1. c \in {Cell(kmem_slab, h.hdr)} \cup Ctls(h.ctl)  BY <1>2 DEF Claims
  <2> QED  BY <2>1 DEF Ctls, Cell
<1>3. z # kmem_slab /\ z # kmem_bufctl  BY SmallZones
<1> QED  BY <1>1, <1>2, <1>3 DEF AllClaims

\* An allocation from a zone without a new large slab.
LEMMA KeptGives ==
    ASSUME NEW k, NEW O, NEW P, Kept(k, O, P), NEW z \in AllocSizes, NEW r,
           Gives(k, O \cup AllClaims(k.zones), P, r, z),
           r.mem.stop = "no" => OnlySmall(k.zones, r.zones)
    PROVE  /\ Kept(State(r), O \cup {Cell(z, r.addr)}, P) /\ r.addr \in Nat
           /\ r.mem.stop = "no" => Cell(z, r.addr) \notin O
<1> DEFINE c == Cell(z, r.addr)
           H == O \cup AllClaims(k.zones)
<1>1. State(r).mem = r.mem /\ State(r).zones = r.zones  BY DEF State
<1>2. /\ Tidy(State(r), H \cup {c}, P) /\ r.addr \in Nat
      /\ r.mem.stop = "no" => k.mem.stop = "no" /\ c \notin H
  BY DEF Gives
<1>3. c \notin AllClaims(k.zones)  BY NotClaimed
<1> HIDE DEF c
<1>4. CASE r.mem.stop # "no"  BY <1>1, <1>2, <1>4, StoppedKept DEF c
<1>5. CASE r.mem.stop = "no"
  <2>1. AllClaims(r.zones) = AllClaims(k.zones) /\ Separate(r.zones)
    BY <1>2, <1>5, ClaimsKept DEF Kept
  <2>2. (O \cup {c}) \cup AllClaims(r.zones) = H \cup {c}  BY <2>1
  <2>3. (O \cup {c}) \cap AllClaims(r.zones) = {}  BY <1>2, <1>3, <1>5, <2>1 DEF Kept
  <2>4. Kept(State(r), O \cup {c}, P)  BY <1>1, <1>2, <2>1, <2>2, <2>3 DEF Kept
  <2> QED  BY <1>2, <1>5, <2>4 DEF c
<1> QED  BY <1>4, <1>5

\* large_slab_new.
LEMMA LargeKept ==
    ASSUME NEW k, NEW O, NEW P, Kept(k, O, P), NEW z \in Zones, ~IsSmall(z)
    PROVE  LET e == large_slab_new(k, z)
           IN  /\ Kept(e, O, P)
               /\ e.mem.stop = "no" => e.zones[z] # <<>> /\ Head(e.zones[z]).nfree # 0
<1> DEFINE H == O \cup AllClaims(k.zones)
           r == small_zonealloc(k, kmem_slab)
           H1 == H \cup {Cell(kmem_slab, r.addr)}
           n == slabsize(z) \div PGSIZE
           data == vm_kalloc(r.mem, n)
           new == Seg("allocated", data.addr, n)
           Q == P \cup {new}
           k2 == [mem |-> data.mem, zones |-> r.zones]
           c == Bufctls(k2, z)
           e == large_slab_new(k, z)
<1>1. Tidy(k, H, P)  BY DEF Kept
<1>2. /\ Gives(k, H, P, r, kmem_slab) /\ (r.mem.stop = "no" => OnlySmall(k.zones, r.zones))
  BY <1>1, SmallGives, SmallZones
<1>3. slabcapacity(z) \in Nat /\ n \in Nat \ {0} /\ HasClass(n)  BY LargeZone
<1>4. e = WithHeader(r, z)  BY DEF large_slab_new
<1>5. n = SlabPages(z)  BY DEF SlabPages
<1> HIDE DEF r, n, H
<1>6. State(r).mem = r.mem /\ State(r).zones = r.zones  BY DEF State
<1>7. Tidy(State(r), H1, P) /\ r.addr \in Nat  BY <1>2 DEF Gives
<1>8. CASE Stopped(r.mem)
  <2>1. e = State(r)  BY <1>4, <1>8 DEF WithHeader
  <2>2. e.mem.stop # "no"  BY <1>6, <1>8, <2>1 DEF Stopped
  <2> HIDE DEF e
  <2> QED  BY <1>7, <2>1, <2>2, StoppedKept DEF e
<1>9. CASE ~Stopped(r.mem)
  <2>1. r.mem.stop = "no"  BY <1>9 DEF Stopped
  <2>2. e = WithBufctls(r, data, c, z)  BY <1>4, <1>9 DEF WithHeader, WithData, n
  <2> HIDE DEF H1, e
  <2>3. /\ Tidy([mem |-> vm_kalloc(State(r).mem, n).mem, zones |-> State(r).zones], H1,
                P \cup {Seg("allocated", vm_kalloc(State(r).mem, n).addr, n)})
        /\ vm_kalloc(State(r).mem, n).mem.stop = "no" =>
              /\ State(r).mem.stop = "no" /\ vm_kalloc(State(r).mem, n).addr \in Nat
              /\ Seg("allocated", vm_kalloc(State(r).mem, n).addr, n) \notin P
    BY <1>3, <1>7, TidyPages
  <2>4. Tidy(k2, H1, Q) /\ (data.mem.stop = "no" => data.addr \in Nat /\ new \notin P)
    BY <1>6, <2>3
  <2>5. k2.mem = data.mem /\ k2.zones = r.zones  OBVIOUS
  <2> HIDE DEF data, new, Q, k2
  <2>6. MadeOK(k2, H1, Q, c)  BY <1>3, <2>4, BufctlsMade
  <2> HIDE DEF c
  <2>7. CASE Halted(c.k)
    <3>1. e = c.k /\ e.mem.stop # "no"  BY <2>2, <2>7 DEF WithBufctls, Halted, Stopped
    <3>2. Tidy(c.k, H1 \cup Ctls(c.ctl), Q)  BY <2>6 DEF MadeOK
    <3>3. Kept(c.k, O, P)  BY <3>1, <3>2, StoppedKept
    <3> QED  BY <3>1, <3>3 DEF e
  <2>8. CASE ~Halted(c.k)
    <3>1. c.k.mem.stop = "no"  BY <2>8 DEF Halted, Stopped
    <3>2. e = WithSlab(c.k, z, NewSlab(z, data.addr * PGSIZE, r.addr, c.ctl))  BY <2>2, <2>8 DEF WithBufctls
    <3>3. /\ Tidy(c.k, H1 \cup Ctls(c.ctl), Q) /\ c.ctl \in SUBSET Nat
          /\ k2.mem.stop = "no" /\ H1 \cap Ctls(c.ctl) = {} /\ OnlySmall(k2.zones, c.k.zones)
      BY <2>6, <3>1 DEF MadeOK
    <3>4. data.addr \in Nat /\ new \notin P  BY <2>4, <2>5, <3>3
    <3>5. new \in Q /\ Seg("allocated", data.addr, SlabPages(z)) = new  BY <1>5 DEF new, Q
    <3>6. PICK G : G = H1 \cup Ctls(c.ctl)  OBVIOUS
    <3>7. PICK kk : kk = c.k  OBVIOUS
    <3>8. PICK pg \in Nat : pg = data.addr  BY <3>4
    <3>9. PICK hdr \in Nat : hdr = r.addr  BY <1>7
    <3>10. PICK ctl \in SUBSET Nat : ctl = c.ctl  BY <3>3
    <3>11. Tidy(kk, G, Q) /\ kk.mem.stop = "no" /\ Seg("allocated", pg, SlabPages(z)) \in Q
      BY <3>1, <3>3, <3>5, <3>6, <3>7, <3>8
    <3>12. Placed(kk, WithSlab(kk, z, NewSlab(z, pg * PGSIZE, hdr, ctl)), G, Q, z, pg, hdr, ctl)
      BY <3>11, TidySlab
    <3>13. Placed(kk, e, G, Q, z, pg, hdr, ctl)  BY <3>2, <3>7, <3>8, <3>9, <3>10, <3>12
    <3>14. PICK g : g = [zone |-> z, base |-> pg * PGSIZE, hdr |-> hdr, ctl |-> ctl]  OBVIOUS
    <3>15. Q \ {Seg("allocated", pg, SlabPages(z))} = P  BY <3>4, <3>5, <3>8 DEF Q
    <3>16. /\ Tidy(e, G, P) /\ e.mem = kk.mem /\ Heads(e.zones) = Heads(kk.zones) \cup {g}
           /\ e.zones[z] # <<>> /\ Head(e.zones[z]).nfree # 0
      BY <3>13, <3>14, <3>15 DEF Placed
    <3>17. k.mem.stop = "no" /\ Cell(kmem_slab, r.addr) \notin H /\ OnlySmall(k.zones, r.zones)
      BY <1>2, <2>1 DEF Gives
    <3>18. OnlySmall(k.zones, kk.zones)  BY <2>5, <3>3, <3>7, <3>17, OnlySmallTwice
    <3>19. AllClaims(kk.zones) = AllClaims(k.zones) /\ Separate(kk.zones)
      BY <3>17, <3>18, ClaimsKept DEF Kept
    <3>20. Claims(g) = {Cell(kmem_slab, hdr)} \cup Ctls(ctl)  BY <3>14 DEF Claims
    <3>21. G = H \cup Claims(g)  BY <3>6, <3>9, <3>10, <3>20 DEF H1
    <3>22. H \cap Claims(g) = {}  BY <3>3, <3>9, <3>10, <3>17, <3>20 DEF H1
    <3>23. AllClaims(e.zones) = AllClaims(k.zones) \cup Claims(g)
      <4>1. AllClaims(e.zones) = AllClaims(kk.zones) \cup Claims(g)  BY <3>16 DEF AllClaims
      <4> QED  BY <3>19, <4>1
    <3>24. \A h \in Heads(kk.zones) : Claims(h) \subseteq H
      <4>1. \A h \in Heads(kk.zones) : Claims(h) \subseteq AllClaims(kk.zones)  BY DEF AllClaims
      <4> QED  BY <3>19, <4>1 DEF H
    <3>25. Separate(e.zones)
      <4> SUFFICES ASSUME NEW h \in Heads(e.zones), NEW f \in Heads(e.zones), h # f
                   PROVE  Claims(h) \cap Claims(f) = {}
        BY DEF Separate
      <4>1. CASE h \in Heads(kk.zones) /\ f \in Heads(kk.zones)  BY <3>19, <4>1 DEF Separate
      <4>2. CASE h = g  
        <5>1. f \in Heads(kk.zones)  BY <3>16, <4>2
        <5> QED  BY <3>22, <3>24, <4>2, <5>1
      <4>3. CASE f = g  
        <5>1. h \in Heads(kk.zones)  BY <3>16, <4>3
        <5> QED  BY <3>22, <3>24, <4>3, <5>1
      <4> QED  BY <3>16, <4>1, <4>2, <4>3
    <3>26. O \cup AllClaims(e.zones) = G /\ O \cap AllClaims(e.zones) = {}
      <4>1. O \cap AllClaims(k.zones) = {}  BY <3>17 DEF Kept
      <4> QED  BY <3>21, <3>22, <3>23, <4>1 DEF H
    <3>27. Kept(e, O, P)  BY <3>16, <3>25, <3>26 DEF Kept
    <3> QED  BY <3>16, <3>27 DEF e
  <2> QED  BY <2>7, <2>8
<1> QED  BY <1>8, <1>9

\* kmem_zonealloc.
LEMMA ZoneAllocKept ==
    ASSUME NEW k, NEW O, NEW P, Kept(k, O, P), k.mem.stop = "no", NEW z \in AllocSizes
    PROVE  LET r == kmem_zonealloc(k, z)
           IN  /\ Kept(State(r), O \cup {Cell(z, r.addr)}, P) /\ r.addr \in Nat
               /\ r.mem.stop = "no" => Cell(z, r.addr) \notin O
<1> DEFINE r == kmem_zonealloc(k, z)
           e == IF NeedsSlab(k, z) THEN large_slab_new(k, z) ELSE k
<1>1. z \in Zones  BY DEF Zones
<1>2. CASE IsSmall(z)
  <2>1. r = small_zonealloc(k, z)  BY <1>2 DEF kmem_zonealloc
  <2> HIDE DEF r
  <2>2. Tidy(k, O \cup AllClaims(k.zones), P)  BY DEF Kept
  <2>3. Gives(k, O \cup AllClaims(k.zones), P, r, z) /\ (r.mem.stop = "no" => OnlySmall(k.zones, r.zones))
    BY <1>1, <1>2, <2>1, <2>2, SmallGives
  <2> QED  BY <2>3, KeptGives DEF r
<1>3. CASE ~IsSmall(z)
  <2>1. r = FromFirst(e, z)  BY <1>3 DEF kmem_zonealloc
  <2>2. Kept(e, O, P) /\ (e.mem.stop = "no" => e.zones[z] # <<>> /\ Head(e.zones[z]).nfree # 0)
    <3>1. CASE NeedsSlab(k, z)
      <4>1. e = large_slab_new(k, z)  BY <3>1
      <4> HIDE DEF e
      <4> QED  BY <1>1, <1>3, <4>1, LargeKept
    <3>2. CASE ~NeedsSlab(k, z)
      <4>1. e = k  BY <3>2
      <4> HIDE DEF e
      <4> QED  BY <3>2, <4>1 DEF NeedsSlab
    <3> QED  BY <3>1, <3>2
  <2> HIDE DEF r, e
  <2>3. PICK H : H = O \cup AllClaims(e.zones)  OBVIOUS
  <2>4. Tidy(e, H, P)  BY <2>2, <2>3 DEF Kept
  <2>5. Gives(e, H, P, r, z) /\ (r.mem.stop = "no" => OnlySmall(e.zones, r.zones))
    <3>1. CASE Halted(e)
      <4>1. r = Failed(e) /\ e.mem.stop # "no"  BY <2>1, <3>1 DEF FromFirst, Halted, Stopped
      <4>2. Gives(e, H, P, r, z)  BY <2>4, <4>1, GivesFailed
      <4>3. r.mem = e.mem  BY <4>1 DEF Failed
      <4> QED  BY <4>1, <4>2, <4>3
    <3>2. CASE ~Halted(e)
      <4>1. r = TakeFirst(e, z) /\ e.mem.stop = "no"  BY <2>1, <3>2 DEF FromFirst, Halted, Stopped
      <4>2. /\ Tidy(State(r), H \cup {Cell(z, r.addr)}, P) /\ Cell(z, r.addr) \notin H /\ r.addr \in Nat
            /\ Heads(r.zones) = Heads(e.zones) /\ r.mem = e.mem
        BY <1>1, <2>2, <2>4, <4>1, TidyTake
      <4> QED  BY <4>1, <4>2 DEF Gives, OnlySmall
    <3> QED  BY <3>1, <3>2
  <2> QED  BY <2>2, <2>3, <2>5, KeptGives DEF r
<1> QED  BY <1>2, <1>3

\* kmem_zonefree.
LEMMA ZoneFreeKept ==
    ASSUME NEW k, NEW O, NEW P, Kept(k, O, P), k.mem.stop = "no", NEW z \in Zones, NEW a,
           Cell(z, a) \in O
    PROVE  Kept(kmem_zonefree(k, z, a), O \ {Cell(z, a)}, P)
<1>1. PICK q : q = k.zones[z]  OBVIOUS
<1>2. PICK c : c = Cell(z, a)  OBVIOUS
<1>3. c.zone = z /\ c.addr = a  BY <1>2 DEF Cell
<1>4. PICK H : H = O \cup AllClaims(k.zones)  OBVIOUS
<1>5. /\ Zoned(k.zones) /\ ZoneOK(z, q) /\ GoodMem(k.mem) /\ IsState(k) /\ Held(k.zones, H)
      /\ Rooms(k.zones, Allocated(k.mem.wired) \ P) /\ P \subseteq Allocated(k.mem.wired)
      /\ O \cap AllClaims(k.zones) = {} /\ Separate(k.zones)
  BY <1>1, <1>4 DEF Kept, Tidy, Zoned
<1>6. c \in H /\ c \in O  BY <1>2, <1>4
<1>7. a \in ObjectsIn(z, q) /\ a \notin FreeAddrs(q)  BY <1>1, <1>3, <1>5, <1>6 DEF Held
<1>8. PICK i : i = SlabAt(z, q, a)  OBVIOUS
<1>9. PICK p : p = [q EXCEPT ![i] = PutBack(q[i], a)]  OBVIOUS
<1>10. ZoneOK(z, p) /\ HeadsOf(z, p) = HeadsOf(z, q) /\ FreeAddrs(p) = FreeAddrs(q) \cup {a}
  <2>1. /\ ZoneOK(z, [q EXCEPT ![SlabAt(z, q, a)] =
                         PutBack(q[SlabAt(z, q, a)], a)])
        /\ HeadsOf(z, [q EXCEPT ![SlabAt(z, q, a)] =
                         PutBack(q[SlabAt(z, q, a)], a)]) = HeadsOf(z, q)
        /\ FreeAddrs([q EXCEPT ![SlabAt(z, q, a)] =
                         PutBack(q[SlabAt(z, q, a)], a)])
           = FreeAddrs(q) \cup {a}
    BY <1>5, <1>7, QueueFree
  <2>2. p = [q EXCEPT ![SlabAt(z, q, a)] =
               PutBack(q[SlabAt(z, q, a)], a)]
    BY <1>8, <1>9, Zenon
  <2> QED  BY <2>1, <2>2, Zenon
<1>11. PICK ys : ys = [k.zones EXCEPT ![z] = p]  OBVIOUS
<1>12. Zoned(ys) /\ ys[z] = p /\ \A y \in Zones : y # z => ys[y] = k.zones[y]  BY <1>5, <1>10, <1>11, ZoneChanged
<1>13. Heads(ys) = Heads(k.zones) /\ \A y \in Zones : ObjectsIn(y, ys[y]) = ObjectsIn(y, k.zones[y])
  BY <1>1, <1>10, <1>12, HeadsKept
<1>14. PICK e : e = kmem_zonefree(k, z, a)  OBVIOUS
<1>15. IsState(e) /\ e.mem = k.mem /\ e.zones = ys
  <2>1. e = [k EXCEPT !.zones = [k.zones EXCEPT ![z] = [k.zones[z] EXCEPT ![SlabAt(z, k.zones[z], a)] =
                PutBack(k.zones[z][SlabAt(z, k.zones[z], a)], a)]]]
    <3>1. PICK new : new = PutBack(k.zones[z][SlabAt(z, k.zones[z], a)], a)  OBVIOUS
    <3>2. e = [k EXCEPT !.zones[z][SlabAt(z, k.zones[z], a)] = new]
      BY <1>14, <3>1 DEF kmem_zonefree, SlabAt
    <3> QED  BY <3>1, <3>2
  <2>2. e = [k EXCEPT !.zones = ys]  BY <1>1, <1>8, <1>9, <1>11, <2>1
  <2>3. PICK x, w : x = k.mem /\ w = k.zones  OBVIOUS
  <2>4. k = [mem |-> x, zones |-> w]  BY <1>5, <2>3 DEF IsState
  <2>5. e = [mem |-> x, zones |-> ys]  BY <2>2, <2>4
  <2> QED  BY <2>3, <2>5 DEF IsState
<1>16. AllClaims(ys) = AllClaims(k.zones) /\ Separate(ys)  BY <1>5, <1>13 DEF AllClaims, Separate
<1>17. PICK G : G = (O \ {c}) \cup AllClaims(ys)  OBVIOUS
<1>18. Held(ys, G)
  <2> SUFFICES ASSUME NEW d \in G
               PROVE  d = Cell(d.zone, d.addr) /\ d.zone \in Zones /\ d.addr \in ObjectsIn(d.zone, ys[d.zone]) /\ d.addr \notin FreeAddrs(ys[d.zone])
    BY DEF Held
  <2>1. d \in H /\ d # c  BY <1>4, <1>5, <1>6, <1>16, <1>17
  <2>2. d = Cell(d.zone, d.addr) /\ d.zone \in Zones /\ d.addr \in ObjectsIn(d.zone, k.zones[d.zone]) /\ d.addr \notin FreeAddrs(k.zones[d.zone])
    BY <1>5, <2>1 DEF Held
  <2>3. CASE d.zone = z
    <3>1. d.addr # a  BY <1>2, <2>1, <2>2, <2>3
    <3>2. d.addr \notin FreeAddrs(p)  BY <1>1, <1>10, <2>2, <2>3, <3>1
    <3> QED  BY <1>12, <1>13, <2>2, <2>3, <3>2
  <2>4. CASE d.zone # z  BY <1>12, <1>13, <2>2, <2>4
  <2> QED  BY <2>3, <2>4
<1>19. Rooms(ys, Allocated(k.mem.wired) \ P)  BY <1>5, <1>13 DEF Rooms
<1>20. Tidy(e, G, P)  BY <1>5, <1>12, <1>15, <1>18, <1>19 DEF Tidy
<1>21. (O \ {c}) \cap AllClaims(ys) = {}  BY <1>5, <1>16
<1>22. Kept(e, O \ {c}, P)  BY <1>15, <1>16, <1>17, <1>20, <1>21 DEF Kept
<1> QED  BY <1>2, <1>14, <1>22

------------------------------------------------------------------------------
\* The objects of kmem_alloc, each an object of a zone or an allocation of wired memory.

\* kmem_alloc serves a large request by vm_kalloc, any other from a zone.
IsDirect(o) == ZoneFor(o.size) = NoZone
CellOf(o) == Cell(ZoneFor(o.size), o.addr)
SegOf(o) == Seg("allocated", PageOf(o.addr), PGROUNDUP(o.size) \div PGSIZE)
CellsOf(l) == {CellOf(o) : o \in {p \in l : ~IsDirect(p)}}
SegsOf(l) == {SegOf(o) : o \in {p \in l : IsDirect(p)}}

\* No two of them are the same object or allocation.
Unique(l) == \A o, p \in l : o # p =>
    /\ ~IsDirect(o) /\ ~IsDirect(p) => CellOf(o) # CellOf(p)
    /\ IsDirect(o) /\ IsDirect(p) => SegOf(o) # SegOf(p)
LiveType == [addr : Nat, size : Requests]
LiveOK(k, l) ==
    /\ Kept(k, CellsOf(l), SegsOf(l))
    /\ l \subseteq LiveType
    /\ \A o \in l : IsDirect(o) => o.addr = PageOf(o.addr) * PGSIZE
    /\ k.mem.stop = "no" => Unique(l)

\* One more object.
LEMMA CellsAdded ==
    ASSUME NEW l, NEW o
    PROVE  /\ ~IsDirect(o) => CellsOf(l \cup {o}) = CellsOf(l) \cup {CellOf(o)} /\ SegsOf(l \cup {o}) = SegsOf(l)
           /\ IsDirect(o) => CellsOf(l \cup {o}) = CellsOf(l) /\ SegsOf(l \cup {o}) = SegsOf(l) \cup {SegOf(o)}
BY DEF CellsOf, SegsOf

\* One less.
LEMMA CellsRemoved ==
    ASSUME NEW l, NEW o \in l, Unique(l)
    PROVE  /\ ~IsDirect(o) => CellsOf(l \ {o}) = CellsOf(l) \ {CellOf(o)} /\ SegsOf(l \ {o}) = SegsOf(l)
           /\ IsDirect(o) => CellsOf(l \ {o}) = CellsOf(l) /\ SegsOf(l \ {o}) = SegsOf(l) \ {SegOf(o)}
<1>1. ASSUME ~IsDirect(o) PROVE CellsOf(l \ {o}) = CellsOf(l) \ {CellOf(o)} /\ SegsOf(l \ {o}) = SegsOf(l)
  <2>1. \A p \in l : ~IsDirect(p) /\ p # o => CellOf(p) # CellOf(o)  BY <1>1 DEF Unique
  <2> QED  BY <1>1, <2>1 DEF CellsOf, SegsOf
<1>2. ASSUME IsDirect(o) PROVE CellsOf(l \ {o}) = CellsOf(l) /\ SegsOf(l \ {o}) = SegsOf(l) \ {SegOf(o)}
  <2>1. \A p \in l : IsDirect(p) /\ p # o => SegOf(p) # SegOf(o)  BY <1>2 DEF Unique
  <2> QED  BY <1>2, <2>1 DEF CellsOf, SegsOf
<1> QED  BY <1>1, <1>2

\* The zone of a request is one of kmem_alloc's and large enough.
LEMMA ZoneForSize ==
    ASSUME NEW size \in Nat, ZoneFor(size) # NoZone
    PROVE  /\ ZoneFor(size) \in AllocSizes /\ ZoneFor(size) \in Zones
           /\ size <= ZoneSize(ZoneFor(size))
<1> DEFINE T == {z \in AllocSizes : z >= size}
<1>1. AllocSizes \subseteq Nat  BY KmemAssumption
<1>2. ~\A z \in AllocSizes : z < size  BY DEF ZoneFor
<1>20. PICK w \in AllocSizes : ~(w < size)  BY <1>2
<1>21. w \in Nat /\ w >= size  BY <1>1, <1>20
<1>3. T \subseteq Nat /\ T # {}  BY <1>1, <1>20, <1>21
<1>4. PICK n \in T : \A y \in T : n <= y  BY <1>3, LeastNatural
<1>5. \E z \in AllocSizes : z >= size /\ \A y \in AllocSizes : y >= size => z <= y  BY <1>4
<1>6. ZoneFor(size) \in AllocSizes /\ ZoneFor(size) >= size  BY <1>2, <1>5 DEF ZoneFor
<1>7. PICK z \in AllocSizes : z = ZoneFor(size)  BY <1>6
<1>8. z # kmem_slab /\ z # kmem_bufctl  BY SmallZones
<1>9. ZoneSize(z) = z  BY <1>8 DEF ZoneSize
<1>10. z \in Nat /\ size <= z  BY <1>1, <1>6, <1>7
<1> QED  BY <1>7, <1>9, <1>10 DEF Zones

\* A kernel that has stopped has no more objects.
LEMMA LiveStopped ==
    ASSUME NEW k, NEW l, LiveOK(k, l), NEW e, NEW O, NEW P, Kept(e, O, P), e.mem.stop # "no"
    PROVE  LiveOK(e, l)
<1>1. Tidy(e, O \cup AllClaims(e.zones), P)  BY DEF Kept
<1>2. Kept(e, CellsOf(l), SegsOf(l))  BY <1>1, StoppedKept
<1> QED  BY <1>2 DEF LiveOK

\* _kmem_alloc.
LEMMA AllocKept ==
    ASSUME NEW k, NEW l, LiveOK(k, l), k.mem.stop = "no", NEW size \in Requests
    PROVE  LET r == Alloc(k, size)
           IN  LiveOK(State(r), IF Stopped(r.mem) THEN l ELSE l \cup {[addr |-> r.addr, size |-> size]})
<1> DEFINE r == Alloc(k, size)
           o == [addr |-> r.addr, size |-> size]
           O == CellsOf(l)
           P == SegsOf(l)
<1>1. size \in Nat  BY KmemAssumption
<1>2. o.addr = r.addr /\ o.size = size  OBVIOUS
<1>3. /\ Kept(k, O, P) /\ Unique(l) /\ l \subseteq LiveType
      /\ \A p \in l : IsDirect(p) => p.addr = PageOf(p.addr) * PGSIZE
  BY DEF LiveOK
<1> HIDE DEF O, P
<1>4. CASE ZoneFor(size) # NoZone
  <2> DEFINE z == ZoneFor(size)
  <2>1. z \in AllocSizes  BY <1>1, <1>4, ZoneForSize
  <2>2. r = kmem_zonealloc(k, z)  BY <1>4 DEF Alloc
  <2> HIDE DEF r, z
  <2>3. /\ Kept(State(r), O \cup {Cell(z, r.addr)}, P) /\ r.addr \in Nat
        /\ r.mem.stop = "no" => Cell(z, r.addr) \notin O
    BY <1>3, <2>1, <2>2, ZoneAllocKept
  <2>4. State(r).mem = r.mem  BY DEF State
  <2>5. CASE Stopped(r.mem)
    <3>1. State(r).mem.stop # "no"  BY <2>4, <2>5 DEF Stopped
    <3>2. LiveOK(State(r), l)  BY <2>3, <3>1, LiveStopped
    <3> QED  BY <2>5, <3>2 DEF r
  <2>6. CASE ~Stopped(r.mem)
    <3>1. ~IsDirect(o) /\ CellOf(o) = Cell(z, r.addr)  BY <1>2, <1>4 DEF IsDirect, CellOf, z
    <3>2. CellOf(o) \notin O  BY <2>3, <2>6, <3>1 DEF Stopped
    <3>3. o \in LiveType  BY <2>3 DEF LiveType
    <3> HIDE DEF o
    <3>4. CellsOf(l \cup {o}) = O \cup {CellOf(o)} /\ SegsOf(l \cup {o}) = P  BY <3>1, CellsAdded DEF O, P
    <3>5. Kept(State(r), CellsOf(l \cup {o}), SegsOf(l \cup {o}))  BY <2>3, <3>1, <3>4
    <3>6. \A p \in l : ~IsDirect(p) => CellOf(p) # CellOf(o)  BY <3>2 DEF O, CellsOf
    <3>7. Unique(l \cup {o})  BY <1>3, <3>1, <3>6 DEF Unique
    <3>8. LiveOK(State(r), l \cup {o})  BY <1>3, <3>1, <3>3, <3>5, <3>7 DEF LiveOK
    <3> QED  BY <2>6, <3>8 DEF r, o
  <2> QED  BY <2>5, <2>6
<1>5. CASE ZoneFor(size) = NoZone
  <2> DEFINE n == PGROUNDUP(size) \div PGSIZE
             v == vm_kalloc(k.mem, n)
             new == Seg("allocated", v.addr, n)
             e == [mem |-> v.mem, zones |-> k.zones]
  <2>1. n \in Nat \ {0} /\ HasClass(n)  BY RequestPages
  <2>2. r = [mem |-> v.mem, zones |-> k.zones, addr |-> v.addr * PGSIZE]  BY <1>5 DEF Alloc, WithPages
  <2>3. r.mem = v.mem /\ r.zones = k.zones /\ r.addr = v.addr * PGSIZE  BY <2>2
  <2> HIDE DEF n
  <2>4. Tidy(k, O \cup AllClaims(k.zones), P)  BY <1>3 DEF Kept
  <2>5. /\ Tidy(e, O \cup AllClaims(k.zones), P \cup {new})
        /\ v.mem.stop = "no" => v.addr \in Nat /\ new \notin P
    BY <2>1, <2>4, TidyPages
  <2> HIDE DEF v, r
  <2>6. State(r) = e  BY <2>3 DEF State
  <2>7. e.mem = v.mem /\ e.zones = k.zones  OBVIOUS
  <2> HIDE DEF e, new
  <2>8. Kept(e, O, P \cup {new})  BY <1>3, <2>5, <2>7 DEF Kept
  <2>9. CASE Stopped(r.mem)
    <3>1. e.mem.stop # "no"  BY <2>3, <2>7, <2>9 DEF Stopped
    <3>2. LiveOK(e, l)  BY <2>8, <3>1, LiveStopped
    <3> QED  BY <2>6, <2>9, <3>2 DEF r
  <2>10. CASE ~Stopped(r.mem)
    <3>1. v.addr \in Nat /\ new \notin P  BY <2>3, <2>5, <2>10 DEF Stopped
    <3>2. PageOf(v.addr * PGSIZE) = v.addr  BY <3>1, PageAddress
    <3>3. IsDirect(o) /\ SegOf(o) = new /\ o.addr = PageOf(o.addr) * PGSIZE
      <4>1. IsDirect(o)  BY <1>2, <1>5 DEF IsDirect
      <4>2. PageOf(o.addr) = v.addr  BY <1>2, <2>3, <3>2
      <4>3. SegOf(o) = new  BY <1>2, <4>2 DEF SegOf, new, n
      <4> QED  BY <1>2, <2>3, <4>1, <4>2, <4>3
    <3>4. o \in LiveType
      <4>1. v.addr * PGSIZE \in Nat  BY <3>1, KmemAssumption
      <4> QED  BY <2>3, <4>1 DEF LiveType
    <3> HIDE DEF o
    <3>5. CellsOf(l \cup {o}) = O /\ SegsOf(l \cup {o}) = P \cup {new}  BY <3>3, CellsAdded DEF O, P
    <3>6. \A p \in l : IsDirect(p) => SegOf(p) # SegOf(o)  BY <3>1, <3>3 DEF P, SegsOf
    <3>7. Unique(l \cup {o})  BY <1>3, <3>3, <3>6 DEF Unique
    <3>8. LiveOK(e, l \cup {o})  BY <1>3, <2>8, <3>3, <3>4, <3>5, <3>7 DEF LiveOK
    <3> QED  BY <2>6, <2>10, <3>8 DEF r, o
  <2> QED  BY <2>9, <2>10
<1> QED  BY <1>4, <1>5

\* kmem_free.
LEMMA FreeKept ==
    ASSUME NEW k, NEW l, LiveOK(k, l), k.mem.stop = "no", NEW o \in l
    PROVE  LiveOK(Free(k, o.addr, o.size), l \ {o})
<1> DEFINE f == Free(k, o.addr, o.size)
           O == CellsOf(l)
           P == SegsOf(l)
<1>1. /\ Kept(k, O, P) /\ Unique(l) /\ l \subseteq LiveType
      /\ \A p \in l : IsDirect(p) => p.addr = PageOf(p.addr) * PGSIZE
  BY DEF LiveOK
<1>2. o.addr \in Nat /\ o.size \in Requests /\ o.size \in Nat  BY <1>1, KmemAssumption DEF LiveType
<1> HIDE DEF O, P
<1>3. Unique(l \ {o}) /\ l \ {o} \subseteq LiveType  BY <1>1 DEF Unique
<1> SUFFICES Kept(f, CellsOf(l \ {o}), SegsOf(l \ {o}))  BY <1>1, <1>3 DEF LiveOK
<1>4. CASE ~IsDirect(o)
  <2>1. PICK z : z = ZoneFor(o.size)  OBVIOUS
  <2>2. z \in Zones /\ z # NoZone  BY <1>2, <1>4, <2>1, ZoneForSize DEF IsDirect
  <2>3. f = kmem_zonefree(k, z, o.addr)  BY <2>1, <2>2 DEF Free
  <2>4. Cell(z, o.addr) = CellOf(o) /\ CellOf(o) \in O  BY <1>4, <2>1 DEF O, CellsOf, CellOf
  <2>5. Kept(kmem_zonefree(k, z, o.addr), O \ {Cell(z, o.addr)}, P)  BY <1>1, <2>2, <2>4, ZoneFreeKept
  <2>6. CellsOf(l \ {o}) = O \ {CellOf(o)} /\ SegsOf(l \ {o}) = P  BY <1>1, <1>4, CellsRemoved DEF O, P
  <2> QED  BY <2>3, <2>4, <2>5, <2>6
<1>5. CASE IsDirect(o)
  <2>1. PICK s : s = SegOf(o)  OBVIOUS
  <2>2. s \in P  BY <1>5, <2>1 DEF P, SegsOf
  <2>3. s.base = PageOf(o.addr)  BY <2>1 DEF SegOf, Seg
  <2>4. PICK n : n = vm_kfree(k.mem, s.base)  OBVIOUS
  <2>5. f = [k EXCEPT !.mem = n]  BY <1>5, <2>3, <2>4 DEF Free, IsDirect
  <2>6. PICK H : H = O \cup AllClaims(k.zones)  OBVIOUS
  <2>7. /\ IsState(k) /\ GoodMem(k.mem) /\ Zoned(k.zones) /\ P \subseteq Allocated(k.mem.wired)
        /\ Rooms(k.zones, Allocated(k.mem.wired) \ P) /\ Held(k.zones, H)
        /\ O \cap AllClaims(k.zones) = {} /\ Separate(k.zones)
    BY <1>1, <2>6 DEF Kept, Tidy
  <2>8. f.mem = n /\ f.zones = k.zones /\ IsState(f)
    <3>1. PICK x, w : x = k.mem /\ w = k.zones  OBVIOUS
    <3>2. k = [mem |-> x, zones |-> w]  BY <2>7, <3>1 DEF IsState
    <3> HIDE DEF f
    <3>3. f = [mem |-> n, zones |-> w]  BY <2>5, <3>2
    <3> QED  BY <3>1, <3>3 DEF IsState
  <2> HIDE DEF f
  <2>9. s \in Allocated(k.mem.wired)  BY <2>2, <2>7
  <2>10. GoodMem(n) /\ n.stop = "no" /\ Allocated(n.wired) = Allocated(k.mem.wired) \ {s}
    BY <2>4, <2>7, <2>9, KFree
  <2>11. Allocated(n.wired) \ (P \ {s}) = Allocated(k.mem.wired) \ P  BY <2>2, <2>10
  <2>12. Tidy(f, H, P \ {s})  BY <2>7, <2>8, <2>10, <2>11 DEF Tidy
  <2>13. Kept(f, O, P \ {s})  BY <2>6, <2>7, <2>8, <2>12 DEF Kept
  <2>14. CellsOf(l \ {o}) = O /\ SegsOf(l \ {o}) = P \ {s}  BY <1>1, <1>5, <2>1, CellsRemoved DEF O, P
  <2> QED  BY <2>13, <2>14 DEF f
<1> QED  BY <1>4, <1>5

------------------------------------------------------------------------------
\* The invariant of the slab allocator.
SlabInv == LiveOK(Now, live)

\* Every step of kmem_alloc, kmem_free and kmem_realloc keeps it.
LEMMA SlabStep ==
    ASSUME SlabInv, KmemNext
    PROVE  SlabInv'
<1>1. Now.mem = mem /\ Now.zones = zones  BY DEF Now
<1>2. ASSUME NEW k, IsState(k), mem' = k.mem, zones' = k.zones, LiveOK(k, live') PROVE SlabInv'
  <2>1. Now' = k  BY <1>2 DEF Now, IsState
  <2> QED  BY <1>2, <2>1 DEF SlabInv
<1>3. ASSUME NEW k, NEW l, LiveOK(k, l) PROVE IsState(k)  BY <1>3 DEF LiveOK, Kept, Tidy
<1>4. ASSUME NEW size \in Requests, kmem_alloc(size) PROVE SlabInv'
  <2> DEFINE r == Alloc(Now, size)
  <2>1. /\ Now.mem.stop = "no" /\ mem' = r.mem /\ zones' = r.zones
        /\ live' = IF Stopped(r.mem) THEN live ELSE live \cup {[addr |-> r.addr, size |-> size]}
    BY <1>4 DEF kmem_alloc, Allocates, Becomes, Live, Halted, Stopped
  <2>2. LiveOK(State(r), IF Stopped(r.mem) THEN live ELSE live \cup {[addr |-> r.addr, size |-> size]})
    BY <2>1, AllocKept DEF SlabInv
  <2> HIDE DEF r
  <2>3. LiveOK(State(r), live')  BY <2>1, <2>2
  <2>4. State(r).mem = r.mem /\ State(r).zones = r.zones  BY DEF State
  <2> QED  BY <1>2, <1>3, <2>1, <2>3, <2>4
<1>5. ASSUME NEW o \in live, kmem_free(o) PROVE SlabInv'
  <2> DEFINE f == Free(Now, o.addr, o.size)
  <2>1. Now.mem.stop = "no" /\ mem' = f.mem /\ zones' = f.zones /\ live' = live \ {o}
    BY <1>5 DEF kmem_free, Halted, Stopped, Becomes
  <2>2. LiveOK(f, live \ {o})  BY <2>1, FreeKept DEF SlabInv
  <2> HIDE DEF f
  <2> QED  BY <1>2, <1>3, <2>1, <2>2
<1>6. ASSUME NEW o \in live, NEW size \in Requests, kmem_realloc(o, size) PROVE SlabInv'
  <2> DEFINE r == Alloc(Now, size)
             new == [addr |-> r.addr, size |-> size]
             f == Free(State(r), o.addr, o.size)
  <2>1. /\ size > o.size /\ Now.mem.stop = "no"
        /\ mem' = (IF Stopped(r.mem) THEN State(r) ELSE f).mem
        /\ zones' = (IF Stopped(r.mem) THEN State(r) ELSE f).zones
        /\ live' = IF Stopped(r.mem) THEN live ELSE (live \ {o}) \cup {new}
    BY <1>6 DEF kmem_realloc, Reallocates, Becomes, Live, Halted, Stopped
  <2>2. LiveOK(State(r), IF Stopped(r.mem) THEN live ELSE live \cup {new})
    BY <2>1, AllocKept DEF SlabInv
  <2>3. new # o
    <3>1. size \in Nat /\ new.size = size  BY KmemAssumption
    <3> QED  BY <2>1, <3>1
  <2> HIDE DEF r, new, f
  <2>4. State(r).mem = r.mem /\ State(r).zones = r.zones  BY DEF State
  <2>5. CASE Stopped(r.mem)
    <3>1. mem' = State(r).mem /\ zones' = State(r).zones /\ live' = live  BY <2>1, <2>5
    <3>2. LiveOK(State(r), live')  BY <2>2, <2>5, <3>1
    <3> QED  BY <1>2, <1>3, <3>1, <3>2
  <2>6. CASE ~Stopped(r.mem)
    <3>1. PICK l : l = live \cup {new}  OBVIOUS
    <3>2. PICK k : k = State(r)  OBVIOUS
    <3>3. LiveOK(k, l) /\ k.mem.stop = "no" /\ o \in l  BY <2>2, <2>4, <2>6, <3>1, <3>2 DEF Stopped
    <3>4. LiveOK(Free(k, o.addr, o.size), l \ {o})  BY <3>3, FreeKept
    <3>5. l \ {o} = (live \ {o}) \cup {new}  BY <2>3, <3>1
    <3>6. mem' = f.mem /\ zones' = f.zones /\ live' = l \ {o}  BY <2>1, <2>6, <3>5
    <3>7. LiveOK(f, live')  BY <3>2, <3>4, <3>6 DEF f
    <3> QED  BY <1>2, <1>3, <3>6, <3>7
  <2> QED  BY <2>5, <2>6
<1> QED  BY <1>4, <1>5, <1>6 DEF KmemNext

\* No zone has a slab yet.
LEMMA SlabStart ==
    ASSUME kmem_init
    PROVE  SlabInv
<1>1. mem = vm_kernel_init /\ zones = [z \in Zones |-> <<>>] /\ live = {}  BY DEF kmem_init
<1>2. GoodMem(mem)  BY <1>1, HeapStart
<1>3. \A z \in Zones : zones[z] = <<>>  BY <1>1
<1>4. \A z \in Zones : ZoneOK(z, zones[z]) /\ HeadsOf(z, zones[z]) = {}
  <2> SUFFICES ASSUME NEW z \in Zones PROVE ZoneOK(z, zones[z]) /\ HeadsOf(z, zones[z]) = {}  OBVIOUS
  <2>1. PICK q : q = zones[z]  OBVIOUS
  <2>2. q = <<>>  BY <1>3, <2>1
  <2>3. q \in Seq(SlabType) /\ Len(q) = 0  BY <2>2
  <2>4. DOMAIN q = {}  BY <2>3
  <2> QED  BY <2>1, <2>3, <2>4 DEF ZoneOK, HeadsOf
<1>5. Zoned(zones)
  <2>1. zones \in [Zones -> Seq(SlabType)]
    <3>1. <<>> \in Seq(SlabType)  OBVIOUS
    <3> QED  BY <1>1, <3>1
  <2> QED  BY <1>4, <2>1 DEF Zoned
<1>6. Heads(zones) = {}  BY <1>4 DEF Heads
<1>7. AllClaims(zones) = {}  BY <1>6 DEF AllClaims
<1>8. CellsOf({}) = {} /\ SegsOf({}) = {}  BY DEF CellsOf, SegsOf
<1>9. PICK k : k = Now  OBVIOUS
<1>10. IsState(k) /\ k.mem = mem /\ k.zones = zones  BY <1>9 DEF Now, IsState
<1>11. Tidy(k, {}, {})  BY <1>2, <1>5, <1>6, <1>10 DEF Tidy, Rooms, Held
<1>12. {} \cup AllClaims(k.zones) = {}  BY <1>7, <1>10
<1>13. Kept(k, {}, {})  BY <1>6, <1>7, <1>10, <1>11, <1>12 DEF Kept, Separate
<1>14. LiveOK(k, {})  BY <1>8, <1>13 DEF LiveOK, Unique
<1> QED  BY <1>1, <1>9, <1>14 DEF SlabInv

------------------------------------------------------------------------------
\* Where the bytes in use are.

\* The slabs and the allocations P are in allocations A that share no page.
Sane(zs, A, P) ==
    /\ Zoned(zs) /\ Rooms(zs, A \ P) /\ P \subseteq A
    /\ \A s, t \in A : s # t => Units(s) \cap Units(t) = {}

\* The pages of a slab's bytes.
LEMMA RoomOf ==
    ASSUME NEW zs, NEW A, NEW P, Sane(zs, A, P), NEW h \in Heads(zs),
           NEW b \in Nat, h.base <= b, b < h.base + slabsize(h.zone)
    PROVE  PageOf(b) \in Units(Room(h)) /\ Room(h) \in A /\ Room(h) \notin P
<1>1. Zoned(zs) /\ h.base = PageOf(h.base) * PGSIZE /\ Room(h) \in A /\ Room(h) \notin P  BY DEF Sane, Rooms
<1>2. h.zone \in Zones /\ h.base \in Nat  BY <1>1, HeadFields
<1>3. PGSIZE \in Nat \ {0}  BY KmemAssumption
<1>4. PICK x \in Nat : x = PageOf(h.base)  BY <1>2, <1>3, DivBounds DEF PageOf
<1>5. PICK n \in Nat : n = SlabPages(h.zone) /\ n * PGSIZE = slabsize(h.zone)  BY <1>2, ZoneNumbers
<1>6. PICK y \in Nat : y = x + n  OBVIOUS
<1>7. y * PGSIZE = x * PGSIZE + n * PGSIZE  BY <1>3, <1>6
<1>8. x * PGSIZE <= b /\ b < y * PGSIZE  BY <1>1, <1>4, <1>5, <1>7
<1>9. PageOf(b) \in x .. y - 1  BY <1>8, PageInRange
<1>10. Units(Room(h)) = x .. y - 1  BY <1>4, <1>5, <1>6 DEF Units, Room, Seg, End
<1> QED  BY <1>1, <1>9, <1>10

\* No page is of two slabs.
LEMMA SameRoom ==
    ASSUME NEW zs, NEW A, NEW P, Sane(zs, A, P), NEW h \in Heads(zs), NEW g \in Heads(zs),
           NEW p, p \in Units(Room(h)), p \in Units(Room(g))
    PROVE  h = g
<1>1. Room(h) \in A /\ Room(g) \in A /\ h.base = PageOf(h.base) * PGSIZE /\ g.base = PageOf(g.base) * PGSIZE
  BY DEF Sane, Rooms
<1>2. Room(h) = Room(g)  BY <1>1 DEF Sane
<1>3. Room(h).base = PageOf(h.base) /\ Room(g).base = PageOf(g.base)  BY DEF Room, Seg
<1>4. h.base = g.base  BY <1>1, <1>2, <1>3
<1> QED  BY <1>4 DEF Sane, Rooms

\* An object of a slab, and its bytes.
IsCell(zs, c) == c = Cell(c.zone, c.addr) /\ c.zone \in Zones /\ c.addr \in ObjectsIn(c.zone, zs[c.zone])
CellBytes(c) == Bytes(c.addr, ZoneSize(c.zone))

\* An object's bytes are among those of its slab's objects.
LEMMA CellSpot ==
    ASSUME NEW zs, Zoned(zs), NEW c, IsCell(zs, c), NEW b \in CellBytes(c)
    PROVE  /\ b \in Nat
           /\ \E h \in Heads(zs) :
                 /\ h.zone = c.zone /\ h.base \in Nat /\ c.addr \in Range(Objects(h.base, c.zone))
                 /\ h.base <= b /\ b < h.base + slabcapacity(c.zone) * ZoneSize(c.zone)
                 /\ b < h.base + slabsize(h.zone)
<1>1. PICK z \in Zones : z = c.zone  BY DEF IsCell
<1>2. PICK h \in HeadsOf(z, zs[z]) : c.addr \in Range(Objects(h.base, z))  BY <1>1 DEF IsCell, ObjectsIn
<1>3. h \in Heads(zs) /\ h.zone = z  BY <1>2 DEF Heads, HeadsOf, HeadOf
<1>4. h.base \in Nat  BY <1>3, HeadFields
<1>5. PICK base \in Nat : base = h.base  BY <1>4
<1>6. PICK s \in Nat \ {0} : s = ZoneSize(z)  BY ZoneNumbers
<1>7. PICK n \in Nat : n = slabcapacity(z) * ZoneSize(z)  BY ZoneNumbers
<1>8. PICK y \in Nat : y = slabsize(z) /\ n <= y  BY <1>7, ZoneNumbers
<1>9. PICK a \in Nat : a = c.addr /\ base <= a /\ a + s <= base + n
  BY <1>2, <1>5, <1>6, <1>7, ObjectPlace
<1>10. b \in a .. a + s - 1  BY <1>1, <1>6, <1>9 DEF CellBytes, Bytes
<1>11. b \in Nat /\ base <= b /\ b < base + n /\ b < base + y  BY <1>8, <1>9, <1>10
<1> QED  BY <1>1, <1>2, <1>3, <1>4, <1>5, <1>7, <1>8, <1>11

\* Two objects share no byte.
LEMMA CellsApart ==
    ASSUME NEW zs, NEW A, NEW P, Sane(zs, A, P), NEW c, IsCell(zs, c), NEW d, IsCell(zs, d), c # d
    PROVE  CellBytes(c) \cap CellBytes(d) = {}
<1> SUFFICES ASSUME NEW b \in CellBytes(c), b \in CellBytes(d) PROVE FALSE  OBVIOUS
<1>1. Zoned(zs)  BY DEF Sane
<1>2. PICK h \in Heads(zs) :
         /\ h.zone = c.zone /\ h.base \in Nat /\ c.addr \in Range(Objects(h.base, c.zone))
         /\ h.base <= b /\ b < h.base + slabsize(h.zone)
  BY <1>1, CellSpot
<1>3. PICK g \in Heads(zs) :
         /\ g.zone = d.zone /\ g.base \in Nat /\ d.addr \in Range(Objects(g.base, d.zone))
         /\ g.base <= b /\ b < g.base + slabsize(g.zone)
  BY <1>1, CellSpot
<1>4. b \in Nat  BY <1>1, CellSpot
<1>5. PageOf(b) \in Units(Room(h)) /\ PageOf(b) \in Units(Room(g))  BY <1>2, <1>3, <1>4, RoomOf
<1>6. h = g  BY <1>5, SameRoom
<1>7. PICK z \in Zones : z = c.zone /\ z = d.zone  BY <1>2, <1>3, <1>6 DEF IsCell
<1>8. c.addr # d.addr  BY <1>7 DEF IsCell
<1>9. PICK s \in Nat \ {0} : s = ZoneSize(z)  BY ZoneNumbers
<1>10. PICK base \in Nat : base = h.base  BY <1>2
<1>11. c.addr \in Range(Objects(base, z)) /\ d.addr \in Range(Objects(base, z))  BY <1>2, <1>3, <1>6, <1>7, <1>10
<1>12. c.addr \in Nat /\ d.addr \in Nat /\ (c.addr + s <= d.addr \/ d.addr + s <= c.addr)
  BY <1>8, <1>9, <1>11, ObjectPlace
<1>13. b \in c.addr .. c.addr + s - 1 /\ b \in d.addr .. d.addr + s - 1  BY <1>7, <1>9 DEF CellBytes, Bytes
<1> QED  BY <1>4, <1>12, <1>13

\* The header at the end of a small slab.
HeadBytes(h) == Bytes(h.base + PGSIZE - SlabSize, SlabSize)

\* A small slab's header is in its page, after the objects.
LEMMA HeadSpot ==
    ASSUME NEW zs, Zoned(zs), NEW h \in Heads(zs), IsSmall(h.zone), NEW b \in HeadBytes(h)
    PROVE  /\ b \in Nat /\ h.base \in Nat /\ h.base <= b /\ b < h.base + slabsize(h.zone)
           /\ h.base + slabcapacity(h.zone) * ZoneSize(h.zone) <= b
<1>1. h.zone \in Zones /\ h.base \in Nat  BY HeadFields
<1>2. PGSIZE \in Nat /\ SlabSize \in Nat \ {0} /\ kSmallSlabMax \in Nat /\ SlabSize + kSmallSlabMax <= PGSIZE
  BY KmemAssumption, KmemSmall
<1>3. slabsize(h.zone) = PGSIZE  BY <1>1, ZoneNumbers
<1>4. PICK n \in Nat : n = slabcapacity(h.zone) * ZoneSize(h.zone)  BY <1>1, ZoneNumbers
<1>5. n <= PGSIZE - SlabSize  BY <1>1, <1>4, ZoneNumbers
<1>6. b \in (h.base + PGSIZE - SlabSize) .. (h.base + PGSIZE - SlabSize + SlabSize - 1)  BY DEF HeadBytes, Bytes
<1> QED  BY <1>1, <1>2, <1>3, <1>4, <1>5, <1>6

\* It is no object's, and no other slab's.
LEMMA HeadsApart ==
    ASSUME NEW zs, NEW A, NEW P, Sane(zs, A, P), NEW h \in Heads(zs), IsSmall(h.zone)
    PROVE  /\ \A c : IsCell(zs, c) => HeadBytes(h) \cap CellBytes(c) = {}
           /\ \A g \in Heads(zs) : IsSmall(g.zone) /\ g # h => HeadBytes(h) \cap HeadBytes(g) = {}
<1>1. Zoned(zs)  BY DEF Sane
<1>2. ASSUME NEW b \in HeadBytes(h)
      PROVE  PageOf(b) \in Units(Room(h)) /\ b \in Nat /\ h.base + slabcapacity(h.zone) * ZoneSize(h.zone) <= b
             /\ h.base \in Nat
  BY <1>1, <1>2, HeadSpot, RoomOf
<1>3. ASSUME NEW c, IsCell(zs, c), NEW b \in HeadBytes(h), b \in CellBytes(c) PROVE FALSE
  <2>1. PICK g \in Heads(zs) :
           /\ g.zone = c.zone /\ g.base \in Nat
           /\ g.base <= b /\ b < g.base + slabcapacity(c.zone) * ZoneSize(c.zone)
           /\ b < g.base + slabsize(g.zone)
    BY <1>1, <1>3, CellSpot
  <2>2. PageOf(b) \in Units(Room(g))  BY <1>2, <1>3, <2>1, RoomOf
  <2>3. h = g  BY <1>2, <1>3, <2>2, SameRoom
  <2>4. PICK n \in Nat : n = slabcapacity(h.zone) * ZoneSize(h.zone)
    <3>1. h.zone \in Zones  BY <1>1, HeadFields
    <3> QED  BY <3>1, ZoneNumbers
  <2>5. h.base + n <= b /\ b < h.base + n /\ b \in Nat /\ h.base \in Nat  BY <1>2, <1>3, <2>1, <2>3, <2>4
  <2> QED  BY <2>5
<1>4. ASSUME NEW g \in Heads(zs), IsSmall(g.zone), g # h, NEW b \in HeadBytes(h), b \in HeadBytes(g) PROVE FALSE
  <2>1. PageOf(b) \in Units(Room(g))  BY <1>1, <1>4, HeadSpot, RoomOf
  <2> QED  BY <1>2, <1>4, <2>1, SameRoom
<1> QED  BY <1>3, <1>4

\* A request's bytes lie in the pages allocated for it.
LEMMA SegSpot ==
    ASSUME NEW o \in LiveType, o.addr = PageOf(o.addr) * PGSIZE, NEW b \in Bytes(o.addr, o.size)
    PROVE  b \in Nat /\ PageOf(b) \in Units(SegOf(o))
<1>1. PGSIZE \in Nat \ {0}  BY KmemAssumption
<1>2. o.addr \in Nat /\ o.size \in Nat \ {0}  BY KmemAssumption DEF LiveType
<1>3. PICK n \in Nat \ {0} : n = o.size  BY <1>2
<1>4. PICK x \in Nat : x = PageOf(o.addr)  BY <1>1, <1>2, DivBounds DEF PageOf
<1>5. PICK k \in Nat : /\ k = (n + PGSIZE - 1) \div PGSIZE
                       /\ k * PGSIZE <= n + PGSIZE - 1 /\ n + PGSIZE - 1 < (k + 1) * PGSIZE
  <2>1. n + PGSIZE - 1 \in Nat  BY <1>1
  <2> QED  BY <1>1, <2>1, DivBounds
<1>6. PICK y \in Nat : y = k * PGSIZE /\ (k + 1) * PGSIZE = y + PGSIZE  BY <1>1
<1>7. n <= y  BY <1>1, <1>5, <1>6
<1>8. PGROUNDUP(o.size) \div PGSIZE = k
  <2>1. PGROUNDUP(o.size) = y  BY <1>3, <1>5, <1>6 DEF PGROUNDUP
  <2>2. y \div PGSIZE = k  BY <1>1, <1>6
  <2> QED  BY <2>1, <2>2
<1>9. b \in o.addr .. o.addr + n - 1  BY <1>3 DEF Bytes
<1>10. (x + k) * PGSIZE = x * PGSIZE + y  BY <1>1, <1>6
<1>11. PICK w \in Nat : w = x + k  OBVIOUS
<1>12. b \in Nat /\ x * PGSIZE <= b /\ b < w * PGSIZE  BY <1>2, <1>4, <1>7, <1>9, <1>10, <1>11
<1>13. PageOf(b) \in x .. w - 1  BY <1>12, PageInRange
<1>14. Units(SegOf(o)) = x .. w - 1  BY <1>4, <1>8, <1>11 DEF Units, SegOf, Seg, End
<1> QED  BY <1>12, <1>13, <1>14

\* The bytes in use, by kind.
ObjectUse(o) == InUse(<<"object", 0, 0>>, o.addr, o.size)
HeaderUse(z, i) == InUse(<<"header", z, i>>, zones[z][i].base + PGSIZE - SlabSize, SlabSize)
HdrUse(z, i) == InUse(<<"slab", z, i>>, zones[z][i].hdr, SlabPtrSize)
CtlUse(z, i, c) == InUse(<<"bufctl", z, i>>, c, BufctlSize)
HeadAt(z, i) == HeadOf(z, zones[z][i])

\* What is in use is an object of a slab, an allocation or a small slab's header.
OfCell(u, c) ==
    \/ \E o \in live : ~IsDirect(o) /\ c = CellOf(o) /\ u = ObjectUse(o)
    \/ \E z \in Zones : \E i \in DOMAIN zones[z] :
          ~IsSmall(z) /\ c = Cell(kmem_slab, zones[z][i].hdr) /\ u = HdrUse(z, i)
    \/ \E z \in Zones : \E i \in DOMAIN zones[z] : \E x \in zones[z][i].ctl :
          ~IsSmall(z) /\ c = Cell(kmem_bufctl, x) /\ u = CtlUse(z, i, x)
OfSeg(u, s) == \E o \in live : IsDirect(o) /\ s = SegOf(o) /\ u = ObjectUse(o)
OfHead(u, h) == \E z \in Zones : \E i \in DOMAIN zones[z] :
                    IsSmall(z) /\ h = HeadAt(z, i) /\ u = HeaderUse(z, i)

\* There is no other kind of use.
LEMMA UsedKinds ==
    ASSUME NEW u \in Used
    PROVE  (\E c : OfCell(u, c)) \/ (\E s : OfSeg(u, s)) \/ (\E h : OfHead(u, h))
<1> DEFINE SlabUse(z, i) == IF IsSmall(z) THEN {HeaderUse(z, i)}
                            ELSE {HdrUse(z, i)} \cup {CtlUse(z, i, c) : c \in zones[z][i].ctl}
           ZoneUse(z) == UNION {SlabUse(z, i) : i \in DOMAIN zones[z]}
<1>1. CASE \E o \in live : u = ObjectUse(o)  BY <1>1 DEF OfCell, OfSeg
<1>2. ASSUME ~\E o \in live : u = ObjectUse(o) PROVE (\E c : OfCell(u, c)) \/ \E h : OfHead(u, h)
  <2>a. Used = {ObjectUse(o) : o \in live} \cup UNION {ZoneUse(z) : z \in Zones}
    BY DEF Used, ObjectUse, HeaderUse, HdrUse, CtlUse
  <2> HIDE DEF ZoneUse
  <2>b. PICK z \in Zones : u \in ZoneUse(z)  BY <1>2, <2>a
  <2> HIDE DEF SlabUse
  <2>c. PICK i \in DOMAIN zones[z] : u \in SlabUse(z, i)  BY <2>b DEF ZoneUse
  <2>1. u \in IF IsSmall(z) THEN {HeaderUse(z, i)}
              ELSE {HdrUse(z, i)} \cup {CtlUse(z, i, c) : c \in zones[z][i].ctl}
    BY <2>c DEF SlabUse
  <2>2. CASE IsSmall(z)
    <3>1. u = HeaderUse(z, i)  BY <2>1, <2>2
    <3>2. OfHead(u, HeadAt(z, i))  BY <2>2, <3>1 DEF OfHead
    <3> QED  BY <3>2
  <2>3. CASE ~IsSmall(z) /\ u = HdrUse(z, i)
    <3>1. OfCell(u, Cell(kmem_slab, zones[z][i].hdr))  BY <2>3 DEF OfCell
    <3> QED  BY <3>1
  <2>4. CASE ~IsSmall(z) /\ u # HdrUse(z, i)
    <3>1. PICK x \in zones[z][i].ctl : u = CtlUse(z, i, x)  BY <2>1, <2>4
    <3>2. OfCell(u, Cell(kmem_bufctl, x))  BY <2>4, <3>1 DEF OfCell
    <3> QED  BY <3>2
  <2> QED  BY <2>2, <2>3, <2>4
<1> QED  BY <1>1, <1>2

\* What the invariant says of a running kernel.
LEMMA SlabFacts ==
    ASSUME SlabInv, mem.stop = "no"
    PROVE  /\ Sane(zones, Allocated(mem.wired), SegsOf(live))
           /\ Held(zones, CellsOf(live) \cup AllClaims(zones))
           /\ Separate(zones) /\ Unique(live) /\ live \subseteq LiveType /\ GoodMem(mem)
           /\ \A o \in live : IsDirect(o) => o.addr = PageOf(o.addr) * PGSIZE
<1>1. PICK k : k = Now  OBVIOUS
<1>2. k.mem = mem /\ k.zones = zones  BY <1>1 DEF Now
<1>3. LiveOK(k, live)  BY <1>1 DEF SlabInv
<1>4. /\ Kept(k, CellsOf(live), SegsOf(live)) /\ live \subseteq LiveType /\ Unique(live)
      /\ \A o \in live : IsDirect(o) => o.addr = PageOf(o.addr) * PGSIZE
  BY <1>2, <1>3 DEF LiveOK
<1>5. Tidy(k, CellsOf(live) \cup AllClaims(zones), SegsOf(live)) /\ Separate(zones)  BY <1>2, <1>4 DEF Kept
<1>6. /\ GoodMem(mem) /\ Zoned(zones) /\ SegsOf(live) \subseteq Allocated(mem.wired)
      /\ Rooms(zones, Allocated(mem.wired) \ SegsOf(live))
      /\ Held(zones, CellsOf(live) \cup AllClaims(zones))
  BY <1>2, <1>5 DEF Tidy
<1>7. ArenaOK(mem.wired)  BY <1>6 DEF GoodMem, Sound
<1>8. \A s, t \in Allocated(mem.wired) : s # t => Units(s) \cap Units(t) = {}  BY <1>7, UnitsApart
<1> QED  BY <1>4, <1>5, <1>6, <1>8 DEF Sane

\* Slabs are known by their heads.
LEMMA OneIndex ==
    ASSUME Zoned(zones), NEW z \in Zones, NEW i \in DOMAIN zones[z], NEW y \in Zones, NEW j \in DOMAIN zones[y]
    PROVE  HeadAt(z, i) \in Heads(zones) /\ (HeadAt(z, i) = HeadAt(y, j) => z = y /\ i = j)
<1>1. HeadAt(z, i) \in Heads(zones)  BY DEF Heads, HeadsOf, HeadAt
<1>2. ASSUME HeadAt(z, i) = HeadAt(y, j) PROVE z = y /\ i = j
  <2>1. z = y /\ zones[z][i].base = zones[y][j].base  BY <1>2 DEF HeadAt, HeadOf
  <2>2. ASSUME i # j PROVE FALSE
    <3>1. Clear(z, zones[z][i].base, zones[z][j].base)  BY <2>1, <2>2 DEF Zoned, ZoneOK
    <3>2. zones[z][i].base \in Nat  BY DEF Zoned, ZoneOK, SlabOK, SlabType
    <3>3. slabsize(z) \in Nat \ {0}
      <4>1. PICK s \in Nat \ {0} : s = ZoneSize(z)  BY ZoneNumbers
      <4>2. PICK c \in Nat \ {0} : c = slabcapacity(z)  BY ZoneNumbers
      <4>3. c * s > 0 /\ c * s <= slabsize(z) /\ slabsize(z) \in Nat /\ c * s \in Nat
        BY <4>1, <4>2, ZoneNumbers
      <4> QED  BY <4>3
    <3> QED  BY <2>1, <3>1, <3>2, <3>3 DEF Clear
  <2> QED  BY <2>1, <2>2
<1> QED  BY <1>1, <1>2

\* The bytes of an object that is not on its slab's free list.
LEMMA CellUse ==
    ASSUME SlabInv, mem.stop = "no", NEW u, NEW c, OfCell(u, c)
    PROVE  IsCell(zones, c) /\ c.addr \notin FreeAddrs(zones[c.zone]) /\ u.bytes \subseteq CellBytes(c)
<1>1. /\ Held(zones, CellsOf(live) \cup AllClaims(zones)) /\ live \subseteq LiveType
  BY SlabFacts
<1>2. c \in CellsOf(live) \cup AllClaims(zones) =>
        IsCell(zones, c) /\ c.addr \notin FreeAddrs(zones[c.zone])
  BY <1>1 DEF Held, IsCell
<1>3. ASSUME NEW o \in live, ~IsDirect(o), c = CellOf(o), u = ObjectUse(o)
      PROVE  c \in CellsOf(live) /\ u.bytes \subseteq CellBytes(c)
  <2>1. c \in CellsOf(live)  BY <1>3 DEF CellsOf
  <2>2. o.addr \in Nat /\ o.size \in Nat  BY <1>1, KmemAssumption DEF LiveType
  <2>3. PICK z : z = ZoneFor(o.size)  OBVIOUS
  <2>4. z \in Zones /\ o.size <= ZoneSize(z)  BY <1>3, <2>2, <2>3, ZoneForSize DEF IsDirect
  <2>5. ZoneSize(z) \in Nat  BY <2>4, ZoneNumbers
  <2>6. CellBytes(c) = o.addr .. o.addr + ZoneSize(z) - 1  BY <1>3, <2>3 DEF CellBytes, CellOf, Cell, Bytes
  <2>7. u.bytes = o.addr .. o.addr + o.size - 1  BY <1>3 DEF ObjectUse, InUse, Bytes
  <2>8. u.bytes \subseteq CellBytes(c)
    <3>1. PICK a \in Nat, m \in Nat, n \in Nat : a = o.addr /\ m = o.size /\ n = ZoneSize(z) /\ m <= n
      BY <2>2, <2>4, <2>5
    <3>2. a .. a + m - 1 \subseteq a .. a + n - 1  BY <3>1
    <3> QED  BY <2>6, <2>7, <3>1, <3>2
  <2> QED  BY <2>1, <2>8
<1>4. ZoneSize(kmem_slab) = SlabPtrSize /\ ZoneSize(kmem_bufctl) = BufctlSize
  BY DEF ZoneSize, kmem_slab, kmem_bufctl
<1>5. ASSUME NEW z \in Zones, NEW i \in DOMAIN zones[z], ~IsSmall(z)
      PROVE  /\ Cell(kmem_slab, zones[z][i].hdr) \in AllClaims(zones)
             /\ \A x \in zones[z][i].ctl : Cell(kmem_bufctl, x) \in AllClaims(zones)
  <2>1. PICK h : h = HeadAt(z, i)  OBVIOUS
  <2>2. h \in Heads(zones)  BY <2>1 DEF Heads, HeadsOf, HeadAt
  <2>3. h.zone = z /\ h.hdr = zones[z][i].hdr /\ h.ctl = zones[z][i].ctl  BY <2>1 DEF HeadAt, HeadOf
  <2>4. Claims(h) = {Cell(kmem_slab, h.hdr)} \cup Ctls(h.ctl)  BY <1>5, <2>3 DEF Claims
  <2>5. Claims(h) \subseteq AllClaims(zones)  BY <2>2 DEF AllClaims
  <2> QED  BY <2>3, <2>4, <2>5 DEF Ctls
<1>6. ASSUME NEW z \in Zones, NEW i \in DOMAIN zones[z], ~IsSmall(z),
             c = Cell(kmem_slab, zones[z][i].hdr), u = HdrUse(z, i)
      PROVE  c \in AllClaims(zones) /\ u.bytes = CellBytes(c)
  BY <1>4, <1>5, <1>6 DEF CellBytes, Cell, HdrUse, InUse
<1>7. ASSUME NEW z \in Zones, NEW i \in DOMAIN zones[z], ~IsSmall(z), NEW x \in zones[z][i].ctl,
             c = Cell(kmem_bufctl, x), u = CtlUse(z, i, x)
      PROVE  c \in AllClaims(zones) /\ u.bytes = CellBytes(c)
  BY <1>4, <1>5, <1>7 DEF CellBytes, Cell, CtlUse, InUse
<1>8. c \in CellsOf(live) \cup AllClaims(zones) /\ u.bytes \subseteq CellBytes(c)
  BY <1>3, <1>6, <1>7 DEF OfCell
<1> QED  BY <1>2, <1>8

\* An object has one use.
LEMMA CellUsedOnce ==
    ASSUME SlabInv, mem.stop = "no", NEW u, NEW v, NEW c, OfCell(u, c), OfCell(v, c)
    PROVE  u = v
<1>1. /\ Zoned(zones) /\ Separate(zones) /\ Unique(live) /\ live \subseteq LiveType
  BY SlabFacts DEF Sane
<1>2. kmem_slab # kmem_bufctl /\ kmem_slab \notin AllocSizes /\ kmem_bufctl \notin AllocSizes  BY SmallZones
<1>3. ASSUME NEW o \in live, ~IsDirect(o), c = CellOf(o) PROVE c.zone \in AllocSizes
  <2>1. o.size \in Nat  BY <1>1, KmemAssumption DEF LiveType
  <2> QED  BY <1>3, <2>1, ZoneForSize DEF IsDirect, CellOf, Cell
<1>4. \A a : Cell(kmem_slab, a).zone = kmem_slab /\ Cell(kmem_bufctl, a).zone = kmem_bufctl
             /\ Cell(kmem_bufctl, a).addr = a
  BY DEF Cell
<1>5. ASSUME NEW z \in Zones, NEW i \in DOMAIN zones[z], ~IsSmall(z)
      PROVE  /\ HeadAt(z, i) \in Heads(zones)
             /\ Cell(kmem_slab, zones[z][i].hdr) \in Claims(HeadAt(z, i))
             /\ \A x \in zones[z][i].ctl : Cell(kmem_bufctl, x) \in Claims(HeadAt(z, i))
  <2>1. PICK h : h = HeadAt(z, i)  OBVIOUS
  <2>2. h \in Heads(zones)  BY <2>1 DEF Heads, HeadsOf, HeadAt
  <2>3. h.zone = z /\ h.hdr = zones[z][i].hdr /\ h.ctl = zones[z][i].ctl  BY <2>1 DEF HeadAt, HeadOf
  <2>4. Claims(h) = {Cell(kmem_slab, h.hdr)} \cup Ctls(h.ctl)  BY <1>5, <2>3 DEF Claims
  <2> QED  BY <2>1, <2>2, <2>3, <2>4 DEF Ctls
<1>6. ASSUME NEW z \in Zones, NEW i \in DOMAIN zones[z], NEW y \in Zones, NEW j \in DOMAIN zones[y],
             c \in Claims(HeadAt(z, i)), c \in Claims(HeadAt(y, j))
      PROVE  z = y /\ i = j
  <2>1. HeadAt(z, i) \in Heads(zones) /\ HeadAt(y, j) \in Heads(zones)  BY <1>1, OneIndex
  <2>2. HeadAt(z, i) = HeadAt(y, j)  BY <1>1, <1>6, <2>1 DEF Separate
  <2> QED  BY <1>1, <2>2, OneIndex
<1>7. CASE c.zone \notin {kmem_slab, kmem_bufctl}
  <2>1. PICK o \in live : ~IsDirect(o) /\ c = CellOf(o) /\ u = ObjectUse(o)  BY <1>4, <1>7 DEF OfCell
  <2>2. PICK p \in live : ~IsDirect(p) /\ c = CellOf(p) /\ v = ObjectUse(p)  BY <1>4, <1>7 DEF OfCell
  <2>3. o = p  BY <1>1, <2>1, <2>2 DEF Unique
  <2> QED  BY <2>1, <2>2, <2>3
<1>8. CASE c.zone = kmem_slab
  <2>11. PICK z \in Zones : \E i \in DOMAIN zones[z] :
           ~IsSmall(z) /\ c = Cell(kmem_slab, zones[z][i].hdr) /\ u = HdrUse(z, i)
    BY <1>2, <1>3, <1>4, <1>8 DEF OfCell
  <2>1. PICK i \in DOMAIN zones[z] :
           ~IsSmall(z) /\ c = Cell(kmem_slab, zones[z][i].hdr) /\ u = HdrUse(z, i)
    BY <2>11
  <2>22. PICK y \in Zones : \E j \in DOMAIN zones[y] :
           ~IsSmall(y) /\ c = Cell(kmem_slab, zones[y][j].hdr) /\ v = HdrUse(y, j)
    BY <1>2, <1>3, <1>4, <1>8 DEF OfCell
  <2>2. PICK j \in DOMAIN zones[y] :
           ~IsSmall(y) /\ c = Cell(kmem_slab, zones[y][j].hdr) /\ v = HdrUse(y, j)
    BY <2>22
  <2>3. c \in Claims(HeadAt(z, i)) /\ c \in Claims(HeadAt(y, j))  BY <1>5, <2>1, <2>2
  <2>4. z = y /\ i = j  BY <1>6, <2>3
  <2> QED  BY <2>1, <2>2, <2>4
<1>9. CASE c.zone = kmem_bufctl
  <2>11. PICK z \in Zones : \E i \in DOMAIN zones[z] : \E x \in zones[z][i].ctl :
           ~IsSmall(z) /\ c = Cell(kmem_bufctl, x) /\ u = CtlUse(z, i, x)
    BY <1>2, <1>3, <1>4, <1>9 DEF OfCell
  <2>111. PICK i \in DOMAIN zones[z] : \E x \in zones[z][i].ctl :
           ~IsSmall(z) /\ c = Cell(kmem_bufctl, x) /\ u = CtlUse(z, i, x)
    BY <2>11
  <2>1. PICK x \in zones[z][i].ctl : ~IsSmall(z) /\ c = Cell(kmem_bufctl, x) /\ u = CtlUse(z, i, x)
    BY <2>111
  <2>22. PICK y \in Zones : \E j \in DOMAIN zones[y] : \E w \in zones[y][j].ctl :
           ~IsSmall(y) /\ c = Cell(kmem_bufctl, w) /\ v = CtlUse(y, j, w)
    BY <1>2, <1>3, <1>4, <1>9 DEF OfCell
  <2>222. PICK j \in DOMAIN zones[y] : \E w \in zones[y][j].ctl :
           ~IsSmall(y) /\ c = Cell(kmem_bufctl, w) /\ v = CtlUse(y, j, w)
    BY <2>22
  <2>2. PICK w \in zones[y][j].ctl : ~IsSmall(y) /\ c = Cell(kmem_bufctl, w) /\ v = CtlUse(y, j, w)
    BY <2>222
  <2>3. c \in Claims(HeadAt(z, i)) /\ c \in Claims(HeadAt(y, j))  BY <1>5, <2>1, <2>2
  <2>4. z = y /\ i = j  BY <1>6, <2>3
  <2>a. Cell(kmem_bufctl, x) = Cell(kmem_bufctl, w)  BY <2>1, <2>2
  <2>5. x = w  BY <2>a DEF Cell
  <2> QED  BY <2>1, <2>2, <2>4, <2>5
<1> QED  BY <1>7, <1>8, <1>9

\* An allocation of a request, and its one use.
LEMMA SegUse ==
    ASSUME SlabInv, mem.stop = "no", NEW u, NEW s, OfSeg(u, s)
    PROVE  /\ s \in SegsOf(live) /\ \A b \in u.bytes : b \in Nat /\ PageOf(b) \in Units(s)
           /\ \A v : OfSeg(v, s) => u = v
<1>1. /\ Unique(live) /\ live \subseteq LiveType
      /\ \A o \in live : IsDirect(o) => o.addr = PageOf(o.addr) * PGSIZE
  BY SlabFacts
<1>2. PICK o \in live : IsDirect(o) /\ s = SegOf(o) /\ u = ObjectUse(o)  BY DEF OfSeg
<1>3. u.bytes = Bytes(o.addr, o.size)  BY <1>2 DEF ObjectUse, InUse
<1>4. o \in LiveType /\ o.addr = PageOf(o.addr) * PGSIZE  BY <1>1, <1>2
<1>5. \A b \in u.bytes : b \in Nat /\ PageOf(b) \in Units(s)  BY <1>2, <1>3, <1>4, SegSpot
<1>6. s \in SegsOf(live)  BY <1>2 DEF SegsOf
<1>7. \A v : OfSeg(v, s) => u = v
  <2> SUFFICES ASSUME NEW v, OfSeg(v, s) PROVE u = v  OBVIOUS
  <2>1. PICK p \in live : IsDirect(p) /\ s = SegOf(p) /\ v = ObjectUse(p)  BY DEF OfSeg
  <2>2. o = p  BY <1>1, <1>2, <2>1 DEF Unique
  <2> QED  BY <1>2, <2>1, <2>2
<1> QED  BY <1>5, <1>6, <1>7

\* A small slab's header.
LEMMA HeadUse ==
    ASSUME Zoned(zones), NEW u, NEW h, OfHead(u, h)
    PROVE  /\ h \in Heads(zones) /\ IsSmall(h.zone) /\ u.bytes = HeadBytes(h)
           /\ \A v : OfHead(v, h) => u = v
<1>11. PICK z \in Zones : \E i \in DOMAIN zones[z] : IsSmall(z) /\ h = HeadAt(z, i) /\ u = HeaderUse(z, i)
  BY DEF OfHead
<1>1. PICK i \in DOMAIN zones[z] : IsSmall(z) /\ h = HeadAt(z, i) /\ u = HeaderUse(z, i)  BY <1>11
<1>2. h \in Heads(zones)  BY <1>1, OneIndex
<1>3. h.zone = z /\ h.base = zones[z][i].base  BY <1>1 DEF HeadAt, HeadOf
<1>4. u.bytes = HeadBytes(h)  BY <1>1, <1>3 DEF HeadBytes, HeaderUse, InUse
<1>5. \A v : OfHead(v, h) => u = v
  <2> SUFFICES ASSUME NEW v, OfHead(v, h) PROVE u = v  OBVIOUS
  <2>11. PICK y \in Zones : \E j \in DOMAIN zones[y] : h = HeadAt(y, j) /\ v = HeaderUse(y, j)  BY DEF OfHead
  <2>1. PICK j \in DOMAIN zones[y] : h = HeadAt(y, j) /\ v = HeaderUse(y, j)  BY <2>11
  <2>a. HeadAt(z, i) = HeadAt(y, j)  BY <1>1, <2>1
  <2>2. z = y /\ i = j  BY <2>a, OneIndex
  <2> QED  BY <1>1, <2>1, <2>2
<1> QED  BY <1>1, <1>2, <1>3, <1>4, <1>5

\* Bytes outside slabs.
LEMMA SegsApart ==
    ASSUME NEW zs, NEW A, NEW P, Sane(zs, A, P), NEW s \in P, NEW b \in Nat, PageOf(b) \in Units(s)
    PROVE  /\ \A c : IsCell(zs, c) => b \notin CellBytes(c)
           /\ \A h \in Heads(zs) : IsSmall(h.zone) => b \notin HeadBytes(h)
<1>1. Zoned(zs) /\ s \in A  BY DEF Sane
<1>2. ASSUME NEW h \in Heads(zs), h.base <= b, b < h.base + slabsize(h.zone) PROVE FALSE
  <2>1. PageOf(b) \in Units(Room(h)) /\ Room(h) \in A /\ Room(h) \notin P  BY <1>2, RoomOf
  <2> QED  BY <1>1, <2>1 DEF Sane
<1>3. ASSUME NEW c, IsCell(zs, c), b \in CellBytes(c) PROVE FALSE
  <2>1. PICK h \in Heads(zs) : h.base <= b /\ b < h.base + slabsize(h.zone)  BY <1>1, <1>3, CellSpot
  <2> QED  BY <1>2, <2>1
<1>4. ASSUME NEW h \in Heads(zs), IsSmall(h.zone), b \in HeadBytes(h) PROVE FALSE
  <2>1. h.base <= b /\ b < h.base + slabsize(h.zone)  BY <1>1, <1>4, HeadSpot
  <2> QED  BY <1>2, <2>1
<1> QED  BY <1>3, <1>4

\* What is in use at a byte.
LEMMA UsesApart ==
    ASSUME SlabInv, mem.stop = "no", NEW u \in Used, NEW v \in Used, u # v
    PROVE  u.bytes \cap v.bytes = {}
<1> DEFINE A == Allocated(mem.wired)
           P == SegsOf(live)
<1>1. Sane(zones, A, P) /\ Zoned(zones)  BY SlabFacts DEF Sane
<1> HIDE DEF A, P
<1>2. ASSUME NEW x, NEW y, NEW c, NEW d, OfCell(x, c), OfCell(y, d), x # y PROVE x.bytes \cap y.bytes = {}
  <2>1. c # d  BY <1>2, CellUsedOnce
  <2>2. IsCell(zones, c) /\ IsCell(zones, d) /\ x.bytes \subseteq CellBytes(c) /\ y.bytes \subseteq CellBytes(d)
    BY <1>2, CellUse
  <2>3. CellBytes(c) \cap CellBytes(d) = {}  BY <1>1, <2>1, <2>2, CellsApart
  <2> QED  BY <2>2, <2>3
<1>3. ASSUME NEW x, NEW y, NEW s, OfSeg(x, s), NEW c, OfCell(y, c) PROVE x.bytes \cap y.bytes = {}
  <2>1. IsCell(zones, c) /\ y.bytes \subseteq CellBytes(c)  BY <1>3, CellUse
  <2>2. s \in P /\ \A b \in x.bytes : b \in Nat /\ PageOf(b) \in Units(s)  BY <1>3, SegUse DEF P
  <2>3. \A b \in x.bytes : b \notin CellBytes(c)  BY <1>1, <2>1, <2>2, SegsApart
  <2> QED  BY <2>1, <2>3
<1>4. ASSUME NEW x, NEW y, NEW s, OfSeg(x, s), NEW h, OfHead(y, h) PROVE x.bytes \cap y.bytes = {}
  <2>1. h \in Heads(zones) /\ IsSmall(h.zone) /\ y.bytes = HeadBytes(h)  BY <1>1, <1>4, HeadUse
  <2>2. s \in P /\ \A b \in x.bytes : b \in Nat /\ PageOf(b) \in Units(s)  BY <1>4, SegUse DEF P
  <2>3. \A b \in x.bytes : b \notin HeadBytes(h)  BY <1>1, <2>1, <2>2, SegsApart
  <2> QED  BY <2>1, <2>3
<1>5. ASSUME NEW x, NEW y, NEW s, OfSeg(x, s), NEW t, OfSeg(y, t), x # y PROVE x.bytes \cap y.bytes = {}
  <2>1. s # t  BY <1>5, SegUse
  <2>2. s \in P /\ \A b \in x.bytes : PageOf(b) \in Units(s)  BY <1>5, SegUse DEF P
  <2>3. t \in P /\ \A b \in y.bytes : PageOf(b) \in Units(t)  BY <1>5, SegUse DEF P
  <2>4. Units(s) \cap Units(t) = {}  BY <1>1, <2>1, <2>2, <2>3 DEF Sane
  <2> QED  BY <2>2, <2>3, <2>4
<1>6. ASSUME NEW x, NEW y, NEW h, OfHead(x, h), NEW c, OfCell(y, c) PROVE x.bytes \cap y.bytes = {}
  <2>1. h \in Heads(zones) /\ IsSmall(h.zone) /\ x.bytes = HeadBytes(h)  BY <1>1, <1>6, HeadUse
  <2>2. IsCell(zones, c) /\ y.bytes \subseteq CellBytes(c)  BY <1>6, CellUse
  <2>3. HeadBytes(h) \cap CellBytes(c) = {}  BY <1>1, <2>1, <2>2, HeadsApart
  <2> QED  BY <2>1, <2>2, <2>3
<1>7. ASSUME NEW x, NEW y, NEW h, OfHead(x, h), NEW g, OfHead(y, g), x # y PROVE x.bytes \cap y.bytes = {}
  <2>1. h \in Heads(zones) /\ IsSmall(h.zone) /\ x.bytes = HeadBytes(h) /\ h # g  BY <1>1, <1>7, HeadUse
  <2>2. g \in Heads(zones) /\ IsSmall(g.zone) /\ y.bytes = HeadBytes(g)  BY <1>1, <1>7, HeadUse
  <2>3. HeadBytes(h) \cap HeadBytes(g) = {}  BY <1>1, <2>1, <2>2, HeadsApart
  <2> QED  BY <2>1, <2>2, <2>3
<1>8. (\E c : OfCell(u, c)) \/ (\E s : OfSeg(u, s)) \/ (\E h : OfHead(u, h))  BY UsedKinds
<1>9. (\E c : OfCell(v, c)) \/ (\E s : OfSeg(v, s)) \/ (\E h : OfHead(v, h))  BY UsedKinds
<1>10. u.bytes \cap v.bytes = v.bytes \cap u.bytes  OBVIOUS
<1> QED  BY <1>2, <1>3, <1>4, <1>5, <1>6, <1>7, <1>8, <1>9, <1>10

\* All of it is in wired memory.
LEMMA UsesBacked ==
    ASSUME SlabInv, mem.stop = "no", NEW u \in Used, NEW b \in u.bytes
    PROVE  PageOf(b) \in KHeap /\ mem.kmap[PageOf(b)] # NoPage
<1> DEFINE A == Allocated(mem.wired)
           P == SegsOf(live)
<1>1. Sane(zones, A, P) /\ Zoned(zones) /\ GoodMem(mem)  BY SlabFacts DEF Sane
<1>2. Mapped(mem.kmap) = UNION {Units(s) : s \in A}
  BY <1>1 DEF GoodMem, Sound, Running, Backed
<1> HIDE DEF A, P
<1>3. \E s \in A : PageOf(b) \in Units(s)
  <2>1. ASSUME NEW c, OfCell(u, c) PROVE \E s \in A : PageOf(b) \in Units(s)
    <3>1. IsCell(zones, c) /\ b \in CellBytes(c)  BY <2>1, CellUse
    <3>2. b \in Nat  BY <1>1, <3>1, CellSpot
    <3>3. PICK h \in Heads(zones) : h.base <= b /\ b < h.base + slabsize(h.zone)  BY <1>1, <3>1, CellSpot
    <3> QED  BY <1>1, <3>2, <3>3, RoomOf
  <2>2. ASSUME NEW s, OfSeg(u, s) PROVE \E t \in A : PageOf(b) \in Units(t)
    <3>1. s \in P /\ PageOf(b) \in Units(s)  BY <2>2, SegUse DEF P
    <3> QED  BY <1>1, <3>1 DEF Sane
  <2>3. ASSUME NEW h, OfHead(u, h) PROVE \E s \in A : PageOf(b) \in Units(s)
    <3>1. h \in Heads(zones) /\ IsSmall(h.zone) /\ b \in HeadBytes(h)  BY <1>1, <2>3, HeadUse
    <3>2. b \in Nat /\ h.base <= b /\ b < h.base + slabsize(h.zone)  BY <1>1, <3>1, HeadSpot
    <3> QED  BY <1>1, <3>1, <3>2, RoomOf
  <2> QED  BY <2>1, <2>2, <2>3, UsedKinds
<1>4. PageOf(b) \in Mapped(mem.kmap)  BY <1>2, <1>3
<1> QED  BY <1>4 DEF Mapped

\* What the invariant says of the runs' properties.
LEMMA SlabDisjoint == ASSUME SlabInv PROVE ObjectsDisjoint
BY UsesApart, UsesBacked DEF ObjectsDisjoint

\* And of the free lists.
LEMMA SlabCounted == ASSUME SlabInv PROVE SlabCounts
<1> SUFFICES ASSUME NEW z \in Zones, NEW i \in DOMAIN zones[z]
             PROVE  LET s == zones[z][i]
                    IN  /\ s.nfree \in 0 .. slabcapacity(z)
                        /\ s.nfree = Len(s.free)
                        /\ IsInjective(s.free)
                        /\ Range(s.free) \subseteq Range(Objects(s.base, z))
                        /\ mem.stop = "no" => \A b \in Range(s.free) :
                               \A u \in Used : Bytes(b, ZoneSize(z)) \cap u.bytes = {}
  BY DEF SlabCounts
<1>1. Zoned(zones)
  <2>1. PICK k : k = Now  OBVIOUS
  <2>2. k.zones = zones  BY <2>1 DEF Now
  <2>3. Zoned(k.zones)  BY <2>1 DEF SlabInv, LiveOK, Kept, Tidy
  <2> QED  BY <2>2, <2>3
<1>2. PICK s : s = zones[z][i]  OBVIOUS
<1>3. SlabOK(z, s)  BY <1>1, <1>2 DEF Zoned, ZoneOK
<1>4. s.nfree \in Nat /\ s.base \in Nat  BY <1>3 DEF SlabOK, SlabType
<1>5. s.nfree \in 0 .. slabcapacity(z)
  <2>1. PICK c \in Nat : c = slabcapacity(z)  BY ZoneNumbers
  <2> QED  BY <1>3, <1>4, <2>1 DEF SlabOK
<1>6. ASSUME mem.stop = "no", NEW b \in Range(s.free), NEW u \in Used
      PROVE  Bytes(b, ZoneSize(z)) \cap u.bytes = {}
  <2> DEFINE A == Allocated(mem.wired)
             P == SegsOf(live)
  <2>1. Sane(zones, A, P)  BY <1>6, SlabFacts
  <2> HIDE DEF A, P
  <2>2. PICK c : c = Cell(z, b)  OBVIOUS
  <2>3. c.zone = z /\ c.addr = b /\ c = Cell(c.zone, c.addr)  BY <2>2 DEF Cell
  <2>4. b \in ObjectsIn(z, zones[z])
    <3>1. b \in Range(Objects(s.base, z))  BY <1>3, <1>6 DEF SlabOK
    <3>2. HeadOf(z, s) \in HeadsOf(z, zones[z]) /\ HeadOf(z, s).base = s.base  BY <1>2 DEF HeadsOf, HeadOf
    <3> QED  BY <3>1, <3>2 DEF ObjectsIn
  <2>5. IsCell(zones, c) /\ CellBytes(c) = Bytes(b, ZoneSize(z))  BY <2>3, <2>4 DEF IsCell, CellBytes
  <2>6. b \in FreeAddrs(zones[z])  BY <1>2, <1>6 DEF FreeAddrs
  <2>7. ASSUME NEW d, OfCell(u, d) PROVE CellBytes(c) \cap u.bytes = {}
    <3>1. IsCell(zones, d) /\ d.addr \notin FreeAddrs(zones[d.zone]) /\ u.bytes \subseteq CellBytes(d)
      BY <1>6, <2>7, CellUse
    <3>2. c # d  BY <2>3, <2>6, <3>1
    <3>3. CellBytes(c) \cap CellBytes(d) = {}  BY <2>1, <2>5, <3>1, <3>2, CellsApart
    <3> QED  BY <3>1, <3>3
  <2>8. ASSUME NEW t, OfSeg(u, t) PROVE CellBytes(c) \cap u.bytes = {}
    <3>1. t \in P /\ \A x \in u.bytes : x \in Nat /\ PageOf(x) \in Units(t)  BY <1>6, <2>8, SegUse DEF P
    <3>2. \A x \in u.bytes : x \notin CellBytes(c)  BY <2>1, <2>5, <3>1, SegsApart
    <3> QED  BY <3>2
  <2>9. ASSUME NEW h, OfHead(u, h) PROVE CellBytes(c) \cap u.bytes = {}
    <3>1. h \in Heads(zones) /\ IsSmall(h.zone) /\ u.bytes = HeadBytes(h)  BY <1>1, <2>9, HeadUse
    <3>2. HeadBytes(h) \cap CellBytes(c) = {}  BY <2>1, <2>5, <3>1, HeadsApart
    <3> QED  BY <3>1, <3>2
  <2> QED  BY <2>5, <2>7, <2>8, <2>9, UsedKinds
<1> QED  BY <1>2, <1>3, <1>5, <1>6 DEF SlabOK

------------------------------------------------------------------------------
\* Theorems of the specification.

\* The heap's invariant holds in every behaviour of the system's memory.
LEMMA HeapAlways == Spec => []HeapInv
<1>1. Init => HeapInv
  <2> SUFFICES ASSUME Init PROVE HeapInv  OBVIOUS
  <2>1. mem = vm_kernel_init /\ live = {}  BY DEF Init, kmem_init
  <2> QED  BY <2>1, HeapStart DEF HeapInv, Owned
<1>2. HeapInv /\ [Next]_<<part, kmem_vars, vm_vars, page_vars>> => HeapInv'
  <2> SUFFICES ASSUME HeapInv, [Next]_<<part, kmem_vars, vm_vars, page_vars>> PROVE HeapInv'
    OBVIOUS
  <2>1. CASE KmemNext  BY <2>1, HeapStep
  <2>2. CASE UNCHANGED kmem_vars  BY <2>2 DEF kmem_vars, HeapInv
  <2> QED  BY <2>1, <2>2 DEF Next
<1> QED  BY <1>1, <1>2, PTL DEF Spec

\* The segments of both arenas stay in order, each in its span, and the freelists
\* hold exactly the free ones, for arenas of any size and whatever is allocated and
\* freed (vmem_xalloc and vmem_xfree of vmem.c).
THEOREM ArenasStayIntact == Spec => []ArenasIntact
BY HeapAlways, HeapArenas, PTL

\* seg_alloc never finds the reserve of tags empty, although seg_refill allocates
\* from the arenas that it refills, and no tag is lost (vmem.c).
THEOREM TagsSuffice == Spec => []TagReserve
BY HeapAlways, HeapTags, PTL

\* The wired arena's allocations are those of kernel-va and have pages of their own,
\* and the other pages are free, through every vm_kalloc and vm_kfree
\* (vm_kernel.c).
THEOREM WiredStaysBacked == Spec => []WiredBacked
BY HeapAlways, HeapBacked, PTL

\* zonenum finds the smallest zone for each size (kmem_slab.c).
THEOREM ZonesFit == Spec => []ZoneFits
<1>1. ZoneMax = 4096  BY DEF ZoneMax, ZONE_SIZES
<1>2. zonenum(ZoneMax + 1) = -1  BY <1>1 DEF zonenum
<1>3. \A size \in 1 .. ZoneMax : ZoneFound(size)
  <2> SUFFICES ASSUME NEW size \in 1 .. ZoneMax PROVE ZoneFound(size)  OBVIOUS
  <2>1. PICK z \in Nat : z = ZoneMax  BY <1>1
  <2>2. size \in Nat /\ 0 < size /\ size <= z  BY <2>1
  <2>3. z = 4096  BY <1>1, <2>1
  <2> QED  BY <2>2, <2>3, ZonesFound
<1>4. ZoneFits
  <2> HIDE DEF ZoneMax
  <2> QED  BY <1>2, <1>3, Zenon DEF ZoneFits, ZoneFound
<1> QED  BY <1>4, PTL
\* The slab allocator's invariant holds in every behaviour of the system's memory.
LEMMA SlabAlways == Spec => []SlabInv
<1>1. Init => SlabInv  BY SlabStart DEF Init
<1>2. SlabInv /\ [Next]_<<part, kmem_vars, vm_vars, page_vars>> => SlabInv'
  <2> SUFFICES ASSUME SlabInv, [Next]_<<part, kmem_vars, vm_vars, page_vars>> PROVE SlabInv'
    OBVIOUS
  <2>1. CASE KmemNext  BY <2>1, SlabStep
  <2>2. CASE UNCHANGED kmem_vars
    <3>1. mem' = mem /\ zones' = zones /\ live' = live  BY <2>2 DEF kmem_vars
    <3>2. Now' = Now  BY <3>1 DEF Now
    <3> QED  BY <3>1, <3>2 DEF SlabInv
  <2> QED  BY <2>1, <2>2 DEF Next
<1> QED  BY <1>1, <1>2, PTL DEF Spec

\* No two of the live objects, slab headers and bufctls share a byte, and each lies in
\* allocated wired memory, for zones, slabs and requests of any size and however the
\* allocations, frees and reallocations follow each other (kmem_zonealloc,
\* kmem_zonefree, small_slab_new and large_slab_new of kmem_slab.c).
THEOREM ObjectsStayDisjoint == Spec => []ObjectsDisjoint
BY SlabAlways, SlabDisjoint, PTL

\* A slab's nfree is the length of its free list, which holds objects of that slab
\* only, each once, and none that is in use as an object, a header or a bufctl
\* (kmem_zonealloc and kmem_zonefree of kmem_slab.c).
THEOREM FreeListsExact == Spec => []SlabCounts
BY SlabAlways, SlabCounted, PTL
===============================================================================
