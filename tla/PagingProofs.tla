----------------------------- MODULE PagingProofs -----------------------------
(***************************************************************************)
(* Proofs about PageQueue, for any number of pages, and about the address  *)
(* spaces of VirtualMemory, in Memory, for any number of maps, objects and *)
(* anons and address spaces of any size.                                   *)
(***************************************************************************)
EXTENDS MemoryProofs

------------------------------------------------------------------------------
\* Types, for any number of threads.

\* A counter that is one more or one less stays within its width.
LEMMA CounterStep ==
    ASSUME NEW n \in 0 .. Counter - 1
    PROVE  (n + 1) % Counter \in 0 .. Counter - 1 /\ (n - 1) % Counter \in 0 .. Counter - 1
BY PageAssumption

\* The page of a call is a page.
CallInv == \A t \in Procs : pc[t] # "idle" => page[t] \in Pages

\* One step of a thread keeps the types.
LEMMA PageTypeNext == PageTypeOK /\ CallInv /\ [PageNext]_page_vars => PageTypeOK' /\ CallInv'
<1> SUFFICES ASSUME PageTypeOK, CallInv, [PageNext]_page_vars
             PROVE  PageTypeOK' /\ CallInv'
  OBVIOUS
<1> USE DEF PageTypeOK, CallInv
<1>1. NULL \notin Pages /\ "free" \in Queues /\ Uses \subseteq Queues
  BY PageAssumption DEF Queues
<1>2. \A p : vm_page_queue(p) \in Queues  BY DEF vm_page_queue, Queues
<1>3. ASSUME NEW t \in Procs, NEW q \in Uses, vm_pagealloc(t, q)
      PROVE  PageTypeOK' /\ CallInv'
  BY <1>1, <1>3 DEF vm_pagealloc, links
<1>4. ASSUME NEW t \in Procs, NEW p \in Pages, vm_page_free(t, p)
      PROVE  PageTypeOK' /\ CallInv'
  BY <1>1, <1>2, <1>4 DEF vm_page_free, links
<1>5. ASSUME NEW t \in Procs, LockFrom(t)
      PROVE  PageTypeOK' /\ CallInv'
  BY <1>5 DEF LockFrom, links, call
<1>6. ASSUME NEW t \in Procs, RemoveNext(t)
      PROVE  PageTypeOK' /\ CallInv'
  BY <1>6 DEF RemoveNext, call
<1>7. ASSUME NEW t \in Procs, RemovePrev(t)
      PROVE  PageTypeOK' /\ CallInv'
  <2>1. npages' \in [Queues -> 0 .. Counter - 1]  BY <1>7, CounterStep DEF RemovePrev
  <2> QED  BY <1>7, <2>1 DEF RemovePrev, call
<1>8. ASSUME NEW t \in Procs, InsertNext(t)
      PROVE  PageTypeOK' /\ CallInv'
  BY <1>8 DEF InsertNext, call
<1>9. ASSUME NEW t \in Procs, InsertFirst(t)
      PROVE  PageTypeOK' /\ CallInv'
  <2>1. npages' \in [Queues -> 0 .. Counter - 1]  BY <1>9, CounterStep DEF InsertFirst
  <2> QED  BY <1>9, <2>1 DEF InsertFirst, call
<1>10. CASE UNCHANGED page_vars  BY <1>10 DEF page_vars, links, call
<1> QED  BY <1>3, <1>4, <1>5, <1>6, <1>7, <1>8, <1>9, <1>10 DEF PageNext

------------------------------------------------------------------------------
\* Lists.

\* On S, w is v but for the back link of h, which is b.
Redirected(v, w, S, h, b) == \A x \in S : w[x] = IF x = h THEN b ELSE v[x]

\* TAILQ_REMOVE unlinks a page from whichever list it is on.
LEMMA UnlinkPage ==
    ASSUME NEW S \in SUBSET Pages, NEW p \in S,
           NEW f \in [Queues -> Pages \cup {NULL}],
           NEW n \in [Pages -> Pages \cup {NULL}],
           NEW v \in [Pages -> Pages \cup Queues],
           NEW v2 \in [Pages -> Pages \cup Queues], NEW f2, NEW n2,
           Linked(f, n, v, S),
           Redirected(v, v2, S, n[p], v[p]),
           f2 = IF v[p] \in Queues THEN [f EXCEPT ![v[p]] = n[p]] ELSE f,
           n2 = IF v[p] \in Pages THEN [n EXCEPT ![v[p]] = n[p]] ELSE n
    PROVE  Linked(f2, n2, v2, S \ {p})
<1>1. NULL \notin Pages /\ Pages \cap Queues = {}  BY PageAssumption
<1>2. ASSUME NEW q \in Queues, f2[q] # NULL
      PROVE  f2[q] \in S \ {p} /\ v2[f2[q]] = q
  BY <1>1, <1>2 DEF Linked, Redirected
<1>3. ASSUME NEW x \in S \ {p}, n2[x] # NULL
      PROVE  n2[x] \in S \ {p} /\ v2[n2[x]] = x
  BY <1>1, <1>3 DEF Linked, Redirected
<1>4. ASSUME NEW x \in S \ {p}, v2[x] \in Queues
      PROVE  f2[v2[x]] = x
  BY <1>1, <1>4 DEF Linked, Redirected
<1>5. ASSUME NEW x \in S \ {p}, v2[x] \in Pages
      PROVE  v2[x] \in S \ {p} /\ n2[v2[x]] = x
  BY <1>1, <1>5 DEF Linked, Redirected
<1> QED  BY <1>2, <1>3, <1>4, <1>5 DEF Linked

\* TAILQ_INSERT_HEAD links a page that is on no list into one.
LEMMA InsertPage ==
    ASSUME NEW S \in SUBSET Pages, NEW p \in Pages, p \notin S, NEW q \in Queues,
           NEW f \in [Queues -> Pages \cup {NULL}],
           NEW n \in [Pages -> Pages \cup {NULL}],
           NEW v \in [Pages -> Pages \cup Queues],
           NEW v2 \in [Pages -> Pages \cup Queues], NEW f2,
           Linked(f, n, v, S), n[p] = f[q], v2[p] = q,
           Redirected(v, v2, S, f[q], p),
           f2 = [f EXCEPT ![q] = p]
    PROVE  Linked(f2, n, v2, S \cup {p})
<1>1. NULL \notin Pages /\ Pages \cap Queues = {}  BY PageAssumption
<1>2. ASSUME NEW r \in Queues, f2[r] # NULL
      PROVE  f2[r] \in S \cup {p} /\ v2[f2[r]] = r
  BY <1>1, <1>2 DEF Linked, Redirected
<1>3. ASSUME NEW x \in S \cup {p}, n[x] # NULL
      PROVE  n[x] \in S \cup {p} /\ v2[n[x]] = x
  BY <1>1, <1>3 DEF Linked, Redirected
<1>4. ASSUME NEW x \in S \cup {p}, v2[x] \in Queues
      PROVE  f2[v2[x]] = x
  BY <1>1, <1>4 DEF Linked, Redirected
<1>5. ASSUME NEW x \in S \cup {p}, v2[x] \in Pages
      PROVE  v2[x] \in S \cup {p} /\ n[v2[x]] = x
  BY <1>1, <1>5 DEF Linked, Redirected
<1> QED  BY <1>2, <1>3, <1>4, <1>5 DEF Linked

\* Unlinking a page makes no ring of the others: one that went through its place
\* would have been a ring with the page in it.
LEMMA UnlinkGrounded ==
    ASSUME NEW S, NEW p \in S, NEW v, NEW v2, NEW h,
           Grounded(v, S), h \in S => v[h] = p,
           Redirected(v, v2, S, h, v[p])
    PROVE  Grounded(v2, S \ {p})
<1> SUFFICES ASSUME NEW T \in SUBSET (S \ {p}), T # {}
             PROVE  \E x \in T : v2[x] \notin T
  BY DEF Grounded
<1>1. CASE h \notin T
  <2>1. PICK x \in T : v[x] \notin T  BY DEF Grounded
  <2> QED  BY <1>1, <2>1 DEF Redirected
<1>2. CASE h \in T
  <2>1. PICK x \in T \cup {p} : v[x] \notin T \cup {p}
    <3>1. T \cup {p} \in SUBSET S /\ T \cup {p} # {}  OBVIOUS
    <3> QED  BY <3>1 DEF Grounded
  <2>2. x # h  BY <1>2, <2>1
  <2>3. CASE x = p  BY <1>2, <2>1, <2>3 DEF Redirected
  <2>4. CASE x # p  BY <2>1, <2>2, <2>4 DEF Redirected
  <2> QED  BY <2>3, <2>4
<1> QED  BY <1>1, <1>2

\* Neither does a page that becomes the head of a queue.
LEMMA InsertGrounded ==
    ASSUME NEW S, S \subseteq Pages, NEW p \in Pages, p \notin S, NEW v, NEW v2, NEW h,
           Grounded(v, S), v2[p] \notin Pages,
           Redirected(v, v2, S, h, p)
    PROVE  Grounded(v2, S \cup {p})
<1> SUFFICES ASSUME NEW T \in SUBSET (S \cup {p}), T # {}
             PROVE  \E x \in T : v2[x] \notin T
  BY DEF Grounded
<1>1. CASE p \in T  BY <1>1
<1>2. CASE p \notin T
  <2>1. PICK x \in T : v[x] \notin T
    <3>1. T \in SUBSET S  BY <1>2
    <3> QED  BY <3>1 DEF Grounded
  <2> QED  BY <1>2, <2>1 DEF Redirected
<1> QED  BY <1>1, <1>2

------------------------------------------------------------------------------
\* The state that mem_init leaves behind.

\* The pages of the two lists at boot are different ones.
LEMMA BootLists ==
    /\ DOMAIN FreePages = 1 .. Len(FreePages) /\ Len(FreePages) \in Nat
    /\ DOMAIN BootPages = 1 .. Len(BootPages) /\ Len(BootPages) \in Nat
    /\ IsInjective(FreePages) /\ IsInjective(BootPages)
    /\ Range(FreePages) \cap Range(BootPages) = {}
    /\ Pages = Range(FreePages) \cup Range(BootPages)
<1>1. PICK F : FreePages \in Seq(F)  BY PageAssumption
<1>2. PICK B : BootPages \in Seq(B)  BY PageAssumption
<1> DEFINE A == FreePages \o BootPages
           n == Len(FreePages)
           m == Len(BootPages)
<1>3. /\ n \in Nat /\ m \in Nat
      /\ DOMAIN FreePages = 1 .. n /\ DOMAIN BootPages = 1 .. m
  BY <1>1, <1>2
<1>4. /\ DOMAIN A = 1 .. n + m
      /\ \A i \in 1 .. n : A[i] = FreePages[i]
      /\ \A i \in 1 .. m : A[n + i] = BootPages[i]
  BY <1>1, <1>2, <1>3
<1>5. \A i, j \in 1 .. n + m : A[i] = A[j] => i = j
  BY <1>4, PageAssumption DEF IsInjective
<1> HIDE DEF A, n, m
<1>6. \A i, j \in 1 .. n : FreePages[i] = FreePages[j] => i = j
  BY <1>3, <1>4, <1>5
<1>7. \A i, j \in 1 .. m : BootPages[i] = BootPages[j] => i = j
  <2> SUFFICES ASSUME NEW i \in 1 .. m, NEW j \in 1 .. m, BootPages[i] = BootPages[j]
               PROVE  i = j
    OBVIOUS
  <2>1. n + i \in 1 .. n + m /\ n + j \in 1 .. n + m  BY <1>3
  <2>2. n + i = n + j  BY <1>4, <1>5, <2>1
  <2> QED  BY <1>3, <2>2
<1>8. \A i \in 1 .. n, j \in 1 .. m : FreePages[i] # BootPages[j]
  <2> SUFFICES ASSUME NEW i \in 1 .. n, NEW j \in 1 .. m, FreePages[i] = BootPages[j]
               PROVE  FALSE
    OBVIOUS
  <2>1. i \in 1 .. n + m /\ n + j \in 1 .. n + m /\ i # n + j  BY <1>3
  <2> QED  BY <1>4, <1>5, <2>1
<1>9. {A[i] : i \in 1 .. n + m} = {FreePages[i] : i \in 1 .. n} \cup {BootPages[i] : i \in 1 .. m}
  <2>1. ASSUME NEW i \in 1 .. n + m
        PROVE  A[i] \in {FreePages[j] : j \in 1 .. n} \cup {BootPages[j] : j \in 1 .. m}
    <3>1. CASE i \in 1 .. n  BY <1>4, <3>1
    <3>2. CASE i \notin 1 .. n
      <4>1. i - n \in 1 .. m /\ n + (i - n) = i  BY <1>3, <3>2
      <4> QED  BY <1>4, <4>1
    <3> QED  BY <3>1, <3>2
  <2>2. \A i \in 1 .. n : i \in 1 .. n + m  BY <1>3
  <2>3. \A i \in 1 .. m : n + i \in 1 .. n + m  BY <1>3
  <2> QED  BY <1>4, <2>1, <2>2, <2>3
<1>10. Pages = {A[i] : i \in 1 .. n + m}  BY <1>4 DEF Pages, Range, A
<1>11. /\ Range(FreePages) = {FreePages[i] : i \in 1 .. n}
       /\ Range(BootPages) = {BootPages[i] : i \in 1 .. m}
  BY <1>3 DEF Range
<1>12. n = Len(FreePages) /\ m = Len(BootPages)  BY DEF n, m
<1>13. Range(FreePages) \cap Range(BootPages) = {}  BY <1>8, <1>11
<1>14. Pages = Range(FreePages) \cup Range(BootPages)  BY <1>9, <1>10, <1>11
<1>15. IsInjective(FreePages) /\ IsInjective(BootPages)  BY <1>3, <1>6, <1>7 DEF IsInjective
<1> QED  BY <1>3, <1>12, <1>13, <1>14, <1>15

\* The neighbours of a page on a list.
LEMMA Neighbours ==
    ASSUME NEW s, DOMAIN s = 1 .. Len(s), Len(s) \in Nat, IsInjective(s), NEW q,
           NEW i \in 1 .. Len(s)
    PROVE  /\ After(s, s[i]) = IF i = Len(s) THEN NULL ELSE s[i + 1]
           /\ Before(s, q, s[i]) = IF i = 1 THEN q ELSE s[i - 1]
<1>1. Position(s, s[i]) = i  BY DEF IsInjective, Position
<1> QED  BY <1>1 DEF After, Before

\* mem_init's lists are linked, and only free pages are on the free queue.
LEMMA PageInitInv == PageInit => PageInv
<1> SUFFICES ASSUME PageInit PROVE PageInv  OBVIOUS
<1> DEFINE list(q) == CASE q = "free" -> FreePages [] q = "pmap" -> BootPages [] OTHER -> <<>>
           L == {"free", "pmap"}
<1>1. /\ NULL \notin Pages /\ Pages \cap Queues = {} /\ L \subseteq Queues
      /\ Counter \in Nat /\ Counter > 0
  <2>1. PICK F : FreePages \in Seq(F)  BY PageAssumption
  <2>2. PICK B : BootPages \in Seq(B)  BY PageAssumption
  <2>3. Len(FreePages \o BootPages) \in Nat  BY <2>1, <2>2
  <2> QED  BY <2>3, PageAssumption DEF Queues
<1>2. ASSUME NEW q \in L
      PROVE  /\ DOMAIN list(q) = 1 .. Len(list(q)) /\ Len(list(q)) \in Nat /\ IsInjective(list(q))
             /\ (list(q) = <<>>) = (Len(list(q)) = 0)
             /\ \A i \in 1 .. Len(list(q)) : list(q)[i] \in Pages /\ vm_page_queue(list(q)[i]) = q
  <2>1. PICK F : list(q) \in Seq(F)  BY PageAssumption
  <2> QED  BY <2>1, BootLists DEF vm_page_queue, Range
<1>3. ASSUME NEW p \in Pages
      PROVE  \E i \in 1 .. Len(list(vm_page_queue(p))) : p = list(vm_page_queue(p))[i]
  BY BootLists DEF vm_page_queue, Range
<1>4. ASSUME NEW q \in L, NEW i \in 1 .. Len(list(q))
      PROVE  /\ next[list(q)[i]] = IF i = Len(list(q)) THEN NULL ELSE list(q)[i + 1]
             /\ prev[list(q)[i]] = IF i = 1 THEN q ELSE list(q)[i - 1]
  <2>1. /\ next[list(q)[i]] = After(list(q), list(q)[i])
        /\ prev[list(q)[i]] = Before(list(q), q, list(q)[i])
    BY <1>2 DEF PageInit
  <2>2. /\ DOMAIN list(q) = 1 .. Len(list(q)) /\ Len(list(q)) \in Nat /\ IsInjective(list(q))
    BY <1>2
  <2> HIDE DEF list
  <2>3. /\ After(list(q), list(q)[i]) = IF i = Len(list(q)) THEN NULL ELSE list(q)[i + 1]
        /\ Before(list(q), q, list(q)[i]) = IF i = 1 THEN q ELSE list(q)[i - 1]
    BY <2>2, Neighbours
  <2> QED  BY <2>1, <2>3
<1>5. /\ \A q \in L : first[q] = IF Len(list(q)) = 0 THEN NULL ELSE list(q)[1]
      /\ \A q \in Queues \ L : first[q] = NULL
  BY <1>1, <1>2 DEF PageInit
<1>6. \A p \in Pages : vm_page_queue(p) \in L  BY DEF vm_page_queue
<1> HIDE DEF list
<1> DEFINE At(p, q, i) ==
        /\ p = list(q)[i] /\ Len(list(q)) \in Nat /\ q \in Queues
        /\ next[p] = IF i = Len(list(q)) THEN NULL ELSE list(q)[i + 1]
        /\ prev[p] = IF i = 1 THEN q ELSE list(q)[i - 1]
        /\ i # Len(list(q)) => /\ i + 1 \in 1 .. Len(list(q)) /\ (i + 1) - 1 = i /\ i + 1 # 1
                               /\ list(q)[i + 1] \in Pages
        /\ i # 1 => /\ i - 1 \in 1 .. Len(list(q)) /\ (i - 1) + 1 = i /\ i - 1 # Len(list(q))
                    /\ list(q)[i - 1] \in Pages
<1>7. ASSUME NEW p \in Pages
       PROVE  \E q \in L : \E i \in 1 .. Len(list(q)) : At(p, q, i)
  <2>1. vm_page_queue(p) \in L  BY <1>6
  <2>2. PICK q \in L : q = vm_page_queue(p)  BY <2>1
  <2>3. PICK i \in 1 .. Len(list(q)) : p = list(q)[i]  BY <1>3, <2>2
  <2>4. /\ Len(list(q)) \in Nat /\ q \in Queues
        /\ i # Len(list(q)) => i + 1 \in 1 .. Len(list(q)) /\ (i + 1) - 1 = i /\ i + 1 # 1
        /\ i # 1 => i - 1 \in 1 .. Len(list(q)) /\ (i - 1) + 1 = i /\ i - 1 # Len(list(q))
    BY <1>1, <1>2
  <2>5. /\ i # Len(list(q)) => list(q)[i + 1] \in Pages
        /\ i # 1 => list(q)[i - 1] \in Pages
    BY <1>2, <2>4
  <2>6. /\ next[p] = IF i = Len(list(q)) THEN NULL ELSE list(q)[i + 1]
        /\ prev[p] = IF i = 1 THEN q ELSE list(q)[i - 1]
    BY <1>4, <2>3
  <2> QED  BY <2>3, <2>4, <2>5, <2>6
<1>8. /\ first \in [Queues -> Pages \cup {NULL}]
      /\ next \in [Pages -> Pages \cup {NULL}]
      /\ prev \in [Pages -> Pages \cup Queues]
  <2>1. DOMAIN first = Queues /\ DOMAIN next = Pages /\ DOMAIN prev = Pages  BY DEF PageInit
  <2>2. \A q \in Queues : first[q] \in Pages \cup {NULL}  BY <1>2, <1>5
  <2>3. ASSUME NEW p \in Pages
        PROVE  next[p] \in Pages \cup {NULL} /\ prev[p] \in Pages \cup Queues
    <3>q. PICK q \in L : \E i \in 1 .. Len(list(q)) : At(p, q, i)  BY <1>7
    <3>1. PICK i \in 1 .. Len(list(q)) : At(p, q, i)  BY <3>q
    <3> QED  BY <3>1
  <2>4. first = [q \in DOMAIN first |-> first[q]] /\ next = [p \in DOMAIN next |-> next[p]]
        /\ prev = [p \in DOMAIN prev |-> prev[p]]
    BY DEF PageInit
  <2> QED  BY <2>1, <2>2, <2>3, <2>4
<1>9. npages \in [Queues -> 0 .. Counter - 1]
  <2>1. PICK F : FreePages \in Seq(F)  BY PageAssumption
  <2>2. PICK B : BootPages \in Seq(B)  BY PageAssumption
  <2>3. Len(FreePages \o BootPages) = Len(FreePages) + Len(BootPages)  BY <2>1, <2>2
  <2>4. /\ Len(FreePages) \in 0 .. Counter - 1 /\ Len(BootPages) \in 0 .. Counter - 1
        /\ Len(<<>>) \in 0 .. Counter - 1
    BY <1>1, <2>3, BootLists, PageAssumption
  <2> QED  BY <2>4 DEF PageInit
<1>10. PageTypeOK  BY <1>1, <1>8, <1>9 DEF PageInit, PageTypeOK
<1>11. Away = {} /\ OnFree = Range(FreePages)
  BY DEF PageInit, Away, Freeing, OnFree
<1>12. \A t \in Procs : Mended(t) = prev  BY DEF PageInit, Mended
<1>13. Linked(first, next, prev, Pages)
  <2>1. ASSUME NEW q \in Queues, first[q] # NULL
        PROVE  first[q] \in Pages /\ prev[first[q]] = q
    BY <1>2, <1>4, <1>5, <2>1
  <2>2. ASSUME NEW p \in Pages
        PROVE  /\ next[p] # NULL => next[p] \in Pages /\ prev[next[p]] = p
               /\ prev[p] \in Queues => first[prev[p]] = p
               /\ prev[p] \in Pages => prev[p] \in Pages /\ next[prev[p]] = p
    <3>q. PICK q \in L : \E i \in 1 .. Len(list(q)) : At(p, q, i)  BY <1>7
    <3>1. PICK i \in 1 .. Len(list(q)) : At(p, q, i)  BY <3>q
    <3>2. ASSUME next[p] # NULL
          PROVE  next[p] \in Pages /\ prev[next[p]] = p
      <4>1. prev[list(q)[i + 1]] = list(q)[(i + 1) - 1]  BY <1>4, <3>1, <3>2
      <4> QED  BY <3>1, <3>2, <4>1
    <3>3. ASSUME prev[p] \in Queues
          PROVE  first[prev[p]] = p
      BY <1>1, <1>5, <3>1, <3>3
    <3>4. ASSUME prev[p] \in Pages
          PROVE  next[prev[p]] = p
      <4>1. i # 1  BY <1>1, <3>1, <3>4
      <4>2. next[list(q)[i - 1]] = list(q)[(i - 1) + 1]  BY <1>4, <3>1, <4>1
      <4> QED  BY <3>1, <4>1, <4>2
    <3> QED  BY <3>2, <3>3, <3>4
  <2> QED  BY <2>1, <2>2 DEF Linked
<1>14. ASSUME NEW q \in Queues, first[q] # NULL
       PROVE  q = "free" <=> first[q] \in Range(FreePages)
  BY <1>2, <1>5, <1>14 DEF vm_page_queue
<1>15. ASSUME NEW p \in Pages, next[p] # NULL
       PROVE  p \in Range(FreePages) <=> next[p] \in Range(FreePages)
  <2>1. PICK i \in 1 .. Len(list(vm_page_queue(p))) : p = list(vm_page_queue(p))[i]
    BY <1>3
  <2>2. vm_page_queue(next[p]) = vm_page_queue(p)  BY <1>2, <1>4, <1>6, <1>15, <2>1
  <2> QED  BY <2>2 DEF vm_page_queue
<1>16. Grounded(prev, Pages)
  <2> SUFFICES ASSUME NEW T \in SUBSET Pages, T # {}
               PROVE  \E x \in T : prev[x] \notin T
    BY DEF Grounded
  <2>1. PICK p \in T : TRUE  OBVIOUS
  <2>q. PICK q \in L : \E i \in 1 .. Len(list(q)) : At(p, q, i)  BY <1>7
  <2> DEFINE I == {i \in 1 .. Len(list(q)) : list(q)[i] \in T}
  <2>2. I # {} /\ I \subseteq Nat  BY <2>q
  <2>3. PICK i \in I : \A j \in I : i <= j  BY <2>2, LeastNatural
  <2>4. prev[list(q)[i]] = IF i = 1 THEN q ELSE list(q)[i - 1]  BY <1>4
  <2>5. CASE i = 1
    <3>1. q \notin T  BY <1>1
    <3> QED  BY <2>4, <2>5, <3>1
  <2>6. CASE i # 1
    <3>1. i - 1 \in 1 .. Len(list(q)) /\ ~(i <= i - 1)  BY <1>2, <2>6
    <3> QED  BY <2>3, <2>4, <2>6, <3>1
  <2> QED  BY <2>5, <2>6
<1> QED  BY <1>10, <1>11, <1>12, <1>13, <1>14, <1>15, <1>16 DEF PageInit, PageInv

------------------------------------------------------------------------------
\* Calls that do not overlap.

\* One thread uses the page queues, as at boot.
OneThread == \E t : Procs = {t}

\* A step of the only thread keeps PageInv.
LEMMA PageNextInv ==
    ASSUME NEW t, Procs = {t}, PageInv, [PageNext]_page_vars
    PROVE  PageInv'
<1> DEFINE p == page[t]
           n == next[p]
           Out == pc[t] \in {"insert", "link"}
           Put == pc[t] # "idle" /\ to[t] = "free"
<1>1. /\ PageTypeOK /\ t \in Procs /\ NULL \notin Pages /\ Pages \cap Queues = {}
      /\ Range(FreePages) \subseteq Pages
      /\ "free" \in Queues /\ Uses \subseteq Queues \ {"free"}
  BY BootLists, PageAssumption DEF PageInv, Queues
<1>2. PageTypeOK'
  <2>1. CallInv  BY <1>1 DEF PageInv, CallInv
  <2> QED  BY <1>1, <2>1, PageTypeNext
<1>3. Away = IF Out THEN {p} ELSE {}  BY DEF Away
<1>4. Away' = IF Out' THEN {p'} ELSE {}  BY DEF Away
<1>5. Freeing = IF Put THEN {p} ELSE {}  BY DEF Freeing
<1>6. Freeing' = IF Put' THEN {p'} ELSE {}  BY DEF Freeing
<1>7. \A x : x \in OnFree <=> x \in Range(FreePages) /\ x \notin used /\ (Out \/ Put => x # p)
  BY <1>3, <1>5 DEF OnFree
<1>8. \A x : x \in OnFree' <=> x \in Range(FreePages) /\ x \notin used' /\ (Out' \/ Put' => x # p')
  BY <1>4, <1>6 DEF OnFree
<1>9. /\ Linked(first, next, Mended(t), Pages \ Away)
      /\ Grounded(Mended(t), Pages \ Away)
      /\ pc[t] = "unlink" /\ n # NULL => prev[n] = Mended(t)[p]
      /\ pc[t] = "link" => n = first[to[t]] /\ (n # NULL => prev[n] = p)
      /\ pc[t] # "idle" => p \in Range(FreePages) \ used
      /\ \A q \in Queues : first[q] # NULL => (q = "free" <=> first[q] \in OnFree)
      /\ \A x \in Pages \ Away : next[x] # NULL => (x \in OnFree <=> next[x] \in OnFree)
      /\ used \subseteq Range(FreePages)
  BY <1>1 DEF PageInv
<1> DEFINE Goal == /\ Linked(first, next, Mended(t), Pages \ Away)
                   /\ Grounded(Mended(t), Pages \ Away)
                   /\ pc[t] = "unlink" /\ n # NULL => prev[n] = Mended(t)[p]
                   /\ pc[t] = "link" => n = first[to[t]] /\ (n # NULL => prev[n] = p)
                   /\ pc[t] # "idle" => p \in Range(FreePages) \ used
                   /\ \A q \in Queues : first[q] # NULL => (q = "free" <=> first[q] \in OnFree)
                   /\ \A x \in Pages \ Away : next[x] # NULL => (x \in OnFree <=> next[x] \in OnFree)
                   /\ used \subseteq Range(FreePages)
<1>10. SUFFICES Goal'
  BY <1>2 DEF PageInv
<1>11. ASSUME NEW q \in Uses, vm_pagealloc(t, q)
       PROVE  Goal'
  <2>1. Mended(t)' = prev /\ Mended(t) = prev  BY <1>1, <1>11 DEF vm_pagealloc, Mended, links, PageTypeOK
  <2>2. Away' = Away /\ Away = {}  BY <1>1, <1>3, <1>4, <1>11 DEF vm_pagealloc, PageTypeOK
  <2>3. p' = first["free"] /\ to'[t] = q /\ pc'[t] = "remove" /\ pc[t] = "idle"
    BY <1>1, <1>11 DEF vm_pagealloc, PageTypeOK
  <2>4. UNCHANGED <<first, next, prev, used>>  BY <1>11 DEF vm_pagealloc, links
  <2>5. OnFree' = OnFree  BY <1>1, <1>7, <1>8, <2>3, <2>4
  <2>6. first["free"] \in OnFree  BY <1>1, <1>9, <1>11 DEF vm_pagealloc
  <2> QED  BY <1>7, <1>9, <2>1, <2>2, <2>3, <2>4, <2>5, <2>6
<1>12. ASSUME NEW x \in Pages, vm_page_free(t, x)
       PROVE  Goal'
  <2>1. Mended(t)' = prev /\ Mended(t) = prev  BY <1>1, <1>12 DEF vm_page_free, Mended, links, PageTypeOK
  <2>2. Away' = Away /\ Away = {}  BY <1>1, <1>3, <1>4, <1>12 DEF vm_page_free, PageTypeOK
  <2>3. /\ p' = x /\ to'[t] = "free" /\ pc'[t] = "lock" /\ pc[t] = "idle"
        /\ x \in used /\ used' = used \ {x}
    BY <1>1, <1>12 DEF vm_page_free, PageTypeOK
  <2>4. UNCHANGED <<first, next, prev>>  BY <1>12 DEF vm_page_free, links
  <2>5. OnFree' = OnFree  BY <1>1, <1>7, <1>8, <2>3, <2>4
  <2> QED  BY <1>9, <2>1, <2>2, <2>3, <2>4, <2>5
<1>13. CASE LockFrom(t)
  <2>1. UNCHANGED <<first, next, prev, used, to, p>> /\ pc[t] = "lock" /\ pc'[t] = "remove"
    BY <1>1, <1>13 DEF LockFrom, links, call, PageTypeOK
  <2>2. Mended(t)' = prev /\ Mended(t) = prev  BY <2>1 DEF Mended
  <2>3. Away' = Away /\ OnFree' = OnFree  BY <1>3, <1>4, <1>7, <1>8, <2>1
  <2> QED  BY <1>9, <2>1, <2>2, <2>3
<1>14. CASE RemoveNext(t)
  <2>1. /\ UNCHANGED <<first, next, used, to, p>> /\ pc[t] = "remove" /\ pc'[t] = "unlink"
        /\ prev' = IF n = NULL THEN prev ELSE [prev EXCEPT ![n] = prev[p]]
    BY <1>1, <1>14 DEF RemoveNext, call, PageTypeOK
  <2>2. Away' = Away /\ Away = {} /\ OnFree' = OnFree  BY <1>3, <1>4, <1>7, <1>8, <2>1
  <2>3. Mended(t) = prev  BY <2>1 DEF Mended
  <2>4. p \in Pages /\ n \in Pages \cup {NULL}  BY <1>1, <1>9, <2>1 DEF PageTypeOK
  <2>5. n # NULL => prev[n] = p  BY <1>9, <2>2, <2>3, <2>4 DEF Linked
  <2>6. Mended(t)' = prev
    <3>1. Mended(t)' = IF n # NULL THEN [prev' EXCEPT ![n] = p] ELSE prev'  BY <2>1 DEF Mended
    <3> QED  BY <1>1, <2>1, <2>4, <2>5, <3>1 DEF PageTypeOK
  <2>7. n # NULL => prev'[n] = prev[p]  BY <1>1, <2>1, <2>4 DEF PageTypeOK
  <2> QED  BY <1>9, <2>1, <2>2, <2>3, <2>6, <2>7
<1>15. CASE RemovePrev(t)
  <2>1. /\ UNCHANGED <<prev, used, to, p>> /\ pc[t] = "unlink" /\ pc'[t] = "insert"
        /\ first' = IF prev[p] \in Queues THEN [first EXCEPT ![prev[p]] = n] ELSE first
        /\ next' = IF prev[p] \in Pages THEN [next EXCEPT ![prev[p]] = n] ELSE next
    BY <1>1, <1>15 DEF RemovePrev, call, PageTypeOK
  <2>2. p \in Pages /\ n \in Pages \cup {NULL} /\ prev[p] \in Pages \cup Queues
    BY <1>1, <1>9, <2>1 DEF PageTypeOK
  <2>3. Away = {} /\ Away' = {p}  BY <1>3, <1>4, <2>1
  <2> DEFINE v == Mended(t)
  <2>4. v = IF n # NULL THEN [prev EXCEPT ![n] = p] ELSE prev  BY <2>1 DEF Mended
  <2>5. v \in [Pages -> Pages \cup Queues]  BY <1>1, <2>2, <2>4 DEF PageTypeOK
  <2>6. Linked(first, next, v, Pages)  BY <1>9, <2>3
  <2>7. Mended(t)' = prev  BY <2>1 DEF Mended
  <2>8. v[p] = prev[p]
    BY <1>1, <1>9, <2>1, <2>2, <2>4 DEF PageTypeOK
  <2>9. Redirected(v, prev, Pages, n, v[p])
    BY <1>1, <1>9, <2>1, <2>2, <2>4 DEF Redirected, PageTypeOK
  <2>10. Linked(first', next', prev, Pages \ {p})
    <3> HIDE DEF v
    <3> QED  BY <1>1, <2>1, <2>2, <2>5, <2>6, <2>8, <2>9, UnlinkPage DEF PageTypeOK
  <2>g. Grounded(prev, Pages \ {p})
    <3>1. Grounded(v, Pages)  BY <1>9, <2>3
    <3>2. n \in Pages => v[n] = p  BY <1>1, <2>2, <2>4 DEF PageTypeOK
    <3> HIDE DEF v
    <3> QED  BY <2>2, <2>9, <3>1, <3>2, UnlinkGrounded
  <2>11. \A x : x \in OnFree' <=> x \in OnFree /\ x # p  BY <1>7, <1>8, <1>9, <2>1
  <2>12. /\ prev[p] \in Queues => first[prev[p]] = p
         /\ prev[p] \in Pages => next[prev[p]] = p
         /\ \A q \in Queues : first[q] = p => prev[p] = q
         /\ \A x \in Pages : next[x] = p => prev[p] = x
    BY <1>1, <2>2, <2>6, <2>8 DEF Linked
  <2>13. ASSUME NEW q \in Queues, first'[q] # NULL
         PROVE  q = "free" <=> first'[q] \in OnFree'
    <3>1. first'[q] # p  BY <2>10, <2>13 DEF Linked
    <3> QED  BY <1>1, <1>9, <2>1, <2>2, <2>3, <2>11, <2>12, <2>13, <3>1 DEF PageTypeOK
  <2>14. ASSUME NEW x \in Pages \ {p}, next'[x] # NULL
         PROVE  x \in OnFree' <=> next'[x] \in OnFree'
    <3>1. next'[x] # p  BY <2>10, <2>14 DEF Linked
    <3> QED  BY <1>1, <1>9, <2>1, <2>2, <2>3, <2>11, <2>12, <2>14, <3>1 DEF PageTypeOK
  <2> QED  BY <1>9, <2>1, <2>3, <2>7, <2>10, <2>g, <2>13, <2>14
<1>16. CASE InsertNext(t)
  <2>1. /\ UNCHANGED <<first, used, to, p>> /\ pc[t] = "insert" /\ pc'[t] = "link"
        /\ next' = [next EXCEPT ![p] = first[to[t]]]
        /\ prev' = IF first[to[t]] = NULL THEN prev ELSE [prev EXCEPT ![first[to[t]]] = p]
    BY <1>1, <1>16 DEF InsertNext, call, PageTypeOK
  <2>2. Away = {p} /\ Away' = {p} /\ OnFree' = OnFree  BY <1>3, <1>4, <1>7, <1>8, <2>1
  <2>3. /\ p \in Pages /\ first[to[t]] \in Pages \cup {NULL} /\ to[t] \in Queues
        /\ n' = first[to[t]] /\ \A x \in Pages \ {p} : next'[x] = next[x]
    BY <1>1, <1>9, <2>1 DEF PageTypeOK
  <2>4. Mended(t) = prev  BY <2>1 DEF Mended
  <2>5. first[to[t]] # NULL => prev[first[to[t]]] = to[t]  BY <1>9, <2>3, <2>4 DEF Linked
  <2>6. Mended(t)' = prev
    <3>1. Mended(t)' = IF n' # NULL THEN [prev' EXCEPT ![n'] = to[t]] ELSE prev'
      BY <2>1 DEF Mended
    <3>2. CASE first[to[t]] = NULL  BY <2>1, <2>3, <3>1, <3>2
    <3>3. CASE first[to[t]] # NULL
      <4>1. prev' = [prev EXCEPT ![first[to[t]]] = p]  BY <2>1, <3>3
      <4>2. Mended(t)' = [prev' EXCEPT ![first[to[t]]] = to[t]]  BY <2>3, <3>1, <3>3
      <4> QED  BY <1>1, <2>3, <2>5, <3>3, <4>1, <4>2 DEF PageTypeOK
    <3> QED  BY <3>2, <3>3
  <2>7. n' # NULL => prev'[n'] = p  BY <1>1, <2>1, <2>3 DEF PageTypeOK
  <2>8. Linked(first, next', prev, Pages \ {p})  BY <1>9, <2>2, <2>3, <2>4 DEF Linked
  <2>g. Grounded(prev, Pages \ {p})  BY <1>9, <2>2, <2>4
  <2> QED  BY <1>9, <2>1, <2>2, <2>3, <2>6, <2>7, <2>8, <2>g
<1>17. CASE InsertFirst(t)
  <2>1. /\ UNCHANGED <<next, to, p>> /\ pc[t] = "link" /\ pc'[t] = "idle"
        /\ first' = [first EXCEPT ![to[t]] = p]
        /\ prev' = [prev EXCEPT ![p] = to[t]]
        /\ used' = IF to[t] = "free" THEN used ELSE used \cup {p}
    BY <1>1, <1>17 DEF InsertFirst, call, PageTypeOK
  <2>2. Away = {p} /\ Away' = {}  BY <1>3, <1>4, <2>1
  <2>3. /\ p \in Pages /\ n = first[to[t]] /\ n \in Pages \cup {NULL} /\ to[t] \in Queues
        /\ n # NULL => prev[n] = p
    BY <1>1, <1>9, <2>1 DEF PageTypeOK
  <2> DEFINE v == Mended(t)
  <2>4. v = IF n # NULL THEN [prev EXCEPT ![n] = to[t]] ELSE prev  BY <2>1 DEF Mended
  <2>5. v \in [Pages -> Pages \cup Queues]  BY <1>1, <2>3, <2>4 DEF PageTypeOK
  <2>6. Linked(first, next, v, Pages \ {p})  BY <1>9, <2>2
  <2>7. Mended(t)' = prev'  BY <2>1 DEF Mended
  <2>8. prev'[p] = to[t] /\ Redirected(v, prev', Pages \ {p}, first[to[t]], p)
    BY <1>1, <2>1, <2>3, <2>4 DEF Redirected, PageTypeOK
  <2>9. Linked(first', next, prev', (Pages \ {p}) \cup {p})
    <3>1. Pages \ {p} \in SUBSET Pages /\ p \notin Pages \ {p}  OBVIOUS
    <3> HIDE DEF v
    <3> QED  BY <1>1, <1>2, <2>1, <2>3, <2>5, <2>6, <2>8, <3>1, InsertPage DEF PageTypeOK
  <2>g. Grounded(prev', (Pages \ {p}) \cup {p})
    <3>1. Grounded(v, Pages \ {p})  BY <1>9, <2>2
    <3>2. to[t] \notin Pages  BY <1>1, <2>3
    <3> HIDE DEF v
    <3> QED  BY <2>3, <2>8, <3>1, <3>2, InsertGrounded
  <2>10. (Pages \ {p}) \cup {p} = Pages \ {}  BY <2>3
  <2>11. \A x : x \in OnFree' <=> x \in OnFree \/ (to[t] = "free" /\ x = p)
    BY <1>7, <1>8, <1>9, <2>1
  <2>12. p \notin OnFree  BY <1>7, <2>1
  <2>13. n # NULL => n \in Pages \ {p}  BY <2>3, <2>6 DEF Linked
  <2>14. ASSUME NEW q \in Queues, first'[q] # NULL
         PROVE  q = "free" <=> first'[q] \in OnFree'
    <3>1. q # to[t] /\ first[q] # NULL => first[q] # p  BY <2>6 DEF Linked
    <3> QED  BY <1>1, <1>9, <2>1, <2>3, <2>11, <2>12, <2>14, <3>1 DEF PageTypeOK
  <2>15. ASSUME NEW x \in Pages, next[x] # NULL
         PROVE  x \in OnFree' <=> next[x] \in OnFree'
    <3>1. CASE x = p  BY <1>9, <2>3, <2>11, <2>12, <2>13, <2>15, <3>1
    <3>2. CASE x # p
      <4>1. next[x] # p  BY <2>6, <2>15, <3>2 DEF Linked
      <4> QED  BY <1>9, <2>2, <2>11, <2>15, <3>2, <4>1
    <3> QED  BY <3>1, <3>2
  <2> QED  BY <1>9, <2>1, <2>2, <2>7, <2>9, <2>g, <2>10, <2>14, <2>15
<1>18. CASE UNCHANGED page_vars
  <2>1. UNCHANGED <<first, next, prev, used, pc, page, to>>  BY <1>18 DEF page_vars, links, call
  <2>2. Mended(t)' = Mended(t) /\ Away' = Away /\ OnFree' = OnFree
    BY <2>1 DEF Mended, Away, OnFree, Freeing
  <2> QED  BY <1>9, <2>1, <2>2
<1> HIDE DEF Goal
<1> QED  BY <1>11, <1>12, <1>13, <1>14, <1>15, <1>16, <1>17, <1>18 DEF PageNext

\* Threads may overlap as they like: the links, mixed up as they may get, still
\* lead to pages and queues, and the counters wrap.
THEOREM PageTypeCorrect == PageSpec => []PageTypeOK
<1>1. PageInit => PageTypeOK /\ CallInv
  BY PageInitInv DEF PageInit, PageInv, CallInv
<1> QED  BY <1>1, PageTypeNext, PTL DEF PageSpec

\* As long as calls do not overlap, the queues stay linked both ways and apart from
\* each other, although vm_page_free unlinks a page as if it were on the queue it
\* was on at boot: TAILQ_REMOVE finds the right list from the page's own links.
THEOREM PageInvariant == ASSUME OneThread PROVE PageSpec => []PageInv
<1>1. PICK t : Procs = {t}  BY DEF OneThread
<1>2. PageInv /\ [PageNext]_page_vars => PageInv'  BY <1>1, PageNextInv
<1> QED  BY <1>2, PageInitInv, PTL DEF PageSpec

\* And then vm_pagealloc never returns a page that is in use.
THEOREM PagesAllocatedOnce == ASSUME OneThread PROVE PageSpec => []AllocatedPageIsNew
<1>1. PageInv => AllocatedPageIsNew
  BY DEF OneThread, PageInv, AllocatedPageIsNew
<1> QED  BY <1>1, PageInvariant, PTL

------------------------------------------------------------------------------
\* What the links lead to.

\* A queue's head is on it, and with a page the next one.
LEMMA QueueClosed ==
    ASSUME PageTypeOK, NEW q \in Queues
    PROVE  /\ first[q] # NULL => first[q] \in OnQueue(q)
           /\ \A x \in OnQueue(q) : next[x] # NULL => next[x] \in OnQueue(q)
BY DEF OnQueue, PageTypeOK

\* Whatever holds the head and, with a page, the next one, holds all pages of the
\* queue.
LEMMA QueueLeast ==
    ASSUME NEW q \in Queues, NEW S \in SUBSET Pages,
           first[q] # NULL => first[q] \in S,
           \A x \in S : next[x] # NULL => next[x] \in S
    PROVE  OnQueue(q) \subseteq S
BY DEF OnQueue

\* The place before a page of a queue is the queue's head or a page of the queue.
LEMMA BeforeOnQueue ==
    ASSUME PageTypeOK, Linked(first, next, prev, Pages), NEW q \in Queues, NEW x \in OnQueue(q)
    PROVE  prev[x] = q \/ prev[x] \in OnQueue(q)
<1> DEFINE S == {y \in OnQueue(q) : prev[y] = q \/ prev[y] \in OnQueue(q)}
<1>1. S \in SUBSET Pages  BY DEF OnQueue
<1>2. first[q] # NULL => first[q] \in S  BY QueueClosed DEF Linked
<1>3. \A y \in S : next[y] # NULL => next[y] \in S
  BY <1>1, QueueClosed DEF Linked
<1> HIDE DEF S
<1>4. OnQueue(q) \subseteq S  BY <1>1, <1>2, <1>3, QueueLeast
<1> QED  BY <1>4 DEF S

\* Every page is on a queue: pages on none would only lead to each other.
LEMMA OnSomeQueue ==
    ASSUME PageTypeOK, Linked(first, next, prev, Pages), Grounded(prev, Pages), NEW p \in Pages
    PROVE  \E q \in Queues : p \in OnQueue(q)
<1> DEFINE T == {x \in Pages : \A q \in Queues : x \notin OnQueue(q)}
<1> SUFFICES ASSUME T # {} PROVE FALSE  OBVIOUS
<1>1. PICK x \in T : prev[x] \notin T  BY DEF Grounded
<1>2. CASE prev[x] \in Queues
  <2>1. first[prev[x]] = x /\ x # NULL  BY <1>2, PageAssumption DEF Linked
  <2> QED  BY <1>2, <2>1, QueueClosed
<1>3. CASE prev[x] \in Pages
  <2>1. PICK q \in Queues : prev[x] \in OnQueue(q)  BY <1>1, <1>3
  <2>2. next[prev[x]] = x /\ x # NULL  BY <1>3, PageAssumption DEF Linked
  <2> QED  BY <2>1, <2>2, QueueClosed
<1> QED  BY <1>2, <1>3 DEF PageTypeOK

\* And on one only: pages on two would only lead to each other.
LEMMA OnOneQueue ==
    ASSUME PageTypeOK, Linked(first, next, prev, Pages), Grounded(prev, Pages),
           NEW q \in Queues, NEW r \in Queues, q # r
    PROVE  OnQueue(q) \cap OnQueue(r) = {}
<1> DEFINE T == OnQueue(q) \cap OnQueue(r)
<1> SUFFICES ASSUME T # {} PROVE FALSE  OBVIOUS
<1>1. T \in SUBSET Pages /\ Pages \cap Queues = {}  BY PageAssumption DEF OnQueue
<1>2. PICK x \in T : prev[x] \notin T  BY <1>1 DEF Grounded
<1>3. prev[x] = q \/ prev[x] \in OnQueue(q)  BY BeforeOnQueue
<1>4. prev[x] = r \/ prev[x] \in OnQueue(r)  BY BeforeOnQueue
<1>5. OnQueue(q) \cap Queues = {} /\ OnQueue(r) \cap Queues = {}  BY <1>1 DEF OnQueue
<1> QED  BY <1>2, <1>3, <1>4, <1>5

\* And then every page is on one queue, once, and the free queue holds those that
\* nobody uses.
THEOREM PagesOnOneQueue == ASSUME OneThread PROVE PageSpec => []EveryPageOnOneQueue
<1>1. PageInv => EveryPageOnOneQueue
  <2> SUFFICES ASSUME PageInv, Quiet
               PROVE  /\ OnQueue("free") = Range(FreePages) \ used
                      /\ \A q \in Queues : NoPageTwice(q)
                      /\ \A p \in Pages : \E q \in Queues :
                             /\ p \in OnQueue(q)
                             /\ \A r \in Queues \ {q} : p \notin OnQueue(r)
    BY DEF EveryPageOnOneQueue
  <2>t. PICK t : Procs = {t}  BY DEF OneThread
  <2>1. Away = {} /\ Freeing = {} /\ OnFree = Range(FreePages) \ used
    BY DEF Quiet, Away, Freeing, OnFree
  <2>2. Mended(t) = prev  BY <2>t DEF Quiet, Mended
  <2>3. /\ PageTypeOK /\ Linked(first, next, prev, Pages) /\ Grounded(prev, Pages)
        /\ \A q \in Queues : first[q] # NULL => (q = "free" <=> first[q] \in OnFree)
        /\ \A x \in Pages : next[x] # NULL => (x \in OnFree <=> next[x] \in OnFree)
    BY <2>t, <2>1, <2>2 DEF PageInv
  <2>4. OnFree \subseteq Pages /\ "free" \in Queues  BY <2>1, BootLists DEF Queues
  <2>5. OnQueue("free") \subseteq OnFree
    <3>1. OnFree \in SUBSET Pages  BY <2>4
    <3> QED  BY <2>3, <2>4, <3>1, QueueLeast
  <2>6. ASSUME NEW p \in OnFree PROVE p \in OnQueue("free")
    <3>1. PICK q \in Queues : p \in OnQueue(q)  BY <2>3, <2>4, OnSomeQueue
    <3>2. ASSUME q # "free" PROVE FALSE
      <4>1. Pages \ OnFree \in SUBSET Pages  OBVIOUS
      <4>2. first[q] # NULL => first[q] \in Pages \ OnFree  BY <2>3, <3>2 DEF PageTypeOK
      <4>3. \A x \in Pages \ OnFree : next[x] # NULL => next[x] \in Pages \ OnFree
        BY <2>3 DEF PageTypeOK
      <4>4. OnQueue(q) \subseteq Pages \ OnFree  BY <4>1, <4>2, <4>3, QueueLeast
      <4> QED  BY <3>1, <4>4
    <3> QED  BY <3>1, <3>2
  <2>7. ASSUME NEW q \in Queues PROVE NoPageTwice(q)
    <3>1. OnQueue(q) \subseteq Pages /\ Pages \cap Queues = {}
      BY PageAssumption DEF OnQueue
    <3> QED  BY <2>3, <3>1 DEF NoPageTwice, Linked
  <2>8. ASSUME NEW p \in Pages
        PROVE  \E q \in Queues : p \in OnQueue(q) /\ \A r \in Queues \ {q} : p \notin OnQueue(r)
    <3>1. PICK q \in Queues : p \in OnQueue(q)  BY <2>3, OnSomeQueue
    <3>2. ASSUME NEW r \in Queues \ {q} PROVE p \notin OnQueue(r)
      BY <2>3, <3>1, OnOneQueue
    <3> QED  BY <3>1, <3>2
  <2> QED  BY <2>1, <2>5, <2>6, <2>7, <2>8
<1> QED  BY <1>1, PageInvariant, PTL

------------------------------------------------------------------------------
\* Address spaces.

EntryType == [start : Nat, end : Nat, obj : Objs]
MapType   == [arena : ArenaType, entries : Seq(EntryType)]
ObjType   == [refcnt : Nat, size : Nat, amap : [VAs -> Anons \cup {NoAnon}]]
AnonType  == [refcnt : Nat, content : Values, pv : SUBSET (Maps \X VAs)]
PteType   == [page : Anons \cup {NoAnon}, write : BOOLEAN]
TableIds  == {<<l, va \div Fanout^l>> : l \in 1 .. Levels, va \in VAs}
VmType    == [map : [Maps -> MapType], obj : [Objs -> ObjType], anon : [Anons -> AnonType],
              pte : [Maps -> [VAs -> PteType]], tables : [Maps -> SUBSET TableIds],
              nfree : Int, tlb : [Maps -> [VAs -> PteType]]]

\* The entries of a map have the allocated segments of its arena, and no address in common.
InUser(a)  == Spans(a) = {Seg("span", 0, UserPages)}
SegAt(e)   == Seg("allocated", e.start, e.end - e.start)
MapOK(p) ==
    /\ ArenaOK(p.arena) /\ InUser(p.arena)
    /\ Allocated(p.arena) = {SegAt(e) : e \in Range(p.entries)}
    /\ \A i, j \in DOMAIN p.entries : i # j =>
           \/ p.entries[i].end <= p.entries[j].start
           \/ p.entries[j].end <= p.entries[i].start

\* An object is in one place at most, and the map holds its only reference.
Entries(mp, m) == Range(mp[m].entries)
ViewsOK(mp, ob) ==
    /\ \A m, n \in Maps : \A e \in Entries(mp, m), f \in Entries(mp, n) :
           e.obj = f.obj => m = n /\ e = f
    /\ \A m \in Maps : \A e \in Entries(mp, m) : ob[e.obj].refcnt = 1

\* An object that does not exist has no anons.
ObjsOK(ob) ==
    \A o \in Objs : /\ ob[o].refcnt \in {0, 1}
                    /\ ob[o].refcnt = 0 => ob[o].amap = [i \in VAs |-> NoAnon]

\* An anon's references are those of the amaps.
AmapPlaces(ob, a) == {x \in Objs \X VAs : ob[x[1]].amap[x[2]] = a}
RefsOK(ob, an) == \A a \in Anons : an[a].refcnt = Cardinality(AmapPlaces(ob, a))

\* A page table entry leads to the page that is mapped there.
Shows(mp, ob, m, va, a) ==
    \E e \in Entries(mp, m) : va \in e.start .. e.end - 1 /\ ob[e.obj].amap[va - e.start] = a
PteOK(mp, ob, an, m, va, t) ==
    t # NoPte => /\ t.page \in Anons
                 /\ Shows(mp, ob, m, va, t.page)
                 /\ t.write => an[t.page].refcnt = 1
PtesOK(mp, ob, an, pt) == \A m \in Maps, va \in VAs : PteOK(mp, ob, an, m, va, pt[m][va])

\* So does a cached translation.
Caches(t, p) == t # NoPte => p # NoPte /\ t.page = p.page /\ (t.write => p.write)
TlbOK(pt, tl) == \A m \in Maps, va \in VAs : Caches(tl[m][va], pt[m][va])

\* The pv tables.
PvOK(an, pt) == \A a \in Anons : an[a].pv = {x \in Maps \X VAs : pt[x[1]][x[2]].page = a}

\* The pages in use and free are n together.
UsedAnons(an) == {a \in Anons : an[a].refcnt > 0}
AllTables(tb) == UNION {{<<m, t>> : t \in tb[m]} : m \in Maps}
PagesOK(an, tb, nf, n) ==
    /\ IsFiniteSet(AllTables(tb))
    /\ n = nf + Cardinality(UsedAnons(an)) + Cardinality(AllTables(tb))

\* What is in page i of object o.
Holds(s, o, i) == IF s.obj[o].amap[i] = NoAnon THEN 0 ELSE s.anon[s.obj[o].amap[i]].content
Unaltered(s, t) == \A o \in Objs, i \in VAs : Holds(t, o, i) = Holds(s, o, i)
SameContents(an, bn) == \A a \in Anons : bn[a].content = an[a].content

VmOK(s, n) ==
    /\ s \in VmType
    /\ \A m \in Maps : MapOK(s.map[m])
    /\ ViewsOK(s.map, s.obj)
    /\ ObjsOK(s.obj)
    /\ RefsOK(s.obj, s.anon)
    /\ PtesOK(s.map, s.obj, s.anon, s.pte)
    /\ TlbOK(s.pte, s.tlb)
    /\ PvOK(s.anon, s.pte)
    /\ PagesOK(s.anon, s.tables, s.nfree, n)

VmInv ==
    /\ VmOK(VmNow, UserMemory - roots)
    /\ roots \in Nat /\ procs \subseteq Maps
    /\ \A m \in Maps \ procs : map[m].entries = <<>>

\* An entry's addresses are a map's.
LEMMA EntrySpot ==
    ASSUME NEW p \in MapType, MapOK(p), NEW e \in Range(p.entries)
    PROVE  /\ e \in EntryType /\ e.start \in Nat /\ e.end \in Nat /\ e.start < e.end /\ e.end <= UserPages
           /\ SegAt(e) \in Allocated(p.arena)
<1>1. p.entries \in Seq(EntryType)  BY DEF MapType
<1>2. e \in EntryType  BY <1>1 DEF Range
<1>3. e.start \in Nat /\ e.end \in Nat  BY <1>2 DEF EntryType
<1>4. SegAt(e) \in Allocated(p.arena)  BY DEF MapOK
<1>5. PICK s : s = SegAt(e)  OBVIOUS
<1>6. s.type = "allocated" /\ s.base = e.start /\ s.size = e.end - e.start  BY <1>5 DEF SegAt, Seg
<1>7. s \in Range(p.arena.segqueue) /\ QueueOK(p.arena.segqueue)  BY <1>4, <1>5 DEF Allocated, MapOK, ArenaOK
<1>8. s.size \in Nat \ {0}  BY <1>7, SegsTyped
<1>9. PICK t \in Range(p.arena.segqueue) : Inside(t, s)  BY <1>6, <1>7 DEF QueueOK, Housed, SpanTypes
<1>10. t = Seg("span", 0, UserPages)  BY <1>9 DEF MapOK, InUser, Spans, Inside
<1>11. End(t) = UserPages  BY <1>10, VmAssumption DEF End, Seg
<1>12. End(s) = e.end  BY <1>3, <1>6 DEF End
<1> QED  BY <1>2, <1>3, <1>4, <1>6, <1>8, <1>9, <1>11, <1>12 DEF Inside

\* One entry holds an address.
LEMMA OneEntry ==
    ASSUME NEW p \in MapType, MapOK(p), NEW e \in Range(p.entries), NEW f \in Range(p.entries),
           NEW va \in Int, va \in e.start .. e.end - 1, va \in f.start .. f.end - 1
    PROVE  e = f
<1>1. e.start \in Nat /\ e.end \in Nat /\ f.start \in Nat /\ f.end \in Nat  BY EntrySpot
<1>2. PICK i \in DOMAIN p.entries : e = p.entries[i]  BY DEF Range
<1>3. PICK j \in DOMAIN p.entries : f = p.entries[j]  BY DEF Range
<1>4. ~(e.end <= f.start) /\ ~(f.end <= e.start)  BY <1>1
<1> QED  BY <1>2, <1>3, <1>4 DEF MapOK

\* map_entry_for_addr finds it.
LEMMA EntryFound ==
    ASSUME NEW p \in MapType, MapOK(p), NEW va \in VAs
    PROVE  LET i == map_entry_for_addr(p, va)
           IN  /\ i # 0 => /\ i \in DOMAIN p.entries
                           /\ va \in p.entries[i].start .. p.entries[i].end - 1
               /\ \A e \in Range(p.entries) : va \in e.start .. e.end - 1 =>
                      i # 0 /\ p.entries[i] = e
<1> DEFINE q == p.entries
           I == {i \in 1 .. Len(q) : va >= q[i].start /\ va < q[i].end}
<1>2. q \in Seq(EntryType) /\ DOMAIN q = 1 .. Len(q) /\ Len(q) \in Nat  BY DEF MapType
<1>3. map_entry_for_addr(p, va) = IF I # {} THEN Min(I) ELSE 0
  BY DEF map_entry_for_addr, SelectInSeq
<1>4. va \in Int  BY VmAssumption DEF VAs
<1>5. \A i \in DOMAIN q : q[i].start \in Nat /\ q[i].end \in Nat
  <2>1. \A i \in DOMAIN q : q[i] \in EntryType  BY <1>2
  <2> QED  BY <2>1 DEF EntryType
<1>6. I \subseteq Nat /\ 0 \notin I  OBVIOUS
<1>7. I # {} => Min(I) \in I  BY <1>6, MinNatural
<1>8. ASSUME NEW i \in I PROVE i \in DOMAIN q /\ va \in q[i].start .. q[i].end - 1  BY <1>2, <1>4, <1>5
<1>9. ASSUME NEW e \in Range(q), va \in e.start .. e.end - 1 PROVE I # {} /\ q[Min(I)] = e
  <2>1. PICK j \in DOMAIN q : e = q[j]  BY DEF Range
  <2>2. j \in I  BY <1>2, <1>4, <1>5, <1>9, <2>1
  <2>3. PICK i \in I : i = Min(I)  BY <1>7, <2>2
  <2>4. q[i] \in Range(q) /\ va \in q[i].start .. q[i].end - 1  BY <1>8 DEF Range
  <2>5. q[i] = e  BY <1>4, <1>9, <2>4, OneEntry
  <2> QED  BY <2>2, <2>3, <2>5
<1> HIDE DEF I
<1>10. CASE I = {}  BY <1>3, <1>9, <1>10
<1>11. CASE I # {}
  <2>1. PICK i \in I : i = Min(I)  BY <1>7, <1>11
  <2>2. map_entry_for_addr(p, va) = i  BY <1>3, <1>11, <2>1
  <2>3. i # 0  BY <1>6
  <2> QED  BY <1>8, <1>9, <2>1, <2>2, <2>3
<1> QED  BY <1>10, <1>11

\* The state's types, one by one.
LEMMA VmTyped ==
    ASSUME NEW s \in VmType
    PROVE  /\ \A m \in Maps : s.map[m] \in MapType /\ s.pte[m] \in [VAs -> PteType] /\ s.tlb[m] \in [VAs -> PteType]
           /\ \A o \in Objs : s.obj[o] \in ObjType
           /\ \A a \in Anons : s.anon[a] \in AnonType
           /\ \A m \in Maps, va \in VAs : s.pte[m][va] \in PteType /\ s.tlb[m][va] \in PteType
           /\ s = [map |-> s.map, obj |-> s.obj, anon |-> s.anon, pte |-> s.pte, tables |-> s.tables,
                   nfree |-> s.nfree, tlb |-> s.tlb]
BY DEF VmType

\* What the invariant says of translations.
LEMMA VmTranslations == ASSUME VmInv PROVE TranslationsCurrent
<1>1. PICK s : s = VmNow  OBVIOUS
<1>2. /\ s.map = map /\ s.obj = obj /\ s.anon = anon /\ s.pte = pte /\ s.tlb = tlb
  BY <1>1 DEF VmNow
<1>3. VmOK(s, UserMemory - roots)  BY <1>1 DEF VmInv
<1>4. s \in VmType  BY <1>3 DEF VmOK
<1>5. /\ \A m \in Maps : map[m] \in MapType /\ MapOK(map[m])
      /\ PtesOK(map, obj, anon, pte) /\ TlbOK(pte, tlb) /\ PvOK(anon, pte)
  BY <1>2, <1>3, <1>4, VmTyped DEF VmOK
<1>6. ASSUME NEW m \in Maps, NEW va \in VAs, pte[m][va] # NoPte
      PROVE  pte[m][va].page = AnonAt(m, va) /\ (pte[m][va].write => anon[pte[m][va].page].refcnt = 1)
  <2>1. PteOK(map, obj, anon, m, va, pte[m][va])  BY <1>5 DEF PtesOK
  <2>2. PICK e \in Range(map[m].entries) :
           va \in e.start .. e.end - 1 /\ obj[e.obj].amap[va - e.start] = pte[m][va].page
    BY <1>6, <2>1 DEF PteOK, Shows, Entries
  <2>3. map_entry_for_addr(map[m], va) # 0 /\ map[m].entries[map_entry_for_addr(map[m], va)] = e
    BY <1>5, <2>2, EntryFound
  <2>4. AnonAt(m, va) = obj[e.obj].amap[va - e.start]  BY <2>3 DEF AnonAt
  <2> QED  BY <1>6, <2>1, <2>2, <2>4 DEF PteOK
<1>7. ASSUME NEW m \in Maps, NEW va \in VAs, tlb[m][va] # NoPte
      PROVE  tlb[m][va].page = AnonAt(m, va) /\ (tlb[m][va].write => anon[tlb[m][va].page].refcnt = 1)
  <2>1. Caches(tlb[m][va], pte[m][va])  BY <1>5 DEF TlbOK
  <2> QED  BY <1>6, <1>7, <2>1 DEF Caches
<1> QED  BY <1>5, <1>6, <1>7 DEF TranslationsCurrent, PvOK

\* And of the books.
LEMMA VmEntries == ASSUME VmInv PROVE EntriesMatchArena
<1>1. PICK s : s = VmNow  OBVIOUS
<1>2. s.map = map  BY <1>1 DEF VmNow
<1>3. VmOK(s, UserMemory - roots)  BY <1>1 DEF VmInv
<1>4. s \in VmType  BY <1>3 DEF VmOK
<1>5. SUFFICES ASSUME NEW m \in Maps
               PROVE  LET q == map[m].arena.segqueue
                      IN  /\ {Entry(x.base, x.size, 0) : x \in {y \in Range(q) : y.type = "allocated"}}
                             = {[e EXCEPT !.obj = 0] : e \in Range(map[m].entries)}
                          /\ SegmentsInOrder(map[m].arena)
  BY DEF EntriesMatchArena
<1>6. PICK p \in MapType : p = map[m]  BY <1>2, <1>4, VmTyped
<1>7. MapOK(p)  BY <1>2, <1>3, <1>6 DEF VmOK
<1>8. SegmentsInOrder(p.arena)  BY <1>7, ArenaIntact DEF MapOK
<1>9. ASSUME NEW e \in Range(p.entries)
      PROVE  Entry(SegAt(e).base, SegAt(e).size, 0) = [e EXCEPT !.obj = 0]
  <2>1. e \in EntryType /\ e.start \in Nat /\ e.end \in Nat  BY <1>7, EntrySpot
  <2>2. SegAt(e).base = e.start /\ SegAt(e).size = e.end - e.start  BY DEF SegAt, Seg
  <2>3. e = [start |-> e.start, end |-> e.end, obj |-> e.obj]  BY <2>1 DEF EntryType
  <2>4. [e EXCEPT !.obj = 0] = [start |-> e.start, end |-> e.end, obj |-> 0]  BY <2>3
  <2>5. e.start + (e.end - e.start) = e.end  BY <2>1
  <2> QED  BY <2>2, <2>4, <2>5 DEF Entry
<1>10. Allocated(p.arena) = {SegAt(e) : e \in Range(p.entries)}  BY <1>7 DEF MapOK
<1>11. {Entry(x.base, x.size, 0) : x \in Allocated(p.arena)} = {[e EXCEPT !.obj = 0] : e \in Range(p.entries)}
  <2> DEFINE E(x) == Entry(x.base, x.size, 0)
             Z(e) == [e EXCEPT !.obj = 0]
  <2>1. \A e \in Range(p.entries) : E(SegAt(e)) = Z(e)  BY <1>9
  <2> HIDE DEF E, Z
  <2>2. {E(x) : x \in Allocated(p.arena)} = {Z(e) : e \in Range(p.entries)}  BY <1>10, <2>1
  <2> QED  BY <2>2 DEF E, Z
<1> QED  BY <1>6, <1>8, <1>11 DEF Allocated

LEMMA VmRefcounts == ASSUME VmInv PROVE RefcountsExact
<1>1. PICK s : s = VmNow  OBVIOUS
<1>2. s.map = map /\ s.obj = obj /\ s.anon = anon  BY <1>1 DEF VmNow
<1>3. VmOK(s, UserMemory - roots)  BY <1>1 DEF VmInv
<1>4. s \in VmType  BY <1>3 DEF VmOK
<1>5. RefsOK(obj, anon) /\ ObjsOK(obj) /\ ViewsOK(map, obj)  BY <1>2, <1>3 DEF VmOK
<1>6. ASSUME NEW o \in Objs, Mappings(o) # {} PROVE obj[o].refcnt = Cardinality(Mappings(o))
  <2>1. PICK x \in Mappings(o) : TRUE  BY <1>6
  <2>2. \A y \in Mappings(o) : /\ y[1] \in Maps /\ y[2] \in DOMAIN map[y[1]].entries /\ y = <<y[1], y[2]>>
                               /\ map[y[1]].entries[y[2]] \in Entries(map, y[1])
                               /\ map[y[1]].entries[y[2]].obj = o
    BY DEF Mappings, Entries, Range
  <2>3. obj[o].refcnt = 1  BY <1>5, <2>1, <2>2 DEF ViewsOK
  <2>4. ASSUME NEW y \in Mappings(o) PROVE y = x
    <3>1. PICK m \in Maps : m = x[1]  BY <2>1, <2>2
    <3>2. y[1] = m /\ map[m].entries[y[2]] = map[m].entries[x[2]]
      BY <1>5, <2>1, <2>2, <2>4, <3>1 DEF ViewsOK
    <3>3. PICK p \in MapType : p = map[m]  BY <1>2, <1>4, VmTyped
    <3>4. MapOK(p)  BY <1>2, <1>3, <3>3 DEF VmOK
    <3>5. PICK e \in Range(p.entries) : e = p.entries[x[2]] /\ e = p.entries[y[2]]
      BY <2>1, <2>2, <3>1, <3>2, <3>3 DEF Entries
    <3>6. e.start \in Nat /\ e.end \in Nat /\ e.start < e.end  BY <3>4, EntrySpot
    <3>7. x[2] \in DOMAIN p.entries /\ y[2] \in DOMAIN p.entries  BY <2>1, <2>2, <3>1, <3>2, <3>3
    <3>a. PICK i \in DOMAIN p.entries : i = x[2]  BY <3>7
    <3>b. PICK j \in DOMAIN p.entries : j = y[2]  BY <3>7
    <3>c. p.entries[i] = e /\ p.entries[j] = e  BY <3>5, <3>a, <3>b
    <3>d. i = j  BY <3>4, <3>6, <3>c DEF MapOK
    <3>8. x[2] = y[2]  BY <3>a, <3>b, <3>d
    <3> QED  BY <2>1, <2>2, <3>1, <3>2, <3>8
  <2>5. Mappings(o) = {x}  BY <2>1, <2>4
  <2> QED  BY <2>3, <2>5, FS_Singleton
<1>7. \A o \in Objs : obj[o].refcnt \in 0 .. 1  BY <1>5 DEF ObjsOK
<1> QED  BY <1>5, <1>6, <1>7 DEF RefcountsExact, RefsOK, AmapPlaces

LEMMA VmBooks == ASSUME VmInv PROVE Bookkeeping
<1>1. PICK s : s = VmNow  OBVIOUS
<1>2. s.anon = anon /\ s.tables = tables /\ s.nfree = nfree  BY <1>1 DEF VmNow
<1>3. VmOK(s, UserMemory - roots)  BY <1>1 DEF VmInv
<1>4. s.nfree \in Int  BY <1>3 DEF VmOK, VmType
<1>5. PagesOK(anon, tables, nfree, UserMemory - roots)  BY <1>2, <1>3 DEF VmOK
<1>6. PICK u : u = Cardinality(UsedAnons(anon))  OBVIOUS
<1>7. PICK t : t = Cardinality(AllTables(tables))  OBVIOUS
<1>8. IsFiniteSet(UsedAnons(anon)) /\ IsFiniteSet(AllTables(tables))
  BY <1>5, VmAssumption, FS_Subset DEF PagesOK, UsedAnons
<1>9. u \in Nat /\ t \in Nat  BY <1>6, <1>7, <1>8, FS_CardinalityType
<1>10. UserMemory - roots = nfree + u + t  BY <1>5, <1>6, <1>7 DEF PagesOK
<1>a. roots \in Nat /\ UserMemory \in Nat /\ nfree \in Int  BY <1>2, <1>4, VmAssumption DEF VmInv
<1>11. UserMemory = nfree + roots + u + t  BY <1>9, <1>10, <1>a
<1>12. PagesAccounted  BY <1>6, <1>7, <1>11 DEF PagesAccounted, UsedAnons, AllTables
<1> QED  BY <1>12, VmEntries, VmRefcounts DEF Bookkeeping

------------------------------------------------------------------------------
\* Arenas of address spaces.

\* None or one segment.
Few(u) == u = <<>> \/ \E x : u = <<x>>

\* Two queues, one behind the other.
LEMMA JoinSegs ==
    ASSUME NEW u \in Seq(SegType), NEW v \in Seq(SegType), Ordered(u), Ordered(v),
           \A x \in Range(u), y \in Range(v) : InOrder(x, y)
    PROVE  u \o v \in Seq(SegType) /\ Ordered(u \o v) /\ Range(u \o v) = Range(u) \cup Range(v)
<1> DEFINE w == u \o v
<1>1. /\ w \in Seq(SegType) /\ Len(u) \in Nat /\ Len(v) \in Nat /\ Len(w) = Len(u) + Len(v)
      /\ DOMAIN u = 1 .. Len(u) /\ DOMAIN v = 1 .. Len(v) /\ DOMAIN w = 1 .. Len(w)
  OBVIOUS
<1>2. \A i \in 1 .. Len(u) : w[i] = u[i]  OBVIOUS
<1>3. \A i \in Len(u) + 1 .. Len(u) + Len(v) : w[i] = v[i - Len(u)] /\ i - Len(u) \in 1 .. Len(v)  OBVIOUS
<1> HIDE DEF w
<1>4. ASSUME NEW i \in DOMAIN w, NEW j \in DOMAIN w, i < j PROVE InOrder(w[i], w[j])
  <2>1. CASE j <= Len(u)
    <3>1. i \in DOMAIN u /\ j \in DOMAIN u  BY <1>1, <1>4, <2>1
    <3> QED  BY <1>1, <1>2, <1>4, <3>1 DEF Ordered
  <2>2. CASE i > Len(u)
    <3>1. i \in Len(u) + 1 .. Len(u) + Len(v) /\ j \in Len(u) + 1 .. Len(u) + Len(v)  BY <1>1, <1>4, <2>2
    <3>2. /\ w[i] = v[i - Len(u)] /\ w[j] = v[j - Len(u)] /\ i - Len(u) < j - Len(u)
          /\ i - Len(u) \in DOMAIN v /\ j - Len(u) \in DOMAIN v
      BY <1>1, <1>3, <1>4, <3>1
    <3> QED  BY <3>2 DEF Ordered
  <2>3. CASE i <= Len(u) /\ Len(u) < j
    <3>1. i \in DOMAIN u /\ j \in Len(u) + 1 .. Len(u) + Len(v)  BY <1>1, <1>4, <2>3
    <3>2. u[i] \in Range(u) /\ v[j - Len(u)] \in Range(v)  BY <1>1, <1>3, <3>1 DEF Range
    <3> QED  BY <1>1, <1>2, <1>3, <3>1, <3>2
  <2> QED  BY <1>1, <2>1, <2>2, <2>3
<1>5. Range(w) = Range(u) \cup Range(v)
  <2>1. ASSUME NEW x \in Range(w) PROVE x \in Range(u) \cup Range(v)
    <3>1. PICK i \in DOMAIN w : x = w[i]  BY DEF Range
    <3>2. CASE i <= Len(u)  BY <1>1, <1>2, <3>1, <3>2 DEF Range
    <3>3. CASE ~(i <= Len(u))
      <4>1. i \in Len(u) + 1 .. Len(u) + Len(v)  BY <1>1, <3>3
      <4> QED  BY <1>1, <1>3, <3>1, <4>1 DEF Range
    <3> QED  BY <3>2, <3>3
  <2>2. ASSUME NEW x \in Range(u) PROVE x \in Range(w)
    <3>1. PICK i \in DOMAIN u : x = u[i]  BY DEF Range
    <3>2. i \in DOMAIN w  BY <1>1
    <3> QED  BY <1>1, <1>2, <3>1, <3>2 DEF Range
  <2>3. ASSUME NEW x \in Range(v) PROVE x \in Range(w)
    <3>1. PICK i \in DOMAIN v : x = v[i]  BY DEF Range
    <3>2. PICK j \in Nat : j = i + Len(u)  BY <1>1
    <3>3. j \in Len(u) + 1 .. Len(u) + Len(v) /\ j - Len(u) = i /\ j \in DOMAIN w  BY <1>1, <3>2
    <3> QED  BY <1>1, <1>3, <3>1, <3>3 DEF Range
  <2> QED  BY <2>1, <2>2, <2>3
<1>6. Ordered(w)  BY <1>4 DEF Ordered
<1> QED  BY <1>1, <1>5, <1>6 DEF w

\* One segment or none goes on its list.
LEMMA ListedIfAny ==
    ASSUME NEW a, NEW q, NEW F \in SUBSET SegType, Has(a, q, F), NEW u \in Seq(SegType), Few(u),
           \A x \in Range(u) : Classed(x.size) /\ \A y \in F : y.base # x.base
    PROVE  Has(ListIfAny(a, u), q, F \cup Range(u)) /\ F \cup Range(u) \in SUBSET SegType
<1>1. CASE u = <<>>
  <2>1. Range(u) = {}  BY <1>1 DEF Range
  <2>2. F \cup Range(u) = F  BY <2>1
  <2> QED  BY <1>1, <2>2 DEF ListIfAny
<1>2. CASE u # <<>>
  <2>1. PICK x : u = <<x>>  BY <1>2 DEF Few
  <2>2. Range(u) = {x} /\ Head(u) = x /\ u[1] = x /\ 1 \in DOMAIN u  BY <2>1 DEF Range
  <2>3. x \in SegType  BY <2>2
  <2>4. x.size \in Nat \ {0}  BY <2>3 DEF SegType
  <2>5. freelist(x.size) \in 0 .. NFreeLists - 1  BY <2>2, <2>4, ClassType
  <2>6. Has(freelist_insert(a, x), q, F \cup {x})  BY <2>2, <2>3, <2>5, HasInsert
  <2> QED  BY <1>2, <2>2, <2>3, <2>6 DEF ListIfAny
<1> QED  BY <1>1, <1>2

\* The pieces of a free segment s that is split at an allocation.
Below(s, addr) == IF addr > s.base THEN <<Seg("free", s.base, addr - s.base)>> ELSE <<>>
Above(s, addr, n) == IF addr + n < End(s) THEN <<Seg("free", addr + n, End(s) - (addr + n))>> ELSE <<>>
Within3(u, s, lo, hi) ==
    \A x \in Range(u) : /\ x.type \notin SpanTypes /\ Classed(x.size) /\ x.base >= lo /\ End(x) <= hi
                        /\ s.base <= x.base /\ End(x) <= End(s)
FreePiece(u, s, lo, hi) ==
    /\ u \in Seq(SegType) /\ Few(u) /\ Ordered(u) /\ Within3(u, s, lo, hi)
    /\ \A x \in Range(u) : x.type = "free" /\ x.base = lo
LEMMA Pieces ==
    ASSUME NEW s \in SegType, s.type = "free", Classed(s.size), NEW addr \in Nat, NEW n \in Nat \ {0},
           s.base <= addr, addr + n <= End(s)
    PROVE  /\ FreePiece(Below(s, addr), s, s.base, addr)
           /\ FreePiece(Above(s, addr, n), s, addr + n, End(s))
           /\ Seg("allocated", addr, n) \in SegType
           /\ Within3(<<Seg("allocated", addr, n)>>, s, addr, addr + n)
<1>1. s.base \in Nat /\ s.size \in Nat \ {0} /\ End(s) = s.base + s.size /\ End(s) \in Nat  BY DEF SegType, End
<1>2. \A k \in 1 .. s.size : Classed(k)  BY <1>1 DEF Classed
<1>3. ASSUME NEW u, u = <<>> PROVE u \in Seq(SegType) /\ Few(u) /\ Ordered(u) /\ Range(u) = {}
  BY <1>3 DEF Few, Ordered, Range
<1>4. ASSUME NEW u, NEW x \in SegType, u = <<x>> PROVE u \in Seq(SegType) /\ Few(u) /\ Ordered(u) /\ Range(u) = {x}
  BY <1>4 DEF Few, Ordered, Range
<1>5. /\ Below(s, addr) \in Seq(SegType) /\ Few(Below(s, addr)) /\ Ordered(Below(s, addr))
      /\ \A x \in Range(Below(s, addr)) : x.type = "free" /\ x.base = s.base
      /\ Within3(Below(s, addr), s, s.base, addr)
  <2>1. CASE addr > s.base
    <3>1. PICK x : x = Seg("free", s.base, addr - s.base)  OBVIOUS
    <3>2. x.type = "free" /\ x.base = s.base /\ x.size = addr - s.base  BY <3>1 DEF Seg
    <3>3. x.size \in 1 .. s.size /\ End(x) = addr  BY <1>1, <2>1, <3>2 DEF End
    <3>4. x \in SegType  BY <1>1, <3>1, <3>2, <3>3 DEF SegType, Seg
    <3>5. Below(s, addr) = <<x>>  BY <2>1, <3>1 DEF Below
    <3>6. Classed(x.size) /\ x.type \notin SpanTypes  BY <1>2, <3>2, <3>3 DEF SpanTypes
    <3> QED  BY <1>1, <1>4, <3>2, <3>3, <3>4, <3>5, <3>6 DEF Within3
  <2>2. CASE ~(addr > s.base)
    <3>1. Below(s, addr) = <<>>  BY <2>2 DEF Below
    <3> QED  BY <1>3, <3>1 DEF Within3
  <2> QED  BY <2>1, <2>2
<1>6. /\ Above(s, addr, n) \in Seq(SegType) /\ Few(Above(s, addr, n)) /\ Ordered(Above(s, addr, n))
      /\ \A x \in Range(Above(s, addr, n)) : x.type = "free" /\ x.base = addr + n
      /\ Within3(Above(s, addr, n), s, addr + n, End(s))
  <2>1. CASE addr + n < End(s)
    <3>1. PICK x : x = Seg("free", addr + n, End(s) - (addr + n))  OBVIOUS
    <3>2. x.type = "free" /\ x.base = addr + n /\ x.size = End(s) - (addr + n)  BY <3>1 DEF Seg
    <3>3. x.size \in 1 .. s.size /\ End(x) = End(s) /\ x.base \in Nat /\ s.base <= x.base  BY <1>1, <2>1, <3>2 DEF End
    <3>4. x \in SegType  BY <3>1, <3>2, <3>3 DEF SegType, Seg
    <3>5. Above(s, addr, n) = <<x>>  BY <2>1, <3>1 DEF Above
    <3>6. Classed(x.size) /\ x.type \notin SpanTypes  BY <1>2, <3>2, <3>3 DEF SpanTypes
    <3> QED  BY <1>1, <1>4, <3>2, <3>3, <3>4, <3>5, <3>6 DEF Within3
  <2>2. CASE ~(addr + n < End(s))
    <3>1. Above(s, addr, n) = <<>>  BY <2>2 DEF Above
    <3> QED  BY <1>3, <3>1 DEF Within3
  <2> QED  BY <2>1, <2>2
<1>7. Seg("allocated", addr, n) \in SegType /\ Within3(<<Seg("allocated", addr, n)>>, s, addr, addr + n)
  <2>1. PICK x : x = Seg("allocated", addr, n)  OBVIOUS
  <2>2. x.type = "allocated" /\ x.base = addr /\ x.size = n /\ x \in SegType  BY <2>1 DEF Seg, SegType
  <2>3. End(x) = addr + n /\ n \in 1 .. s.size  BY <1>1, <2>2 DEF End
  <2>4. Range(<<x>>) = {x}  BY DEF Range
  <2>5. Classed(x.size) /\ x.type \notin SpanTypes  BY <1>2, <2>2, <2>3 DEF SpanTypes
  <2> QED  BY <1>1, <2>1, <2>2, <2>3, <2>4, <2>5 DEF Within3
<1> QED  BY <1>5, <1>6, <1>7 DEF FreePiece

\* split_seg of any part of a free segment.
FreeAfter(a, b, s, addr, n) ==
    FreeSegs(b.segqueue) = (FreeSegs(a.segqueue) \ {s}) \cup Range(Below(s, addr)) \cup Range(Above(s, addr, n))
LEMMA SplitAt ==
    ASSUME NEW a, ArenaOK(a), NEW i \in DOMAIN a.segqueue, a.segqueue[i].type = "free",
           NEW addr \in Nat, NEW n \in Nat \ {0},
           a.segqueue[i].base <= addr, addr + n <= End(a.segqueue[i])
    PROVE  LET b == split_seg(a, i, addr, n)
           IN  /\ ArenaOK(b) /\ Spans(b) = Spans(a)
               /\ Allocated(b) = Allocated(a) \cup {Seg("allocated", addr, n)}
               /\ FreeAfter(a, b, a.segqueue[i], addr, n)
<1>0. PICK q : q = a.segqueue  OBVIOUS
<1>1. QueueOK(q) /\ Has(a, q, FreeSegs(q)) /\ q \in Seq(SegType) /\ DOMAIN q = 1 .. Len(q) /\ Len(q) \in Nat /\ i \in DOMAIN q
  BY <1>0 DEF ArenaOK, QueueOK
<1>2. PICK s : s = q[i]  OBVIOUS
<1>3. s \in Range(q) /\ s.type = "free" /\ s \in FreeSegs(q) /\ s.base <= addr /\ addr + n <= End(s)
  BY <1>0, <1>1, <1>2 DEF FreeSegs, Range
<1>4. /\ s \in SegType /\ s.base \in Nat /\ s.size \in Nat \ {0} /\ End(s) = s.base + s.size
      /\ Classed(s.size) /\ freelist(s.size) \in 0 .. NFreeLists - 1
  BY <1>1, <1>3, SegsTyped
<1>5. PICK l : l = Below(s, addr)  OBVIOUS
<1>6. PICK r : r = Above(s, addr, n)  OBVIOUS
<1>7. PICK t : t = Seg("allocated", addr, n)  OBVIOUS
<1>8. /\ l \in Seq(SegType) /\ Few(l) /\ Ordered(l) /\ Within3(l, s, s.base, addr)
      /\ \A x \in Range(l) : x.type = "free" /\ x.base = s.base
  <2>1. FreePiece(l, s, s.base, addr)  BY <1>3, <1>4, <1>5, Pieces
  <2> QED  BY <2>1 DEF FreePiece
<1>9. /\ r \in Seq(SegType) /\ Few(r) /\ Ordered(r) /\ Within3(r, s, addr + n, End(s))
      /\ \A x \in Range(r) : x.type = "free" /\ x.base = addr + n
  <2>1. FreePiece(r, s, addr + n, End(s))  BY <1>3, <1>4, <1>6, Pieces
  <2> QED  BY <2>1 DEF FreePiece
<1>10. t \in SegType /\ Within3(<<t>>, s, addr, addr + n) /\ t.type = "allocated"
  BY <1>3, <1>4, <1>7, Pieces DEF Seg
<1>11. <<t>> \in Seq(SegType) /\ Range(<<t>>) = {t} /\ Ordered(<<t>>)  BY <1>10 DEF Range, Ordered
<1>12. \A x \in SegType : x.base \in Nat /\ End(x) \in Nat  BY DEF SegType, End
<1>13. PICK lt : lt = l \o <<t>>  OBVIOUS
<1>14. lt \in Seq(SegType) /\ Ordered(lt) /\ Range(lt) = Range(l) \cup {t}
  <2>1. \A x \in Range(l), y \in Range(<<t>>) : InOrder(x, y)
    <3>1. \A x \in Range(l) : x \in SegType /\ End(x) <= addr  BY <1>8 DEF Within3, Range
    <3>2. t.base >= addr  BY <1>10, <1>11 DEF Within3
    <3>3. t.base \in Nat  BY <1>10, <1>12
    <3> QED  BY <1>11, <1>12, <3>1, <3>2, <3>3 DEF InOrder
  <2> QED  BY <1>8, <1>11, <1>13, <2>1, JoinSegs
<1>15. PICK new : new = lt \o r  OBVIOUS
<1>16. new \in Seq(SegType) /\ Ordered(new) /\ Range(new) = Range(l) \cup {t} \cup Range(r)
  <2>1. \A x \in Range(lt), y \in Range(r) : InOrder(x, y)
    <3>1. \A x \in Range(l) : x \in SegType /\ End(x) <= addr  BY <1>8 DEF Within3, Range
    <3>2. End(t) <= addr + n  BY <1>10, <1>11 DEF Within3
    <3>3. \A y \in Range(r) : y \in SegType /\ y.base >= addr + n  BY <1>9 DEF Within3, Range
    <3>4. \A x \in Range(lt) : x \in SegType /\ End(x) <= addr + n  BY <1>10, <1>12, <1>14, <3>1, <3>2
    <3> QED  BY <1>12, <3>3, <3>4 DEF InOrder
  <2> QED  BY <1>9, <1>14, <1>15, <2>1, JoinSegs
<1>17. \A x \in Range(new) : /\ x.type \notin SpanTypes /\ Classed(x.size)
                             /\ s.base <= x.base /\ End(x) <= End(s)
  BY <1>8, <1>9, <1>10, <1>11, <1>16 DEF Within3
<1>18. 1 \in 0 .. 2 /\ 1 \in 1 .. 2 /\ i \in 1 .. Len(q) + 1 /\ i + 1 <= Len(q) + 1 /\ i + 1 - 1 = i /\ i \in Int
  BY <1>1
<1>19. Inner(q, i, 1, new)
  <2>1. i .. i + 1 - 1 = {i}  BY <1>18
  <2>2. s.type \notin SpanTypes  BY <1>3 DEF SpanTypes
  <2>3. \A j \in DOMAIN new : new[j] \in Range(new)  BY DEF Range
  <2> QED  BY <1>2, <1>16, <1>17, <1>18, <2>1, <2>2, <2>3 DEF Inner
<1>20. PICK p : p = Spliced(q, i, 1, new)  OBVIOUS
<1>21. QueueOK(p)  BY <1>1, <1>16, <1>18, <1>19, <1>20, SpliceInner
<1>22. Range(p) = (Range(q) \ {s}) \cup Range(new)
  <2>1. Range(p) = (Range(q) \ Cut(q, i, 1)) \cup Range(new)  BY <1>1, <1>16, <1>18, <1>20, SplicedSegs
  <2>2. Cut(q, i, 1) = {s}  BY <1>2, <1>18, CutOne
  <2> QED  BY <2>1, <2>2
<1>23. PICK F : F = FreeSegs(q) \ {s}  OBVIOUS
<1>24. OneEach(FreeSegs(q)) /\ FreeSegs(q) \in SUBSET SegType  BY <1>1, FreeOneEach
<1>25. Has(freelist_remove(a, s), q, F)  BY <1>1, <1>3, <1>4, <1>23, <1>24, HasRemove
<1>26. PICK c : c = Splice(freelist_remove(a, s), i, 1, new)  OBVIOUS
<1>27. Has(c, p, F) /\ F \in SUBSET SegType  BY <1>16, <1>18, <1>20, <1>23, <1>24, <1>25, <1>26, HasSplice
<1>28. \A x \in F : (End(x) <= s.base \/ End(s) <= x.base) /\ x.base \in Nat /\ x.base < End(x)
  <2> SUFFICES ASSUME NEW x \in F
               PROVE  (End(x) <= s.base \/ End(s) <= x.base) /\ x.base \in Nat /\ x.base < End(x)
    OBVIOUS
  <2>1. x \in Range(q) /\ x # s /\ x.type \notin SpanTypes /\ s.type \notin SpanTypes
    BY <1>3, <1>23 DEF FreeSegs, SpanTypes
  <2>2. End(x) <= s.base \/ End(s) <= x.base  BY <1>1, <1>3, <2>1, Apart
  <2>3. x.base \in Nat /\ x.size \in Nat \ {0} /\ End(x) = x.base + x.size  BY <1>1, <2>1, SegsTyped
  <2> QED  BY <2>2, <2>3
<1>29. PICK d : d = ListIfAny(c, l)  OBVIOUS
<1>30. Has(d, p, F \cup Range(l)) /\ F \cup Range(l) \in SUBSET SegType
  <2>1. \A x \in Range(l) : Classed(x.size) /\ \A y \in F : y.base # x.base
    <3>1. \A x \in Range(l) : Classed(x.size) /\ x.base = s.base  BY <1>8 DEF Within3
    <3>2. \A y \in F : \A e \in Int : e = End(y) => y.base # s.base  BY <1>4, <1>28
    <3>3. \A y \in F : End(y) \in Int  BY <1>12, <1>27
    <3> QED  BY <3>1, <3>2, <3>3
  <2> QED  BY <1>8, <1>27, <1>29, <2>1, ListedIfAny
<1>31. PICK b : b = ListIfAny(d, r)  OBVIOUS
<1>32. Has(b, p, (F \cup Range(l)) \cup Range(r))
  <2>1. \A x \in Range(r) : Classed(x.size) /\ \A y \in F \cup Range(l) : y.base # x.base
    <3>1. \A x \in Range(r) : Classed(x.size) /\ x.base = addr + n /\ addr + n < End(s)
      <4> SUFFICES ASSUME NEW x \in Range(r) PROVE Classed(x.size) /\ x.base = addr + n /\ addr + n < End(s)
        OBVIOUS
      <4>1. x \in SegType /\ Classed(x.size) /\ x.base = addr + n /\ End(x) <= End(s)  BY <1>9 DEF Within3, Range
      <4>2. x.base < End(x)  BY <4>1 DEF SegType, End
      <4> QED  BY <1>4, <1>12, <4>1, <4>2
    <3>2. \A y \in F : addr + n < End(s) => y.base # addr + n
      <4>1. \A y \in F : End(y) \in Int  BY <1>12, <1>27
      <4> QED  BY <1>3, <1>4, <1>28, <4>1
    <3>3. \A y \in Range(l) : y.base # addr + n  BY <1>3, <1>4, <1>8
    <3> QED  BY <3>1, <3>2, <3>3
  <2> QED  BY <1>9, <1>30, <1>31, <2>1, ListedIfAny
<1>33. FreeSegs(p) = (F \cup Range(l)) \cup Range(r)
  BY <1>8, <1>9, <1>10, <1>16, <1>22, <1>23 DEF FreeSegs
<1>34. ArenaOK(b) /\ b.segqueue = p  BY <1>21, <1>32, <1>33 DEF ArenaOK, Has
<1>35. b = split_seg(a, i, addr, n)
  BY <1>0, <1>2, <1>5, <1>6, <1>7, <1>13, <1>15, <1>26, <1>29, <1>31 DEF split_seg, Below, Above
<1>36. Spans(b) = Spans(a)  BY <1>0, <1>3, <1>17, <1>22, <1>34 DEF Spans, SpanTypes
<1>37. Allocated(b) = Allocated(a) \cup {t}
  BY <1>0, <1>3, <1>8, <1>9, <1>10, <1>16, <1>22, <1>34 DEF Allocated
<1>38. FreeAfter(a, b, s, addr, n)  BY <1>0, <1>5, <1>6, <1>23, <1>33, <1>34 DEF FreeAfter
<1> QED  BY <1>0, <1>2, <1>7, <1>34, <1>35, <1>36, <1>37, <1>38

\* What the search finds is free and has room at the place.
LEMMA SearchFits ==
    ASSUME NEW a, ArenaOK(a), NEW size \in Nat \ {0}, HasClass(size), NEW min \in Nat, NEW exact \in BOOLEAN,
           Search(a, size, min, exact) # 0
    PROVE  LET i == Search(a, size, min, exact)
           IN  /\ i \in DOMAIN a.segqueue /\ a.segqueue[i] \in FreeSegs(a.segqueue)
               /\ Fits(a.segqueue[i], size, min, exact)
<1> DEFINE q == a.segqueue
           fl == a.freelist
           Fit(k) == Fitting(a, k, size, min, exact)
           lists == {k \in freelist(size) .. NFreeLists - 1 : Fit(k) # {}}
           k0 == Min(lists)
           i0 == Min(Fit(k0))
           j0 == FreeAt(a, fl[k0][i0])
<1>1. /\ fl \in [0 .. NFreeLists - 1 -> Seq(Nat)] /\ NFreeLists \in Nat
  BY VmemAssumption DEF ArenaOK, Has
<1>2. freelist(size) \in 0 .. NFreeLists - 1  BY DEF HasClass, freelist
<1>3. ASSUME NEW k \in 0 .. NFreeLists - 1
      PROVE  Fit(k) \subseteq DOMAIN fl[k] /\ DOMAIN fl[k] \subseteq Nat
  <2>1. fl[k] \in Seq(Nat)  BY <1>1
  <2>2. DOMAIN fl[k] \subseteq Nat  BY <2>1
  <2>3. Fit(k) \subseteq DOMAIN fl[k]  BY DEF Fitting
  <2> QED  BY <2>2, <2>3
<1>4. lists \subseteq 0 .. NFreeLists - 1
  <2>1. \A k \in freelist(size) .. NFreeLists - 1 : k \in 0 .. NFreeLists - 1  BY <1>1, <1>2
  <2> HIDE DEF Fit
  <2> QED  BY <2>1
<1>5. lists # {} /\ Search(a, size, min, exact) = j0  BY DEF Search
<1>6. k0 \in lists
  <2>1. lists \subseteq Nat
    <3> HIDE DEF lists
    <3> QED  BY <1>1, <1>4
  <2> HIDE DEF lists
  <2> QED  BY <1>5, <2>1, MinNatural
<1>7. k0 \in 0 .. NFreeLists - 1 /\ Fit(k0) # {}  BY <1>4, <1>6
<1> HIDE DEF k0, lists
<1>8. i0 \in Fit(k0)
  <2>1. Fit(k0) \subseteq Nat  BY <1>3, <1>7
  <2> HIDE DEF Fit
  <2> QED  BY <1>7, <2>1, MinNatural
<1> HIDE DEF i0
<1>9. i0 \in DOMAIN fl[k0] /\ Fits(q[j0], size, min, exact)  BY <1>8 DEF Fitting
<1>10. j0 \in DOMAIN q /\ q[j0] \in FreeSegs(q)  BY <1>7, <1>9, ListedFree
<1> QED  BY <1>5, <1>9, <1>10

\* A larger size has no lower list.
LEMMA PowersGrow == ASSUME NEW j \in Nat, NEW k \in Nat, j <= k PROVE 2^j \in Nat /\ 2^k \in Nat /\ 2^j <= 2^k
<1> DEFINE S(x) == 1 .. x
<1>1. ASSUME NEW x \in Nat PROVE IsFiniteSet(S(x)) /\ Cardinality(S(x)) = x
  <2>1. 1 \in Int /\ x \in Int  OBVIOUS
  <2>2. IsFiniteSet(1 .. x) /\ Cardinality(1 .. x) = IF 1 > x THEN 0 ELSE x - 1 + 1  BY <2>1, FS_Interval
  <2> QED  BY <2>2
<1>2. S(j) \subseteq S(k)  OBVIOUS
<1> HIDE DEF S
<1>3. ASSUME NEW x \in Nat PROVE IsFiniteSet(SUBSET S(x)) /\ Cardinality(SUBSET S(x)) = 2^x  BY <1>1, FS_SUBSET
<1>4. SUBSET S(j) \subseteq SUBSET S(k)  BY <1>2
<1>5. Cardinality(SUBSET S(j)) <= Cardinality(SUBSET S(k))  BY <1>3, <1>4, FS_Subset
<1>6. Cardinality(SUBSET S(j)) \in Nat /\ Cardinality(SUBSET S(k)) \in Nat  BY <1>3, FS_CardinalityType
<1> QED  BY <1>3, <1>5, <1>6

LEMMA ClassesGrow ==
    ASSUME NEW l \in Nat, NEW n \in Nat, l <= n, HasClass(l), HasClass(n)
    PROVE  freelist(l) \in 0 .. NFreeLists - 1 /\ freelist(n) \in 0 .. NFreeLists - 1 /\ freelist(l) <= freelist(n)
<1>1. PICK j \in 0 .. NFreeLists - 1 : j = freelist(l) /\ InClass(l, j)  BY DEF HasClass, freelist
<1>2. PICK k \in 0 .. NFreeLists - 1 : k = freelist(n) /\ InClass(n, k)  BY DEF HasClass, freelist
<1>3. j <= k
  <2> SUFFICES ASSUME k + 1 <= j PROVE FALSE  BY VmemAssumption
  <2>1. j \in Nat /\ k + 1 \in Nat  BY VmemAssumption
  <2>2. 2^j \in Nat /\ 2^(k + 1) \in Nat /\ 2^(k + 1) <= 2^j  BY <2>1, PowersGrow
  <2>3. 2^j <= l /\ n < 2^(k + 1)  BY <1>1, <1>2 DEF InClass
  <2> QED  BY <2>2, <2>3
<1> QED  BY <1>1, <1>2, <1>3

\* A search for an address finds the free segment it is in.
LEMMA SearchAt ==
    ASSUME NEW a, ArenaOK(a), NEW size \in Nat \ {0}, HasClass(size), NEW min \in Nat, NEW x \in FreeSegs(a.segqueue),
           x.base <= min, min + size <= End(x), NEW exact, exact = TRUE
    PROVE  Search(a, size, min, exact) # 0 /\ Place(a.segqueue[Search(a, size, min, exact)], min) = min
<1>1. PICK q : q = a.segqueue  OBVIOUS
<1>2. PICK fl : fl = a.freelist  OBVIOUS
<1>3. /\ QueueOK(q) /\ q \in Seq(SegType) /\ Ordered(q) /\ Listing(fl, FreeSegs(q))
      /\ fl \in [0 .. NFreeLists - 1 -> Seq(Nat)] /\ NFreeLists \in Nat
  BY <1>1, <1>2, VmemAssumption DEF ArenaOK, Has, QueueOK
<1>4. x \in Range(q) /\ x \in FreeSegs(q)  BY <1>1 DEF FreeSegs
<1>5. /\ x.base \in Nat /\ x.size \in Nat \ {0} /\ End(x) = x.base + x.size /\ Classed(x.size)
  BY <1>3, <1>4, SegsTyped
<1>6. size <= x.size /\ HasClass(x.size)  BY <1>5 DEF Classed
<1>7. PICK k : k = freelist(x.size)  OBVIOUS
<1>8. k \in freelist(size) .. NFreeLists - 1 /\ k \in 0 .. NFreeLists - 1 /\ freelist(size) \in 0 .. NFreeLists - 1
  BY <1>3, <1>5, <1>6, <1>7, ClassesGrow
<1>9. PICK i \in DOMAIN fl[k] : fl[k][i] = x.base
  <2>1. x.base \in Bases(FreeSegs(q), k)  BY <1>4, <1>7 DEF Bases
  <2>2. Range(fl[k]) = Bases(FreeSegs(q), k)  BY <1>3, <1>8 DEF Listing
  <2> QED  BY <2>1, <2>2 DEF Range
<1>10. FreeAt(a, x.base) \in DOMAIN q /\ q[FreeAt(a, x.base)] = x  BY <1>1, <1>3, <1>4, FreeFound
<1>11. Fits(x, size, min, exact)  BY <1>5 DEF Fits, Place
<1> DEFINE Fit(j) == Fitting(a, j, size, min, exact)
           lists == {j \in freelist(size) .. NFreeLists - 1 : Fit(j) # {}}
<1>12. i \in Fit(k)  BY <1>1, <1>2, <1>9, <1>10, <1>11 DEF Fitting
<1>13. k \in lists
  <2>1. Fit(k) # {}  BY <1>12
  <2> HIDE DEF Fit
  <2> QED  BY <1>8, <2>1
<1>14. Search(a, size, min, exact) = FreeAt(a, fl[Min(lists)][Min(Fit(Min(lists)))])
  <2>1. Search(a, size, min, exact) = IF lists = {} THEN 0 ELSE FreeAt(a, a.freelist[Min(lists)][Min(Fit(Min(lists)))])
    BY DEF Search
  <2> HIDE DEF lists, Fit
  <2> QED  BY <1>2, <1>13, <2>1
<1>15. \A j \in lists : j \in 0 .. NFreeLists - 1 /\ Fit(j) # {}
  <2>1. \A j \in freelist(size) .. NFreeLists - 1 : j \in 0 .. NFreeLists - 1  BY <1>3, <1>8
  <2> HIDE DEF Fit
  <2> QED  BY <2>1
<1>16. \A j : Fit(j) \subseteq DOMAIN fl[j]  BY <1>2 DEF Fitting
<1> HIDE DEF lists, Fit
<1>17. lists \subseteq Nat  BY <1>3, <1>15
<1>18. PICK k0 \in lists : k0 = Min(lists)  BY <1>13, <1>17, MinNatural
<1>19. PICK i0 \in Fit(k0) : i0 = Min(Fit(k0))
  <2>1. fl[k0] \in Seq(Nat)  BY <1>3, <1>15
  <2>2. DOMAIN fl[k0] \subseteq Nat  BY <2>1
  <2>3. Fit(k0) \subseteq Nat /\ Fit(k0) # {}  BY <1>15, <1>16, <2>2
  <2> QED  BY <2>3, MinNatural
<1>20. FreeAt(a, fl[k0][i0]) \in DOMAIN q
  <2>1. k0 \in 0 .. NFreeLists - 1 /\ i0 \in DOMAIN a.freelist[k0]  BY <1>2, <1>15, <1>16
  <2> QED  BY <1>1, <1>2, <2>1, ListedFree
<1>21. 0 \notin DOMAIN q  BY <1>3
<1>22. Search(a, size, min, exact) # 0  BY <1>14, <1>18, <1>19, <1>20, <1>21
<1>23. Fits(a.segqueue[Search(a, size, min, exact)], size, min, exact)  BY <1>22, SearchFits
<1>24. Place(a.segqueue[Search(a, size, min, exact)], min) = min  BY <1>23 DEF Fits, Place
<1> QED  BY <1>22, <1>24

\* Addresses that are next to each other and not allocated are in one free segment, as long
\* as nothing has been freed.
Vacant(a, lo, hi) == \A t \in Allocated(a) : End(t) <= lo \/ hi <= t.base
Whole(a) ==
    \A lo, hi \in 0 .. UserPages : lo < hi /\ Vacant(a, lo, hi) =>
        \E x \in FreeSegs(a.segqueue) : x.base <= lo /\ hi <= End(x)
LEMMA WholeKept ==
    ASSUME NEW a, ArenaOK(a), Whole(a), NEW i \in DOMAIN a.segqueue, a.segqueue[i].type = "free",
           NEW addr \in Nat, NEW n \in Nat \ {0},
           a.segqueue[i].base <= addr, addr + n <= End(a.segqueue[i]), NEW b, b = split_seg(a, i, addr, n)
    PROVE  Whole(b)
<1> SUFFICES ASSUME NEW lo \in 0 .. UserPages, NEW hi \in 0 .. UserPages, lo < hi, Vacant(b, lo, hi)
             PROVE  \E x \in FreeSegs(b.segqueue) : x.base <= lo /\ hi <= End(x)
  BY DEF Whole
<1>1. PICK s : s = a.segqueue[i]  OBVIOUS
<1>2. s \in Range(a.segqueue) /\ s.type = "free" /\ QueueOK(a.segqueue)  BY <1>1 DEF ArenaOK, Range
<1>3. s.base \in Nat /\ s.size \in Nat \ {0} /\ End(s) = s.base + s.size  BY <1>2, SegsTyped
<1>4. s.base <= addr /\ addr + n <= End(s)  BY <1>1
<1>5. Allocated(b) = Allocated(a) \cup {Seg("allocated", addr, n)} /\ FreeAfter(a, b, s, addr, n)
  BY <1>1, SplitAt
<1>6. Vacant(a, lo, hi)  BY <1>5 DEF Vacant
<1>7. PICK x \in FreeSegs(a.segqueue) : x.base <= lo /\ hi <= End(x)  BY <1>6 DEF Whole
<1>8. lo \in Nat /\ hi \in Nat  BY VmAssumption
<1>9. addr + n <= lo \/ hi <= addr
  <2>1. PICK t : t = Seg("allocated", addr, n)  OBVIOUS
  <2>2. t.base = addr /\ End(t) = addr + n  BY <2>1 DEF Seg, End
  <2>3. End(t) <= lo \/ hi <= t.base  BY <1>5, <2>1 DEF Vacant
  <2> QED  BY <2>2, <2>3
<1>10. CASE x # s  BY <1>5, <1>7, <1>10 DEF FreeAfter
<1>11. CASE x = s /\ hi <= addr
  <2>1. addr > s.base  BY <1>3, <1>7, <1>8, <1>11
  <2>2. PICK y : y = Seg("free", s.base, addr - s.base)  OBVIOUS
  <2>3. Below(s, addr) = <<y>>  BY <2>1, <2>2 DEF Below
  <2>4. y \in Range(Below(s, addr))  BY <2>3 DEF Range
  <2>5. y.base = s.base /\ y.size = addr - s.base  BY <2>2 DEF Seg
  <2>6. End(y) = addr  BY <1>3, <2>5 DEF End
  <2> QED  BY <1>5, <1>7, <1>11, <2>4, <2>5, <2>6 DEF FreeAfter
<1>12. CASE x = s /\ addr + n <= lo
  <2>1. addr + n < End(s)  BY <1>3, <1>7, <1>8, <1>12
  <2>2. PICK y : y = Seg("free", addr + n, End(s) - (addr + n))  OBVIOUS
  <2>3. Above(s, addr, n) = <<y>>  BY <2>1, <2>2 DEF Above
  <2>4. y \in Range(Above(s, addr, n))  BY <2>3 DEF Range
  <2>5. y.base = addr + n /\ y.size = End(s) - (addr + n)  BY <2>2 DEF Seg
  <2>6. End(y) = End(s)  BY <1>3, <2>5 DEF End
  <2> QED  BY <1>5, <1>7, <1>12, <2>4, <2>5, <2>6 DEF FreeAfter
<1> QED  BY <1>9, <1>10, <1>11, <1>12

\* A place in the arena of a map is taken.
UserTakes(a, b, addr, size) ==
    /\ addr \in Nat
    /\ ArenaOK(b) /\ InUser(b) /\ Allocated(b) = Allocated(a) \cup {Seg("allocated", addr, size)}
    /\ \A t \in Allocated(a) : End(t) <= addr \/ addr + size <= t.base
    /\ Whole(a) => Whole(b)
LEMMA UserTaken ==
    ASSUME NEW a, ArenaOK(a), InUser(a), NEW size \in Nat \ {0}, HasClass(size), NEW min \in Nat, NEW exact \in BOOLEAN,
           NEW i, i = Search(a, size, min, exact), i # 0, NEW addr, addr = Place(a.segqueue[i], min),
           NEW b, b = split_seg(a, i, addr, size)
    PROVE  UserTakes(a, b, addr, size)
<1>2. PICK f : f = a.segqueue[i]  OBVIOUS
<1>3. i \in DOMAIN a.segqueue /\ f \in FreeSegs(a.segqueue) /\ Fits(f, size, min, exact)
  BY <1>2, SearchFits
<1>4. f \in Range(a.segqueue) /\ f.type = "free" /\ QueueOK(a.segqueue)  BY <1>3 DEF FreeSegs, ArenaOK
<1>5. f.base \in Nat /\ End(f) \in Nat  BY <1>4, SegsTyped
<1>6. addr = Place(f, min)  BY <1>2
<1>7. addr \in Nat /\ f.base <= addr  BY <1>5, <1>6 DEF Place
<1>8. addr + size <= End(f)  BY <1>3, <1>6 DEF Fits
<1>10. ArenaOK(b) /\ Spans(b) = Spans(a) /\ Allocated(b) = Allocated(a) \cup {Seg("allocated", addr, size)}
  BY <1>2, <1>3, <1>4, <1>7, <1>8, SplitAt
<1>11. ASSUME NEW t \in Allocated(a) PROVE End(t) <= addr \/ addr + size <= t.base
  <2>1. t \in Range(a.segqueue) /\ t.type = "allocated"  BY DEF Allocated
  <2>2. End(t) <= f.base \/ End(f) <= t.base  BY <1>4, <2>1, Apart DEF SpanTypes
  <2>3. t.base \in Nat /\ End(t) \in Nat  BY <1>4, <2>1, SegsTyped
  <2> QED  BY <1>5, <1>7, <1>8, <2>2, <2>3
<1>12. InUser(b)  BY <1>10 DEF InUser
<1>13. Whole(a) => Whole(b)  BY <1>2, <1>3, <1>4, <1>7, <1>8, WholeKept
<1> QED  BY <1>7, <1>10, <1>11, <1>12, <1>13 DEF UserTakes

\* And given back.
LEMMA UserFreed ==
    ASSUME NEW a, ArenaOK(a), InUser(a), NEW s \in Allocated(a)
    PROVE  LET b == vmem_xfree(a, s.base).arena
           IN  ArenaOK(b) /\ InUser(b) /\ Allocated(b) = Allocated(a) \ {s}
<1>1. PICK e : e = vmem_xfree(a, s.base)  OBVIOUS
<1>2. FreedArena(a, s, e)  BY <1>1, FreeArena
<1>3. ~\E t \in Spans(a) : t.type = "imported"  BY DEF InUser, Seg
<1>4. ArenaOK(e.arena) /\ Allocated(e.arena) = Allocated(a) \ {s} /\ Spans(e.arena) = Spans(a)
  BY <1>2, <1>3 DEF FreedArena
<1> QED  BY <1>1, <1>4 DEF InUser

\* A new map is empty.
LEMMA NewMapOK ==
    /\ NewMap \in MapType /\ MapOK(NewMap) /\ NewMap.entries = <<>> /\ Range(NewMap.entries) = {}
    /\ Whole(NewMap.arena)
<1>1. PICK u \in Nat \ {0} : u = UserPages  BY VmAssumption
<1>2. PICK n : n = NoSegs  OBVIOUS
<1>3. ArenaOK(n) /\ Range(n.segqueue) = {}  BY <1>2, NoSegsOK
<1>4. Classed(u)  BY <1>1, VmAssumption DEF Classed
<1>5. ClearOf(n.segqueue, 0, u)  BY <1>3 DEF ClearOf
<1>6. PICK b : b = vmem_add_internal(n, "span", 0, u)  OBVIOUS
<1>7. /\ ArenaOK(b)
      /\ Range(b.segqueue) = Range(n.segqueue) \cup {Seg("span", 0, u), Seg("free", 0, u)}
  <2>1. "span" \in SpanTypes /\ 0 \in Nat  BY DEF SpanTypes
  <2>2. PICK z \in Nat : z = 0  BY <2>1
  <2>3. ArenaOK(n) /\ "span" \in SpanTypes /\ Classed(u) /\ ClearOf(n.segqueue, z, u)
    BY <1>3, <1>4, <1>5, <2>1, <2>2
  <2>4. LET c == vmem_add_internal(n, "span", z, u)
        IN  /\ ArenaOK(c)
            /\ Range(c.segqueue) = Range(n.segqueue) \cup {Seg("span", z, u), Seg("free", z, u)}
            /\ Len(c.segqueue) = Len(n.segqueue) + 2
    BY <2>3, AddArena, ZenonT(30)
  <2> QED  BY <1>6, <2>2, <2>4
<1>8. vmem_init(0, UserPages) = b  BY <1>1, <1>2, <1>6 DEF vmem_init
<1>9. NewMap = [arena |-> b, entries |-> <<>>]  BY <1>8 DEF NewMap
<1>10. Spans(b) = {Seg("span", 0, UserPages)} /\ Allocated(b) = {}
  BY <1>1, <1>3, <1>7 DEF Spans, Allocated, Seg, SpanTypes
<1>11. b \in ArenaType  BY <1>7, ArenaTyped
<1>12. PICK p : p = NewMap  OBVIOUS
<1>13. p.arena = b /\ p.entries = <<>> /\ p \in MapType  BY <1>9, <1>11, <1>12 DEF MapType
<1>14. Range(p.entries) = {} /\ DOMAIN p.entries = {}  BY <1>13 DEF Range
<1>15. MapOK(p)  BY <1>7, <1>10, <1>13, <1>14 DEF MapOK, InUser
<1>16. Whole(b)
  <2>1. PICK x : x = Seg("free", 0, u)  OBVIOUS
  <2>2. x.type = "free" /\ x.base = 0 /\ End(x) = u  BY <2>1 DEF Seg, End
  <2>3. x \in FreeSegs(b.segqueue)  BY <1>7, <2>1, <2>2 DEF FreeSegs
  <2> QED  BY <1>1, <2>2, <2>3 DEF Whole
<1> QED  BY <1>12, <1>13, <1>14, <1>15, <1>16

------------------------------------------------------------------------------
\* Address spaces: the first state, and the processor's steps.

LEMMA VAsFinite == IsFiniteSet(VAs) /\ VAs \subseteq Nat
<1>1. UserPages \in Nat \ {0}  BY VmAssumption
<1>2. 0 \in Int /\ UserPages - 1 \in Int  BY <1>1
<1> QED  BY <1>2, FS_Interval DEF VAs

LEMMA AnonsNatural == NoAnon \notin Anons /\ NoAnon = 0 /\ NoPte \in PteType /\ NoPte.page = NoAnon /\ ~NoPte.write
BY VmAssumption DEF NoAnon, NoPte, PteType

\* The places of the anons are finitely many.
LEMMA PlacesFinite ==
    ASSUME NEW ob, NEW a
    PROVE  IsFiniteSet(AmapPlaces(ob, a)) /\ Cardinality(AmapPlaces(ob, a)) \in Nat
<1>1. IsFiniteSet(Objs \X VAs)  BY VAsFinite, VmAssumption, FS_Product
<1>2. AmapPlaces(ob, a) \in SUBSET (Objs \X VAs)  BY DEF AmapPlaces
<1>3. IsFiniteSet(AmapPlaces(ob, a))  BY <1>1, <1>2, FS_Subset
<1> QED  BY <1>3, FS_CardinalityType

LEMMA UsedFinite == ASSUME NEW an PROVE IsFiniteSet(UsedAnons(an)) /\ Cardinality(UsedAnons(an)) \in Nat
<1>1. UsedAnons(an) \in SUBSET Anons  BY DEF UsedAnons
<1>2. IsFiniteSet(UsedAnons(an))  BY <1>1, VmAssumption, FS_Subset
<1> QED  BY <1>2, FS_CardinalityType

\* An anon without references is not mapped.
LEMMA UnusedUnmapped ==
    ASSUME NEW s, NEW n, VmOK(s, n), NEW a \in Anons, s.anon[a].refcnt = 0
    PROVE  /\ AmapPlaces(s.obj, a) = {} /\ s.anon[a].pv = {}
           /\ \A m \in Maps, va \in VAs : s.pte[m][va].page # a
<1>1. s \in VmType /\ RefsOK(s.obj, s.anon) /\ PtesOK(s.map, s.obj, s.anon, s.pte) /\ PvOK(s.anon, s.pte)
  BY DEF VmOK
<1>2. AmapPlaces(s.obj, a) = {}
  <2>1. Cardinality(AmapPlaces(s.obj, a)) = 0  BY <1>1 DEF RefsOK
  <2> QED  BY <2>1, PlacesFinite, FS_EmptySet
<1>3. ASSUME NEW m \in Maps, NEW va \in VAs, s.pte[m][va].page = a PROVE FALSE
  <2>1. s.pte[m][va] # NoPte  BY <1>3, AnonsNatural
  <2>2. Shows(s.map, s.obj, m, va, a)  BY <1>1, <1>3, <2>1 DEF PtesOK, PteOK
  <2>3. PICK e \in Range(s.map[m].entries) :
           va \in e.start .. e.end - 1 /\ s.obj[e.obj].amap[va - e.start] = a
    BY <2>2 DEF Shows, Entries
  <2>4. s.map[m] \in MapType /\ MapOK(s.map[m])  BY <1>1, VmTyped DEF VmOK
  <2>5. e \in EntryType /\ e.start \in Nat /\ e.end \in Nat /\ e.end <= UserPages  BY <2>4, EntrySpot
  <2>6. va - e.start \in VAs  BY <2>3, <2>5, VmAssumption DEF VAs
  <2>7. e.obj \in Objs  BY <2>5 DEF EntryType
  <2>8. <<e.obj, va - e.start>> \in AmapPlaces(s.obj, a)  BY <2>3, <2>6, <2>7 DEF AmapPlaces
  <2> QED  BY <1>2, <2>8
<1>4. s.anon[a].pv = {}
  <2>1. s.anon[a].pv = {x \in Maps \X VAs : s.pte[x[1]][x[2]].page = a}  BY <1>1 DEF PvOK
  <2> QED  BY <1>3, <2>1
<1> QED  BY <1>2, <1>3, <1>4

LEMMA VmStart == VmInit => VmInv
<1> SUFFICES ASSUME VmInit PROVE VmInv  OBVIOUS
<1>1. PICK s : s = VmNow  OBVIOUS
<1>2. /\ s = [map |-> map, obj |-> obj, anon |-> anon, pte |-> pte, tables |-> tables, nfree |-> nfree, tlb |-> tlb]
  BY <1>1 DEF VmNow
<1>3. /\ \A m \in Maps : map[m] = NewMap /\ tables[m] = {} /\ \A va \in VAs : pte[m][va] = NoPte /\ tlb[m][va] = NoPte
      /\ \A o \in Objs : obj[o] = FreeObj
      /\ \A a \in Anons : anon[a] = FreeAnon
      /\ nfree = UserMemory - 1 /\ roots = 1 /\ procs = {First}
  BY DEF VmInit, Unmapped
<1>4. /\ FreeObj \in ObjType /\ FreeAnon \in AnonType /\ Unmapped \in [VAs -> PteType]
      /\ FreeObj.refcnt = 0 /\ FreeObj.amap = [i \in VAs |-> NoAnon]
      /\ FreeAnon.refcnt = 0 /\ FreeAnon.pv = {}
  BY AnonsNatural, VmAssumption DEF FreeObj, FreeAnon, Unmapped, ObjType, AnonType
<1>5. map \in [Maps -> MapType] /\ \A m \in Maps : MapOK(map[m]) /\ map[m].entries = <<>> /\ Entries(map, m) = {}
  <2>1. PICK p : p = NewMap  OBVIOUS
  <2>2. p \in MapType /\ MapOK(p) /\ p.entries = <<>> /\ Range(p.entries) = {}  BY <2>1, NewMapOK
  <2>3. map = [m \in Maps |-> p]  BY <2>1 DEF VmInit
  <2> QED  BY <2>2, <2>3 DEF Entries
<1>6. s \in VmType
  <2>1. obj \in [Objs -> ObjType] /\ anon \in [Anons -> AnonType]  BY <1>4 DEF VmInit
  <2>2. pte \in [Maps -> [VAs -> PteType]] /\ tlb \in [Maps -> [VAs -> PteType]]  BY <1>4 DEF VmInit
  <2>3. tables \in [Maps -> SUBSET TableIds] /\ nfree \in Int  BY VmAssumption DEF VmInit
  <2> QED  BY <1>2, <1>5, <2>1, <2>2, <2>3 DEF VmType
<1>7. ViewsOK(map, obj)  BY <1>5 DEF ViewsOK
<1>8. ObjsOK(obj)  BY <1>3, <1>4 DEF ObjsOK
<1>9. RefsOK(obj, anon)
  <2> SUFFICES ASSUME NEW a \in Anons PROVE anon[a].refcnt = Cardinality(AmapPlaces(obj, a))  BY DEF RefsOK
  <2>1. AmapPlaces(obj, a) = {}
    <3>1. \A o \in Objs, i \in VAs : obj[o].amap[i] = NoAnon  BY <1>3, <1>4
    <3> QED  BY <3>1, AnonsNatural DEF AmapPlaces
  <2> QED  BY <1>3, <1>4, <2>1, FS_EmptySet
<1>10. PtesOK(map, obj, anon, pte) /\ TlbOK(pte, tlb)  BY <1>3 DEF PtesOK, PteOK, TlbOK, Caches
<1>11. PvOK(anon, pte)
  <2>1. \A m \in Maps, va \in VAs : pte[m][va].page = NoAnon  BY <1>3, AnonsNatural
  <2> QED  BY <1>3, <1>4, <2>1, AnonsNatural DEF PvOK
<1>12. PagesOK(anon, tables, nfree, UserMemory - roots)
  <2>1. UsedAnons(anon) = {}  BY <1>3, <1>4 DEF UsedAnons
  <2>2. AllTables(tables) = {}  BY <1>3 DEF AllTables
  <2>3. UserMemory - 1 = UserMemory - 1 + 0 + 0  BY VmAssumption
  <2> QED  BY <1>3, <2>1, <2>2, <2>3, FS_EmptySet DEF PagesOK
<1>13. VmOK(s, UserMemory - roots)  BY <1>2, <1>5, <1>6, <1>7, <1>8, <1>9, <1>10, <1>11, <1>12 DEF VmOK
<1>14. procs \subseteq Maps /\ roots \in Nat  BY <1>3, VmAssumption
<1> QED  BY <1>1, <1>5, <1>13, <1>14 DEF VmInv

\* The step's state.
LEMMA VmNowTyped ==
    ASSUME VmInv
    PROVE  /\ VmNow \in VmType /\ VmNow.map = map /\ VmNow.obj = obj /\ VmNow.anon = anon /\ VmNow.pte = pte
           /\ VmNow.tables = tables /\ VmNow.nfree = nfree /\ VmNow.tlb = tlb
<1>1. PICK s : s = VmNow  OBVIOUS
<1>2. s \in VmType  BY <1>1 DEF VmInv, VmOK
<1> QED  BY <1>1, <1>2 DEF VmNow

\* A step that leaves a good state is one that keeps the invariant.
LEMMA VmBecame ==
    ASSUME VmInv, NEW t, VmBecomes(t), VmOK(t, UserMemory - roots'), roots' \in Nat, procs' \subseteq Maps,
           \A m \in Maps \ procs' : t.map[m].entries = <<>>
    PROVE  VmInv' /\ VmNow' = t
<1>1. t \in VmType  BY DEF VmOK
<1>2. t = [map |-> map', obj |-> obj', anon |-> anon', pte |-> pte', tables |-> tables', nfree |-> nfree', tlb |-> tlb']
  BY <1>1, VmTyped DEF VmBecomes
<1>3. VmNow' = t  BY <1>2 DEF VmNow
<1>4. map' = t.map  BY DEF VmBecomes
<1> QED  BY <1>3, <1>4 DEF VmInv

LEMMA TlbOnly ==
    ASSUME NEW s, NEW n, VmOK(s, n), NEW t, NEW u \in [Maps -> [VAs -> PteType]], t = [s EXCEPT !.tlb = u], TlbOK(s.pte, u)
    PROVE  VmOK(t, n) /\ t.map = s.map
<1>1. s \in VmType  BY DEF VmOK
<1>2. /\ t.map = s.map /\ t.obj = s.obj /\ t.anon = s.anon /\ t.pte = s.pte /\ t.tables = s.tables
      /\ t.nfree = s.nfree /\ t.tlb = u /\ t \in VmType
  BY <1>1 DEF VmType
<1> QED  BY <1>2 DEF VmOK

LEMMA TlbFillKeeps ==
    ASSUME VmInv, NEW m \in Maps, NEW va \in VAs, TlbFill(m, va)
    PROVE  VmInv'
<1>1. PICK s : s = VmNow  OBVIOUS
<1>2. VmOK(s, UserMemory - roots) /\ s \in VmType /\ s.pte = pte /\ s.map = map  BY <1>1, VmNowTyped DEF VmInv
<1>3. PICK t : t = [s EXCEPT !.tlb[m][va] = pte[m][va]]  OBVIOUS
<1>4. PICK u : u = [s.tlb EXCEPT ![m][va] = s.pte[m][va]]  OBVIOUS
<1>5. t = [s EXCEPT !.tlb = u]  BY <1>2, <1>3, <1>4 DEF VmType
<1>6. s.tlb \in [Maps -> [VAs -> PteType]] /\ s.pte[m][va] \in PteType  BY <1>2, VmTyped DEF VmType
<1>7. /\ u \in [Maps -> [VAs -> PteType]]
      /\ \A k \in Maps, x \in VAs : u[k][x] = IF k = m /\ x = va THEN s.pte[m][va] ELSE s.tlb[k][x]
  BY <1>4, <1>6
<1>8. TlbOK(s.pte, u)
  <2>1. TlbOK(s.pte, s.tlb)  BY <1>2 DEF VmOK
  <2> QED  BY <1>7, <2>1 DEF TlbOK, Caches
<1>9. VmOK(t, UserMemory - roots) /\ t.map = s.map  BY <1>2, <1>5, <1>7, <1>8, TlbOnly
<1>10. VmBecomes(t) /\ roots' = roots /\ procs' = procs  BY <1>1, <1>3 DEF TlbFill
<1> QED  BY <1>2, <1>9, <1>10, VmBecame DEF VmInv

LEMMA ActivateKeeps ==
    ASSUME VmInv, NEW m \in Maps, vm_activate(m)
    PROVE  VmInv'
<1>1. PICK s : s = VmNow  OBVIOUS
<1>2. VmOK(s, UserMemory - roots) /\ s \in VmType /\ s.map = map  BY <1>1, VmNowTyped DEF VmInv
<1>3. PICK t : t = [s EXCEPT !.tlb[m] = Unmapped]  OBVIOUS
<1>4. PICK u : u = [s.tlb EXCEPT ![m] = Unmapped]  OBVIOUS
<1>5. t = [s EXCEPT !.tlb = u]  BY <1>2, <1>3, <1>4 DEF VmType
<1>6. s.tlb \in [Maps -> [VAs -> PteType]] /\ Unmapped \in [VAs -> PteType]  BY <1>2, AnonsNatural DEF VmType, Unmapped
<1>7. /\ u \in [Maps -> [VAs -> PteType]]
      /\ \A k \in Maps, x \in VAs : u[k][x] = IF k = m THEN NoPte ELSE s.tlb[k][x]
  BY <1>4, <1>6 DEF Unmapped
<1>8. TlbOK(s.pte, u)
  <2>1. TlbOK(s.pte, s.tlb)  BY <1>2 DEF VmOK
  <2> QED  BY <1>7, <2>1 DEF TlbOK, Caches
<1>9. VmOK(t, UserMemory - roots) /\ t.map = s.map  BY <1>2, <1>5, <1>7, <1>8, TlbOnly
<1>10. VmBecomes(t) /\ roots' = roots /\ procs' = procs  BY <1>1, <1>3 DEF vm_activate
<1> QED  BY <1>2, <1>9, <1>10, VmBecame DEF VmInv

LEMMA StoreKeeps ==
    ASSUME VmInv, NEW m \in Maps, NEW va \in VAs, NEW v \in Values, Store(m, va, v)
    PROVE  VmInv'
<1>1. PICK s : s = VmNow  OBVIOUS
<1>2. VmOK(s, UserMemory - roots) /\ s \in VmType /\ s.map = map /\ s.tlb = tlb  BY <1>1, VmNowTyped DEF VmInv
<1>3. PICK a : a = tlb[m][va].page  OBVIOUS
<1>4. a \in Anons
  <2>1. tlb[m][va] # NoPte  BY AnonsNatural DEF Store
  <2>2. Caches(s.tlb[m][va], s.pte[m][va]) /\ PteOK(s.map, s.obj, s.anon, m, va, s.pte[m][va])
    BY <1>2 DEF VmOK, TlbOK, PtesOK
  <2> QED  BY <1>2, <1>3, <2>1, <2>2 DEF Caches, PteOK
<1>5. PICK t : t = [s EXCEPT !.anon[a].content = v]  OBVIOUS
<1>6. PICK an : an = [s.anon EXCEPT ![a].content = v]  OBVIOUS
<1>7. s.anon \in [Anons -> AnonType]  BY <1>2 DEF VmType
<1>8. /\ an \in [Anons -> AnonType]
      /\ \A b \in Anons : an[b].refcnt = s.anon[b].refcnt /\ an[b].pv = s.anon[b].pv
  <2>1. s.anon[a] \in AnonType  BY <1>4, <1>7
  <2>2. PICK x : x = [s.anon[a] EXCEPT !.content = v]  OBVIOUS
  <2>3. x \in AnonType /\ x.refcnt = s.anon[a].refcnt /\ x.pv = s.anon[a].pv  BY <2>1, <2>2 DEF AnonType
  <2>4. an = [s.anon EXCEPT ![a] = x]  BY <1>4, <1>6, <1>7, <2>2
  <2> QED  BY <1>4, <1>7, <2>3, <2>4
<1>9. t = [s EXCEPT !.anon = an]  BY <1>2, <1>5, <1>6 DEF VmType
<1>10. /\ t.map = s.map /\ t.obj = s.obj /\ t.anon = an /\ t.pte = s.pte /\ t.tables = s.tables
       /\ t.nfree = s.nfree /\ t.tlb = s.tlb /\ t \in VmType
  BY <1>2, <1>8, <1>9 DEF VmType
<1>11. RefsOK(s.obj, an) /\ PvOK(an, s.pte)  BY <1>2, <1>8 DEF VmOK, RefsOK, PvOK
<1>12. PtesOK(s.map, s.obj, an, s.pte)  BY <1>2, <1>8 DEF VmOK, PtesOK, PteOK
<1>13. UsedAnons(an) = UsedAnons(s.anon)  BY <1>8 DEF UsedAnons
<1>14. VmOK(t, UserMemory - roots)  BY <1>2, <1>10, <1>11, <1>12, <1>13 DEF VmOK, PagesOK
<1>15. VmBecomes(t) /\ roots' = roots /\ procs' = procs  BY <1>1, <1>3, <1>5 DEF Store
<1> QED  BY <1>2, <1>10, <1>14, <1>15, VmBecame DEF VmInv

------------------------------------------------------------------------------
\* Page tables.

LEMMA TablesFinite == IsFiniteSet(TableIds) /\ \A va \in VAs : TablesFor(va) \subseteq TableIds
<1> DEFINE S == (1 .. Levels) \X VAs
           f == [x \in S |-> <<x[1], x[2] \div Fanout^x[1]>>]
<1>1. IsFiniteSet(S)
  <2>1. 1 \in Int /\ Levels \in Int  BY VmAssumption
  <2>2. IsFiniteSet(1 .. Levels)  BY <2>1, FS_Interval
  <2> QED  BY <2>2, VAsFinite, FS_Product
<1>2. f \in Surjection(S, TableIds)
  <2>1. \A x \in S : f[x] \in TableIds  BY DEF TableIds
  <2>2. ASSUME NEW t \in TableIds PROVE \E x \in S : f[x] = t
    <3>1. PICK l \in 1 .. Levels, va \in VAs : t = <<l, va \div Fanout^l>>  BY DEF TableIds
    <3>2. <<l, va>> \in S /\ f[<<l, va>>] = t  BY <3>1
    <3> QED  BY <3>2
  <2>3. f \in [S -> TableIds]  BY <2>1
  <2> HIDE DEF f, S
  <2> QED  BY <2>2, <2>3 DEF Surjection
<1>3. IsFiniteSet(TableIds)
  <2> HIDE DEF f, S
  <2> QED  BY <1>1, <1>2, FS_Surjection
<1> QED  BY <1>3 DEF TableIds, TablesFor

\* The pages that a set of one map's tables takes.
LEMMA TablesOf ==
    ASSUME NEW m, NEW T \in SUBSET TableIds
    PROVE  /\ IsFiniteSet(T) /\ Cardinality(T) \in Nat
           /\ IsFiniteSet({m} \X T) /\ Cardinality({m} \X T) = Cardinality(T)
<1>1. IsFiniteSet(T)  BY TablesFinite, FS_Subset
<1>2. Cardinality(T) \in Nat  BY <1>1, FS_CardinalityType
<1>3. IsFiniteSet({m}) /\ Cardinality({m}) = 1  BY FS_Singleton
<1>4. IsFiniteSet({m} \X T) /\ Cardinality({m} \X T) = Cardinality({m}) * Cardinality(T)  BY <1>1, <1>3, FS_Product
<1>5. 1 * Cardinality(T) = Cardinality(T)  BY <1>2
<1> QED  BY <1>1, <1>2, <1>3, <1>4, <1>5

LEMMA AllTablesFinite ==
    ASSUME NEW tb \in [Maps -> SUBSET TableIds]
    PROVE  IsFiniteSet(AllTables(tb)) /\ Cardinality(AllTables(tb)) \in Nat
<1>1. AllTables(tb) \in SUBSET (Maps \X TableIds)  BY DEF AllTables
<1>2. IsFiniteSet(Maps \X TableIds)  BY TablesFinite, VmAssumption, FS_Product
<1>3. IsFiniteSet(AllTables(tb))  BY <1>1, <1>2, FS_Subset
<1> QED  BY <1>3, FS_CardinalityType

\* Tables that are added or freed.
LEMMA TablesChange ==
    ASSUME NEW tb \in [Maps -> SUBSET TableIds], NEW m \in Maps, NEW T \in SUBSET TableIds, T \cap tb[m] = {},
           NEW ub \in [Maps -> SUBSET TableIds], \A k \in Maps : ub[k] = IF k = m THEN tb[m] \cup T ELSE tb[k]
    PROVE  Cardinality(AllTables(ub)) = Cardinality(AllTables(tb)) + Cardinality(T)
<1>1. PICK N : N = {m} \X T  OBVIOUS
<1>2. IsFiniteSet(N) /\ Cardinality(N) = Cardinality(T) /\ Cardinality(T) \in Nat  BY <1>1, TablesOf
<1>3. AllTables(ub) = AllTables(tb) \cup N  BY <1>1 DEF AllTables
<1>4. AllTables(tb) \cap N = {}  BY <1>1 DEF AllTables
<1>5. IsFiniteSet(AllTables(tb)) /\ Cardinality(AllTables(tb)) \in Nat  BY AllTablesFinite
<1>6. Cardinality(AllTables(tb) \cup N) = Cardinality(AllTables(tb)) + Cardinality(N) - Cardinality(AllTables(tb) \cap N)
  BY <1>2, <1>5, FS_Union
<1>7. Cardinality(AllTables(tb) \cap N) = 0  BY <1>4, FS_EmptySet
<1> QED  BY <1>2, <1>3, <1>5, <1>6, <1>7

\* The pages that are free or tables.
PagesHeld(s) == s.nfree + Cardinality(AllTables(s.tables))

\* pmap_enter_kern and pmap_enter.
Entered(s, t, m, va, a, w) ==
    /\ t \in VmType /\ t.map = s.map /\ t.obj = s.obj /\ t.tlb = s.tlb /\ PagesHeld(t) = PagesHeld(s)
    /\ \A k \in Maps, x \in VAs :
           t.pte[k][x] = IF k = m /\ x = va THEN [page |-> a, write |-> w] ELSE s.pte[k][x]
LEMMA EnterKern ==
    ASSUME NEW s \in VmType, NEW m \in Maps, NEW va \in VAs, NEW a \in Anons, NEW w \in BOOLEAN
    PROVE  LET t == pmap_enter_kern(s, m, va, a, w) IN Entered(s, t, m, va, a, w) /\ t.anon = s.anon
<1>1. PICK new : new = TablesFor(va) \ s.tables[m]  OBVIOUS
<1>2. PICK t : t = pmap_enter_kern(s, m, va, a, w)  OBVIOUS
<1>3. PICK p : p = [page |-> a, write |-> w]  OBVIOUS
<1>4. p \in PteType  BY <1>3 DEF PteType
<1>5. t = [s EXCEPT !.tables[m] = @ \cup new, !.nfree = @ - Cardinality(new), !.pte[m][va] = p]
  BY <1>1, <1>2, <1>3 DEF pmap_enter_kern
<1>6. PICK tb : tb = [s.tables EXCEPT ![m] = @ \cup new]  OBVIOUS
<1>7. PICK pt : pt = [s.pte EXCEPT ![m][va] = p]  OBVIOUS
<1>8. PICK c : c = Cardinality(new)  OBVIOUS
<1>9. s.tables \in [Maps -> SUBSET TableIds] /\ s.pte \in [Maps -> [VAs -> PteType]] /\ s.nfree \in Int  BY DEF VmType
<1>10. /\ t.map = s.map /\ t.obj = s.obj /\ t.anon = s.anon /\ t.tlb = s.tlb
       /\ t.tables = tb /\ t.nfree = s.nfree - c /\ t.pte = pt
       /\ t = [map |-> t.map, obj |-> t.obj, anon |-> t.anon, pte |-> t.pte, tables |-> t.tables,
               nfree |-> t.nfree, tlb |-> t.tlb]
  BY <1>5, <1>6, <1>7, <1>8 DEF VmType
<1>11. new \in SUBSET TableIds /\ new \cap s.tables[m] = {}  BY <1>1, TablesFinite
<1>12. tb \in [Maps -> SUBSET TableIds] /\ \A k \in Maps : tb[k] = IF k = m THEN s.tables[m] \cup new ELSE s.tables[k]
  BY <1>6, <1>9, <1>11
<1>13. /\ pt \in [Maps -> [VAs -> PteType]]
       /\ \A k \in Maps, x \in VAs : pt[k][x] = IF k = m /\ x = va THEN p ELSE s.pte[k][x]
  BY <1>4, <1>7, <1>9
<1>14. c \in Nat  BY <1>8, <1>11, TablesOf
<1>15. t \in VmType  BY <1>9, <1>10, <1>12, <1>13, <1>14 DEF VmType
<1>16. PagesHeld(t) = PagesHeld(s)
  <2>1. PICK n : n = Cardinality(AllTables(s.tables))  OBVIOUS
  <2>2. n \in Nat  BY <1>9, <2>1, AllTablesFinite
  <2>a. PICK v \in [Maps -> SUBSET TableIds] : v = s.tables  BY <1>9
  <2>b. Cardinality(AllTables(tb)) = Cardinality(AllTables(v)) + Cardinality(new)
    BY <1>11, <1>12, <2>a, TablesChange
  <2>3. Cardinality(AllTables(tb)) = n + c  BY <1>8, <2>1, <2>a, <2>b
  <2>4. (s.nfree - c) + (n + c) = s.nfree + n  BY <1>9, <1>14, <2>2
  <2> QED  BY <1>10, <2>1, <2>3, <2>4 DEF PagesHeld
<1> QED  BY <1>2, <1>3, <1>10, <1>13, <1>15, <1>16 DEF Entered

LEMMA Enter ==
    ASSUME NEW s \in VmType, NEW m \in Maps, NEW va \in VAs, NEW a \in Anons, NEW w \in BOOLEAN
    PROVE  LET t == pmap_enter(s, m, va, a, w)
           IN  /\ Entered(s, t, m, va, a, w)
               /\ \A b \in Anons : /\ t.anon[b].refcnt = s.anon[b].refcnt
                                   /\ t.anon[b].pv = s.anon[b].pv \cup (IF b = a THEN {<<m, va>>} ELSE {})
               /\ SameContents(s.anon, t.anon)
<1>1. PICK r : r = pmap_enter_kern(s, m, va, a, w)  OBVIOUS
<1>2. Entered(s, r, m, va, a, w) /\ r.anon = s.anon  BY <1>1, EnterKern
<1>3. PICK t : t = pmap_enter(s, m, va, a, w)  OBVIOUS
<1>4. t = [r EXCEPT !.anon[a].pv = @ \cup {<<m, va>>}]  BY <1>1, <1>3 DEF pmap_enter
<1>5. r \in VmType /\ r.anon \in [Anons -> AnonType] /\ r.anon[a] \in AnonType  BY <1>2 DEF Entered, VmType
<1>6. PICK x : x = [r.anon[a] EXCEPT !.pv = @ \cup {<<m, va>>}]  OBVIOUS
<1>7. /\ x \in AnonType /\ x.refcnt = r.anon[a].refcnt /\ x.pv = r.anon[a].pv \cup {<<m, va>>}
      /\ x.content = r.anon[a].content
  BY <1>5, <1>6 DEF AnonType
<1>8. PICK an : an = [r.anon EXCEPT ![a] = x]  OBVIOUS
<1>9. t = [r EXCEPT !.anon = an]  BY <1>4, <1>5, <1>6, <1>8 DEF VmType
<1>10. an \in [Anons -> AnonType] /\ \A b \in Anons : an[b] = IF b = a THEN x ELSE r.anon[b]  BY <1>5, <1>7, <1>8
<1>11. /\ t.map = r.map /\ t.obj = r.obj /\ t.anon = an /\ t.pte = r.pte /\ t.tables = r.tables
       /\ t.nfree = r.nfree /\ t.tlb = r.tlb /\ t \in VmType
  BY <1>5, <1>9, <1>10 DEF VmType
<1>12. Entered(s, t, m, va, a, w)  BY <1>2, <1>11 DEF Entered, PagesHeld
<1>13. SameContents(s.anon, t.anon)  BY <1>2, <1>7, <1>10, <1>11 DEF SameContents
<1> QED  BY <1>2, <1>3, <1>7, <1>10, <1>11, <1>12, <1>13

\* pmap_unenter, when the pv tables and the cached translations are right.
Unentered(s, t, m, V) ==
    /\ t \in VmType /\ t.map = s.map /\ t.obj = s.obj /\ t.tables = s.tables /\ t.nfree = s.nfree
    /\ \A k \in Maps, x \in VAs :
           /\ t.pte[k][x] = IF k = m /\ x \in V THEN NoPte ELSE s.pte[k][x]
           /\ t.tlb[k][x] = IF k = m /\ x \in V THEN NoPte ELSE s.tlb[k][x]
    /\ \A a \in Anons : t.anon[a].refcnt = s.anon[a].refcnt /\ t.anon[a].pv = s.anon[a].pv \ ({m} \X V)
    /\ SameContents(s.anon, t.anon)
LEMMA Unenter ==
    ASSUME NEW s \in VmType, NEW m \in Maps, NEW V \in SUBSET VAs, TlbOK(s.pte, s.tlb), PvOK(s.anon, s.pte)
    PROVE  Unentered(s, pmap_unenter(s, m, V), m, V)
<1>1. PICK mapped : mapped = {va \in V : s.pte[m][va] # NoPte}  OBVIOUS
<1>2. PICK t : t = pmap_unenter(s, m, V)  OBVIOUS
<1>3. PICK pm : pm = [va \in VAs |-> IF va \in mapped THEN NoPte ELSE s.pte[m][va]]  OBVIOUS
<1>4. PICK tm : tm = [va \in VAs |-> IF va \in mapped THEN NoPte ELSE s.tlb[m][va]]  OBVIOUS
<1> DEFINE Gone(a) == {<<m, va>> : va \in {v \in mapped : s.pte[m][v].page = a}}
           New(a) == [s.anon[a] EXCEPT !.pv = @ \ Gone(a)]
<1>5. PICK an : an = [a \in Anons |-> New(a)]  OBVIOUS
<1>6. t = [s EXCEPT !.pte[m] = pm, !.tlb[m] = tm, !.anon = an]
  BY <1>1, <1>2, <1>3, <1>4, <1>5 DEF pmap_unenter
<1>7. /\ s.pte \in [Maps -> [VAs -> PteType]] /\ s.tlb \in [Maps -> [VAs -> PteType]]
      /\ s.anon \in [Anons -> AnonType]
  BY DEF VmType
<1>8. /\ t.map = s.map /\ t.obj = s.obj /\ t.tables = s.tables /\ t.nfree = s.nfree /\ t.anon = an
      /\ t.pte = [s.pte EXCEPT ![m] = pm] /\ t.tlb = [s.tlb EXCEPT ![m] = tm]
      /\ t = [map |-> t.map, obj |-> t.obj, anon |-> t.anon, pte |-> t.pte, tables |-> t.tables,
               nfree |-> t.nfree, tlb |-> t.tlb]
  BY <1>6 DEF VmType
<1>9. /\ pm \in [VAs -> PteType] /\ tm \in [VAs -> PteType]
      /\ \A x \in VAs : pm[x] = IF x \in V THEN NoPte ELSE s.pte[m][x]
      /\ \A x \in VAs : tm[x] = IF x \in V THEN NoPte ELSE s.tlb[m][x]
  <2>1. \A x \in VAs : s.pte[m][x] \in PteType /\ s.tlb[m][x] \in PteType /\ (s.pte[m][x] = NoPte => s.tlb[m][x] = NoPte)
    BY <1>7 DEF TlbOK, Caches
  <2> QED  BY <1>1, <1>3, <1>4, <2>1, AnonsNatural
<1>10. ASSUME NEW a \in Anons
       PROVE  /\ an[a] \in AnonType /\ an[a].refcnt = s.anon[a].refcnt /\ an[a].pv = s.anon[a].pv \ ({m} \X V)
              /\ an[a].content = s.anon[a].content
  <2>1. PICK g : g = Gone(a)  OBVIOUS
  <2>2. an[a] = [s.anon[a] EXCEPT !.pv = @ \ g] /\ s.anon[a] \in AnonType  BY <1>5, <1>7, <2>1
  <2>3. /\ an[a] \in AnonType /\ an[a].refcnt = s.anon[a].refcnt /\ an[a].pv = s.anon[a].pv \ g
        /\ an[a].content = s.anon[a].content
    BY <2>2 DEF AnonType
  <2>4. s.anon[a].pv = {x \in Maps \X VAs : s.pte[x[1]][x[2]].page = a}  BY DEF PvOK
  <2>5. ASSUME NEW x \in s.anon[a].pv PROVE x \in g <=> x \in {m} \X V
    <3>1. PICK k \in Maps, v \in VAs : x = <<k, v>> /\ s.pte[k][v].page = a  BY <2>4
    <3>2. s.pte[k][v] # NoPte  BY <3>1, AnonsNatural
    <3>3. x \in g <=> \E u \in mapped : s.pte[m][u].page = a /\ x = <<m, u>>  BY <2>1
    <3>4. x \in {m} \X V <=> k = m /\ v \in V  BY <3>1
    <3> HIDE DEF Gone
    <3> QED  BY <1>1, <3>1, <3>2, <3>3, <3>4
  <2>6. s.anon[a].pv \ g = s.anon[a].pv \ ({m} \X V)  BY <2>5
  <2> QED  BY <2>3, <2>6
<1>11. t.pte \in [Maps -> [VAs -> PteType]] /\ t.tlb \in [Maps -> [VAs -> PteType]] /\ an \in [Anons -> AnonType]
  <2>1. an = [a \in Anons |-> an[a]]  BY <1>5
  <2>2. an \in [Anons -> AnonType]  BY <1>10, <2>1
  <2> QED  BY <1>7, <1>8, <1>9, <2>2
<1>12. t \in VmType  BY <1>8, <1>11 DEF VmType
<1>13. \A k \in Maps, x \in VAs :
           /\ t.pte[k][x] = IF k = m /\ x \in V THEN NoPte ELSE s.pte[k][x]
           /\ t.tlb[k][x] = IF k = m /\ x \in V THEN NoPte ELSE s.tlb[k][x]
  BY <1>7, <1>8, <1>9
<1> HIDE DEF New, Gone
<1>14. SameContents(s.anon, t.anon)  BY <1>8, <1>10 DEF SameContents
<1> QED  BY <1>2, <1>8, <1>10, <1>12, <1>13, <1>14 DEF Unentered

\* A page of an entry and its place in the object.
LEMMA EntryOffset ==
    ASSUME NEW s, NEW n, VmOK(s, n), NEW m \in Maps, NEW e \in Entries(s.map, m),
           NEW va \in e.start .. e.end - 1
    PROVE  va \in VAs /\ va - e.start \in VAs /\ e.obj \in Objs /\ s.obj[e.obj].amap[va - e.start] \in Anons \cup {NoAnon}
<1>1. s \in VmType /\ s.map[m] \in MapType /\ MapOK(s.map[m])  BY VmTyped DEF VmOK
<1>2. e \in EntryType /\ e.start \in Nat /\ e.end \in Nat /\ e.end <= UserPages  BY <1>1, EntrySpot DEF Entries
<1>3. va \in VAs /\ va - e.start \in VAs  BY <1>2, VmAssumption DEF VAs
<1>4. e.obj \in Objs  BY <1>2 DEF EntryType
<1>5. s.obj[e.obj] \in ObjType  BY <1>1, <1>4, VmTyped
<1> QED  BY <1>3, <1>4, <1>5 DEF ObjType

\* What a page table entry leads to is the anon at that place.
LEMMA PteShows ==
    ASSUME NEW s, NEW n, VmOK(s, n), NEW m \in Maps, NEW e \in Entries(s.map, m),
           NEW va \in e.start .. e.end - 1, s.pte[m][va] # NoPte
    PROVE  s.pte[m][va].page = s.obj[e.obj].amap[va - e.start] /\ s.pte[m][va].page \in Anons
<1>1. s \in VmType /\ s.map[m] \in MapType /\ MapOK(s.map[m])  BY VmTyped DEF VmOK
<1>2. va \in VAs  BY EntryOffset
<1>3. PteOK(s.map, s.obj, s.anon, m, va, s.pte[m][va])  BY <1>2 DEF VmOK, PtesOK
<1>4. PICK f \in Entries(s.map, m) : va \in f.start .. f.end - 1 /\ s.obj[f.obj].amap[va - f.start] = s.pte[m][va].page
  BY <1>3 DEF PteOK, Shows
<1>5. va \in Int  BY <1>2, VAsFinite
<1>6. e = f  BY <1>1, <1>4, <1>5, OneEntry DEF Entries
<1> QED  BY <1>3, <1>4, <1>6 DEF PteOK

\* The page at a place is entered, and the cached translation dropped.
Dropped(r, m, va) == [r EXCEPT !.tlb[m][va] = NoPte]
LEMMA FaultEntered ==
    ASSUME NEW s, NEW n, VmOK(s, n), NEW m \in Maps, NEW e \in Entries(s.map, m),
           NEW va \in e.start .. e.end - 1, NEW a \in Anons, s.obj[e.obj].amap[va - e.start] = a,
           NEW w \in BOOLEAN, w => s.anon[a].refcnt = 1, NEW r, Entered(s, r, m, va, a, w),
           \A b \in Anons : /\ r.anon[b].refcnt = s.anon[b].refcnt
                            /\ r.anon[b].pv = s.anon[b].pv \cup (IF b = a THEN {<<m, va>>} ELSE {}),
           NEW t, t = Dropped(r, m, va)
    PROVE  VmOK(t, n) /\ t.map = s.map /\ t.obj = s.obj /\ t.anon = r.anon
<1>1. va \in VAs  BY EntryOffset
<1>2. r \in VmType /\ r.map = s.map /\ r.obj = s.obj /\ r.tlb = s.tlb /\ PagesHeld(r) = PagesHeld(s)  BY DEF Entered
<1>3. PICK p : p = [page |-> a, write |-> w]  OBVIOUS
<1>4. p.page = a /\ p.write = w  BY <1>3
<1>5. \A k \in Maps, x \in VAs : r.pte[k][x] = IF k = m /\ x = va THEN p ELSE s.pte[k][x]  BY <1>3 DEF Entered
<1>6. PICK u : u = [r.tlb EXCEPT ![m][va] = NoPte]  OBVIOUS
<1>7. t = [r EXCEPT !.tlb = u]  BY <1>2, <1>6 DEF VmType, Dropped
<1>8. r.tlb \in [Maps -> [VAs -> PteType]]  BY <1>2 DEF VmType
<1>9. /\ u \in [Maps -> [VAs -> PteType]]
      /\ \A k \in Maps, x \in VAs : u[k][x] = IF k = m /\ x = va THEN NoPte ELSE s.tlb[k][x]
  BY <1>1, <1>2, <1>6, <1>8, AnonsNatural
<1>10. /\ t.map = s.map /\ t.obj = s.obj /\ t.anon = r.anon /\ t.pte = r.pte /\ t.tables = r.tables
       /\ t.nfree = r.nfree /\ t.tlb = u /\ t \in VmType
  BY <1>2, <1>7, <1>9 DEF VmType
<1>11. RefsOK(s.obj, r.anon)  BY DEF VmOK, RefsOK
<1>12. PtesOK(s.map, s.obj, r.anon, r.pte)
  <2> SUFFICES ASSUME NEW k \in Maps, NEW x \in VAs PROVE PteOK(s.map, s.obj, r.anon, k, x, r.pte[k][x])  BY DEF PtesOK
  <2>1. CASE k = m /\ x = va
    <3>1. Shows(s.map, s.obj, k, x, a)  BY <2>1 DEF Shows
    <3> QED  BY <1>1, <1>4, <1>5, <2>1, <3>1 DEF PteOK
  <2>2. CASE ~(k = m /\ x = va)
    <3>1. PteOK(s.map, s.obj, s.anon, k, x, s.pte[k][x])  BY DEF VmOK, PtesOK
    <3>2. r.pte[k][x] = s.pte[k][x]  BY <1>5, <2>2
    <3> QED  BY <3>1, <3>2 DEF PteOK
  <2> QED  BY <2>1, <2>2
<1>13. TlbOK(r.pte, u)
  <2>1. TlbOK(s.pte, s.tlb)  BY DEF VmOK
  <2> QED  BY <1>5, <1>9, <2>1 DEF TlbOK, Caches
<1>14. PvOK(r.anon, r.pte)
  <2>1. s.pte[m][va].page = a \/ s.pte[m][va].page = NoAnon  BY PteShows, AnonsNatural
  <2>2. PvOK(s.anon, s.pte)  BY DEF VmOK
  <2> SUFFICES ASSUME NEW b \in Anons
               PROVE  r.anon[b].pv = {x \in Maps \X VAs : r.pte[x[1]][x[2]].page = b}
    BY DEF PvOK
  <2>3. s.anon[b].pv = {x \in Maps \X VAs : s.pte[x[1]][x[2]].page = b}  BY <2>2 DEF PvOK
  <2>4. r.anon[b].pv = s.anon[b].pv \cup (IF b = a THEN {<<m, va>>} ELSE {})  OBVIOUS
  <2>5. b # NoAnon  BY AnonsNatural
  <2>6. ASSUME NEW x \in Maps \X VAs PROVE x \in r.anon[b].pv <=> r.pte[x[1]][x[2]].page = b
    <3>1. x[1] \in Maps /\ x[2] \in VAs /\ x = <<x[1], x[2]>>  OBVIOUS
    <3>2. CASE x = <<m, va>>
      <4>1. r.pte[x[1]][x[2]].page = a  BY <1>1, <1>4, <1>5, <3>2
      <4>2. x \in s.anon[b].pv => b = a  BY <2>1, <2>3, <2>5, <3>2
      <4> QED  BY <2>4, <3>2, <4>1, <4>2
    <3>3. CASE x # <<m, va>>
      <4>1. r.pte[x[1]][x[2]] = s.pte[x[1]][x[2]]  BY <1>5, <3>1, <3>3
      <4> QED  BY <2>3, <2>4, <3>3, <4>1
    <3> QED  BY <3>2, <3>3
  <2>7. r.anon[b].pv \subseteq Maps \X VAs  BY <1>1, <2>3, <2>4
  <2> QED  BY <2>6, <2>7
<1>15. PagesOK(r.anon, r.tables, r.nfree, n)
  <2>1. UsedAnons(r.anon) = UsedAnons(s.anon)  BY DEF UsedAnons
  <2>2. PICK c : c = Cardinality(UsedAnons(s.anon))  OBVIOUS
  <2>3. c \in Nat  BY <2>2, UsedFinite
  <2>4. PagesOK(s.anon, s.tables, s.nfree, n) /\ s \in VmType  BY DEF VmOK
  <2>5. s.tables \in [Maps -> SUBSET TableIds] /\ r.tables \in [Maps -> SUBSET TableIds] /\ s.nfree \in Int /\ r.nfree \in Int
    BY <1>2, <2>4 DEF VmType
  <2>6. PICK x : x = Cardinality(AllTables(s.tables))  OBVIOUS
  <2>7. PICK y : y = Cardinality(AllTables(r.tables))  OBVIOUS
  <2>8. x \in Nat /\ y \in Nat  BY <2>5, <2>6, <2>7, AllTablesFinite
  <2>9. r.nfree + y = s.nfree + x  BY <1>2, <2>6, <2>7 DEF PagesHeld
  <2>10. n = s.nfree + c + x  BY <2>2, <2>4, <2>6 DEF PagesOK
  <2>11. n = r.nfree + c + y  BY <2>3, <2>5, <2>8, <2>9, <2>10
  <2> QED  BY <2>1, <2>2, <2>5, <2>7, <2>11, AllTablesFinite DEF PagesOK
<1> QED  BY <1>10, <1>11, <1>12, <1>13, <1>14, <1>15 DEF VmOK

\* A new anon b takes the place of a, or of none, in an object that is mapped there; the page
\* is not mapped yet.
PlacedAt(s, t, m, va, o, off, b) ==
    /\ t \in VmType /\ t.map = s.map /\ t.tables = s.tables /\ t.nfree = s.nfree - 1
    /\ \A p \in Objs : /\ p # o => t.obj[p] = s.obj[p]
                       /\ t.obj[p].refcnt = s.obj[p].refcnt
    /\ t.obj[o].amap = [s.obj[o].amap EXCEPT ![off] = b]
    /\ \A c \in Anons :
           /\ t.anon[c].refcnt = IF c = b THEN 1
                                 ELSE IF c = s.obj[o].amap[off] THEN s.anon[c].refcnt - 1 ELSE s.anon[c].refcnt
           /\ t.anon[c].pv = s.anon[c].pv \ {<<m, va>>}
           /\ t.anon[c].content = IF c = b THEN Holds(s, o, off) ELSE s.anon[c].content
    /\ \A k \in Maps, x \in VAs :
           /\ t.pte[k][x] = IF k = m /\ x = va THEN NoPte ELSE s.pte[k][x]
           /\ t.tlb[k][x] = IF k = m /\ x = va THEN NoPte ELSE s.tlb[k][x]
LEMMA AnonPlaced ==
    ASSUME NEW s, NEW n, VmOK(s, n), NEW m \in Maps, NEW e \in Entries(s.map, m),
           NEW va \in e.start .. e.end - 1, NEW o, o = e.obj, NEW off, off = va - e.start,
           NEW b \in Anons, s.anon[b].refcnt = 0,
           s.obj[o].amap[off] # NoAnon => s.anon[s.obj[o].amap[off]].refcnt > 1,
           NEW t, PlacedAt(s, t, m, va, o, off, b)
    PROVE  VmOK(t, n) /\ t.obj[o].amap[off] = b /\ t.anon[b].refcnt = 1
<1>1. va \in VAs /\ off \in VAs /\ o \in Objs /\ s.obj[o].amap[off] \in Anons \cup {NoAnon}  BY EntryOffset
<1>2. s \in VmType /\ t \in VmType  BY DEF VmOK, PlacedAt
<1>3. PICK a : a = s.obj[o].amap[off]  OBVIOUS
<1>4. a \in Anons \cup {NoAnon} /\ NoAnon \notin Anons /\ (a # NoAnon => s.anon[a].refcnt > 1)  BY <1>1, <1>3, AnonsNatural
<1>5. \A c \in Anons : s.anon[c].refcnt \in Nat  BY <1>2, VmTyped DEF AnonType
<1>6. a # b  BY <1>4, <1>5
<1>7. s.obj[o] \in ObjType  BY <1>1, <1>2, VmTyped
<1>8. s.obj[o].amap \in [VAs -> Anons \cup {NoAnon}]  BY <1>7 DEF ObjType
<1>9. \A p \in Objs, i \in VAs : t.obj[p].amap[i] = IF p = o /\ i = off THEN b ELSE s.obj[p].amap[i]
  BY <1>1, <1>8 DEF PlacedAt
<1>10. \A c \in Anons : t.anon[c].refcnt = IF c = b THEN 1 ELSE IF c = a THEN s.anon[c].refcnt - 1 ELSE s.anon[c].refcnt
  BY <1>3 DEF PlacedAt
<1>11. AmapPlaces(s.obj, b) = {} /\ \A k \in Maps, x \in VAs : s.pte[k][x].page # b  BY UnusedUnmapped
<1>12. ViewsOK(s.map, s.obj) /\ ObjsOK(s.obj) /\ RefsOK(s.obj, s.anon)  BY DEF VmOK
<1>13. ViewsOK(t.map, t.obj)
  <2>1. t.map = s.map /\ \A p \in Objs : t.obj[p].refcnt = s.obj[p].refcnt  BY DEF PlacedAt
  <2>2. ASSUME NEW k \in Maps, NEW f \in Entries(s.map, k) PROVE t.obj[f.obj].refcnt = 1
    <3>1. s.map[k] \in MapType /\ MapOK(s.map[k])  BY <1>2, VmTyped DEF VmOK
    <3>2. f.obj \in Objs  BY <3>1, EntrySpot DEF Entries, EntryType
    <3> QED  BY <1>12, <2>1, <3>2 DEF ViewsOK
  <2> QED  BY <1>12, <2>1, <2>2 DEF ViewsOK
<1>14. ObjsOK(t.obj)
  <2>1. s.obj[o].refcnt = 1  BY <1>12 DEF ViewsOK
  <2> QED  BY <1>12, <2>1 DEF ObjsOK, PlacedAt
<1>15. RefsOK(t.obj, t.anon)
  <2> SUFFICES ASSUME NEW c \in Anons PROVE t.anon[c].refcnt = Cardinality(AmapPlaces(t.obj, c))  BY DEF RefsOK
  <2>1. \A x \in Objs \X VAs : x[1] \in Objs /\ x[2] \in VAs /\ x = <<x[1], x[2]>>  OBVIOUS
  <2>2. s.anon[c].refcnt = Cardinality(AmapPlaces(s.obj, c))  BY <1>12 DEF RefsOK
  <2>a. PICK P : P = AmapPlaces(s.obj, c)  OBVIOUS
  <2>b. PICK Q : Q = AmapPlaces(t.obj, c)  OBVIOUS
  <2>c. ASSUME NEW x \in Objs \X VAs
        PROVE  /\ x \in Q <=> IF x = <<o, off>> THEN c = b ELSE x \in P
               /\ x = <<o, off>> => (x \in P <=> c = a)
    <3>1. x \in P <=> s.obj[x[1]].amap[x[2]] = c  BY <2>a DEF AmapPlaces
    <3>2. x \in Q <=> t.obj[x[1]].amap[x[2]] = c  BY <2>b DEF AmapPlaces
    <3>3. CASE x = <<o, off>>
      <4>1. t.obj[x[1]].amap[x[2]] = b /\ s.obj[x[1]].amap[x[2]] = a  BY <1>1, <1>3, <1>9, <3>3
      <4> QED  BY <3>1, <3>2, <3>3, <4>1
    <3>4. CASE x # <<o, off>>
      <4>1. ~(x[1] = o /\ x[2] = off)  BY <2>1, <3>4
      <4>2. t.obj[x[1]].amap[x[2]] = s.obj[x[1]].amap[x[2]]  BY <1>9, <2>1, <4>1
      <4> QED  BY <3>1, <3>2, <3>4, <4>2
    <3> QED  BY <3>3, <3>4
  <2>d. P \subseteq Objs \X VAs /\ Q \subseteq Objs \X VAs /\ <<o, off>> \in Objs \X VAs
    BY <1>1, <2>a, <2>b DEF AmapPlaces
  <2>e. IsFiniteSet(P) /\ Cardinality(P) \in Nat  BY <2>a, PlacesFinite
  <2>3. CASE c = b
    <3>1. P = {}  BY <1>11, <2>3, <2>a
    <3>2. Q = {<<o, off>>}  BY <2>3, <2>c, <2>d, <3>1
    <3> QED  BY <1>10, <2>3, <2>b, <3>2, FS_Singleton
  <2>4. CASE c # b /\ c = a
    <3>1. Q = P \ {<<o, off>>} /\ <<o, off>> \in P  BY <2>4, <2>c, <2>d
    <3>2. PICK z : z = <<o, off>>  OBVIOUS
    <3>3. Q = P \ {z} /\ z \in P  BY <3>1, <3>2
    <3>4. Cardinality(Q) = Cardinality(P) - 1  BY <2>e, <3>3, FS_RemoveElement
    <3> QED  BY <1>10, <2>2, <2>4, <2>a, <2>b, <3>4
  <2>5. CASE c # b /\ c # a
    <3>1. Q = P  BY <2>5, <2>c, <2>d
    <3> QED  BY <1>10, <2>2, <2>5, <2>a, <2>b, <3>1
  <2> QED  BY <2>3, <2>4, <2>5
<1>16. PtesOK(t.map, t.obj, t.anon, t.pte)
  <2> SUFFICES ASSUME NEW k \in Maps, NEW x \in VAs, t.pte[k][x] # NoPte
               PROVE  PteOK(t.map, t.obj, t.anon, k, x, t.pte[k][x])
    BY DEF PtesOK, PteOK
  <2>1. ~(k = m /\ x = va) /\ t.pte[k][x] = s.pte[k][x]  BY DEF PlacedAt
  <2>2. PteOK(s.map, s.obj, s.anon, k, x, s.pte[k][x])  BY DEF VmOK, PtesOK
  <2>3. PICK c \in Anons : c = s.pte[k][x].page  BY <2>1, <2>2 DEF PteOK
  <2>4. s.pte[k][x].write => s.anon[c].refcnt = 1  BY <2>1, <2>2, <2>3 DEF PteOK
  <2>5. c # b  BY <1>11, <2>3
  <2>6. s.pte[k][x].write => t.anon[c].refcnt = 1  BY <1>4, <1>10, <2>3, <2>4, <2>5
  <2>7. PICK f \in Entries(s.map, k) : x \in f.start .. f.end - 1 /\ s.obj[f.obj].amap[x - f.start] = c
    BY <2>1, <2>2, <2>3 DEF PteOK, Shows
  <2>8. x - f.start \in VAs /\ f.obj \in Objs  BY <2>7, EntryOffset
  <2>9. ~(f.obj = o /\ x - f.start = off)
    <3> SUFFICES ASSUME f.obj = o, x - f.start = off PROVE FALSE  OBVIOUS
    <3>1. k = m /\ f = e  BY <1>12 DEF ViewsOK
    <3>2. s.map[m] \in MapType /\ MapOK(s.map[m])  BY <1>2, VmTyped DEF VmOK
    <3>3. e.start \in Nat  BY <3>2, EntrySpot DEF Entries
    <3>4. x \in Int /\ va \in Int  BY <1>1, VAsFinite
    <3>5. x = va  BY <3>1, <3>3, <3>4
    <3> QED  BY <2>1, <3>1, <3>5
  <2>10. t.obj[f.obj].amap[x - f.start] = c  BY <1>9, <2>7, <2>8, <2>9
  <2>11. Shows(t.map, t.obj, k, x, c)  BY <2>7, <2>10 DEF Shows, PlacedAt
  <2> QED  BY <2>1, <2>3, <2>6, <2>11 DEF PteOK
<1>17. TlbOK(t.pte, t.tlb)
  <2>1. TlbOK(s.pte, s.tlb)  BY DEF VmOK
  <2>2. \A k \in Maps, x \in VAs :
           /\ t.pte[k][x] = IF k = m /\ x = va THEN NoPte ELSE s.pte[k][x]
           /\ t.tlb[k][x] = IF k = m /\ x = va THEN NoPte ELSE s.tlb[k][x]
    BY DEF PlacedAt
  <2> QED  BY <2>1, <2>2 DEF TlbOK, Caches
<1>18. PvOK(t.anon, t.pte)
  <2> SUFFICES ASSUME NEW c \in Anons
               PROVE  t.anon[c].pv = {x \in Maps \X VAs : t.pte[x[1]][x[2]].page = c}
    BY DEF PvOK
  <2>1. s.anon[c].pv = {x \in Maps \X VAs : s.pte[x[1]][x[2]].page = c}  BY DEF PvOK, VmOK
  <2>2. t.anon[c].pv = s.anon[c].pv \ {<<m, va>>}  BY DEF PlacedAt
  <2>3. ASSUME NEW x \in Maps \X VAs PROVE x \in t.anon[c].pv <=> t.pte[x[1]][x[2]].page = c
    <3>1. x[1] \in Maps /\ x[2] \in VAs /\ x = <<x[1], x[2]>>  OBVIOUS
    <3>2. CASE x = <<m, va>>
      <4>1. t.pte[x[1]][x[2]] = NoPte  BY <3>1, <3>2 DEF PlacedAt
      <4> QED  BY <2>2, <3>2, <4>1, AnonsNatural
    <3>3. CASE x # <<m, va>>
      <4>1. t.pte[x[1]][x[2]] = s.pte[x[1]][x[2]]  BY <3>1, <3>3 DEF PlacedAt
      <4> QED  BY <2>1, <2>2, <3>3, <4>1
    <3> QED  BY <3>2, <3>3
  <2> QED  BY <2>1, <2>2, <2>3
<1>19. PagesOK(t.anon, t.tables, t.nfree, n)
  <2>1. UsedAnons(t.anon) = UsedAnons(s.anon) \cup {b}
    <3>1. \A c \in Anons : t.anon[c].refcnt > 0 <=> (c = b \/ s.anon[c].refcnt > 0)  BY <1>4, <1>5, <1>10
    <3> QED  BY <3>1 DEF UsedAnons
  <2>2. b \notin UsedAnons(s.anon)  BY DEF UsedAnons
  <2>3. PICK c : c = Cardinality(UsedAnons(s.anon))  OBVIOUS
  <2>4. c \in Nat /\ Cardinality(UsedAnons(t.anon)) = c + 1  BY <2>1, <2>2, <2>3, UsedFinite, FS_AddElement
  <2>5. PICK x : x = Cardinality(AllTables(s.tables))  OBVIOUS
  <2>6. s.tables \in [Maps -> SUBSET TableIds] /\ s.nfree \in Int  BY <1>2 DEF VmType
  <2>7. x \in Nat  BY <2>5, <2>6, AllTablesFinite
  <2>8. n = s.nfree + c + x  BY <2>3, <2>5 DEF PagesOK, VmOK
  <2>9. n = (s.nfree - 1) + (c + 1) + x  BY <2>4, <2>6, <2>7, <2>8
  <2> QED  BY <2>4, <2>5, <2>6, <2>9, AllTablesFinite DEF PagesOK, PlacedAt
<1>20. \A k \in Maps : MapOK(t.map[k])  BY DEF VmOK, PlacedAt
<1> QED  BY <1>1, <1>2, <1>9, <1>10, <1>13, <1>14, <1>15, <1>16, <1>17, <1>18, <1>19, <1>20 DEF VmOK

\* An object's place changes.
WithAmap(s, o, off, b) == [s EXCEPT !.obj[o].amap[off] = b]
LEMMA AmapSet ==
    ASSUME NEW s \in VmType, NEW o \in Objs, NEW off \in VAs, NEW b \in Anons, NEW t, t = WithAmap(s, o, off, b)
    PROVE  /\ t \in VmType /\ t.map = s.map /\ t.anon = s.anon /\ t.pte = s.pte /\ t.tables = s.tables
           /\ t.nfree = s.nfree /\ t.tlb = s.tlb
           /\ \A p \in Objs : (p # o => t.obj[p] = s.obj[p]) /\ t.obj[p].refcnt = s.obj[p].refcnt
           /\ t.obj[o].amap = [s.obj[o].amap EXCEPT ![off] = b]
<1>1. s.obj \in [Objs -> ObjType] /\ s.obj[o] \in ObjType  BY DEF VmType
<1>2. PICK f : f = [s.obj[o].amap EXCEPT ![off] = b]  OBVIOUS
<1>3. s.obj[o].amap \in [VAs -> Anons \cup {NoAnon}]  BY <1>1 DEF ObjType
<1>4. f \in [VAs -> Anons \cup {NoAnon}]  BY <1>2, <1>3
<1>5. PICK y : y = [s.obj[o] EXCEPT !.amap = f]  OBVIOUS
<1>6. y \in ObjType /\ y.refcnt = s.obj[o].refcnt /\ y.amap = f  BY <1>1, <1>4, <1>5 DEF ObjType
<1>7. PICK ob : ob = [s.obj EXCEPT ![o] = y]  OBVIOUS
<1>8. ob \in [Objs -> ObjType] /\ \A p \in Objs : ob[p] = IF p = o THEN y ELSE s.obj[p]  BY <1>1, <1>6, <1>7
<1>9. t = [s EXCEPT !.obj = ob]
  <2>1. [s.obj EXCEPT ![o].amap[off] = b] = ob  BY <1>1, <1>2, <1>5, <1>7 DEF ObjType
  <2>2. t = [s EXCEPT !.obj = [s.obj EXCEPT ![o].amap[off] = b]]  BY DEF VmType, WithAmap
  <2> QED  BY <2>1, <2>2
<1>10. /\ t.map = s.map /\ t.obj = ob /\ t.anon = s.anon /\ t.pte = s.pte /\ t.tables = s.tables
       /\ t.nfree = s.nfree /\ t.tlb = s.tlb /\ t \in VmType
  BY <1>8, <1>9 DEF VmType
<1> QED  BY <1>2, <1>6, <1>8, <1>10

\* An anon is made.
WithAnon(s, b, x, k) == [s EXCEPT !.anon[b] = x, !.nfree = k]
LEMMA AnonSet ==
    ASSUME NEW s \in VmType, NEW b \in Anons, NEW x \in AnonType, NEW d \in Int, NEW t, NEW k \in Int, k = s.nfree - d, t = WithAnon(s, b, x, k)
    PROVE  /\ t \in VmType /\ t.map = s.map /\ t.obj = s.obj /\ t.pte = s.pte /\ t.tables = s.tables
           /\ t.nfree = s.nfree - d /\ t.tlb = s.tlb
           /\ \A c \in Anons : t.anon[c] = IF c = b THEN x ELSE s.anon[c]
<1>1. s.anon \in [Anons -> AnonType] /\ s.nfree \in Int  BY DEF VmType
<1>2. PICK an : an = [s.anon EXCEPT ![b] = x]  OBVIOUS
<1>3. an \in [Anons -> AnonType] /\ \A c \in Anons : an[c] = IF c = b THEN x ELSE s.anon[c]  BY <1>1, <1>2
<1>4. /\ t.map = s.map /\ t.obj = s.obj /\ t.anon = an /\ t.pte = s.pte /\ t.tables = s.tables
      /\ t.nfree = s.nfree - d /\ t.tlb = s.tlb
      /\ t = [map |-> t.map, obj |-> t.obj, anon |-> t.anon, pte |-> t.pte, tables |-> t.tables,
               nfree |-> t.nfree, tlb |-> t.tlb]
  BY <1>2 DEF VmType, WithAnon
<1>5. t \in VmType  BY <1>1, <1>3, <1>4 DEF VmType
<1> QED  BY <1>3, <1>4, <1>5

LEMMA UnusedFound ==
    ASSUME NEW s, \E a \in Anons : s.anon[a].refcnt = 0
    PROVE  UnusedAnon(s) \in Anons /\ s.anon[UnusedAnon(s)].refcnt = 0
BY DEF UnusedAnon

\* anon_new, and a copy.
LEMMA AnonNew ==
    ASSUME NEW s \in VmType, \E a \in Anons : s.anon[a].refcnt = 0, NEW t, t = anon_new(s)
    PROVE  /\ t \in VmType /\ t.map = s.map /\ t.obj = s.obj /\ t.pte = s.pte /\ t.tables = s.tables
           /\ t.nfree = s.nfree - 1 /\ t.tlb = s.tlb
           /\ \A c \in Anons \ {UnusedAnon(s)} : t.anon[c] = s.anon[c]
           /\ LET x == t.anon[UnusedAnon(s)] IN x \in AnonType /\ x.refcnt = 1 /\ x.pv = {} /\ x.content = 0
<1>1. PICK b \in Anons : b = UnusedAnon(s)  BY UnusedFound
<1>2. PICK x : x = [FreeAnon EXCEPT !.refcnt = 1]  OBVIOUS
<1>3. x \in AnonType /\ x.refcnt = 1 /\ x.pv = {} /\ x.content = 0  BY <1>2, VmAssumption DEF FreeAnon, AnonType
<1>a. PICK d \in Int : d = 1  OBVIOUS
<1>b. PICK k \in Int : k = s.nfree - d  BY <1>a DEF VmType
<1>4. t = WithAnon(s, b, x, k)  BY <1>1, <1>2, <1>a, <1>b DEF anon_new, VmType, WithAnon
<1>5. /\ t \in VmType /\ t.map = s.map /\ t.obj = s.obj /\ t.pte = s.pte /\ t.tables = s.tables
      /\ t.nfree = s.nfree - 1 /\ t.tlb = s.tlb
      /\ \A c \in Anons : t.anon[c] = IF c = b THEN x ELSE s.anon[c]
  BY <1>3, <1>4, <1>a, <1>b, AnonSet
<1> QED  BY <1>1, <1>3, <1>5

LEMMA AnonCopy ==
    ASSUME NEW s \in VmType, \E a \in Anons : s.anon[a].refcnt = 0, NEW a \in Anons, NEW t, t = anon_copy(s, a)
    PROVE  /\ t \in VmType /\ t.map = s.map /\ t.obj = s.obj /\ t.pte = s.pte /\ t.tables = s.tables
           /\ t.nfree = s.nfree - 1 /\ t.tlb = s.tlb
           /\ \A c \in Anons \ {UnusedAnon(s)} : t.anon[c] = s.anon[c]
           /\ LET x == t.anon[UnusedAnon(s)]
              IN  x \in AnonType /\ x.refcnt = 1 /\ x.pv = {} /\ x.content = s.anon[a].content
<1>1. PICK b \in Anons : b = UnusedAnon(s)  BY UnusedFound
<1>2. PICK r : r = anon_new(s)  OBVIOUS
<1>3. /\ r \in VmType /\ r.map = s.map /\ r.obj = s.obj /\ r.pte = s.pte /\ r.tables = s.tables
      /\ r.nfree = s.nfree - 1 /\ r.tlb = s.tlb
      /\ \A c \in Anons \ {b} : r.anon[c] = s.anon[c]
      /\ r.anon[b] \in AnonType /\ r.anon[b].refcnt = 1 /\ r.anon[b].pv = {}
  BY <1>1, <1>2, AnonNew
<1>4. PICK v \in Values : v = s.anon[a].content  BY VmTyped DEF AnonType
<1>5. t = [r EXCEPT !.anon[b].content = v]  BY <1>1, <1>2, <1>4 DEF anon_copy
<1>6. PICK x : x = [r.anon[b] EXCEPT !.content = v]  OBVIOUS
<1>7. x \in AnonType /\ x.refcnt = 1 /\ x.pv = {} /\ x.content = v  BY <1>3, <1>6 DEF AnonType
<1>8. r.nfree \in Int  BY <1>3 DEF VmType
<1>9. t = [r EXCEPT !.anon[b] = x, !.nfree = @ - 0]
  <2>1. r.nfree - 0 = r.nfree  BY <1>8
  <2>2. t = [r EXCEPT !.anon[b] = x]  BY <1>3, <1>5, <1>6 DEF VmType
  <2>3. [r EXCEPT !.anon[b] = x, !.nfree = @ - 0] = [r EXCEPT !.anon[b] = x]  BY <1>3, <2>1 DEF VmType
  <2> QED  BY <2>2, <2>3
<1>10. /\ t \in VmType /\ t.map = r.map /\ t.obj = r.obj /\ t.pte = r.pte /\ t.tables = r.tables
       /\ t.nfree = r.nfree - 0 /\ t.tlb = r.tlb
       /\ \A c \in Anons : t.anon[c] = IF c = b THEN x ELSE r.anon[c]
  <2>1. PICK z \in Int : z = 0  OBVIOUS
  <2>2. PICK k \in Int : k = r.nfree - z  BY <1>8
  <2>3. t = WithAnon(r, b, x, k)  BY <1>3, <1>9, <2>1, <2>2 DEF VmType, WithAnon
  <2> QED  BY <1>3, <1>7, <2>1, <2>2, <2>3, AnonSet
<1>11. t.nfree = s.nfree - 1  BY <1>3, <1>8, <1>10
<1> QED  BY <1>1, <1>3, <1>4, <1>7, <1>10, <1>11

\* An anon that an object has is in use.
LEMMA PlaceUsed ==
    ASSUME NEW s, NEW n, VmOK(s, n), NEW o \in Objs, NEW i \in VAs, NEW a \in Anons, s.obj[o].amap[i] = a
    PROVE  s.anon[a].refcnt \in Nat /\ s.anon[a].refcnt > 0
<1>1. <<o, i>> \in AmapPlaces(s.obj, a)  BY DEF AmapPlaces
<1>2. s.anon[a].refcnt = Cardinality(AmapPlaces(s.obj, a))  BY DEF VmOK, RefsOK
<1>3. Cardinality(AmapPlaces(s.obj, a)) # 0  BY <1>1, PlacesFinite, FS_EmptySet
<1> QED  BY <1>2, <1>3, PlacesFinite

\* fault_aobj makes an anon of an object's own, of zeroes or a copy.
Created(s, o, off)   == [anon_new(s) EXCEPT !.obj[o].amap[off] = UnusedAnon(s)]
OneFewer(s, a)       == [s EXCEPT !.anon[a].refcnt = @ - 1]
Copied(s, a, o, off) == [anon_copy(OneFewer(s, a), a) EXCEPT !.obj[o].amap[off] = UnusedAnon(s)]
CopiedOut(s, m, va, c) == IF s.pte[m][va] # NoPte THEN pmap_unenter(c, m, {va}) ELSE c
LEMMA FaultNew ==
    ASSUME NEW s, NEW n, VmOK(s, n), NEW m \in Maps, NEW e \in Entries(s.map, m),
           NEW va \in e.start .. e.end - 1, NEW o, o = e.obj, NEW off, off = va - e.start,
           \E a \in Anons : s.anon[a].refcnt = 0, s.obj[o].amap[off] = NoAnon,
           NEW c, c = Created(s, o, off)
    PROVE  PlacedAt(s, c, m, va, o, off, UnusedAnon(s))
<1>1. va \in VAs /\ off \in VAs /\ o \in Objs  BY EntryOffset
<1>2. PICK b \in Anons : b = UnusedAnon(s) /\ s.anon[b].refcnt = 0  BY UnusedFound
<1>3. PICK r : r = anon_new(s)  OBVIOUS
<1>4. s \in VmType  BY DEF VmOK
<1>5. /\ r \in VmType /\ r.map = s.map /\ r.obj = s.obj /\ r.pte = s.pte /\ r.tables = s.tables
      /\ r.nfree = s.nfree - 1 /\ r.tlb = s.tlb
      /\ \A d \in Anons \ {b} : r.anon[d] = s.anon[d]
      /\ r.anon[b] \in AnonType /\ r.anon[b].refcnt = 1 /\ r.anon[b].pv = {} /\ r.anon[b].content = 0
  BY <1>2, <1>3, <1>4, AnonNew
<1>6. c = WithAmap(r, o, off, b)  BY <1>2, <1>3 DEF Created, WithAmap
<1>7. /\ c \in VmType /\ c.map = r.map /\ c.anon = r.anon /\ c.pte = r.pte /\ c.tables = r.tables
      /\ c.nfree = r.nfree /\ c.tlb = r.tlb
      /\ \A p \in Objs : (p # o => c.obj[p] = r.obj[p]) /\ c.obj[p].refcnt = r.obj[p].refcnt
      /\ c.obj[o].amap = [r.obj[o].amap EXCEPT ![off] = b]
  BY <1>1, <1>5, <1>6, AmapSet
<1>8. s.pte[m][va] = NoPte  BY PteShows, AnonsNatural
<1>9. s.tlb[m][va] = NoPte  BY <1>1, <1>8 DEF VmOK, TlbOK, Caches
<1>10. \A d \in Anons : <<m, va>> \notin s.anon[d].pv
  <2>1. \A d \in Anons : s.anon[d].pv = {x \in Maps \X VAs : s.pte[x[1]][x[2]].page = d}  BY DEF VmOK, PvOK
  <2> QED  BY <1>8, <2>1, AnonsNatural
<1>11. s.anon[b].pv = {}  BY <1>2, UnusedUnmapped
<1>12. \A d \in Anons :
           /\ c.anon[d].refcnt = IF d = b THEN 1
                                 ELSE IF d = s.obj[o].amap[off] THEN s.anon[d].refcnt - 1 ELSE s.anon[d].refcnt
           /\ c.anon[d].pv = s.anon[d].pv \ {<<m, va>>}
           /\ c.anon[d].content = IF d = b THEN Holds(s, o, off) ELSE s.anon[d].content
  <2>1. Holds(s, o, off) = 0  BY DEF Holds
  <2> QED  BY <1>5, <1>7, <1>10, <1>11, <2>1, AnonsNatural
<1>13. PlacedAt(s, c, m, va, o, off, b)  BY <1>5, <1>7, <1>8, <1>9, <1>12 DEF PlacedAt
<1> QED  BY <1>2, <1>13

LEMMA FaultCopy ==
    ASSUME NEW s, NEW n, VmOK(s, n), NEW m \in Maps, NEW e \in Entries(s.map, m),
           NEW va \in e.start .. e.end - 1, NEW o, o = e.obj, NEW off, off = va - e.start,
           \E z \in Anons : s.anon[z].refcnt = 0, NEW a \in Anons, s.obj[o].amap[off] = a, s.anon[a].refcnt > 1,
           NEW c, c = Copied(s, a, o, off), NEW t, t = CopiedOut(s, m, va, c)
    PROVE  PlacedAt(s, t, m, va, o, off, UnusedAnon(s))
<1>1. va \in VAs /\ off \in VAs /\ o \in Objs  BY EntryOffset
<1>2. PICK b \in Anons : b = UnusedAnon(s) /\ s.anon[b].refcnt = 0  BY UnusedFound
<1>3. PICK f : f = OneFewer(s, a)  OBVIOUS
<1>4. s \in VmType  BY DEF VmOK
<1>5. s.anon[a] \in AnonType /\ s.anon \in [Anons -> AnonType] /\ \A d \in Anons : s.anon[d].refcnt \in Nat
  BY <1>4, VmTyped DEF VmType, AnonType
<1>6. PICK x : x = [s.anon[a] EXCEPT !.refcnt = @ - 1]  OBVIOUS
<1>7. x \in AnonType /\ x.refcnt = s.anon[a].refcnt - 1 /\ x.pv = s.anon[a].pv /\ x.content = s.anon[a].content
  <2>1. s.anon[a].refcnt - 1 \in Nat  BY <1>5
  <2> QED  BY <1>5, <1>6, <2>1 DEF AnonType
<1>8. /\ f \in VmType /\ f.map = s.map /\ f.obj = s.obj /\ f.pte = s.pte /\ f.tables = s.tables
      /\ f.nfree = s.nfree /\ f.tlb = s.tlb
      /\ \A d \in Anons : f.anon[d] = IF d = a THEN x ELSE s.anon[d]
  <2>1. PICK an : an = [s.anon EXCEPT ![a] = x]  OBVIOUS
  <2>2. an \in [Anons -> AnonType] /\ \A d \in Anons : an[d] = IF d = a THEN x ELSE s.anon[d]  BY <1>5, <1>7, <2>1
  <2>3. f = [s EXCEPT !.anon = an]  BY <1>3, <1>4, <1>6, <2>1 DEF VmType, OneFewer
  <2> QED  BY <1>4, <2>2, <2>3 DEF VmType
<1>9. UnusedAnon(f) = b /\ \E z \in Anons : f.anon[z].refcnt = 0
  <2>1. \A d \in Anons : f.anon[d].refcnt = 0 <=> s.anon[d].refcnt = 0  BY <1>5, <1>7, <1>8
  <2>2. {d \in Anons : f.anon[d].refcnt = 0} = {d \in Anons : s.anon[d].refcnt = 0}  BY <2>1
  <2> QED  BY <1>2, <2>1, <2>2 DEF UnusedAnon
<1>10. PICK r : r = anon_copy(f, a)  OBVIOUS
<1>11. /\ r \in VmType /\ r.map = f.map /\ r.obj = f.obj /\ r.pte = f.pte /\ r.tables = f.tables
       /\ r.nfree = f.nfree - 1 /\ r.tlb = f.tlb
       /\ \A d \in Anons \ {b} : r.anon[d] = f.anon[d]
       /\ r.anon[b] \in AnonType /\ r.anon[b].refcnt = 1 /\ r.anon[b].pv = {} /\ r.anon[b].content = f.anon[a].content
  BY <1>8, <1>9, <1>10, AnonCopy
<1>12. c = WithAmap(r, o, off, b)  BY <1>2, <1>3, <1>10 DEF Copied, WithAmap
<1>13. /\ c \in VmType /\ c.map = r.map /\ c.anon = r.anon /\ c.pte = r.pte /\ c.tables = r.tables
       /\ c.nfree = r.nfree /\ c.tlb = r.tlb
       /\ \A p \in Objs : (p # o => c.obj[p] = r.obj[p]) /\ c.obj[p].refcnt = r.obj[p].refcnt
       /\ c.obj[o].amap = [r.obj[o].amap EXCEPT ![off] = b]
  <2>1. r \in VmType  BY <1>11
  <2> QED  BY <1>1, <1>12, <2>1, AmapSet
<1>14. a # b  BY <1>2
<1>15. s.anon[b].pv = {}  BY <1>2, UnusedUnmapped
<1>16. \A d \in Anons : /\ c.anon[d].pv = s.anon[d].pv
                        /\ c.anon[d].refcnt = IF d = b THEN 1 ELSE IF d = a THEN s.anon[d].refcnt - 1 ELSE s.anon[d].refcnt
  <2> SUFFICES ASSUME NEW d \in Anons
               PROVE  /\ c.anon[d].pv = s.anon[d].pv
                      /\ c.anon[d].refcnt = IF d = b THEN 1 ELSE IF d = a THEN s.anon[d].refcnt - 1 ELSE s.anon[d].refcnt
    OBVIOUS
  <2>1. c.anon[d] = r.anon[d]  BY <1>13
  <2>2. CASE d = b  BY <1>11, <1>15, <2>1, <2>2
  <2>3. CASE d # b /\ d = a
    <3>1. r.anon[d] = f.anon[d]  BY <1>11, <2>3
    <3>2. f.anon[d] = x  BY <1>8, <2>3
    <3> QED  BY <1>7, <2>1, <2>3, <3>1, <3>2
  <2>4. CASE d # b /\ d # a
    <3>1. r.anon[d] = f.anon[d]  BY <1>11, <2>4
    <3>2. f.anon[d] = s.anon[d]  BY <1>8, <2>4
    <3> QED  BY <2>1, <2>4, <3>1, <3>2
  <2> QED  BY <2>2, <2>3, <2>4
<1>a. \A d \in Anons : c.anon[d].content = IF d = b THEN Holds(s, o, off) ELSE s.anon[d].content
  <2>1. Holds(s, o, off) = s.anon[a].content /\ f.anon[a].content = s.anon[a].content  BY <1>7, <1>8, AnonsNatural DEF Holds
  <2> SUFFICES ASSUME NEW d \in Anons PROVE c.anon[d].content = IF d = b THEN Holds(s, o, off) ELSE s.anon[d].content
    OBVIOUS
  <2>2. c.anon[d] = r.anon[d]  BY <1>13
  <2>3. CASE d = b  BY <1>11, <2>1, <2>2, <2>3
  <2>4. CASE d # b
    <3>1. r.anon[d] = f.anon[d]  BY <1>11, <2>4
    <3>2. f.anon[d].content = s.anon[d].content  BY <1>7, <1>8
    <3> QED  BY <2>2, <2>4, <3>1, <3>2
  <2> QED  BY <2>3, <2>4
<1>17. TlbOK(c.pte, c.tlb) /\ PvOK(c.anon, c.pte)
  <2>1. TlbOK(s.pte, s.tlb) /\ PvOK(s.anon, s.pte)  BY DEF VmOK
  <2>2. c.pte = s.pte /\ c.tlb = s.tlb  BY <1>8, <1>11, <1>13
  <2> QED  BY <1>16, <2>1, <2>2 DEF PvOK
<1>18. PICK V \in SUBSET VAs : V = {va}  BY <1>1
<1>19. Unentered(c, t, m, V)
  <2>1. CASE s.pte[m][va] # NoPte
    <3>1. t = pmap_unenter(c, m, V)  BY <1>18, <2>1 DEF CopiedOut
    <3> QED  BY <1>13, <1>17, <3>1, Unenter
  <2>2. CASE s.pte[m][va] = NoPte
    <3>1. t = c /\ c.pte[m][va] = NoPte  BY <1>8, <1>11, <1>13, <2>2 DEF CopiedOut
    <3>2. c.tlb[m][va] = NoPte  BY <1>1, <1>17, <3>1 DEF TlbOK, Caches
    <3>3. \A d \in Anons : c.anon[d].pv = c.anon[d].pv \ ({m} \X V)
      <4>1. \A d \in Anons : c.anon[d].pv = {y \in Maps \X VAs : c.pte[y[1]][y[2]].page = d}  BY <1>17 DEF PvOK
      <4>2. \A d \in Anons : <<m, va>> \notin c.anon[d].pv  BY <3>1, <4>1, AnonsNatural
      <4>3. {m} \X V = {<<m, va>>}  BY <1>18
      <4> QED  BY <4>2, <4>3
    <3> QED  BY <1>13, <1>18, <3>1, <3>2, <3>3 DEF Unentered, SameContents
  <2> QED  BY <2>1, <2>2
<1>20. {m} \X V = {<<m, va>>}  BY <1>18
<1>21. \A d \in Anons :
           /\ t.anon[d].refcnt = IF d = b THEN 1
                                 ELSE IF d = s.obj[o].amap[off] THEN s.anon[d].refcnt - 1 ELSE s.anon[d].refcnt
           /\ t.anon[d].pv = s.anon[d].pv \ {<<m, va>>}
           /\ t.anon[d].content = IF d = b THEN Holds(s, o, off) ELSE s.anon[d].content
  <2>1. \A d \in Anons : /\ t.anon[d].refcnt = c.anon[d].refcnt /\ t.anon[d].pv = c.anon[d].pv \ {<<m, va>>}
                         /\ t.anon[d].content = c.anon[d].content
    BY <1>19, <1>20 DEF Unentered, SameContents
  <2> QED  BY <1>16, <1>a, <2>1
<1>22. \A k \in Maps, y \in VAs :
           /\ t.pte[k][y] = IF k = m /\ y = va THEN NoPte ELSE s.pte[k][y]
           /\ t.tlb[k][y] = IF k = m /\ y = va THEN NoPte ELSE s.tlb[k][y]
  BY <1>8, <1>11, <1>13, <1>18, <1>19 DEF Unentered
<1>23. t \in VmType /\ t.map = c.map /\ t.obj = c.obj /\ t.tables = c.tables /\ t.nfree = c.nfree
  BY <1>19 DEF Unentered
<1>24. PlacedAt(s, t, m, va, o, off, b)  BY <1>8, <1>11, <1>13, <1>21, <1>22, <1>23 DEF PlacedAt
<1> QED  BY <1>2, <1>24

\* It holds what was there before.
LEMMA PlacedKeeps ==
    ASSUME NEW s, NEW n, VmOK(s, n), NEW o \in Objs, NEW off \in VAs, NEW b \in Anons, s.anon[b].refcnt = 0,
           NEW m, NEW va, NEW t, PlacedAt(s, t, m, va, o, off, b)
    PROVE  Unaltered(s, t)
<1>1. s \in VmType /\ s.obj[o] \in ObjType  BY VmTyped DEF VmOK
<1>2. \A p \in Objs : s.obj[p] \in ObjType  BY <1>1, VmTyped
<1>3. t.obj[o].amap = [s.obj[o].amap EXCEPT ![off] = b] /\ \A p \in Objs : p # o => t.obj[p] = s.obj[p]  BY DEF PlacedAt
<1>4. \A c \in Anons : t.anon[c].content = IF c = b THEN Holds(s, o, off) ELSE s.anon[c].content  BY DEF PlacedAt
<1> SUFFICES ASSUME NEW p \in Objs, NEW i \in VAs PROVE Holds(t, p, i) = Holds(s, p, i)  BY DEF Unaltered
<1>5. CASE p = o /\ i = off
  <2>1. t.obj[p].amap[i] = b  BY <1>1, <1>3, <1>5 DEF ObjType
  <2> QED  BY <1>4, <1>5, <2>1, AnonsNatural DEF Holds
<1>6. CASE ~(p = o /\ i = off)
  <2>1. PICK a \in Anons \cup {NoAnon} : a = s.obj[p].amap[i]  BY <1>2 DEF ObjType
  <2>2. t.obj[p].amap[i] = a  BY <1>1, <1>3, <1>6, <2>1 DEF ObjType
  <2>3. CASE a = NoAnon  BY <2>1, <2>2, <2>3 DEF Holds
  <2>4. CASE a # NoAnon
    <3>1. a \in Anons /\ s.anon[a].refcnt > 0  BY <2>1, <2>4, PlaceUsed
    <3>2. a # b  BY <3>1
    <3>3. t.anon[a].content = s.anon[a].content  BY <1>4, <3>1, <3>2
    <3> QED  BY <2>1, <2>2, <2>4, <3>3 DEF Holds
  <2> QED  BY <2>3, <2>4
<1> QED  BY <1>5, <1>6

\* The same objects and contents.
LEMMA SameKept ==
    ASSUME NEW s, NEW n, VmOK(s, n), NEW t, t.obj = s.obj, SameContents(s.anon, t.anon)
    PROVE  Unaltered(s, t)
<1>1. \A p \in Objs : s.obj[p] \in ObjType  BY VmTyped DEF VmOK
<1>2. \A p \in Objs, i \in VAs : s.obj[p].amap[i] \in Anons \cup {NoAnon}  BY <1>1 DEF ObjType
<1> QED  BY <1>2 DEF Unaltered, Holds, SameContents

\* fault_aobj.
LEMMA FaultAnon ==
    ASSUME VmInv, NEW m \in Maps, NEW e \in Range(map[m].entries), NEW va \in e.start .. e.end - 1,
           NEW write \in BOOLEAN, \E a \in Anons : anon[a].refcnt = 0,
           NEW o, o = e.obj, NEW off, off = va - e.start
    PROVE  LET t == Dropped(fault_aobj(m, va, o, off, write), m, va)
           IN  VmOK(t, UserMemory - roots) /\ t.map = map /\ Unaltered(VmNow, t)
<1>1. PICK s : s = VmNow  OBVIOUS
<1>2. PICK n : n = UserMemory - roots  OBVIOUS
<1>3. VmOK(s, n) /\ s \in VmType /\ s.map = map /\ s.obj = obj /\ s.anon = anon /\ s.pte = pte
  BY <1>1, <1>2, VmNowTyped DEF VmInv
<1>4. e \in Entries(s.map, m) /\ \E a \in Anons : s.anon[a].refcnt = 0  BY <1>3 DEF Entries
<1>5. va \in VAs /\ off \in VAs /\ o \in Objs /\ s.obj[o].amap[off] \in Anons \cup {NoAnon}  BY <1>3, <1>4, EntryOffset
<1>6. PICK a : a = s.obj[o].amap[off]  OBVIOUS
<1>7. PICK b \in Anons : b = UnusedAnon(s) /\ s.anon[b].refcnt = 0  BY <1>4, UnusedFound
<1>8. PICK F : F = fault_aobj(m, va, o, off, write)  OBVIOUS
<1>9. F = IF a = NoAnon THEN pmap_enter(Created(s, o, off), m, va, b, TRUE)
          ELSE IF s.anon[a].refcnt > 1 /\ write
          THEN pmap_enter(CopiedOut(s, m, va, Copied(s, a, o, off)), m, va, b, TRUE)
          ELSE IF s.anon[a].refcnt > 1 THEN pmap_enter(s, m, va, a, FALSE)
          ELSE IF s.pte[m][va] # NoPte THEN pmap_enter_kern(s, m, va, a, TRUE)
          ELSE pmap_enter(s, m, va, a, TRUE)
  <2>1. fault_aobj(m, va, o, off, write) =
            IF obj[o].amap[off] = NoAnon THEN pmap_enter(Created(VmNow, o, off), m, va, UnusedAnon(VmNow), TRUE)
            ELSE IF anon[obj[o].amap[off]].refcnt > 1 /\ write
            THEN pmap_enter(IF pte[m][va] # NoPte
                            THEN pmap_unenter(Copied(VmNow, obj[o].amap[off], o, off), m, {va})
                            ELSE Copied(VmNow, obj[o].amap[off], o, off),
                            m, va, UnusedAnon(VmNow), TRUE)
            ELSE IF anon[obj[o].amap[off]].refcnt > 1 THEN pmap_enter(VmNow, m, va, obj[o].amap[off], FALSE)
            ELSE IF pte[m][va] # NoPte THEN pmap_enter_kern(VmNow, m, va, obj[o].amap[off], TRUE)
            ELSE pmap_enter(VmNow, m, va, obj[o].amap[off], TRUE)
    BY DEF fault_aobj, Created, Copied, OneFewer
  <2>2. a = obj[o].amap[off] /\ s.anon = anon /\ s.pte = pte  BY <1>3, <1>6
  <2>3. (IF pte[m][va] # NoPte THEN pmap_unenter(Copied(s, a, o, off), m, {va}) ELSE Copied(s, a, o, off))
        = CopiedOut(s, m, va, Copied(s, a, o, off))
    BY <2>2 DEF CopiedOut
  <2> QED  BY <1>1, <1>7, <1>8, <2>1, <2>2, <2>3
<1>10. PICK t : t = Dropped(F, m, va)  OBVIOUS
<1>12. ASSUME NEW c, PlacedAt(s, c, m, va, o, off, b), F = pmap_enter(c, m, va, b, TRUE),
              s.obj[o].amap[off] # NoAnon => s.anon[s.obj[o].amap[off]].refcnt > 1
       PROVE  VmOK(t, n) /\ t.map = s.map /\ Unaltered(s, t)
  <2>1. VmOK(c, n) /\ c.obj[o].amap[off] = b /\ c.anon[b].refcnt = 1  BY <1>3, <1>4, <1>7, <1>12, AnonPlaced
  <2>2. c.map = s.map /\ c \in VmType /\ e \in Entries(c.map, m)  BY <1>4, <1>12 DEF PlacedAt
  <2>4. PICK w \in BOOLEAN : w = TRUE  OBVIOUS
  <2>3. /\ Entered(c, F, m, va, b, w)
        /\ \A d \in Anons : /\ F.anon[d].refcnt = c.anon[d].refcnt
                            /\ F.anon[d].pv = c.anon[d].pv \cup (IF d = b THEN {<<m, va>>} ELSE {})
        /\ SameContents(c.anon, F.anon)
    <3>1. F = pmap_enter(c, m, va, b, w) /\ c \in VmType  BY <1>12, <2>2, <2>4
    <3> QED  BY <1>5, <1>7, <3>1, Enter
  <2>5. Entered(c, F, m, va, b, w) /\ (w => c.anon[b].refcnt = 1) /\ c.obj[e.obj].amap[va - e.start] = b
    BY <2>1, <2>3, <2>4
  <2>6. VmOK(t, n) /\ t.map = c.map /\ t.obj = c.obj /\ t.anon = F.anon
    BY <1>10, <2>1, <2>2, <2>3, <2>5, FaultEntered
  <2>7. Unaltered(s, c)  BY <1>3, <1>5, <1>7, <1>12, PlacedKeeps
  <2>8. Unaltered(c, t)  BY <2>1, <2>3, <2>6, SameKept
  <2>9. Unaltered(s, t)  BY <2>7, <2>8 DEF Unaltered
  <2> QED  BY <2>2, <2>6, <2>9
<1>13. ASSUME NEW w \in BOOLEAN, a \in Anons, F = pmap_enter(s, m, va, a, w), w => s.anon[a].refcnt = 1
       PROVE  VmOK(t, n) /\ t.map = s.map /\ Unaltered(s, t)
  <2>1. /\ Entered(s, F, m, va, a, w)
        /\ \A d \in Anons : /\ F.anon[d].refcnt = s.anon[d].refcnt
                            /\ F.anon[d].pv = s.anon[d].pv \cup (IF d = a THEN {<<m, va>>} ELSE {})
        /\ SameContents(s.anon, F.anon)
    BY <1>3, <1>5, <1>13, Enter
  <2>2. s.obj[e.obj].amap[va - e.start] = a  BY <1>6
  <2>3. VmOK(t, n) /\ t.map = s.map /\ t.obj = s.obj /\ t.anon = F.anon
    BY <1>3, <1>4, <1>10, <1>13, <2>1, <2>2, FaultEntered
  <2>4. Unaltered(s, t)  BY <1>3, <2>1, <2>3, SameKept
  <2> QED  BY <2>3, <2>4
<1>14. CASE a = NoAnon
  <2>1. PICK c : c = Created(s, o, off)  OBVIOUS
  <2>2. PlacedAt(s, c, m, va, o, off, UnusedAnon(s))  BY <1>3, <1>4, <1>6, <1>14, <2>1, FaultNew
  <2>3. F = pmap_enter(c, m, va, b, TRUE)  BY <1>9, <1>14, <2>1
  <2> QED  BY <1>1, <1>2, <1>3, <1>6, <1>7, <1>8, <1>10, <1>12, <1>14, <2>2, <2>3
<1>15. CASE a # NoAnon
  <2>0. a \in Anons /\ s.anon[a].refcnt \in Nat /\ s.anon[a].refcnt > 0  BY <1>3, <1>5, <1>6, <1>15, PlaceUsed
  <2>1. CASE s.anon[a].refcnt > 1 /\ write
    <3>1. PICK c : c = Copied(s, a, o, off)  OBVIOUS
    <3>2. PICK r : r = CopiedOut(s, m, va, c)  OBVIOUS
    <3>3. PlacedAt(s, r, m, va, o, off, UnusedAnon(s))
      BY <1>3, <1>4, <1>6, <2>0, <2>1, <3>1, <3>2, FaultCopy
    <3>4. F = pmap_enter(r, m, va, b, TRUE)  BY <1>9, <1>15, <2>1, <3>1, <3>2
    <3> QED  BY <1>1, <1>2, <1>3, <1>6, <1>7, <1>8, <1>10, <1>12, <2>1, <3>3, <3>4
  <2>2. CASE s.anon[a].refcnt > 1 /\ ~write
    <3>1. F = pmap_enter(s, m, va, a, FALSE)  BY <1>9, <1>15, <2>2
    <3> QED  BY <1>1, <1>2, <1>3, <1>8, <1>10, <1>13, <2>0, <3>1
  <2>3. CASE ~(s.anon[a].refcnt > 1)
    <3>1. s.anon[a].refcnt = 1  BY <2>0, <2>3
    <3>2. CASE s.pte[m][va] # NoPte
      <4>1. F = pmap_enter_kern(s, m, va, a, TRUE)  BY <1>9, <1>15, <2>3, <3>2
      <4>2. PICK w \in BOOLEAN : w = TRUE  OBVIOUS
      <4>3. Entered(s, F, m, va, a, w) /\ F.anon = s.anon  BY <1>3, <1>5, <2>0, <4>1, <4>2, EnterKern
      <4>4. s.pte[m][va].page = a  BY <1>3, <1>4, <1>6, <3>2, PteShows
      <4>5. <<m, va>> \in s.anon[a].pv
        <5>1. s.anon[a].pv = {x \in Maps \X VAs : s.pte[x[1]][x[2]].page = a}  BY <1>3, <2>0 DEF VmOK, PvOK
        <5> QED  BY <1>5, <4>4, <5>1
      <4>6. \A d \in Anons : /\ F.anon[d].refcnt = s.anon[d].refcnt
                             /\ F.anon[d].pv = s.anon[d].pv \cup (IF d = a THEN {<<m, va>>} ELSE {})
        BY <4>3, <4>5
      <4>7. s.obj[e.obj].amap[va - e.start] = a  BY <1>6
      <4>8. VmOK(t, n) /\ t.map = s.map /\ t.obj = s.obj /\ t.anon = F.anon
        BY <1>3, <1>4, <1>10, <2>0, <3>1, <4>3, <4>6, <4>7, FaultEntered
      <4>9. Unaltered(s, t)  BY <1>3, <4>3, <4>8, SameKept DEF SameContents
      <4> QED  BY <1>1, <1>2, <1>3, <1>8, <1>10, <4>8, <4>9
    <3>3. CASE s.pte[m][va] = NoPte
      <4>1. F = pmap_enter(s, m, va, a, TRUE)  BY <1>9, <1>15, <2>3, <3>3
      <4> QED  BY <1>1, <1>2, <1>3, <1>8, <1>10, <1>13, <2>0, <3>1, <4>1
    <3> QED  BY <3>2, <3>3
  <2> QED  BY <2>1, <2>2, <2>3
<1> QED  BY <1>14, <1>15

LEMMA FaultKeeps ==
    ASSUME VmInv, NEW m \in Maps, NEW va \in VAs, NEW write \in BOOLEAN, vm_fault(m, va, write)
    PROVE  VmInv' /\ map' = map /\ Unaltered(VmNow, VmNow')
<1>1. PICK i : i = map_entry_for_addr(map[m], va)  OBVIOUS
<1>2. PICK s : s = VmNow  OBVIOUS
<1>3. VmOK(s, UserMemory - roots) /\ s \in VmType /\ s.map = map  BY <1>2, VmNowTyped DEF VmInv
<1>4. map[m] \in MapType /\ MapOK(map[m])  BY <1>3, VmTyped DEF VmOK
<1>5. i # 0  BY <1>1 DEF vm_fault
<1>6. PICK e : e = map[m].entries[i]  OBVIOUS
<1>7. e \in Range(map[m].entries) /\ va \in e.start .. e.end - 1  BY <1>1, <1>4, <1>5, <1>6, EntryFound DEF Range
<1>8. PICK t : t = Dropped(fault_aobj(m, va, e.obj, va - e.start, write), m, va)  OBVIOUS
<1>9. VmBecomes(t) /\ roots' = roots /\ procs' = procs /\ \E a \in Anons : anon[a].refcnt = 0
  BY <1>1, <1>6, <1>8 DEF vm_fault, Dropped
<1>10. VmOK(t, UserMemory - roots) /\ t.map = map /\ Unaltered(VmNow, t)  BY <1>7, <1>8, <1>9, FaultAnon
<1>11. VmInv' /\ VmNow' = t  BY <1>9, <1>10, VmBecame DEF VmInv
<1> QED  BY <1>9, <1>10, <1>11 DEF VmBecomes

------------------------------------------------------------------------------
\* vm_map_object.

\* Objects that do not exist, and those that no map shows.
UnusedObjs(s) == {p \in Objs : s.obj[p].refcnt = 0}
Hidden(s, o) == \A m \in Maps : \A e \in Entries(s.map, m) : e.obj # o

LEMMA UnusedHidden ==
    ASSUME NEW s, NEW n, VmOK(s, n), NEW o \in Objs, s.obj[o].refcnt = 0
    PROVE  Hidden(s, o) /\ \A i \in VAs : s.obj[o].amap[i] = NoAnon
BY DEF VmOK, ViewsOK, ObjsOK, Hidden

\* An entry is an object's.
LEMMA EntryObj ==
    ASSUME NEW s, NEW n, VmOK(s, n), NEW m \in Maps, NEW e \in Entries(s.map, m)
    PROVE  e \in EntryType /\ e.obj \in Objs
<1>1. s \in VmType  BY DEF VmOK
<1>2. s.map[m] \in MapType /\ MapOK(s.map[m])  BY <1>1, VmTyped DEF VmOK
<1> QED  BY <1>2, EntrySpot DEF Entries, EntryType

\* A new object.
WithObj(s, o, y) == [s EXCEPT !.obj[o] = y]
LEMMA ObjSet ==
    ASSUME NEW s \in VmType, NEW o \in Objs, NEW y \in ObjType, NEW t, t = WithObj(s, o, y)
    PROVE  /\ t \in VmType /\ t.map = s.map /\ t.anon = s.anon /\ t.pte = s.pte /\ t.tables = s.tables
           /\ t.nfree = s.nfree /\ t.tlb = s.tlb
           /\ \A p \in Objs : t.obj[p] = IF p = o THEN y ELSE s.obj[p]
<1>1. s.obj \in [Objs -> ObjType]  BY DEF VmType
<1>2. PICK ob : ob = [s.obj EXCEPT ![o] = y]  OBVIOUS
<1>3. ob \in [Objs -> ObjType] /\ \A p \in Objs : ob[p] = IF p = o THEN y ELSE s.obj[p]  BY <1>1, <1>2
<1>4. t = [s EXCEPT !.obj = ob]  BY <1>2 DEF VmType, WithObj
<1> QED  BY <1>3, <1>4 DEF VmType

LEMMA ObjMade ==
    ASSUME NEW s, NEW n, VmOK(s, n), NEW o \in Objs, s.obj[o].refcnt = 0,
           NEW y \in ObjType, y.refcnt = 1, y.amap = [i \in VAs |-> NoAnon], NEW t, t = WithObj(s, o, y)
    PROVE  /\ VmOK(t, n) /\ t.map = s.map /\ Hidden(t, o) /\ t.obj[o].refcnt = 1 /\ Unaltered(s, t)
<1>1. s \in VmType  BY DEF VmOK
<1>2. /\ t \in VmType /\ t.map = s.map /\ t.anon = s.anon /\ t.pte = s.pte /\ t.tables = s.tables
      /\ t.nfree = s.nfree /\ t.tlb = s.tlb
      /\ \A p \in Objs : t.obj[p] = IF p = o THEN y ELSE s.obj[p]
  BY <1>1, ObjSet
<1>3. Hidden(s, o) /\ \A i \in VAs : s.obj[o].amap[i] = NoAnon  BY UnusedHidden
<1>4. \A k \in Maps : \A e \in Entries(s.map, k) : e.obj \in Objs /\ t.obj[e.obj] = s.obj[e.obj]
  BY <1>2, <1>3, EntryObj DEF Hidden
<1>5. ViewsOK(t.map, t.obj)  BY <1>2, <1>4 DEF VmOK, ViewsOK
<1>6. ObjsOK(t.obj)  BY <1>2 DEF VmOK, ObjsOK
<1>7. \A p \in Objs, i \in VAs : t.obj[p].amap[i] = s.obj[p].amap[i]  BY <1>2, <1>3
<1>8. \A a \in Anons : AmapPlaces(t.obj, a) = AmapPlaces(s.obj, a)  BY <1>7 DEF AmapPlaces
<1>9. RefsOK(t.obj, t.anon)  BY <1>2, <1>8 DEF VmOK, RefsOK
<1>10. \A k \in Maps, va \in VAs, a \in Anons : Shows(s.map, s.obj, k, va, a) => Shows(t.map, t.obj, k, va, a)
  BY <1>2, <1>4 DEF Shows
<1>11. PtesOK(t.map, t.obj, t.anon, t.pte)  BY <1>2, <1>10 DEF VmOK, PtesOK, PteOK
<1>12. VmOK(t, n)  BY <1>2, <1>5, <1>6, <1>9, <1>11 DEF VmOK
<1>13. Unaltered(s, t)  BY <1>2, <1>7 DEF Unaltered, Holds
<1> QED  BY <1>2, <1>3, <1>12, <1>13 DEF Hidden

\* A map shows it.
WithMap(s, m, p) == [s EXCEPT !.map[m] = p]
LEMMA MapSet ==
    ASSUME NEW s \in VmType, NEW m \in Maps, NEW p \in MapType, NEW t, t = WithMap(s, m, p)
    PROVE  /\ t \in VmType /\ t.obj = s.obj /\ t.anon = s.anon /\ t.pte = s.pte /\ t.tables = s.tables
           /\ t.nfree = s.nfree /\ t.tlb = s.tlb
           /\ \A k \in Maps : t.map[k] = IF k = m THEN p ELSE s.map[k]
<1>1. s.map \in [Maps -> MapType]  BY DEF VmType
<1>2. PICK mp : mp = [s.map EXCEPT ![m] = p]  OBVIOUS
<1>3. mp \in [Maps -> MapType] /\ \A k \in Maps : mp[k] = IF k = m THEN p ELSE s.map[k]  BY <1>1, <1>2
<1>4. t = [s EXCEPT !.map = mp]  BY <1>2 DEF VmType, WithMap
<1> QED  BY <1>3, <1>4 DEF VmType

LEMMA MapMade ==
    ASSUME NEW s, NEW n, VmOK(s, n), NEW m \in Maps, NEW o \in Objs, s.obj[o].refcnt = 1, Hidden(s, o),
           NEW p \in MapType, MapOK(p), NEW e, e.obj = o, Range(p.entries) = Range(s.map[m].entries) \cup {e},
           NEW t, t = WithMap(s, m, p)
    PROVE  VmOK(t, n)
<1>1. s \in VmType  BY DEF VmOK
<1>2. /\ t \in VmType /\ t.obj = s.obj /\ t.anon = s.anon /\ t.pte = s.pte /\ t.tables = s.tables
      /\ t.nfree = s.nfree /\ t.tlb = s.tlb
      /\ \A k \in Maps : t.map[k] = IF k = m THEN p ELSE s.map[k]
  BY <1>1, MapSet
<1>3. \A k \in Maps : Entries(t.map, k) = Entries(s.map, k) \cup (IF k = m THEN {e} ELSE {})  BY <1>2 DEF Entries
<1>4. ViewsOK(t.map, t.obj)
  <2>1. ASSUME NEW j \in Maps, NEW k \in Maps, NEW f \in Entries(t.map, j), NEW g \in Entries(t.map, k), f.obj = g.obj
        PROVE  j = k /\ f = g
    <3>1. CASE f.obj = o
      <4>1. f \notin Entries(s.map, j) /\ g \notin Entries(s.map, k)  BY <2>1, <3>1 DEF Hidden
      <4> QED  BY <1>3, <4>1
    <3>2. CASE f.obj # o
      <4>1. f \in Entries(s.map, j) /\ g \in Entries(s.map, k)  BY <1>3, <2>1, <3>2
      <4> QED  BY <2>1, <4>1 DEF VmOK, ViewsOK
    <3> QED  BY <3>1, <3>2
  <2>2. \A k \in Maps : \A f \in Entries(t.map, k) : t.obj[f.obj].refcnt = 1  BY <1>2, <1>3 DEF VmOK, ViewsOK
  <2> QED  BY <2>1, <2>2 DEF ViewsOK
<1>5. \A k \in Maps, va \in VAs, a \in Anons : Shows(s.map, s.obj, k, va, a) => Shows(t.map, t.obj, k, va, a)
  BY <1>2, <1>3 DEF Shows
<1>6. PtesOK(t.map, t.obj, t.anon, t.pte)  BY <1>2, <1>5 DEF VmOK, PtesOK, PteOK
<1>7. \A k \in Maps : MapOK(t.map[k])  BY <1>2 DEF VmOK
<1> QED  BY <1>2, <1>4, <1>6, <1>7 DEF VmOK

\* The map after an object has found a place.
MapWith(p, i, addr, size, o) ==
    [arena |-> split_seg(p.arena, i, addr, size), entries |-> Append(p.entries, Entry(addr, size, o))]
EntryAdded(p, r, addr, size, o) ==
    /\ r.entries = Append(p.entries, Entry(addr, size, o))
    /\ Range(r.entries) = Range(p.entries) \cup {Entry(addr, size, o)}
    /\ Whole(p.arena) => Whole(r.arena)
LEMMA MapTakes ==
    ASSUME NEW p \in MapType, MapOK(p), NEW o \in Objs, NEW size \in 1 .. UserPages, NEW min \in Nat, NEW exact \in BOOLEAN,
           Search(p.arena, size, min, exact) # 0
    PROVE  LET i == Search(p.arena, size, min, exact)
               addr == Place(p.arena.segqueue[i], min)
               r == MapWith(p, i, addr, size, o)
           IN  r \in MapType /\ MapOK(r) /\ EntryAdded(p, r, addr, size, o)
<1>1. size \in Nat \ {0} /\ HasClass(size)  BY VmAssumption
<1>2. PICK i : i = Search(p.arena, size, min, exact)  OBVIOUS
<1>3. PICK addr : addr = Place(p.arena.segqueue[i], min)  OBVIOUS
<1>4. PICK b : b = split_seg(p.arena, i, addr, size)  OBVIOUS
<1>5. /\ addr \in Nat /\ ArenaOK(b) /\ InUser(b) /\ Allocated(b) = Allocated(p.arena) \cup {Seg("allocated", addr, size)}
      /\ \A x \in Allocated(p.arena) : End(x) <= addr \/ addr + size <= x.base
      /\ Whole(p.arena) => Whole(b)
  <2>1. PICK a : a = p.arena  OBVIOUS
  <2>2. ArenaOK(a) /\ InUser(a) /\ i # 0  BY <1>2, <2>1 DEF MapOK
  <2>3. UserTakes(a, b, addr, size)  BY <1>1, <1>2, <1>3, <1>4, <2>1, <2>2, UserTaken
  <2> QED  BY <2>1, <2>3 DEF UserTakes
<1>6. PICK e : e = Entry(addr, size, o)  OBVIOUS
<1>7. e \in EntryType /\ e.start = addr /\ e.end = addr + size  BY <1>1, <1>5, <1>6 DEF Entry, EntryType
<1>8. SegAt(e) = Seg("allocated", addr, size)
  <2>1. e.end - e.start = size  BY <1>1, <1>5, <1>7
  <2> QED  BY <1>7, <2>1 DEF SegAt
<1>9. PICK q \in Seq(EntryType) : q = p.entries  BY DEF MapType
<1>10. PICK w : w = Append(q, e)  OBVIOUS
<1>11. /\ w \in Seq(EntryType) /\ Len(w) = Len(q) + 1 /\ Len(q) \in Nat /\ DOMAIN w = 1 .. Len(w) /\ DOMAIN q = 1 .. Len(q)
       /\ w[Len(q) + 1] = e /\ \A j \in 1 .. Len(q) : w[j] = q[j]
  BY <1>7, <1>10
<1>12. Range(w) = Range(q) \cup {e}
  <2>1. Range(w) \subseteq Range(q) \cup {e}
    <3> SUFFICES ASSUME NEW j \in DOMAIN w PROVE w[j] \in Range(q) \cup {e}  BY DEF Range
    <3>1. j = Len(q) + 1 \/ j \in 1 .. Len(q)  BY <1>11
    <3> QED  BY <1>11, <3>1 DEF Range
  <2>2. e \in Range(w)
    <3>1. Len(q) + 1 \in DOMAIN w  BY <1>11
    <3> QED  BY <1>11, <3>1 DEF Range
  <2>3. ASSUME NEW j \in DOMAIN q PROVE q[j] \in Range(w)
    <3>1. j \in DOMAIN w /\ w[j] = q[j]  BY <1>11
    <3> QED  BY <3>1 DEF Range
  <2>4. Range(q) \subseteq Range(w)  BY <2>3 DEF Range
  <2> QED  BY <2>1, <2>2, <2>4
<1>13. \A j \in DOMAIN q : q[j].end <= addr \/ addr + size <= q[j].start
  <2> SUFFICES ASSUME NEW j \in DOMAIN q PROVE q[j].end <= addr \/ addr + size <= q[j].start  OBVIOUS
  <2>1. PICK f \in Range(p.entries) : f = q[j]  BY <1>9 DEF Range
  <2>2. f.start \in Nat /\ f.end \in Nat /\ SegAt(f) \in Allocated(p.arena)  BY EntrySpot
  <2>3. PICK x : x = SegAt(f)  OBVIOUS
  <2>4. x.base = f.start /\ End(x) = f.end
    <3>1. x.base = f.start /\ x.size = f.end - f.start  BY <2>3 DEF SegAt, Seg
    <3> QED  BY <2>2, <3>1 DEF End
  <2> QED  BY <1>5, <2>1, <2>2, <2>3, <2>4
<1>14. PICK r : r = MapWith(p, i, addr, size, o)  OBVIOUS
<1>15. r = [arena |-> b, entries |-> w]  BY <1>4, <1>6, <1>9, <1>10, <1>14 DEF MapWith
<1>16. r.arena = b /\ r.entries = w /\ r \in MapType
  <2>1. b \in ArenaType  BY <1>5, ArenaTyped
  <2> QED  BY <1>11, <1>15, <2>1 DEF MapType
<1>17. \A j, k \in DOMAIN w : j # k => w[j].end <= w[k].start \/ w[k].end <= w[j].start
  <2> SUFFICES ASSUME NEW j \in DOMAIN w, NEW k \in DOMAIN w, j # k
               PROVE  w[j].end <= w[k].start \/ w[k].end <= w[j].start
    OBVIOUS
  <2>1. \A x \in DOMAIN w : x = Len(q) + 1 \/ x \in DOMAIN q  BY <1>11
  <2>2. CASE j \in DOMAIN q /\ k \in DOMAIN q
    <3>1. w[j] = q[j] /\ w[k] = q[k]  BY <1>11, <2>2
    <3> QED  BY <1>9, <2>2, <3>1 DEF MapOK
  <2>3. CASE j = Len(q) + 1
    <3>1. k \in DOMAIN q /\ w[j] = e /\ w[k] = q[k]  BY <1>11, <2>1, <2>3
    <3> QED  BY <1>7, <1>13, <3>1
  <2>4. CASE k = Len(q) + 1
    <3>1. j \in DOMAIN q /\ w[k] = e /\ w[j] = q[j]  BY <1>11, <2>1, <2>4
    <3> QED  BY <1>7, <1>13, <3>1
  <2> QED  BY <2>1, <2>2, <2>3, <2>4
<1>18. Allocated(b) = {SegAt(f) : f \in Range(w)}
  <2>1. Allocated(p.arena) = {SegAt(f) : f \in Range(q)}  BY <1>9 DEF MapOK
  <2> QED  BY <1>5, <1>8, <1>12, <2>1
<1>19. MapOK(r)  BY <1>5, <1>16, <1>17, <1>18 DEF MapOK
<1>20. EntryAdded(p, r, addr, size, o)  BY <1>5, <1>6, <1>9, <1>10, <1>12, <1>16 DEF EntryAdded
<1> QED  BY <1>2, <1>3, <1>14, <1>16, <1>19, <1>20

\* A reference more, and one less.
LEMMA Retained ==
    ASSUME NEW s \in VmType, NEW o \in Objs, s.obj[o].refcnt = 1, NEW t, t = vm_object_retain(s, o)
    PROVE  /\ t \in VmType /\ t.map = s.map /\ t.anon = s.anon /\ t.pte = s.pte /\ t.tables = s.tables
           /\ t.nfree = s.nfree /\ t.tlb = s.tlb /\ t.obj[o].refcnt = 2
           /\ \A p \in Objs : t.obj[p] = IF p = o THEN [s.obj[o] EXCEPT !.refcnt = 2] ELSE s.obj[p]
<1>1. s.obj[o] \in ObjType  BY VmTyped
<1>2. PICK y : y = [s.obj[o] EXCEPT !.refcnt = 2]  OBVIOUS
<1>3. y \in ObjType /\ y.refcnt = 2  BY <1>1, <1>2 DEF ObjType
<1>4. t = WithObj(s, o, y)
  <2>1. s.obj \in [Objs -> ObjType]  BY DEF VmType
  <2>2. y = [s.obj[o] EXCEPT !.refcnt = @ + 1]  BY <1>1, <1>2 DEF ObjType
  <2>3. [s.obj EXCEPT ![o].refcnt = @ + 1] = [s.obj EXCEPT ![o] = y]  BY <2>1, <2>2
  <2> QED  BY <2>3 DEF vm_object_retain, WithObj, VmType
<1>5. /\ t \in VmType /\ t.map = s.map /\ t.anon = s.anon /\ t.pte = s.pte /\ t.tables = s.tables
      /\ t.nfree = s.nfree /\ t.tlb = s.tlb
      /\ \A p \in Objs : t.obj[p] = IF p = o THEN y ELSE s.obj[p]
  BY <1>3, <1>4, ObjSet
<1> QED  BY <1>2, <1>3, <1>5

LEMMA Dereferenced ==
    ASSUME NEW s \in VmType, NEW o \in Objs, NEW y \in ObjType, y.refcnt = 1, s.obj[o] = [y EXCEPT !.refcnt = 2],
           NEW t, t = vm_object_release(s, o)
    PROVE  /\ t \in VmType /\ t.map = s.map /\ t.anon = s.anon /\ t.pte = s.pte /\ t.tables = s.tables
           /\ t.nfree = s.nfree /\ t.tlb = s.tlb
           /\ \A p \in Objs : t.obj[p] = IF p = o THEN y ELSE s.obj[p]
<1>1. s.obj[o].refcnt = 2  BY DEF ObjType
<1>2. t = [s EXCEPT !.obj[o].refcnt = @ - 1]  BY <1>1 DEF vm_object_release
<1>3. t = WithObj(s, o, y)
  <2>1. s.obj \in [Objs -> ObjType]  BY DEF VmType
  <2>a. y = [refcnt |-> 1, size |-> y.size, amap |-> y.amap]  BY DEF ObjType
  <2>b. s.obj[o] = [refcnt |-> 2, size |-> y.size, amap |-> y.amap]  BY <2>a
  <2>2. y = [s.obj[o] EXCEPT !.refcnt = @ - 1]
    <3>1. PICK z : z = s.obj[o]  OBVIOUS
    <3>2. [z EXCEPT !.refcnt = @ - 1] = [refcnt |-> 1, size |-> y.size, amap |-> y.amap]  BY <2>b, <3>1
    <3> QED  BY <2>a, <3>1, <3>2
  <2>3. [s.obj EXCEPT ![o].refcnt = @ - 1] = [s.obj EXCEPT ![o] = y]  BY <2>1, <2>2
  <2> QED  BY <1>2, <2>3 DEF WithObj, VmType
<1> QED  BY <1>3, ObjSet

\* vm_map_object, after which the caller gives its own reference back.
Fitted(p, r, size, min, exact, o) ==
    LET fit == Search(p.arena, size, min, exact)
    IN  IF fit = 0 THEN r = p ELSE EntryAdded(p, r, Place(p.arena.segqueue[fit], min), size, o)
LEMMA ObjectMapped ==
    ASSUME NEW s, NEW n, VmOK(s, n), NEW m \in Maps, NEW o \in Objs, s.obj[o].refcnt = 1, Hidden(s, o),
           NEW size \in 1 .. UserPages, NEW min \in Nat, NEW exact \in BOOLEAN,
           NEW t, t = vm_object_release(vm_map_object(s, m, o, size, min, exact).s, o)
    PROVE  /\ VmOK(t, n) /\ t.obj = s.obj /\ t.anon = s.anon /\ \A k \in Maps \ {m} : t.map[k] = s.map[k]
           /\ Fitted(s.map[m], t.map[m], size, min, exact, o)
<1>1. s \in VmType /\ s.map[m] \in MapType /\ MapOK(s.map[m])  BY VmTyped DEF VmOK
<1>2. PICK u : u = vm_object_retain(s, o)  OBVIOUS
<1>3. /\ u \in VmType /\ u.map = s.map /\ u.anon = s.anon /\ u.pte = s.pte /\ u.tables = s.tables
      /\ u.nfree = s.nfree /\ u.tlb = s.tlb /\ u.obj[o].refcnt = 2
      /\ \A p \in Objs : u.obj[p] = IF p = o THEN [s.obj[o] EXCEPT !.refcnt = 2] ELSE s.obj[p]
  BY <1>1, <1>2, Retained
<1>4. PICK fit : fit = Search(s.map[m].arena, size, min, exact)  OBVIOUS
<1>5. PICK addr : addr = Place(s.map[m].arena.segqueue[fit], min)  OBVIOUS
<1>6. PICK v : v = vm_map_object(s, m, o, size, min, exact).s  OBVIOUS
<1>7. PICK p : p = MapWith(s.map[m], fit, addr, size, o)  OBVIOUS
<1>8. v = IF fit = 0 THEN u ELSE [u EXCEPT !.map[m].arena = split_seg(@, fit, addr, size),
                                          !.map[m].entries = Append(@, Entry(addr, size, o))]
  BY <1>2, <1>4, <1>5, <1>6 DEF vm_map_object
<1>9. fit # 0 => v = WithMap(u, m, p)
  <2> SUFFICES ASSUME fit # 0 PROVE v = WithMap(u, m, p)  OBVIOUS
  <2>1. PICK a : a = split_seg(s.map[m].arena, fit, addr, size)  OBVIOUS
  <2>2. PICK w : w = Append(s.map[m].entries, Entry(addr, size, o))  OBVIOUS
  <2>3. p = [arena |-> a, entries |-> w]  BY <1>7, <2>1, <2>2 DEF MapWith
  <2>4. u.map \in [Maps -> MapType] /\ u.map[m] = s.map[m]  BY <1>3 DEF VmType
  <2>5. v = [u EXCEPT !.map[m].arena = a, !.map[m].entries = w]
    BY <1>3, <1>8, <2>1, <2>2, <2>4 DEF VmType, MapType
  <2>6. [u.map EXCEPT ![m].arena = a] = [u.map EXCEPT ![m] = [arena |-> a, entries |-> s.map[m].entries]]
    BY <1>1, <2>4 DEF MapType
  <2>7. PICK f : f = [u.map EXCEPT ![m].arena = a]  OBVIOUS
  <2>8. [f EXCEPT ![m].entries = w] = [u.map EXCEPT ![m] = p]
    <3>1. PICK h : h = [arena |-> a, entries |-> s.map[m].entries]  OBVIOUS
    <3>2. f = [u.map EXCEPT ![m] = h]  BY <2>6, <2>7, <3>1
    <3>3. [h EXCEPT !.entries = w] = p  BY <2>3, <3>1
    <3> QED  BY <2>4, <3>2, <3>3
  <2>9. v = [u EXCEPT !.map = [f EXCEPT ![m].entries = w]]  BY <1>3, <2>5, <2>7 DEF VmType
  <2> QED  BY <1>3, <2>8, <2>9 DEF WithMap, VmType
<1>10. PICK y \in ObjType : y = s.obj[o]  BY <1>1, VmTyped
<1>11. s.obj \in [Objs -> ObjType]  BY <1>1 DEF VmType
<1>12. CASE fit = 0
  <2>1. v = u  BY <1>8, <1>12
  <2>2. u.obj[o] = [y EXCEPT !.refcnt = 2] /\ y.refcnt = 1  BY <1>3, <1>10
  <2>3. t = vm_object_release(u, o)  BY <1>6, <2>1
  <2>4. /\ t \in VmType /\ t.map = u.map /\ t.anon = u.anon /\ t.pte = u.pte /\ t.tables = u.tables
        /\ t.nfree = u.nfree /\ t.tlb = u.tlb
        /\ \A q \in Objs : t.obj[q] = IF q = o THEN y ELSE u.obj[q]
    BY <1>3, <2>2, <2>3, Dereferenced
  <2>5. t.obj \in [Objs -> ObjType]  BY <2>4 DEF VmType
  <2>6. \A q \in Objs : t.obj[q] = s.obj[q]  BY <1>3, <1>10, <2>4
  <2>7. t.obj = s.obj  BY <1>11, <2>5, <2>6
  <2>8. t = s  BY <1>1, <1>3, <2>4, <2>7, VmTyped
  <2>9. Fitted(s.map[m], t.map[m], size, min, exact, o)  BY <1>4, <1>12, <2>8 DEF Fitted
  <2> QED  BY <2>8, <2>9
<1>13. CASE fit # 0
  <2>1. v = WithMap(u, m, p)  BY <1>9, <1>13
  <2>2. PICK g : g = s.map[m]  OBVIOUS
  <2>3. g \in MapType /\ MapOK(g) /\ Search(g.arena, size, min, exact) # 0  BY <1>1, <1>4, <1>13, <2>2
  <2>4. PICK e : e = Entry(addr, size, o)  OBVIOUS
  <2>5. /\ p \in MapType /\ MapOK(p) /\ EntryAdded(g, p, addr, size, o)
        /\ Range(p.entries) = Range(g.entries) \cup {e}
    <3>1. LET i == Search(g.arena, size, min, exact)
              x == Place(g.arena.segqueue[i], min)
              r == MapWith(g, i, x, size, o)
          IN  r \in MapType /\ MapOK(r) /\ EntryAdded(g, r, x, size, o)
      BY <2>3, MapTakes
    <3>2. p \in MapType /\ MapOK(p) /\ EntryAdded(g, p, addr, size, o)  BY <1>4, <1>5, <1>7, <2>2, <3>1
    <3> QED  BY <2>4, <3>2 DEF EntryAdded
  <2>6. /\ v \in VmType /\ v.obj = u.obj /\ v.anon = u.anon /\ v.pte = u.pte /\ v.tables = u.tables
        /\ v.nfree = u.nfree /\ v.tlb = u.tlb
        /\ \A k \in Maps : v.map[k] = IF k = m THEN p ELSE u.map[k]
    BY <1>3, <2>1, <2>5, MapSet
  <2>7. v.obj[o] = [y EXCEPT !.refcnt = 2] /\ y.refcnt = 1  BY <1>3, <1>10, <2>6
  <2>8. /\ t \in VmType /\ t.map = v.map /\ t.anon = v.anon /\ t.pte = v.pte /\ t.tables = v.tables
        /\ t.nfree = v.nfree /\ t.tlb = v.tlb
        /\ \A q \in Objs : t.obj[q] = IF q = o THEN y ELSE v.obj[q]
    BY <1>6, <2>6, <2>7, Dereferenced
  <2>9. t.obj \in [Objs -> ObjType]  BY <2>8 DEF VmType
  <2>10. \A q \in Objs : t.obj[q] = s.obj[q]  BY <1>3, <1>10, <2>6, <2>8
  <2>11. t.obj = s.obj  BY <1>11, <2>9, <2>10
  <2>12. PICK z : z = WithMap(s, m, p)  OBVIOUS
  <2>13. /\ z \in VmType /\ z.obj = s.obj /\ z.anon = s.anon /\ z.pte = s.pte /\ z.tables = s.tables
         /\ z.nfree = s.nfree /\ z.tlb = s.tlb
         /\ \A k \in Maps : z.map[k] = IF k = m THEN p ELSE s.map[k]
    BY <1>1, <2>5, <2>12, MapSet
  <2>14. t.map = z.map
    <3>1. t.map \in [Maps -> MapType] /\ z.map \in [Maps -> MapType]  BY <2>8, <2>13 DEF VmType
    <3>2. \A k \in Maps : t.map[k] = z.map[k]  BY <1>3, <2>6, <2>8, <2>13
    <3> QED  BY <3>1, <3>2
  <2>15. t = z
    <3>1. /\ t.obj = z.obj /\ t.anon = z.anon /\ t.pte = z.pte /\ t.tables = z.tables /\ t.nfree = z.nfree /\ t.tlb = z.tlb
      BY <1>3, <2>6, <2>8, <2>11, <2>13
    <3> QED  BY <2>8, <2>13, <2>14, <3>1, VmTyped
  <2>16. e.obj = o  BY <2>4 DEF Entry
  <2>17. VmOK(z, n)  BY <2>2, <2>5, <2>12, <2>16, MapMade
  <2>18. t.map[m] = p  BY <2>13, <2>15
  <2>19. Fitted(s.map[m], t.map[m], size, min, exact, o)  BY <1>4, <1>5, <1>13, <2>2, <2>5, <2>18 DEF Fitted
  <2> QED  BY <2>11, <2>13, <2>15, <2>17, <2>19
<1> QED  BY <1>12, <1>13

\* vm_allocate: a new object is shown, or there was no room.
NewlyShown(s, t, m, e) ==
    /\ e.obj \in UnusedObjs(s) /\ Range(t.map[m].entries) = Range(s.map[m].entries) \cup {e}
ShowsNew(s, t, m) ==
    /\ Unaltered(s, t) /\ \A k \in Maps \ {m} : t.map[k] = s.map[k]
    /\ t.map[m] = s.map[m] \/ \E e : NewlyShown(s, t, m, e)
LEMMA AllocateKeeps ==
    ASSUME VmInv, NEW m \in Maps, NEW size \in Sizes, NEW min \in Nat, NEW exact \in BOOLEAN,
           vm_allocate(m, size, min, exact)
    PROVE  VmInv' /\ ShowsNew(VmNow, VmNow', m)
<1>1. PICK s : s = VmNow  OBVIOUS
<1>2. PICK n : n = UserMemory - roots  OBVIOUS
<1>3. VmOK(s, n) /\ s \in VmType /\ s.map = map /\ s.obj = obj  BY <1>1, <1>2, VmNowTyped DEF VmInv
<1>4. PICK o \in Objs : o = UnusedObj(s) /\ s.obj[o].refcnt = 0
  <2>1. Unused(1)  BY DEF vm_allocate
  <2>2. {p \in Objs : s.obj[p].refcnt = 0} # {}
    <3> SUFFICES ASSUME {p \in Objs : s.obj[p].refcnt = 0} = {} PROVE FALSE  OBVIOUS
    <3>1. Cardinality({p \in Objs : s.obj[p].refcnt = 0}) = 0  BY FS_EmptySet
    <3>2. Cardinality({p \in Objs : s.obj[p].refcnt = 0}) >= 1  BY <1>3, <2>1 DEF Unused
    <3> QED  BY <3>1, <3>2
  <2> QED  BY <2>2 DEF UnusedObj
<1>5. PICK y : y = [FreeObj EXCEPT !.refcnt = 1, !.size = size]  OBVIOUS
<1>6. size \in 1 .. UserPages /\ size \in Nat  BY VmAssumption
<1>7. y \in ObjType /\ y.refcnt = 1 /\ y.amap = [i \in VAs |-> NoAnon]
  BY <1>5, <1>6 DEF FreeObj, ObjType
<1>8. PICK c : c = WithObj(s, o, y)  OBVIOUS
<1>9. c = vm_aobj_new(s, o, size)  BY <1>5, <1>8 DEF vm_aobj_new, WithObj
<1>10. VmOK(c, n) /\ c.map = s.map /\ Hidden(c, o) /\ c.obj[o].refcnt = 1 /\ Unaltered(s, c)
  BY <1>3, <1>4, <1>7, <1>8, ObjMade
<1>11. PICK t : t = vm_object_release(vm_map_object(c, m, o, size, min, exact).s, o)  OBVIOUS
<1>12. /\ VmOK(t, n) /\ t.obj = c.obj /\ t.anon = c.anon /\ \A k \in Maps \ {m} : t.map[k] = c.map[k]
       /\ Fitted(c.map[m], t.map[m], size, min, exact, o)
  BY <1>6, <1>10, <1>11, ObjectMapped
<1>13. VmBecomes(t) /\ roots' = roots /\ procs' = procs /\ m \in procs
  BY <1>1, <1>4, <1>9, <1>11 DEF vm_allocate
<1>14. \A k \in Maps \ procs' : t.map[k].entries = <<>>  BY <1>3, <1>10, <1>12, <1>13 DEF VmInv
<1>15. VmInv' /\ VmNow' = t  BY <1>2, <1>12, <1>13, <1>14, VmBecame DEF VmInv
<1>16. Unaltered(s, t)  BY <1>10, <1>12 DEF Unaltered, Holds
<1>17. t.map[m] = s.map[m] \/ \E e : NewlyShown(s, t, m, e)
  <2>1. CASE Search(c.map[m].arena, size, min, exact) = 0  BY <1>10, <1>12, <2>1 DEF Fitted
  <2>2. CASE Search(c.map[m].arena, size, min, exact) # 0
    <3>1. PICK addr : EntryAdded(c.map[m], t.map[m], addr, size, o)  BY <1>12, <2>2 DEF Fitted
    <3>2. PICK e : e = Entry(addr, size, o)  OBVIOUS
    <3>3. e.obj \in UnusedObjs(s)  BY <1>4, <3>2 DEF Entry, UnusedObjs
    <3>4. Range(t.map[m].entries) = Range(s.map[m].entries) \cup {e}  BY <1>10, <3>1, <3>2 DEF EntryAdded
    <3> QED  BY <3>3, <3>4 DEF NewlyShown
  <2> QED  BY <2>1, <2>2
<1>18. ShowsNew(s, t, m)  BY <1>10, <1>12, <1>16, <1>17 DEF ShowsNew
<1> QED  BY <1>1, <1>15, <1>18

------------------------------------------------------------------------------
\* vm_object_copy.

\* The places of an anon in one object.
SpotsOf(s, o, a) == {i \in VAs : s.obj[o].amap[i] = a}
SpotsIn(s, o, p, a) == {p} \X SpotsOf(s, o, a)
LEMMA PlacesOf ==
    ASSUME NEW s, NEW o, NEW p, NEW a
    PROVE  /\ IsFiniteSet(SpotsIn(s, o, p, a)) /\ Cardinality(SpotsIn(s, o, p, a)) = InAmap(s, o, a)
           /\ InAmap(s, o, a) \in Nat
<1>0. PICK I : I = SpotsOf(s, o, a)  OBVIOUS
<1>1. I \in SUBSET VAs  BY <1>0 DEF SpotsOf
<1>2. IsFiniteSet(I)  BY <1>1, VAsFinite, FS_Subset
<1>3. PICK c : c = Cardinality(I)  OBVIOUS
<1>4. c \in Nat  BY <1>2, <1>3, FS_CardinalityType
<1>5. IsFiniteSet({p}) /\ Cardinality({p}) = 1  BY FS_Singleton
<1>6. IsFiniteSet({p} \X I) /\ Cardinality({p} \X I) = Cardinality({p}) * Cardinality(I)  BY <1>2, <1>5, FS_Product
<1>7. 1 * c = c  BY <1>4
<1>8. InAmap(s, o, a) = c  BY <1>0, <1>3 DEF InAmap, SpotsOf
<1>9. SpotsIn(s, o, p, a) = {p} \X I  BY <1>0 DEF SpotsIn
<1> QED  BY <1>3, <1>4, <1>5, <1>6, <1>7, <1>8, <1>9

\* Sharing makes the anons A of an object read-only.
SharedPte(t, A) == IF t.page \in A THEN [page |-> t.page, write |-> FALSE] ELSE t
Shared(s, o) == [s EXCEPT !.anon = [a \in Anons |-> [s.anon[a] EXCEPT !.refcnt = @ + InAmap(s, o, a)]]]
LEMMA SharedAnons ==
    ASSUME NEW s \in VmType, NEW o \in Objs, NEW t, t = Shared(s, o)
    PROVE  /\ t \in VmType /\ t.map = s.map /\ t.obj = s.obj /\ t.pte = s.pte /\ t.tables = s.tables
           /\ t.nfree = s.nfree /\ t.tlb = s.tlb
           /\ \A a \in Anons : t.anon[a].refcnt = s.anon[a].refcnt + InAmap(s, o, a) /\ t.anon[a].pv = s.anon[a].pv
           /\ SameContents(s.anon, t.anon)
<1> DEFINE New(a) == [s.anon[a] EXCEPT !.refcnt = @ + InAmap(s, o, a)]
<1>1. PICK an : an = [a \in Anons |-> New(a)]  OBVIOUS
<1>2. ASSUME NEW a \in Anons
      PROVE  /\ an[a] \in AnonType /\ an[a].refcnt = s.anon[a].refcnt + InAmap(s, o, a) /\ an[a].pv = s.anon[a].pv
             /\ an[a].content = s.anon[a].content
  <2>1. PICK c \in Nat : c = InAmap(s, o, a)  BY PlacesOf
  <2>2. PICK x \in AnonType : x = s.anon[a]  BY VmTyped
  <2>3. an[a] = [x EXCEPT !.refcnt = x.refcnt + c]  BY <1>1, <2>1, <2>2 DEF AnonType
  <2>4. x.refcnt + c \in Nat  BY <2>2 DEF AnonType
  <2>5. an[a] \in AnonType /\ an[a].refcnt = x.refcnt + c /\ an[a].pv = x.pv /\ an[a].content = x.content
    BY <2>2, <2>3, <2>4 DEF AnonType
  <2> QED  BY <2>1, <2>2, <2>5
<1>3. an \in [Anons -> AnonType]
  <2>1. an = [a \in Anons |-> an[a]]  BY <1>1
  <2> HIDE DEF New
  <2> QED  BY <1>2, <2>1
<1>4. t = [s EXCEPT !.anon = an]  BY <1>1 DEF Shared
<1> HIDE DEF New
<1>5. /\ t.map = s.map /\ t.obj = s.obj /\ t.anon = an /\ t.pte = s.pte /\ t.tables = s.tables
      /\ t.nfree = s.nfree /\ t.tlb = s.tlb /\ t \in VmType
  BY <1>3, <1>4 DEF VmType
<1>6. SameContents(s.anon, an)  BY <1>2 DEF SameContents
<1> QED  BY <1>2, <1>5, <1>6

LEMMA Reentered ==
    ASSUME NEW s \in VmType, PvOK(s.anon, s.pte), NEW A \in SUBSET Anons, NEW t, t = pmap_reenter_all_readonly(s, A)
    PROVE  /\ t \in VmType /\ t.map = s.map /\ t.obj = s.obj /\ t.anon = s.anon /\ t.tables = s.tables
           /\ t.nfree = s.nfree
           /\ \A m \in Maps, va \in VAs :
                  /\ t.pte[m][va] = SharedPte(s.pte[m][va], A)
                  /\ t.tlb[m][va] \in {NoPte, s.tlb[m][va]}
                  /\ s.pte[m][va].page \in A => t.tlb[m][va] = NoPte
<1> DEFINE R(m, va) == IF \E a \in A : <<m, va>> \in s.anon[a].pv
                       THEN [page |-> CHOOSE a \in A : <<m, va>> \in s.anon[a].pv, write |-> FALSE]
                       ELSE s.pte[m][va]
           L(m, va) == IF \E a \in A, k \in Maps : <<k, va>> \in s.anon[a].pv THEN NoPte ELSE s.tlb[m][va]
<1>1. PICK pt : pt = [m \in Maps |-> [va \in VAs |-> R(m, va)]]  OBVIOUS
<1>2. PICK tl : tl = [m \in Maps |-> [va \in VAs |-> L(m, va)]]  OBVIOUS
<1>3. ReadOnly(s, A) = pt  BY <1>1 DEF ReadOnly
<1>4. t = [s EXCEPT !.pte = pt, !.tlb = tl]  BY <1>2, <1>3 DEF pmap_reenter_all_readonly
<1>5. ASSUME NEW m \in Maps, NEW va \in VAs
      PROVE  /\ R(m, va) = SharedPte(s.pte[m][va], A) /\ R(m, va) \in PteType
             /\ L(m, va) \in {NoPte, s.tlb[m][va]} /\ L(m, va) \in PteType
             /\ s.pte[m][va].page \in A => L(m, va) = NoPte
  <2>1. PICK x \in PteType : x = s.pte[m][va]  BY VmTyped
  <2>2. \A a \in A : <<m, va>> \in s.anon[a].pv <=> x.page = a
    <3>1. \A a \in Anons : s.anon[a].pv = {y \in Maps \X VAs : s.pte[y[1]][y[2]].page = a}  BY DEF PvOK
    <3> QED  BY <2>1, <3>1
  <2>3. CASE x.page \in A
    <3>1. <<m, va>> \in s.anon[x.page].pv  BY <2>2, <2>3
    <3>2. (CHOOSE a \in A : <<m, va>> \in s.anon[a].pv) = x.page  BY <2>2, <2>3, <3>1
    <3>3. R(m, va) = [page |-> x.page, write |-> FALSE]  BY <2>3, <3>1, <3>2
    <3>4. L(m, va) = NoPte  BY <2>3, <3>1
    <3>5. R(m, va) = SharedPte(x, A)  BY <2>3, <3>3 DEF SharedPte
    <3>6. R(m, va) \in PteType  BY <2>1, <3>3 DEF PteType
    <3> QED  BY <2>1, <3>4, <3>5, <3>6, AnonsNatural
  <2>4. CASE x.page \notin A
    <3>1. ~\E a \in A : <<m, va>> \in s.anon[a].pv  BY <2>2, <2>4
    <3>2. R(m, va) = x  BY <2>1, <3>1
    <3>3. SharedPte(x, A) = x  BY <2>4 DEF SharedPte
    <3>4. L(m, va) = NoPte \/ L(m, va) = s.tlb[m][va]  OBVIOUS
    <3> HIDE DEF R, L
    <3> QED  BY <2>1, <2>4, <3>2, <3>3, <3>4, AnonsNatural, VmTyped
  <2> QED  BY <2>3, <2>4
<1> HIDE DEF R, L
<1>6. \A m \in Maps, va \in VAs : pt[m][va] = R(m, va) /\ tl[m][va] = L(m, va)  BY <1>1, <1>2
<1>7. pt \in [Maps -> [VAs -> PteType]] /\ tl \in [Maps -> [VAs -> PteType]]  BY <1>1, <1>2, <1>5
<1>8. /\ t.map = s.map /\ t.obj = s.obj /\ t.anon = s.anon /\ t.pte = pt /\ t.tables = s.tables
      /\ t.nfree = s.nfree /\ t.tlb = tl /\ t \in VmType
  BY <1>4, <1>7 DEF VmType
<1> QED  BY <1>5, <1>6, <1>8

\* An object's copy has references of its own to the same anons.
HasCopy(ob, s, o, p) ==
    \A q \in Objs, i \in VAs : ob[q].amap[i] = IF q = p THEN s.obj[o].amap[i] ELSE s.obj[q].amap[i]
LEMMA CopyRefs ==
    ASSUME NEW s, NEW n, VmOK(s, n), NEW o \in Objs, NEW p \in Objs, p # o, s.obj[p].refcnt = 0, NEW ob, HasCopy(ob, s, o, p),
           NEW a \in Anons
    PROVE  Cardinality(AmapPlaces(ob, a)) = s.anon[a].refcnt + InAmap(s, o, a)
<1>2. PICK N : N = SpotsIn(s, o, p, a)  OBVIOUS
<1>3. IsFiniteSet(N) /\ Cardinality(N) = InAmap(s, o, a) /\ InAmap(s, o, a) \in Nat  BY <1>2, PlacesOf
<1>4. PICK P : P = AmapPlaces(s.obj, a)  OBVIOUS
<1>5. PICK Q : Q = AmapPlaces(ob, a)  OBVIOUS
<1>6. IsFiniteSet(P) /\ Cardinality(P) \in Nat /\ s.anon[a].refcnt = Cardinality(P)  BY <1>4, PlacesFinite DEF VmOK, RefsOK
<1>7. \A i \in VAs : s.obj[p].amap[i] # a  BY UnusedHidden, AnonsNatural
<1>8. ASSUME NEW x \in Objs \X VAs PROVE (x \in Q <=> x \in P \/ x \in N) /\ ~(x \in P /\ x \in N)
  <2>1. PICK q \in Objs, i \in VAs : x = <<q, i>>  OBVIOUS
  <2>2. x \in P <=> s.obj[q].amap[i] = a  BY <1>4, <2>1 DEF AmapPlaces
  <2>3. x \in Q <=> ob[q].amap[i] = a  BY <1>5, <2>1 DEF AmapPlaces
  <2>5. ob[q].amap[i] = IF q = p THEN s.obj[o].amap[i] ELSE s.obj[q].amap[i]  BY DEF HasCopy
  <2>4. x \in N <=> q = p /\ s.obj[o].amap[i] = a  BY <1>2, <2>1 DEF SpotsIn, SpotsOf
  <2> QED  BY <1>7, <2>2, <2>3, <2>4, <2>5
<1>9. P \subseteq Objs \X VAs /\ Q \subseteq Objs \X VAs /\ N \subseteq Objs \X VAs
  BY <1>2, <1>4, <1>5 DEF AmapPlaces, SpotsIn, SpotsOf
<1>10. Q = P \cup N /\ P \cap N = {}  BY <1>8, <1>9
<1>11. Cardinality(P \cup N) = Cardinality(P) + Cardinality(N) - Cardinality(P \cap N)  BY <1>3, <1>6, FS_Union
<1>12. Cardinality(P \cap N) = 0  BY <1>10, FS_EmptySet
<1> QED  BY <1>3, <1>5, <1>6, <1>10, <1>11, <1>12

HoldsCopy(s, t, o, p) ==
    \A q \in Objs, i \in VAs : Holds(t, q, i) = IF q = p THEN Holds(s, o, i) ELSE Holds(s, q, i)
LEMMA CopyOK ==
    ASSUME NEW s, NEW n, VmOK(s, n), NEW o \in Objs, s.obj[o].refcnt = 1, NEW p \in Objs, p = UnusedObj(s), s.obj[p].refcnt = 0,
           NEW t, t = vm_object_copy(s, o)
    PROVE  /\ VmOK(t, n) /\ t.map = s.map /\ Hidden(t, p) /\ t.obj[p].refcnt = 1
           /\ \A q \in Objs \ {p} : t.obj[q] = s.obj[q]
           /\ HoldsCopy(s, t, o, p)
<1>1. s \in VmType /\ p # o  BY DEF VmOK
<1>2. PICK A : A = AmapAnons(s, o)  OBVIOUS
<1>3. A \in SUBSET Anons
  <2>1. s.obj[o] \in ObjType  BY <1>1, VmTyped
  <2> QED  BY <1>2, <2>1 DEF AmapAnons, ObjType
<1>4. PICK c : c = Shared(s, o)  OBVIOUS
<1>5. /\ c \in VmType /\ c.map = s.map /\ c.obj = s.obj /\ c.pte = s.pte /\ c.tables = s.tables
      /\ c.nfree = s.nfree /\ c.tlb = s.tlb
      /\ \A a \in Anons : c.anon[a].refcnt = s.anon[a].refcnt + InAmap(s, o, a) /\ c.anon[a].pv = s.anon[a].pv
      /\ SameContents(s.anon, c.anon)
  BY <1>1, <1>4, SharedAnons
<1>6. PvOK(c.anon, c.pte)  BY <1>5 DEF VmOK, PvOK
<1>7. PICK d : d = pmap_reenter_all_readonly(c, A)  OBVIOUS
<1>8. /\ d \in VmType /\ d.map = c.map /\ d.obj = c.obj /\ d.anon = c.anon /\ d.tables = c.tables
      /\ d.nfree = c.nfree
      /\ \A m \in Maps, va \in VAs :
             /\ d.pte[m][va] = SharedPte(c.pte[m][va], A)
             /\ d.tlb[m][va] \in {NoPte, c.tlb[m][va]}
             /\ c.pte[m][va].page \in A => d.tlb[m][va] = NoPte
  BY <1>3, <1>5, <1>6, <1>7, Reentered
<1>9. PICK y : y = [s.obj[o] EXCEPT !.refcnt = 1]  OBVIOUS
<1>10. y \in ObjType /\ y.refcnt = 1 /\ y.amap = s.obj[o].amap
  <2>1. s.obj[o] \in ObjType  BY <1>1, VmTyped
  <2> QED  BY <1>9, <2>1 DEF ObjType
<1>11. t = WithObj(d, p, y)
  <2>1. amap_copy(s, o) = d  BY <1>2, <1>4, <1>7 DEF amap_copy, Shared
  <2> QED  BY <1>9, <2>1 DEF vm_object_copy, WithObj
<1>12. /\ t \in VmType /\ t.map = d.map /\ t.anon = d.anon /\ t.pte = d.pte /\ t.tables = d.tables
       /\ t.nfree = d.nfree /\ t.tlb = d.tlb
       /\ \A q \in Objs : t.obj[q] = IF q = p THEN y ELSE d.obj[q]
  BY <1>8, <1>10, <1>11, ObjSet
<1>13. /\ t.map = s.map /\ t.tables = s.tables /\ t.nfree = s.nfree
       /\ \A q \in Objs : t.obj[q] = IF q = p THEN y ELSE s.obj[q]
       /\ \A a \in Anons : t.anon[a].refcnt = s.anon[a].refcnt + InAmap(s, o, a) /\ t.anon[a].pv = s.anon[a].pv
       /\ \A m \in Maps, va \in VAs :
              /\ t.pte[m][va] = SharedPte(s.pte[m][va], A)
              /\ t.tlb[m][va] \in {NoPte, s.tlb[m][va]}
              /\ s.pte[m][va].page \in A => t.tlb[m][va] = NoPte
  BY <1>5, <1>8, <1>12
<1>14. Hidden(s, p)  BY UnusedHidden
<1>15. \A k \in Maps : \A e \in Entries(s.map, k) : e.obj \in Objs /\ t.obj[e.obj] = s.obj[e.obj]
  BY <1>13, <1>14, EntryObj DEF Hidden
<1>16. \A a \in Anons : s.anon[a].refcnt \in Nat /\ InAmap(s, o, a) \in Nat
  <2>1. \A a \in Anons : s.anon[a].refcnt \in Nat  BY <1>1, VmTyped DEF AnonType
  <2> QED  BY <2>1, PlacesOf
<1>17. \A a \in Anons : a \in A => s.anon[a].refcnt > 0
  <2> SUFFICES ASSUME NEW a \in Anons, a \in A PROVE s.anon[a].refcnt > 0  OBVIOUS
  <2>1. PICK i \in VAs : s.obj[o].amap[i] = a  BY <1>2 DEF AmapAnons
  <2> QED  BY <2>1, PlaceUsed
<1>18. \A a \in Anons : a \notin A => InAmap(s, o, a) = 0
  <2> SUFFICES ASSUME NEW a \in Anons, a \notin A PROVE InAmap(s, o, a) = 0  OBVIOUS
  <2>1. {i \in VAs : s.obj[o].amap[i] = a} = {}  BY <1>2, AnonsNatural DEF AmapAnons
  <2> QED  BY <2>1, FS_EmptySet DEF InAmap
<1>19. ViewsOK(t.map, t.obj)  BY <1>13, <1>15 DEF VmOK, ViewsOK
<1>20. ObjsOK(t.obj)  BY <1>10, <1>13 DEF VmOK, ObjsOK
<1>21. RefsOK(t.obj, t.anon)
  <2>1. \A q \in Objs, i \in VAs : t.obj[q].amap[i] = IF q = p THEN s.obj[o].amap[i] ELSE s.obj[q].amap[i]
    BY <1>10, <1>13
  <2>2. \A a \in Anons : Cardinality(AmapPlaces(t.obj, a)) = s.anon[a].refcnt + InAmap(s, o, a)
    <3> SUFFICES ASSUME NEW a \in Anons
                 PROVE  Cardinality(AmapPlaces(t.obj, a)) = s.anon[a].refcnt + InAmap(s, o, a)
      OBVIOUS
    <3>1. PICK ob : ob = t.obj  OBVIOUS
    <3>2. HasCopy(ob, s, o, p)  BY <2>1, <3>1 DEF HasCopy
    <3>3. Cardinality(AmapPlaces(ob, a)) = s.anon[a].refcnt + InAmap(s, o, a)  BY <1>1, <3>2, CopyRefs
    <3> QED  BY <3>1, <3>3
  <2> QED  BY <1>13, <2>2 DEF RefsOK
<1>22. \A m \in Maps, va \in VAs : t.pte[m][va].page = s.pte[m][va].page /\ (t.pte[m][va].write => s.pte[m][va].write)
                                   /\ (s.pte[m][va].page \in A => ~t.pte[m][va].write)
  <2> SUFFICES ASSUME NEW m \in Maps, NEW va \in VAs
               PROVE  /\ t.pte[m][va].page = s.pte[m][va].page /\ (t.pte[m][va].write => s.pte[m][va].write)
                      /\ (s.pte[m][va].page \in A => ~t.pte[m][va].write)
    OBVIOUS
  <2>1. PICK x : x = s.pte[m][va]  OBVIOUS
  <2>2. PICK z : z = t.pte[m][va]  OBVIOUS
  <2>3. z = SharedPte(x, A)  BY <1>13, <2>1, <2>2
  <2>4. CASE x.page \in A
    <3>1. z = [page |-> x.page, write |-> FALSE]  BY <2>3, <2>4 DEF SharedPte
    <3>2. z.page = x.page /\ ~z.write  BY <3>1
    <3> QED  BY <2>1, <2>2, <3>2
  <2>5. CASE x.page \notin A
    <3>1. z = x  BY <2>3, <2>5 DEF SharedPte
    <3> QED  BY <2>1, <2>2, <2>5, <3>1
  <2> QED  BY <2>4, <2>5
<1>23. PtesOK(t.map, t.obj, t.anon, t.pte)
  <2> SUFFICES ASSUME NEW m \in Maps, NEW va \in VAs, t.pte[m][va] # NoPte
               PROVE  PteOK(t.map, t.obj, t.anon, m, va, t.pte[m][va])
    BY DEF PtesOK, PteOK
  <2>1. s.pte[m][va] # NoPte
    <3> SUFFICES ASSUME s.pte[m][va] = NoPte PROVE FALSE  OBVIOUS
    <3>1. s.pte[m][va].page \notin A  BY <1>3, AnonsNatural
    <3> QED  BY <1>13, <3>1 DEF SharedPte
  <2>2. PteOK(s.map, s.obj, s.anon, m, va, s.pte[m][va])  BY DEF VmOK, PtesOK
  <2>3. PICK a \in Anons : a = s.pte[m][va].page  BY <2>1, <2>2 DEF PteOK
  <2>4. Shows(t.map, t.obj, m, va, a)
    <3>1. Shows(s.map, s.obj, m, va, a)  BY <2>1, <2>2, <2>3 DEF PteOK
    <3> QED  BY <1>13, <1>15, <3>1 DEF Shows
  <2>5. t.pte[m][va].write => t.anon[a].refcnt = 1
    <3> SUFFICES ASSUME t.pte[m][va].write PROVE t.anon[a].refcnt = 1  OBVIOUS
    <3>1. s.pte[m][va].write /\ a \notin A  BY <1>22, <2>3
    <3>2. s.anon[a].refcnt = 1  BY <2>1, <2>2, <2>3, <3>1 DEF PteOK
    <3> QED  BY <1>13, <1>18, <3>1, <3>2
  <2> QED  BY <1>22, <2>3, <2>4, <2>5 DEF PteOK
<1>24. TlbOK(t.pte, t.tlb)
  <2> SUFFICES ASSUME NEW m \in Maps, NEW va \in VAs PROVE Caches(t.tlb[m][va], t.pte[m][va])  BY DEF TlbOK
  <2>1. Caches(s.tlb[m][va], s.pte[m][va])  BY DEF VmOK, TlbOK
  <2>2. CASE s.pte[m][va].page \in A  BY <1>13, <2>2 DEF Caches
  <2>3. CASE s.pte[m][va].page \notin A
    <3>1. t.pte[m][va] = s.pte[m][va]  BY <1>13, <2>3 DEF SharedPte
    <3> QED  BY <1>13, <2>1, <3>1 DEF Caches
  <2> QED  BY <2>2, <2>3
<1>25. PvOK(t.anon, t.pte)
  <2> SUFFICES ASSUME NEW a \in Anons
               PROVE  t.anon[a].pv = {x \in Maps \X VAs : t.pte[x[1]][x[2]].page = a}
    BY DEF PvOK
  <2>1. s.anon[a].pv = {x \in Maps \X VAs : s.pte[x[1]][x[2]].page = a}  BY DEF VmOK, PvOK
  <2>2. \A x \in Maps \X VAs : t.pte[x[1]][x[2]].page = s.pte[x[1]][x[2]].page  BY <1>22
  <2> QED  BY <1>13, <2>1, <2>2
<1>26. UsedAnons(t.anon) = UsedAnons(s.anon)
  <2>1. \A a \in Anons : t.anon[a].refcnt > 0 <=> s.anon[a].refcnt > 0  BY <1>13, <1>16, <1>17, <1>18
  <2> QED  BY <2>1 DEF UsedAnons
<1>27. PagesOK(t.anon, t.tables, t.nfree, n)  BY <1>13, <1>26 DEF VmOK, PagesOK
<1>28. \A k \in Maps : MapOK(t.map[k])  BY <1>13 DEF VmOK
<1>29. VmOK(t, n)  BY <1>12, <1>19, <1>20, <1>21, <1>23, <1>24, <1>25, <1>27, <1>28 DEF VmOK
<1>30. HoldsCopy(s, t, o, p)
  <2> SUFFICES ASSUME NEW q \in Objs, NEW i \in VAs
               PROVE  Holds(t, q, i) = IF q = p THEN Holds(s, o, i) ELSE Holds(s, q, i)
    BY DEF HoldsCopy
  <2>1. SameContents(s.anon, t.anon)  BY <1>5, <1>8, <1>12
  <2>2. PICK r \in Objs : r = IF q = p THEN o ELSE q  OBVIOUS
  <2>3. s.obj[r] \in ObjType  BY <1>1, VmTyped
  <2>4. PICK a \in Anons \cup {NoAnon} : a = s.obj[r].amap[i]  BY <2>3 DEF ObjType
  <2>5. t.obj[q].amap[i] = a  BY <1>10, <1>13, <2>2, <2>4
  <2>6. Holds(t, q, i) = Holds(s, r, i)  BY <2>1, <2>4, <2>5 DEF Holds, SameContents
  <2> QED  BY <2>2, <2>6
<1> QED  BY <1>10, <1>13, <1>14, <1>29, <1>30 DEF Hidden

\* vm_map_fork copies an entry.
CopyMade(s, t, c, n, e, o) ==
    /\ VmOK(t, c) /\ \A k \in Maps \ {n} : t.map[k] = s.map[k]
    /\ o \in UnusedObjs(s) /\ UnusedObjs(t) = UnusedObjs(s) \ {o}
    /\ HoldsCopy(s, t, e.obj, o)
    /\ Fitted(s.map[n], t.map[n], e.end - e.start, e.start, TRUE, o)
LEMMA EntryCopied ==
    ASSUME NEW s, NEW c, VmOK(s, c), NEW m \in Maps, NEW n \in Maps, m # n, NEW e \in Entries(s.map, m),
           \E p \in Objs : s.obj[p].refcnt = 0, NEW t, t = CopyEntry(s, n, e)
    PROVE  CopyMade(s, t, c, n, e, UnusedObj(s))
<1>1. PICK o \in Objs : o = UnusedObj(s) /\ s.obj[o].refcnt = 0  BY DEF UnusedObj
<1>2. s \in VmType /\ s.map[m] \in MapType /\ MapOK(s.map[m])  BY VmTyped DEF VmOK
<1>3. e \in EntryType /\ e.start \in Nat /\ e.end \in Nat /\ e.start < e.end /\ e.end <= UserPages
  BY <1>2, EntrySpot DEF Entries
<1>4. PICK size : size = e.end - e.start  OBVIOUS
<1>5. size \in 1 .. UserPages  BY <1>3, <1>4, VmAssumption
<1>6. e.obj \in Objs /\ s.obj[e.obj].refcnt = 1  BY <1>3 DEF VmOK, ViewsOK, EntryType
<1>7. PICK d : d = vm_object_copy(s, e.obj)  OBVIOUS
<1>8. /\ VmOK(d, c) /\ d.map = s.map /\ Hidden(d, o) /\ d.obj[o].refcnt = 1
      /\ \A q \in Objs \ {o} : d.obj[q] = s.obj[q]
      /\ HoldsCopy(s, d, e.obj, o)
  BY <1>1, <1>6, <1>7, CopyOK
<1>9. PICK min \in Nat : min = e.start  BY <1>3
<1>10. PICK exact \in BOOLEAN : exact = TRUE  OBVIOUS
<1>11. t = vm_object_release(vm_map_object(d, n, o, size, min, exact).s, o)
  BY <1>1, <1>4, <1>7, <1>9, <1>10 DEF CopyEntry
<1>12. /\ VmOK(t, c) /\ t.obj = d.obj /\ t.anon = d.anon /\ \A k \in Maps \ {n} : t.map[k] = d.map[k]
       /\ Fitted(d.map[n], t.map[n], size, min, exact, o)
  BY <1>5, <1>8, <1>11, ObjectMapped
<1>13. UnusedObjs(t) = UnusedObjs(s) \ {o} /\ o \in UnusedObjs(s)  BY <1>1, <1>8, <1>12 DEF UnusedObjs
<1>14. HoldsCopy(s, t, e.obj, o)
  <2>1. \A q \in Objs, i \in VAs : Holds(t, q, i) = Holds(d, q, i)  BY <1>12 DEF Holds
  <2> QED  BY <1>8, <2>1 DEF HoldsCopy
<1>15. Fitted(s.map[n], t.map[n], e.end - e.start, e.start, TRUE, o)  BY <1>4, <1>8, <1>9, <1>10, <1>12
<1> QED  BY <1>1, <1>8, <1>12, <1>13, <1>14, <1>15 DEF CopyMade

\* In a map from which nothing has been unmapped, the copy finds its place.
LEMMA CopyPlaced ==
    ASSUME NEW p \in MapType, MapOK(p), Whole(p.arena), NEW lo \in Nat, NEW hi \in Nat, lo < hi, hi <= UserPages,
           \A f \in Range(p.entries) : f.end <= lo \/ hi <= f.start,
           NEW r, NEW o, Fitted(p, r, hi - lo, lo, TRUE, o)
    PROVE  EntryAdded(p, r, lo, hi - lo, o)
<1>1. PICK a : a = p.arena  OBVIOUS
<1>2. ArenaOK(a) /\ Whole(a)  BY <1>1 DEF MapOK
<1>3. PICK size \in Nat \ {0} : size = hi - lo  OBVIOUS
<1>4. HasClass(size)
  <2>1. size \in 1 .. UserPages  BY <1>3, VmAssumption
  <2> QED  BY <2>1, VmAssumption
<1>5. Vacant(a, lo, hi)
  <2> SUFFICES ASSUME NEW t \in Allocated(a) PROVE End(t) <= lo \/ hi <= t.base  BY DEF Vacant
  <2>1. PICK f \in Range(p.entries) : t = SegAt(f)  BY <1>1 DEF MapOK
  <2>2. f.start \in Nat /\ f.end \in Nat  BY EntrySpot
  <2>3. t.base = f.start /\ t.size = f.end - f.start  BY <2>1 DEF SegAt, Seg
  <2>4. End(t) = f.end  BY <2>2, <2>3 DEF End
  <2> QED  BY <2>3, <2>4
<1>6. lo \in 0 .. UserPages /\ hi \in 0 .. UserPages  BY VmAssumption
<1>7. PICK x \in FreeSegs(a.segqueue) : x.base <= lo /\ hi <= End(x)  BY <1>2, <1>5, <1>6 DEF Whole
<1>8. lo + size = hi  BY <1>3
<1>9. PICK exact : exact = TRUE  OBVIOUS
<1>10. Search(a, size, lo, exact) # 0 /\ Place(a.segqueue[Search(a, size, lo, exact)], lo) = lo
  BY <1>2, <1>4, <1>7, <1>8, <1>9, SearchAt
<1> QED  BY <1>1, <1>3, <1>9, <1>10 DEF Fitted

------------------------------------------------------------------------------
\* unmap_entry.

\* An object gives its references back.
Cleared(ob, s, o) ==
    \A q \in Objs, i \in VAs : ob[q].amap[i] = IF q = o THEN NoAnon ELSE s.obj[q].amap[i]
LEMMA ClearedRefs ==
    ASSUME NEW s, NEW n, VmOK(s, n), NEW o \in Objs, NEW ob, Cleared(ob, s, o), NEW a \in Anons
    PROVE  /\ Cardinality(AmapPlaces(ob, a)) = s.anon[a].refcnt - InAmap(s, o, a)
           /\ InAmap(s, o, a) <= s.anon[a].refcnt /\ InAmap(s, o, a) \in Nat /\ s.anon[a].refcnt \in Nat
<1>2. PICK N : N = SpotsIn(s, o, o, a)  OBVIOUS
<1>3. IsFiniteSet(N) /\ Cardinality(N) = InAmap(s, o, a) /\ InAmap(s, o, a) \in Nat  BY <1>2, PlacesOf
<1>4. PICK P : P = AmapPlaces(s.obj, a)  OBVIOUS
<1>5. PICK Q : Q = AmapPlaces(ob, a)  OBVIOUS
<1>6. IsFiniteSet(P) /\ Cardinality(P) \in Nat /\ s.anon[a].refcnt = Cardinality(P)  BY <1>4, PlacesFinite DEF VmOK, RefsOK
<1>7. IsFiniteSet(Q) /\ Cardinality(Q) \in Nat  BY <1>5, PlacesFinite
<1>8. ASSUME NEW x \in Objs \X VAs PROVE (x \in P <=> x \in Q \/ x \in N) /\ ~(x \in Q /\ x \in N)
  <2>1. PICK q \in Objs, i \in VAs : x = <<q, i>>  OBVIOUS
  <2>2. x \in P <=> s.obj[q].amap[i] = a  BY <1>4, <2>1 DEF AmapPlaces
  <2>3. x \in Q <=> ob[q].amap[i] = a  BY <1>5, <2>1 DEF AmapPlaces
  <2>4. x \in N <=> q = o /\ s.obj[o].amap[i] = a  BY <1>2, <2>1 DEF SpotsIn, SpotsOf
  <2>5. ob[q].amap[i] = IF q = o THEN NoAnon ELSE s.obj[q].amap[i]  BY DEF Cleared
  <2> QED  BY <2>2, <2>3, <2>4, <2>5, AnonsNatural
<1>9. P \subseteq Objs \X VAs /\ Q \subseteq Objs \X VAs /\ N \subseteq Objs \X VAs
  BY <1>2, <1>4, <1>5 DEF AmapPlaces, SpotsIn, SpotsOf
<1>10. P = Q \cup N /\ Q \cap N = {}  BY <1>8, <1>9
<1>11. Cardinality(Q \cup N) = Cardinality(Q) + Cardinality(N) - Cardinality(Q \cap N)  BY <1>3, <1>7, FS_Union
<1>12. Cardinality(Q \cap N) = 0  BY <1>10, FS_EmptySet
<1> QED  BY <1>3, <1>5, <1>6, <1>7, <1>10, <1>11, <1>12

\* amap_release.
LastRefs(s, o) == {a \in AmapAnons(s, o) : s.anon[a].refcnt <= InAmap(s, o, a)}
LEMMA AmapReleased ==
    ASSUME NEW s \in VmType, NEW o \in Objs, \A a \in Anons : InAmap(s, o, a) <= s.anon[a].refcnt,
           NEW t, t = amap_release(s, o)
    PROVE  /\ t \in VmType /\ t.map = s.map /\ t.obj = s.obj /\ t.pte = s.pte /\ t.tables = s.tables /\ t.tlb = s.tlb
           /\ t.nfree = s.nfree + Cardinality(LastRefs(s, o))
           /\ \A a \in Anons : t.anon[a].refcnt = s.anon[a].refcnt - InAmap(s, o, a) /\ t.anon[a].pv = s.anon[a].pv
           /\ \A a \in Anons : t.anon[a].refcnt > 0 => t.anon[a].content = s.anon[a].content
           /\ LastRefs(s, o) \in SUBSET Anons
<1>1. PICK L : L = LastRefs(s, o)  OBVIOUS
<1>2. L \in SUBSET Anons
  <2>1. s.obj[o] \in ObjType  BY VmTyped
  <2> QED  BY <1>1, <2>1 DEF LastRefs, AmapAnons, ObjType
<1> DEFINE New(a) == IF a \in L THEN [FreeAnon EXCEPT !.pv = s.anon[a].pv] ELSE Fewer(s, o, a)
<1>3. PICK an : an = [a \in Anons |-> New(a)]  OBVIOUS
<1>4. ASSUME NEW a \in Anons
      PROVE  /\ an[a] \in AnonType /\ an[a].refcnt = s.anon[a].refcnt - InAmap(s, o, a) /\ an[a].pv = s.anon[a].pv
             /\ an[a].refcnt > 0 => an[a].content = s.anon[a].content
  <2>1. PICK k \in Nat : k = InAmap(s, o, a)  BY PlacesOf
  <2>2. PICK x \in AnonType : x = s.anon[a]  BY VmTyped
  <2>3. x.refcnt \in Nat /\ k <= x.refcnt /\ x.pv \in SUBSET (Maps \X VAs)  BY <2>1, <2>2 DEF AnonType
  <2>4. CASE a \in L
    <3>1. an[a] = [FreeAnon EXCEPT !.pv = x.pv]  BY <1>3, <2>2, <2>4
    <3>2. an[a] = [refcnt |-> 0, content |-> 0, pv |-> x.pv]  BY <3>1 DEF FreeAnon
    <3>3. x.refcnt <= k  BY <1>1, <2>1, <2>2, <2>4 DEF LastRefs
    <3>4. x.refcnt - k = 0  BY <2>3, <3>3
    <3> QED  BY <2>1, <2>2, <2>3, <3>2, <3>4, VmAssumption DEF AnonType
  <2>5. CASE a \notin L
    <3>1. an[a] = [x EXCEPT !.refcnt = x.refcnt - k]  BY <1>3, <2>1, <2>2, <2>5 DEF Fewer, AnonType
    <3>2. x.refcnt - k \in Nat  BY <2>3
    <3>3. an[a] \in AnonType /\ an[a].refcnt = x.refcnt - k /\ an[a].pv = x.pv /\ an[a].content = x.content
      BY <2>2, <3>1, <3>2 DEF AnonType
    <3> QED  BY <2>1, <2>2, <3>3
  <2> QED  BY <2>4, <2>5
<1>5. an \in [Anons -> AnonType]
  <2>1. an = [a \in Anons |-> an[a]]  BY <1>3
  <2> HIDE DEF New
  <2> QED  BY <1>4, <2>1
<1>6. PICK k \in Nat : k = Cardinality(L)
  <2>1. IsFiniteSet(L)  BY <1>2, VmAssumption, FS_Subset
  <2> QED  BY <2>1, FS_CardinalityType
<1>7. t = [s EXCEPT !.anon = an, !.nfree = @ + k]
  <2>1. t = [s EXCEPT !.anon = [a \in Anons |-> New(a)], !.nfree = @ + Cardinality(L)]
    BY <1>1 DEF amap_release, LastRefs
  <2> HIDE DEF New
  <2> QED  BY <1>3, <1>6, <2>1
<1> HIDE DEF New
<1>8. /\ t.map = s.map /\ t.obj = s.obj /\ t.anon = an /\ t.pte = s.pte /\ t.tables = s.tables
      /\ t.nfree = s.nfree + k /\ t.tlb = s.tlb /\ t \in VmType
  <2>1. s.nfree \in Int /\ s.nfree + k \in Int  BY DEF VmType
  <2>2. PICK z \in Int : z = s.nfree + k  BY <2>1
  <2>3. t = [s EXCEPT !.anon = an, !.nfree = z]  BY <1>7, <2>2 DEF VmType
  <2>4. /\ t.map = s.map /\ t.obj = s.obj /\ t.anon = an /\ t.pte = s.pte /\ t.tables = s.tables
        /\ t.nfree = z /\ t.tlb = s.tlb
        /\ t = [map |-> t.map, obj |-> t.obj, anon |-> t.anon, pte |-> t.pte, tables |-> t.tables,
               nfree |-> t.nfree, tlb |-> t.tlb]
    BY <2>3 DEF VmType
  <2> QED  BY <1>5, <2>2, <2>4 DEF VmType
<1> QED  BY <1>1, <1>2, <1>4, <1>6, <1>8

\* An entry is removed, and its segment of the arena given back.
MapWithout(p, e) == [arena |-> vmem_xfree(p.arena, e.start).arena, entries |-> RemoveFirst(p.entries, e)]
LEMMA MapFreed ==
    ASSUME NEW p \in MapType, MapOK(p), NEW e \in Range(p.entries), NEW r, r = MapWithout(p, e)
    PROVE  r \in MapType /\ MapOK(r) /\ Range(r.entries) = Range(p.entries) \ {e}
<1>1. e.start \in Nat /\ e.end \in Nat /\ e.start < e.end /\ SegAt(e) \in Allocated(p.arena)  BY EntrySpot
<1>2. PICK x : x = SegAt(e)  OBVIOUS
<1>3. x.base = e.start  BY <1>2 DEF SegAt, Seg
<1>4. PICK b : b = vmem_xfree(p.arena, e.start).arena  OBVIOUS
<1>5. ArenaOK(b) /\ InUser(b) /\ Allocated(b) = Allocated(p.arena) \ {x}
  <2>1. PICK a : a = p.arena  OBVIOUS
  <2>2. ArenaOK(a) /\ InUser(a) /\ x \in Allocated(a)  BY <1>1, <1>2, <2>1 DEF MapOK
  <2>3. LET c == vmem_xfree(a, x.base).arena IN ArenaOK(c) /\ InUser(c) /\ Allocated(c) = Allocated(a) \ {x}
    BY <2>2, UserFreed
  <2> QED  BY <1>3, <1>4, <2>1, <2>3
<1>6. PICK q \in Seq(EntryType) : q = p.entries  BY DEF MapType
<1>7. \A f \in Range(q) : f.start \in Nat /\ f.end \in Nat /\ f.start < f.end  BY <1>6, EntrySpot
<1>8. \A i, j \in DOMAIN q : i # j => q[i].end <= q[j].start \/ q[j].end <= q[i].start  BY <1>6 DEF MapOK
<1>9. \A f, g \in Range(q) : f # g => f.end <= g.start \/ g.end <= f.start
  <2> SUFFICES ASSUME NEW f \in Range(q), NEW g \in Range(q), f # g PROVE f.end <= g.start \/ g.end <= f.start  OBVIOUS
  <2>1. PICK i \in DOMAIN q : f = q[i]  BY DEF Range
  <2>2. PICK j \in DOMAIN q : g = q[j]  BY DEF Range
  <2> QED  BY <1>8, <2>1, <2>2
<1>10. IsInjective(q)
  <2>1. ASSUME NEW i \in DOMAIN q, NEW j \in DOMAIN q, q[i] = q[j] PROVE i = j
    <3>1. PICK f \in Range(q) : f = q[i]  BY DEF Range
    <3>2. f.start \in Nat /\ f.end \in Nat /\ f.start < f.end  BY <1>7
    <3>3. ~(f.end <= f.start)  BY <3>2
    <3> QED  BY <1>8, <2>1, <3>1, <3>3
  <2> QED  BY <2>1 DEF IsInjective
<1>11. PICK w : w = RemoveFirst(q, e)  OBVIOUS
<1>12. w \in Seq(EntryType) /\ IsInjective(w) /\ Range(w) = Range(q) \ {e}  BY <1>10, <1>11, RemoveFirstOf
<1>13. r = [arena |-> b, entries |-> w]  BY <1>4, <1>6, <1>11 DEF MapWithout
<1>14. r.arena = b /\ r.entries = w /\ r \in MapType
  <2>1. b \in ArenaType  BY <1>5, ArenaTyped
  <2> QED  BY <1>12, <1>13, <2>1 DEF MapType
<1>15. \A i, j \in DOMAIN w : i # j => w[i].end <= w[j].start \/ w[j].end <= w[i].start
  <2> SUFFICES ASSUME NEW i \in DOMAIN w, NEW j \in DOMAIN w, i # j
               PROVE  w[i].end <= w[j].start \/ w[j].end <= w[i].start
    OBVIOUS
  <2>1. w[i] # w[j]  BY <1>12 DEF IsInjective
  <2>2. w[i] \in Range(q) /\ w[j] \in Range(q)  BY <1>12 DEF Range
  <2> QED  BY <1>9, <2>1, <2>2
<1>16. Allocated(b) = {SegAt(f) : f \in Range(w)}
  <2>1. Allocated(p.arena) = {SegAt(f) : f \in Range(q)}  BY <1>6 DEF MapOK
  <2>2. ASSUME NEW f \in Range(q), f # e PROVE SegAt(f) # x
    <3>1. f.start # e.start  BY <1>1, <1>6, <1>7, <1>9, <2>2
    <3>2. PICK y : y = SegAt(f)  OBVIOUS
    <3>3. y.base = f.start  BY <3>2 DEF SegAt, Seg
    <3> QED  BY <1>3, <3>1, <3>2, <3>3
  <2> QED  BY <1>2, <1>5, <1>12, <2>1, <2>2
<1>17. MapOK(r)  BY <1>5, <1>14, <1>15, <1>16 DEF MapOK
<1> QED  BY <1>6, <1>12, <1>14, <1>17

\* The state after unmap_entry.
Unmaps(s, t, m, e) ==
    /\ t \in VmType /\ t.tables = s.tables /\ t.nfree = s.nfree + Cardinality(LastRefs(s, e.obj))
    /\ \A k \in Maps : t.map[k] = IF k = m THEN MapWithout(s.map[m], e) ELSE s.map[k]
    /\ \A q \in Objs : t.obj[q] = IF q = e.obj THEN FreeObj ELSE s.obj[q]
    /\ \A a \in Anons : /\ t.anon[a].refcnt = s.anon[a].refcnt - InAmap(s, e.obj, a)
                        /\ t.anon[a].pv = s.anon[a].pv \ ({m} \X (e.start .. e.end - 1))
                        /\ t.anon[a].refcnt > 0 => t.anon[a].content = s.anon[a].content
    /\ \A k \in Maps, x \in VAs :
           /\ t.pte[k][x] = IF k = m /\ x \in e.start .. e.end - 1 THEN NoPte ELSE s.pte[k][x]
           /\ t.tlb[k][x] = IF k = m /\ x \in e.start .. e.end - 1 THEN NoPte ELSE s.tlb[k][x]
LEMMA UnmapFields ==
    ASSUME NEW s, NEW n, VmOK(s, n), NEW m \in Maps, NEW e \in Entries(s.map, m), NEW t, t = unmap_entry(s, m, e)
    PROVE  Unmaps(s, t, m, e)
<1>1. s \in VmType /\ s.map[m] \in MapType /\ MapOK(s.map[m])  BY VmTyped DEF VmOK
<1>2. PICK o \in Objs : o = e.obj  BY EntryObj
<1>3. PICK V \in SUBSET VAs : V = e.start .. e.end - 1  BY EntryOffset
<1>4. e \in Range(s.map[m].entries)  BY DEF Entries
<1>5. PICK b : b = vmem_xfree(s.map[m].arena, e.start).arena  OBVIOUS
<1>6. PICK w : w = RemoveFirst(s.map[m].entries, e)  OBVIOUS
<1>7. PICK g : g = MapWithout(s.map[m], e)  OBVIOUS
<1>8. g = [arena |-> b, entries |-> w] /\ g \in MapType
  BY <1>1, <1>4, <1>5, <1>6, <1>7, MapFreed DEF MapWithout
<1>9. b \in ArenaType  BY <1>8 DEF MapType
<1>10. PICK h : h = [arena |-> b, entries |-> s.map[m].entries]  OBVIOUS
<1>11. h \in MapType  BY <1>1, <1>9, <1>10 DEF MapType
<1>12. PICK f : f = WithMap(s, m, h)  OBVIOUS
<1>13. f = [s EXCEPT !.map[m].arena = vmem_xfree(@, e.start).arena]
  <2>1. s.map \in [Maps -> MapType]  BY <1>1 DEF VmType
  <2>2. h = [s.map[m] EXCEPT !.arena = vmem_xfree(@, e.start).arena]  BY <1>1, <1>5, <1>10 DEF MapType
  <2>3. [s.map EXCEPT ![m].arena = vmem_xfree(@, e.start).arena] = [s.map EXCEPT ![m] = h]  BY <2>1, <2>2
  <2> QED  BY <1>1, <1>12, <2>3 DEF VmType, WithMap
<1>14. /\ f \in VmType /\ f.obj = s.obj /\ f.anon = s.anon /\ f.pte = s.pte /\ f.tables = s.tables
       /\ f.nfree = s.nfree /\ f.tlb = s.tlb
       /\ \A k \in Maps : f.map[k] = IF k = m THEN h ELSE s.map[k]
  BY <1>1, <1>11, <1>12, MapSet
<1>15. PICK c : c = pmap_unenter(f, m, V)  OBVIOUS
<1>16. Unentered(f, c, m, V)
  <2>1. TlbOK(f.pte, f.tlb) /\ PvOK(f.anon, f.pte)  BY <1>14 DEF VmOK
  <2> QED  BY <1>14, <1>15, <2>1, Unenter
<1>17. /\ c \in VmType /\ c.map = f.map /\ c.obj = s.obj /\ c.tables = s.tables /\ c.nfree = s.nfree
       /\ \A k \in Maps, x \in VAs :
              /\ c.pte[k][x] = IF k = m /\ x \in V THEN NoPte ELSE s.pte[k][x]
              /\ c.tlb[k][x] = IF k = m /\ x \in V THEN NoPte ELSE s.tlb[k][x]
       /\ \A a \in Anons : c.anon[a].refcnt = s.anon[a].refcnt /\ c.anon[a].pv = s.anon[a].pv \ ({m} \X V)
       /\ SameContents(s.anon, c.anon)
  BY <1>14, <1>16 DEF Unentered
<1>18. \A a : InAmap(c, o, a) = InAmap(s, o, a)  BY <1>17 DEF InAmap
<1>19. AmapAnons(c, o) = AmapAnons(s, o)  BY <1>17 DEF AmapAnons
<1>20. AmapAnons(s, o) \subseteq Anons
  <2>1. s.obj[o] \in ObjType  BY <1>1, VmTyped
  <2> QED  BY <2>1 DEF AmapAnons, ObjType
<1>21. LastRefs(c, o) = LastRefs(s, o)  BY <1>17, <1>18, <1>19, <1>20 DEF LastRefs
<1>22. PICK r : r = amap_release(c, o)  OBVIOUS
<1>23. \A a \in Anons : InAmap(c, o, a) <= c.anon[a].refcnt
  <2>1. PICK ob : ob = [q \in Objs |-> [amap |-> [i \in VAs |-> IF q = o THEN NoAnon ELSE s.obj[q].amap[i]]]]  OBVIOUS
  <2>2. Cleared(ob, s, o)  BY <2>1 DEF Cleared
  <2>3. \A a \in Anons : InAmap(s, o, a) <= s.anon[a].refcnt  BY <2>2, ClearedRefs
  <2> QED  BY <1>17, <1>18, <2>3
<1>24. /\ r \in VmType /\ r.map = c.map /\ r.obj = c.obj /\ r.pte = c.pte /\ r.tables = c.tables /\ r.tlb = c.tlb
       /\ r.nfree = c.nfree + Cardinality(LastRefs(c, o))
       /\ \A a \in Anons : r.anon[a].refcnt = c.anon[a].refcnt - InAmap(c, o, a) /\ r.anon[a].pv = c.anon[a].pv
       /\ \A a \in Anons : r.anon[a].refcnt > 0 => r.anon[a].content = c.anon[a].content
  BY <1>17, <1>22, <1>23, AmapReleased
<1>25. PICK y : y = FreeObj  OBVIOUS
<1>26. y \in ObjType  BY <1>25 DEF FreeObj, ObjType
<1>27. PICK v : v = WithObj(r, o, y)  OBVIOUS
<1>28. v = vm_object_release(c, o)
  <2>1. s.obj[o].refcnt = 1  BY <1>2 DEF VmOK, ViewsOK
  <2>2. ~(c.obj[o].refcnt > 1)  BY <1>17, <2>1
  <2> QED  BY <1>22, <1>25, <1>27, <2>2 DEF vm_object_release, WithObj
<1>29. /\ v \in VmType /\ v.map = r.map /\ v.anon = r.anon /\ v.pte = r.pte /\ v.tables = r.tables
       /\ v.nfree = r.nfree /\ v.tlb = r.tlb
       /\ \A q \in Objs : v.obj[q] = IF q = o THEN y ELSE r.obj[q]
  BY <1>24, <1>26, <1>27, ObjSet
<1>30. t = [v EXCEPT !.map[m].entries = RemoveFirst(@, e)]
  <2>1. t = [vm_object_release(pmap_unenter(f, m, e.start .. e.end - 1), e.obj) EXCEPT !.map[m].entries = RemoveFirst(@, e)]
    BY <1>13 DEF unmap_entry
  <2>2. vm_object_release(pmap_unenter(f, m, e.start .. e.end - 1), e.obj) = v  BY <1>2, <1>3, <1>15, <1>28
  <2> HIDE DEF unmap_entry
  <2> QED  BY <2>1, <2>2
<1>31. v.map[m] = h /\ v.map \in [Maps -> MapType]  BY <1>14, <1>17, <1>24, <1>29 DEF VmType
<1>32. t = WithMap(v, m, g)
  <2>1. g = [h EXCEPT !.entries = RemoveFirst(@, e)]  BY <1>6, <1>8, <1>10
  <2>2. [v.map EXCEPT ![m].entries = RemoveFirst(@, e)] = [v.map EXCEPT ![m] = g]  BY <1>31, <2>1
  <2> QED  BY <1>29, <1>30, <2>2 DEF WithMap, VmType
<1>33. /\ t \in VmType /\ t.obj = v.obj /\ t.anon = v.anon /\ t.pte = v.pte /\ t.tables = v.tables
       /\ t.nfree = v.nfree /\ t.tlb = v.tlb
       /\ \A k \in Maps : t.map[k] = IF k = m THEN g ELSE v.map[k]
  BY <1>8, <1>29, <1>32, MapSet
<1>34. t.tables = s.tables /\ t.nfree = s.nfree + Cardinality(LastRefs(s, o))  BY <1>17, <1>21, <1>24, <1>29, <1>33
<1>35. \A k \in Maps : t.map[k] = IF k = m THEN g ELSE s.map[k]  BY <1>14, <1>17, <1>24, <1>29, <1>33
<1>36. \A q \in Objs : t.obj[q] = IF q = o THEN FreeObj ELSE s.obj[q]  BY <1>17, <1>24, <1>25, <1>29, <1>33
<1>37. \A a \in Anons : t.anon[a].refcnt = s.anon[a].refcnt - InAmap(s, o, a) /\ t.anon[a].pv = s.anon[a].pv \ ({m} \X V)
  BY <1>17, <1>18, <1>24, <1>29, <1>33
<1>38. \A k \in Maps, x \in VAs :
           /\ t.pte[k][x] = IF k = m /\ x \in V THEN NoPte ELSE s.pte[k][x]
           /\ t.tlb[k][x] = IF k = m /\ x \in V THEN NoPte ELSE s.tlb[k][x]
  BY <1>17, <1>24, <1>29, <1>33
<1>39. \A a \in Anons : t.anon[a].refcnt > 0 => t.anon[a].content = s.anon[a].content
  BY <1>17, <1>24, <1>29, <1>33 DEF SameContents
<1> QED  BY <1>2, <1>3, <1>7, <1>33, <1>34, <1>35, <1>36, <1>37, <1>38, <1>39 DEF Unmaps

\* The map, the objects and the counts after unmap_entry.
Unviews(s, t, m, e) ==
    /\ \A k \in Maps : MapOK(t.map[k])
    /\ \A k \in Maps : Entries(t.map, k) = IF k = m THEN Entries(s.map, m) \ {e} ELSE Entries(s.map, k)
    /\ \A k \in Maps : \A f \in Entries(t.map, k) : f.obj \in Objs /\ f.obj # e.obj /\ t.obj[f.obj] = s.obj[f.obj]
    /\ ViewsOK(t.map, t.obj) /\ ObjsOK(t.obj) /\ RefsOK(t.obj, t.anon)
LEMMA UnmapViews ==
    ASSUME NEW s, NEW n, VmOK(s, n), NEW m \in Maps, NEW e \in Entries(s.map, m), NEW t, Unmaps(s, t, m, e)
    PROVE  Unviews(s, t, m, e)
<1>1. s \in VmType /\ \A k \in Maps : s.map[k] \in MapType /\ MapOK(s.map[k])  BY VmTyped DEF VmOK
<1>2. PICK o \in Objs : o = e.obj  BY EntryObj
<1>3. PICK g : g = MapWithout(s.map[m], e)  OBVIOUS
<1>4. g \in MapType /\ MapOK(g) /\ Range(g.entries) = Range(s.map[m].entries) \ {e}
  <2>1. e \in Range(s.map[m].entries)  BY DEF Entries
  <2> QED  BY <1>1, <1>3, <2>1, MapFreed
<1>5. \A k \in Maps : t.map[k] = IF k = m THEN g ELSE s.map[k]  BY <1>3 DEF Unmaps
<1>6. \A k \in Maps : MapOK(t.map[k])  BY <1>1, <1>4, <1>5
<1>7. \A k \in Maps : Entries(t.map, k) = IF k = m THEN Entries(s.map, m) \ {e} ELSE Entries(s.map, k)
  BY <1>4, <1>5 DEF Entries
<1>8. \A q \in Objs : t.obj[q] = IF q = o THEN FreeObj ELSE s.obj[q]  BY <1>2 DEF Unmaps
<1>9. \A k \in Maps, l \in Maps : \A f \in Entries(s.map, k), h \in Entries(s.map, l) : f.obj = h.obj => k = l /\ f = h
  BY DEF VmOK, ViewsOK
<1>10. ASSUME NEW k \in Maps, NEW f \in Entries(t.map, k) PROVE f \in Entries(s.map, k) /\ f.obj \in Objs /\ f.obj # o
  <2>1. f \in Entries(s.map, k) /\ (k = m => f # e)  BY <1>7
  <2>2. f.obj \in Objs  BY <2>1, EntryObj
  <2> QED  BY <1>2, <1>9, <2>1, <2>2
<1>11. \A k \in Maps : \A f \in Entries(t.map, k) : f.obj \in Objs /\ f.obj # o /\ t.obj[f.obj] = s.obj[f.obj]
  BY <1>8, <1>10
<1>12. ViewsOK(t.map, t.obj)
  <2>1. \A k \in Maps : \A f \in Entries(t.map, k) : t.obj[f.obj].refcnt = 1
    <3>1. \A k \in Maps : \A f \in Entries(s.map, k) : s.obj[f.obj].refcnt = 1  BY DEF VmOK, ViewsOK
    <3> QED  BY <1>10, <1>11, <3>1
  <2> QED  BY <1>9, <1>10, <2>1 DEF ViewsOK
<1>13. FreeObj.refcnt = 0 /\ FreeObj.amap = [i \in VAs |-> NoAnon]  BY DEF FreeObj
<1>14. ObjsOK(t.obj)
  <2>1. \A q \in Objs : /\ s.obj[q].refcnt \in {0, 1}
                        /\ s.obj[q].refcnt = 0 => s.obj[q].amap = [i \in VAs |-> NoAnon]
    BY DEF VmOK, ObjsOK
  <2> SUFFICES ASSUME NEW q \in Objs
               PROVE  t.obj[q].refcnt \in {0, 1} /\ (t.obj[q].refcnt = 0 => t.obj[q].amap = [i \in VAs |-> NoAnon])
    BY DEF ObjsOK
  <2>2. CASE q = o  BY <1>8, <1>13, <2>2
  <2>3. CASE q # o  BY <1>8, <2>1, <2>3
  <2> QED  BY <2>2, <2>3
<1>15. RefsOK(t.obj, t.anon)
  <2>1. PICK ob : ob = t.obj  OBVIOUS
  <2>2. Cleared(ob, s, o)  BY <1>8, <1>13, <2>1 DEF Cleared
  <2>3. \A a \in Anons : Cardinality(AmapPlaces(ob, a)) = s.anon[a].refcnt - InAmap(s, o, a)  BY <2>2, ClearedRefs
  <2>4. \A a \in Anons : t.anon[a].refcnt = s.anon[a].refcnt - InAmap(s, o, a)  BY <1>2 DEF Unmaps
  <2> QED  BY <2>1, <2>3, <2>4 DEF RefsOK
<1> QED  BY <1>2, <1>6, <1>7, <1>11, <1>12, <1>14, <1>15 DEF Unviews

\* Its translations.
LEMMA UnmapPtes ==
    ASSUME NEW s, NEW n, VmOK(s, n), NEW m \in Maps, NEW e \in Entries(s.map, m), NEW t, Unmaps(s, t, m, e)
    PROVE  PtesOK(t.map, t.obj, t.anon, t.pte) /\ TlbOK(t.pte, t.tlb) /\ PvOK(t.anon, t.pte)
<1>1. PICK o \in Objs : o = e.obj  BY EntryObj
<1>2. PICK V \in SUBSET VAs : V = e.start .. e.end - 1  BY EntryOffset
<1>3. /\ \A k \in Maps : Entries(t.map, k) = IF k = m THEN Entries(s.map, m) \ {e} ELSE Entries(s.map, k)
      /\ \A k \in Maps : \A f \in Entries(t.map, k) : f.obj \in Objs /\ f.obj # o /\ t.obj[f.obj] = s.obj[f.obj]
      /\ RefsOK(t.obj, t.anon)
  <2>1. Unviews(s, t, m, e)  BY UnmapViews
  <2> QED  BY <1>1, <2>1 DEF Unviews
<1>4. \A k \in Maps, x \in VAs :
           /\ t.pte[k][x] = IF k = m /\ x \in V THEN NoPte ELSE s.pte[k][x]
           /\ t.tlb[k][x] = IF k = m /\ x \in V THEN NoPte ELSE s.tlb[k][x]
  BY <1>2 DEF Unmaps
<1>5. \A a \in Anons : /\ t.anon[a].refcnt = s.anon[a].refcnt - InAmap(s, o, a)
                       /\ t.anon[a].pv = s.anon[a].pv \ ({m} \X V)
  BY <1>1, <1>2 DEF Unmaps
<1>6. ASSUME NEW k \in Maps, NEW x \in VAs, t.pte[k][x] # NoPte PROVE PteOK(t.map, t.obj, t.anon, k, x, t.pte[k][x])
  <2>1. ~(k = m /\ x \in V) /\ t.pte[k][x] = s.pte[k][x]  BY <1>4, <1>6
  <2>2. PteOK(s.map, s.obj, s.anon, k, x, s.pte[k][x])  BY DEF VmOK, PtesOK
  <2>3. PICK a \in Anons : a = s.pte[k][x].page  BY <1>6, <2>1, <2>2 DEF PteOK
  <2>4. Shows(s.map, s.obj, k, x, a) /\ (s.pte[k][x].write => s.anon[a].refcnt = 1)
    BY <1>6, <2>1, <2>2, <2>3 DEF PteOK
  <2>5. PICK f \in Entries(s.map, k) : x \in f.start .. f.end - 1 /\ s.obj[f.obj].amap[x - f.start] = a
    BY <2>4 DEF Shows
  <2>6. f \in Entries(t.map, k)  BY <1>2, <1>3, <2>1, <2>5
  <2>7. f.obj \in Objs /\ t.obj[f.obj].amap[x - f.start] = a  BY <1>3, <2>5, <2>6
  <2>8. Shows(t.map, t.obj, k, x, a)  BY <2>5, <2>6, <2>7 DEF Shows
  <2>9. s.pte[k][x].write => t.anon[a].refcnt = 1
    <3> SUFFICES ASSUME s.pte[k][x].write PROVE t.anon[a].refcnt = 1  OBVIOUS
    <3>1. s.anon[a].refcnt = 1  BY <2>4
    <3>2. x - f.start \in VAs  BY <2>5, EntryOffset
    <3>3. PICK N : N = AmapPlaces(t.obj, a)  OBVIOUS
    <3>4. <<f.obj, x - f.start>> \in N  BY <2>7, <3>2, <3>3 DEF AmapPlaces
    <3>5. IsFiniteSet(N) /\ Cardinality(N) \in Nat  BY <3>3, PlacesFinite
    <3>6. Cardinality(N) # 0  BY <3>4, <3>5, FS_EmptySet
    <3>7. t.anon[a].refcnt = Cardinality(N)  BY <1>3, <3>3 DEF RefsOK
    <3>8. InAmap(s, o, a) \in Nat  BY PlacesOf
    <3> QED  BY <1>5, <3>1, <3>5, <3>6, <3>7, <3>8
  <2> QED  BY <2>1, <2>3, <2>8, <2>9 DEF PteOK
<1>7. PtesOK(t.map, t.obj, t.anon, t.pte)  BY <1>6 DEF PtesOK, PteOK
<1>8. TlbOK(t.pte, t.tlb)
  <2>1. \A k \in Maps, x \in VAs : Caches(s.tlb[k][x], s.pte[k][x])  BY DEF VmOK, TlbOK
  <2> QED  BY <1>4, <2>1 DEF TlbOK, Caches
<1>9. PvOK(t.anon, t.pte)
  <2> SUFFICES ASSUME NEW a \in Anons
               PROVE  t.anon[a].pv = {x \in Maps \X VAs : t.pte[x[1]][x[2]].page = a}
    BY DEF PvOK
  <2>1. s.anon[a].pv = {x \in Maps \X VAs : s.pte[x[1]][x[2]].page = a}  BY DEF VmOK, PvOK
  <2>2. \A x \in Maps \X VAs : t.pte[x[1]][x[2]].page = a <=> s.pte[x[1]][x[2]].page = a /\ x \notin {m} \X V
    BY <1>4, AnonsNatural
  <2> QED  BY <1>5, <2>1, <2>2
<1> QED  BY <1>7, <1>8, <1>9

\* Its pages.
LEMMA UnmapPages ==
    ASSUME NEW s, NEW n, VmOK(s, n), NEW m \in Maps, NEW e \in Entries(s.map, m), NEW t, Unmaps(s, t, m, e)
    PROVE  PagesOK(t.anon, t.tables, t.nfree, n)
<1>1. PICK o \in Objs : o = e.obj  BY EntryObj
<1>2. PICK L : L = LastRefs(s, o)  OBVIOUS
<1>3. PICK U : U = UsedAnons(s.anon)  OBVIOUS
<1>4. PICK ob : ob = [q \in Objs |-> [amap |-> [i \in VAs |-> IF q = o THEN NoAnon ELSE s.obj[q].amap[i]]]]  OBVIOUS
<1>5. Cleared(ob, s, o)  BY <1>4 DEF Cleared
<1>6. \A a \in Anons : InAmap(s, o, a) <= s.anon[a].refcnt /\ InAmap(s, o, a) \in Nat /\ s.anon[a].refcnt \in Nat
  BY <1>5, ClearedRefs
<1>7. s \in VmType /\ s.obj[o] \in ObjType  BY VmTyped DEF VmOK
<1>8. AmapAnons(s, o) \subseteq Anons  BY <1>7 DEF AmapAnons, ObjType
<1>9. \A a \in Anons : a \in AmapAnons(s, o) => s.anon[a].refcnt > 0
  <2> SUFFICES ASSUME NEW a \in Anons, a \in AmapAnons(s, o) PROVE s.anon[a].refcnt > 0  OBVIOUS
  <2>1. PICK i \in VAs : s.obj[o].amap[i] = a  BY DEF AmapAnons
  <2> QED  BY <2>1, PlaceUsed
<1>10. \A a \in Anons : a \notin AmapAnons(s, o) => InAmap(s, o, a) = 0
  <2> SUFFICES ASSUME NEW a \in Anons, a \notin AmapAnons(s, o) PROVE InAmap(s, o, a) = 0  OBVIOUS
  <2>1. {i \in VAs : s.obj[o].amap[i] = a} = {}  BY AnonsNatural DEF AmapAnons
  <2> QED  BY <2>1, FS_EmptySet DEF InAmap
<1>11. \A a \in Anons : a \in L <=> a \in AmapAnons(s, o) /\ s.anon[a].refcnt <= InAmap(s, o, a)
  BY <1>2 DEF LastRefs
<1>12. L \subseteq Anons  BY <1>2, <1>8 DEF LastRefs
<1>13. \A a \in Anons : a \in U <=> s.anon[a].refcnt > 0  BY <1>3 DEF UsedAnons
<1>14. L \subseteq U  BY <1>9, <1>11, <1>12, <1>13
<1>15. UsedAnons(t.anon) = U \ L
  <2>1. \A a \in Anons : t.anon[a].refcnt = s.anon[a].refcnt - InAmap(s, o, a)  BY <1>1 DEF Unmaps
  <2>2. \A a \in Anons : t.anon[a].refcnt > 0 <=> a \in U \ L  BY <1>6, <1>10, <1>11, <1>13, <2>1
  <2>3. U \subseteq Anons  BY <1>3 DEF UsedAnons
  <2> QED  BY <2>2, <2>3 DEF UsedAnons
<1>16. IsFiniteSet(U) /\ Cardinality(U) \in Nat  BY <1>3, UsedFinite
<1>17. IsFiniteSet(L)  BY <1>14, <1>16, FS_Subset
<1>18. Cardinality(L) \in Nat  BY <1>17, FS_CardinalityType
<1>19. Cardinality(U \ L) = Cardinality(U) - Cardinality(L)
  <2>1. Cardinality(U \ L) = Cardinality(U) - Cardinality(U \cap L)  BY <1>16, FS_Difference
  <2>2. U \cap L = L  BY <1>14
  <2> QED  BY <2>1, <2>2
<1>20. t.tables = s.tables /\ t.nfree = s.nfree + Cardinality(L)  BY <1>1, <1>2 DEF Unmaps
<1>21. /\ IsFiniteSet(AllTables(s.tables))
       /\ n = s.nfree + Cardinality(U) + Cardinality(AllTables(s.tables))
  BY <1>3 DEF VmOK, PagesOK
<1>22. s.nfree \in Int /\ Cardinality(AllTables(s.tables)) \in Nat
  BY <1>7, <1>21, FS_CardinalityType DEF VmType
<1>23. n = t.nfree + Cardinality(U \ L) + Cardinality(AllTables(t.tables))
  BY <1>16, <1>18, <1>19, <1>20, <1>21, <1>22
<1> QED  BY <1>15, <1>20, <1>21, <1>23 DEF PagesOK

\* unmap_entry keeps the state good.
EntryGone(s, t, n, m, e) ==
    /\ VmOK(t, n) /\ Entries(t.map, m) = Entries(s.map, m) \ {e}
    /\ \A k \in Maps \ {m} : t.map[k] = s.map[k]
    /\ \A q \in Objs, i \in VAs : Holds(t, q, i) = IF q = e.obj THEN 0 ELSE Holds(s, q, i)
LEMMA EntryUnmapped ==
    ASSUME NEW s, NEW n, VmOK(s, n), NEW m \in Maps, NEW e \in Entries(s.map, m), NEW t, t = unmap_entry(s, m, e)
    PROVE  EntryGone(s, t, n, m, e)
<1>1. Unmaps(s, t, m, e)  BY UnmapFields
<1>2. /\ \A k \in Maps : MapOK(t.map[k])
      /\ \A k \in Maps : Entries(t.map, k) = IF k = m THEN Entries(s.map, m) \ {e} ELSE Entries(s.map, k)
      /\ ViewsOK(t.map, t.obj) /\ ObjsOK(t.obj) /\ RefsOK(t.obj, t.anon)
  <2>1. Unviews(s, t, m, e)  BY <1>1, UnmapViews
  <2> QED  BY <2>1 DEF Unviews
<1>3. PtesOK(t.map, t.obj, t.anon, t.pte) /\ TlbOK(t.pte, t.tlb) /\ PvOK(t.anon, t.pte)  BY <1>1, UnmapPtes
<1>4. PagesOK(t.anon, t.tables, t.nfree, n)  BY <1>1, UnmapPages
<1>5. t \in VmType /\ \A k \in Maps \ {m} : t.map[k] = s.map[k]  BY <1>1 DEF Unmaps
<1>6. VmOK(t, n)  BY <1>2, <1>3, <1>4, <1>5 DEF VmOK
<1>7. \A q \in Objs, i \in VAs : Holds(t, q, i) = IF q = e.obj THEN 0 ELSE Holds(s, q, i)
  <2> SUFFICES ASSUME NEW q \in Objs, NEW i \in VAs PROVE Holds(t, q, i) = IF q = e.obj THEN 0 ELSE Holds(s, q, i)
    OBVIOUS
  <2>1. t.obj[q] = IF q = e.obj THEN FreeObj ELSE s.obj[q]  BY <1>1 DEF Unmaps
  <2>2. CASE q = e.obj
    <3>1. t.obj[q].amap[i] = NoAnon  BY <2>1, <2>2 DEF FreeObj
    <3> QED  BY <2>2, <3>1 DEF Holds
  <2>3. CASE q # e.obj
    <3>1. t.obj[q] \in ObjType  BY <1>5, VmTyped
    <3>2. PICK a \in Anons \cup {NoAnon} : a = t.obj[q].amap[i]  BY <3>1 DEF ObjType
    <3>3. s.obj[q].amap[i] = a  BY <2>1, <2>3, <3>2
    <3>4. a # NoAnon => a \in Anons /\ t.anon[a].refcnt > 0  BY <1>6, <3>2, PlaceUsed
    <3>5. a # NoAnon => t.anon[a].content = s.anon[a].content  BY <1>1, <3>4 DEF Unmaps
    <3> QED  BY <2>3, <3>2, <3>3, <3>5 DEF Holds
  <2> QED  BY <2>2, <2>3
<1> QED  BY <1>2, <1>5, <1>6, <1>7 DEF EntryGone

------------------------------------------------------------------------------
\* vm_deallocate.

\* What vm_deallocate makes of an entry, and the function that Deallocated defines.
Undone(x, m, e, start, end) == IF Within(e, start, end) THEN unmap_entry(x, m, e) ELSE x
UndoneBy(f, s, m, q, n, start, end) ==
    f = [i \in 0 .. n |-> IF i = 0 THEN s ELSE Undone(f[i - 1], m, q[i], start, end)]

\* The recursion of Deallocated defines a function.
LEMMA UndoneExists ==
    ASSUME NEW s, NEW m, NEW q, NEW n \in Nat, NEW start, NEW end
    PROVE  \E f : UndoneBy(f, s, m, q, n, start, end)
<1> DEFINE T == {j \in Nat : ~\E f : UndoneBy(f, s, m, q, j, start, end)}
<1> SUFFICES T = {}  OBVIOUS
<1> SUFFICES ASSUME T # {} PROVE FALSE  OBVIOUS
<1>1. PICK j \in T : \A i \in T : j <= i  BY LeastNatural
<1>2. j # 0
  <2> DEFINE f == [i \in 0 .. 0 |-> s]
  <2>1. UndoneBy(f, s, m, q, 0, start, end)  BY DEF UndoneBy
  <2> HIDE DEF f
  <2> QED  BY <2>1
<1>3. j - 1 \in Nat /\ j - 1 \notin T  BY <1>1, <1>2
<1>4. PICK f : UndoneBy(f, s, m, q, j - 1, start, end)  BY <1>3
<1> DEFINE h == [i \in 0 .. j |-> IF i = j THEN Undone(f[j - 1], m, q[j], start, end) ELSE f[i]]
<1>5. \A i \in 0 .. j - 1 : f[i] = IF i = 0 THEN s ELSE Undone(f[i - 1], m, q[i], start, end)
  BY <1>4 DEF UndoneBy
<1>6. ASSUME NEW i \in 0 .. j
      PROVE  h[i] = IF i = 0 THEN s ELSE Undone(h[i - 1], m, q[i], start, end)
  <2>1. CASE i = j
    <3>1. h[i] = Undone(f[j - 1], m, q[j], start, end) /\ i # 0  BY <1>2, <2>1
    <3>2. h[i - 1] = f[j - 1]  BY <1>3, <2>1
    <3> HIDE DEF h
    <3> QED  BY <2>1, <3>1, <3>2
  <2>2. CASE i # j /\ i = 0
    <3>1. h[i] = f[0] /\ 0 \in 0 .. j - 1  BY <1>3, <2>2
    <3> HIDE DEF h
    <3> QED  BY <1>5, <2>2, <3>1
  <2>3. CASE i # j /\ i # 0
    <3>1. i \in 0 .. j - 1 /\ i - 1 \in 0 .. j - 1 /\ i - 1 # j /\ i - 1 \in 0 .. j  BY <1>1, <2>3
    <3>2. h[i] = f[i] /\ h[i - 1] = f[i - 1]  BY <2>3, <3>1
    <3> HIDE DEF h
    <3> QED  BY <1>5, <2>3, <3>1, <3>2
  <2> QED  BY <2>1, <2>2, <2>3
<1>7. UndoneBy(h, s, m, q, j, start, end)
  <2>1. h = [i \in 0 .. j |-> h[i]]  OBVIOUS
  <2> HIDE DEF h
  <2> QED  BY <1>6, <2>1 DEF UndoneBy
<1> HIDE DEF h
<1> QED  BY <1>1, <1>7

\* A map has no entry twice.
LEMMA EntriesOnce ==
    ASSUME NEW p \in MapType, MapOK(p)
    PROVE  IsInjective(p.entries)
<1>1. ASSUME NEW i \in DOMAIN p.entries, NEW j \in DOMAIN p.entries, p.entries[i] = p.entries[j] PROVE i = j
  <2>1. PICK f \in Range(p.entries) : f = p.entries[i]  BY DEF Range
  <2>2. f.start \in Nat /\ f.end \in Nat /\ f.start < f.end  BY EntrySpot
  <2>3. ~(f.end <= f.start)  BY <2>2
  <2> QED  BY <1>1, <2>1, <2>3 DEF MapOK
<1> QED  BY <1>1 DEF IsInjective

\* What no map shows is zero, and an object that is no longer shown is forgotten.
Bare(s) == \A o \in Objs : Hidden(s, o) => \A i \in VAs : Holds(s, o, i) = 0
Forgotten(s, t) == \A o \in Objs, i \in VAs : Holds(t, o, i) = IF Hidden(t, o) THEN 0 ELSE Holds(s, o, i)
LEMMA GoneForgotten ==
    ASSUME NEW s, NEW t, Forgotten(s, t), NEW n, VmOK(t, n), NEW m \in Maps, NEW e \in Entries(t.map, m),
           NEW u, EntryGone(t, u, n, m, e)
    PROVE  Forgotten(s, u)
<1>1. \A k \in Maps : Entries(u.map, k) = IF k = m THEN Entries(t.map, m) \ {e} ELSE Entries(t.map, k)
  BY DEF EntryGone, Entries
<1>2. ViewsOK(t.map, t.obj)  BY DEF VmOK
<1>3. \A o \in Objs : Hidden(u, o) <=> Hidden(t, o) \/ o = e.obj
  <2> TAKE o \in Objs
  <2>1. Hidden(t, o) => Hidden(u, o)  BY <1>1 DEF Hidden
  <2>2. ASSUME o = e.obj PROVE Hidden(u, o)
    <3> SUFFICES ASSUME NEW k \in Maps, NEW f \in Entries(u.map, k), f.obj = o PROVE FALSE  BY DEF Hidden
    <3>1. f \in Entries(t.map, k) /\ ~(k = m /\ f = e)  BY <1>1
    <3> QED  BY <1>2, <2>2, <3>1 DEF ViewsOK
  <2>3. ASSUME ~Hidden(t, o), o # e.obj PROVE ~Hidden(u, o)
    <3>1. PICK k \in Maps : \E f \in Entries(t.map, k) : f.obj = o  BY <2>3 DEF Hidden
    <3>2. PICK f \in Entries(t.map, k) : f.obj = o  BY <3>1
    <3>3. f # e /\ f \in Entries(u.map, k)  BY <1>1, <2>3, <3>2
    <3> QED  BY <3>2, <3>3 DEF Hidden
  <2> QED  BY <2>1, <2>2, <2>3
<1>4. \A o \in Objs, i \in VAs : Holds(u, o, i) = IF o = e.obj THEN 0 ELSE Holds(t, o, i)  BY DEF EntryGone
<1> QED  BY <1>3, <1>4 DEF Forgotten

\* The entries that are left after the first i have been looked at.
Left(q, i, start, end) == {e \in Range(q) : \A j \in 1 .. i : Within(e, start, end) => e # q[j]}
UndoneTo(s, t, n, m, i, start, end) ==
    /\ VmOK(t, n) /\ Entries(t.map, m) = Left(s.map[m].entries, i, start, end)
    /\ \A k \in Maps \ {m} : t.map[k] = s.map[k]
    /\ Bare(s) => Forgotten(s, t)

LEMMA UndoneNext ==
    ASSUME NEW s, NEW n, VmOK(s, n), NEW m \in Maps, NEW i \in 1 .. Len(s.map[m].entries), NEW start, NEW end,
           NEW t, UndoneTo(s, t, n, m, i - 1, start, end), NEW u, u = Undone(t, m, s.map[m].entries[i], start, end)
    PROVE  UndoneTo(s, u, n, m, i, start, end)
<1>1. s \in VmType /\ s.map[m] \in MapType /\ MapOK(s.map[m])  BY VmTyped DEF VmOK
<1>2. PICK q \in Seq(EntryType) : q = s.map[m].entries  BY <1>1 DEF MapType
<1>3. IsInjective(q)  BY <1>1, <1>2, EntriesOnce
<1>4. i \in DOMAIN q /\ i \in Nat /\ i >= 1 /\ DOMAIN q = 1 .. Len(q) /\ Len(q) \in Nat  BY <1>2
<1>5. PICK e \in Range(q) : e = q[i]  BY <1>4 DEF Range
<1>6. \A j \in 1 .. i - 1 : q[j] # e
  <2> SUFFICES ASSUME NEW j \in 1 .. i - 1 PROVE q[j] # e  OBVIOUS
  <2>1. j \in DOMAIN q /\ j # i  BY <1>2, <1>4
  <2> QED  BY <1>3, <1>4, <1>5, <2>1 DEF IsInjective
<1>7. PICK L : L = Left(q, i - 1, start, end)  OBVIOUS
<1>8. e \in L  BY <1>6, <1>7 DEF Left
<1>9. VmOK(t, n) /\ Entries(t.map, m) = L /\ \A k \in Maps \ {m} : t.map[k] = s.map[k]  BY <1>2, <1>7 DEF UndoneTo
<1>10. \A j : j \in 1 .. i <=> j \in 1 .. i - 1 \/ j = i  BY <1>4
<1>11. CASE Within(e, start, end)
  <2>1. u = unmap_entry(t, m, e)  BY <1>2, <1>5, <1>11 DEF Undone
  <2>2. e \in Entries(t.map, m)  BY <1>8, <1>9
  <2>3. /\ VmOK(u, n) /\ Entries(u.map, m) = L \ {e} /\ \A k \in Maps \ {m} : u.map[k] = t.map[k]
        /\ Forgotten(s, t) => Forgotten(s, u)
    <3>1. EntryGone(t, u, n, m, e)  BY <1>9, <2>1, <2>2, EntryUnmapped
    <3>2. Forgotten(s, t) => Forgotten(s, u)  BY <1>9, <2>2, <3>1, GoneForgotten
    <3> QED  BY <1>9, <3>1, <3>2 DEF EntryGone
  <2>4. L \ {e} = Left(q, i, start, end)  BY <1>5, <1>7, <1>10, <1>11 DEF Left
  <2> QED  BY <1>2, <1>9, <2>3, <2>4 DEF UndoneTo
<1>12. CASE ~Within(e, start, end)
  <2>1. u = t  BY <1>2, <1>5, <1>12 DEF Undone
  <2>2. L = Left(q, i, start, end)  BY <1>5, <1>7, <1>10, <1>12 DEF Left
  <2> QED  BY <1>2, <1>9, <2>1, <2>2 DEF UndoneTo
<1> QED  BY <1>11, <1>12

LEMMA DeallocatedOK ==
    ASSUME NEW s, NEW n, VmOK(s, n), NEW m \in Maps, NEW start, NEW end, NEW t, t = Deallocated(s, m, start, end)
    PROVE  /\ VmOK(t, n) /\ \A k \in Maps \ {m} : t.map[k] = s.map[k]
           /\ Entries(t.map, m) = {e \in Entries(s.map, m) : ~Within(e, start, end)}
           /\ Bare(s) => Forgotten(s, t)
<1>1. s \in VmType /\ s.map[m] \in MapType /\ MapOK(s.map[m])  BY VmTyped DEF VmOK
<1>2. PICK q \in Seq(EntryType) : q = s.map[m].entries  BY <1>1 DEF MapType
<1>3. PICK l \in Nat : l = Len(q)  BY <1>2
<1>4. DOMAIN q = 1 .. l  BY <1>2, <1>3
<1> DEFINE F(f) == f = [i \in 0 .. l |-> IF i = 0 THEN s ELSE Undone(f[i - 1], m, q[i], start, end)]
<1>5. PICK f : f = CHOOSE g : F(g)  OBVIOUS
<1>6. t = f[l]
  <2>1. Deallocated(s, m, start, end) = (CHOOSE g : F(g))[l]  BY <1>2, <1>3 DEF Deallocated, Undone
  <2> QED  BY <1>5, <2>1
<1>7. F(f)
  <2>1. PICK g : UndoneBy(g, s, m, q, l, start, end)  BY UndoneExists
  <2>2. F(g)  BY <2>1 DEF UndoneBy
  <2>3. \E x : F(x)  BY <2>2
  <2> QED  BY <1>5, <2>3
<1>8. \A i \in 0 .. l : f[i] = IF i = 0 THEN s ELSE Undone(f[i - 1], m, q[i], start, end)  BY <1>7
<1> HIDE DEF F
<1> DEFINE T == {i \in Nat : i <= l /\ ~UndoneTo(s, f[i], n, m, i, start, end)}
<1>9. T = {}
  <2> SUFFICES ASSUME T # {} PROVE FALSE  OBVIOUS
  <2>1. PICK j \in T : \A i \in T : j <= i  BY LeastNatural
  <2>2. j \in 0 .. l  BY <2>1
  <2>3. j # 0
    <3>1. f[0] = s  BY <1>8
    <3>2. Left(q, 0, start, end) = Range(q)  BY DEF Left
    <3>3. Bare(s) => Forgotten(s, s)  BY DEF Bare, Forgotten
    <3>4. UndoneTo(s, s, n, m, 0, start, end)  BY <1>2, <3>2, <3>3 DEF UndoneTo, Entries
    <3> QED  BY <2>1, <3>1, <3>4
  <2>4. j - 1 \in Nat /\ j - 1 <= l /\ j - 1 \notin T  BY <2>1, <2>2, <2>3
  <2>5. PICK x : x = f[j - 1]  OBVIOUS
  <2>6. UndoneTo(s, x, n, m, j - 1, start, end)  BY <2>4, <2>5
  <2>7. PICK y : y = f[j]  OBVIOUS
  <2>8. y = Undone(x, m, s.map[m].entries[j], start, end)  BY <1>2, <1>8, <2>2, <2>3, <2>5, <2>7
  <2>9. j \in 1 .. Len(s.map[m].entries)  BY <1>2, <1>3, <2>2, <2>3
  <2>10. UndoneTo(s, y, n, m, j, start, end)  BY <2>6, <2>8, <2>9, UndoneNext
  <2> QED  BY <2>1, <2>7, <2>10
<1>10. UndoneTo(s, t, n, m, l, start, end)
  <2>1. l \notin T  BY <1>9
  <2> QED  BY <1>6, <2>1
<1> HIDE DEF T
<1>11. Left(q, l, start, end) = {e \in Range(q) : ~Within(e, start, end)}
  <2>1. \A e \in Range(q) : \E j \in 1 .. l : e = q[j]  BY <1>4 DEF Range
  <2> QED  BY <2>1 DEF Left
<1> QED  BY <1>2, <1>10, <1>11 DEF UndoneTo, Entries

Deallocates(s, t, m) ==
    /\ \A k \in Maps \ {m} : t.map[k] = s.map[k]
    /\ Entries(t.map, m) \subseteq Entries(s.map, m)
    /\ Bare(s) => Forgotten(s, t)
LEMMA DeallocateKeeps ==
    ASSUME VmInv, NEW m \in Maps, NEW start, NEW end, vm_deallocate(m, start, end)
    PROVE  VmInv' /\ Deallocates(VmNow, VmNow', m)
<1>1. PICK s : s = VmNow  OBVIOUS
<1>2. PICK n : n = UserMemory - roots  OBVIOUS
<1>3. VmOK(s, n) /\ s.map = map  BY <1>1, <1>2, VmNowTyped DEF VmInv
<1>4. PICK t : t = Deallocated(s, m, start, end)  OBVIOUS
<1>5. /\ VmOK(t, n) /\ \A k \in Maps \ {m} : t.map[k] = s.map[k]
      /\ Entries(t.map, m) = {e \in Entries(s.map, m) : ~Within(e, start, end)}
      /\ Bare(s) => Forgotten(s, t)
  BY <1>3, <1>4, DeallocatedOK
<1>6. VmBecomes(t) /\ roots' = roots /\ procs' = procs /\ m \in procs  BY <1>1, <1>4 DEF vm_deallocate
<1>7. \A k \in Maps \ procs' : t.map[k].entries = <<>>  BY <1>3, <1>5, <1>6 DEF VmInv
<1>8. VmInv' /\ VmNow' = t  BY <1>2, <1>5, <1>6, <1>7, VmBecame DEF VmInv
<1>9. Deallocates(s, t, m)  BY <1>5 DEF Deallocates
<1> QED  BY <1>1, <1>8, <1>9

------------------------------------------------------------------------------
\* vm_map_release and vm_map_fork.

\* A map without entries becomes a new one.
LEMMA MapRenewed ==
    ASSUME NEW s, NEW n, VmOK(s, n), NEW m \in Maps, Entries(s.map, m) = {}, NEW t \in VmType,
           t.obj = s.obj, t.anon = s.anon, t.pte = s.pte, t.tlb = s.tlb,
           \A k \in Maps : t.map[k] = IF k = m THEN NewMap ELSE s.map[k],
           NEW c, PagesOK(t.anon, t.tables, t.nfree, c)
    PROVE  VmOK(t, c)
<1>1. NewMap \in MapType /\ MapOK(NewMap) /\ Range(NewMap.entries) = {}  BY NewMapOK
<1>2. \A k \in Maps : MapOK(t.map[k])  BY <1>1 DEF VmOK
<1>3. \A k \in Maps : Entries(t.map, k) = Entries(s.map, k)  BY <1>1 DEF Entries
<1>4. ViewsOK(t.map, t.obj)
  <2>1. ViewsOK(s.map, s.obj)  BY DEF VmOK
  <2> QED  BY <1>3, <2>1 DEF ViewsOK
<1>5. PtesOK(t.map, t.obj, t.anon, t.pte)
  <2>1. PtesOK(s.map, s.obj, s.anon, s.pte)  BY DEF VmOK
  <2>2. \A k \in Maps : \A x, a : Shows(s.map, s.obj, k, x, a) => Shows(t.map, t.obj, k, x, a)  BY <1>3 DEF Shows
  <2> QED  BY <2>1, <2>2 DEF PtesOK, PteOK
<1> QED  BY <1>2, <1>4, <1>5 DEF VmOK

\* pmap_free and the end of a map.
Ended(s, m) == [pmap_free(s, m) EXCEPT !.map[m] = NewMap]
LEMMA MapEnded ==
    ASSUME NEW s, NEW n, VmOK(s, n), NEW m \in Maps, Entries(s.map, m) = {}, NEW t, t = Ended(s, m)
    PROVE  /\ VmOK(t, n) /\ t.obj = s.obj /\ t.anon = s.anon
           /\ \A k \in Maps : t.map[k] = IF k = m THEN NewMap ELSE s.map[k]
<1>1. s \in VmType /\ s.tables \in [Maps -> SUBSET TableIds] /\ s.nfree \in Int  BY DEF VmOK, VmType
<1>2. PICK T \in SUBSET TableIds : T = s.tables[m]  BY <1>1
<1>3. PICK k \in Nat : k = Cardinality(T)  BY TablesOf
<1>4. PICK z \in Int : z = s.nfree + k  BY <1>1
<1>5. PICK b : b = [s.tables EXCEPT ![m] = {}]  OBVIOUS
<1>6. b \in [Maps -> SUBSET TableIds] /\ \A x \in Maps : b[x] = IF x = m THEN {} ELSE s.tables[x]  BY <1>1, <1>5
<1>7. PICK f : f = [s EXCEPT !.tables = b, !.nfree = z]  OBVIOUS
<1>8. f = pmap_free(s, m)
  <2>1. pmap_free(s, m) = [s EXCEPT !.tables[m] = {}, !.nfree = @ + k]  BY <1>2, <1>3 DEF pmap_free
  <2> QED  BY <1>1, <1>4, <1>5, <1>7, <2>1 DEF VmType
<1>9. /\ f.map = s.map /\ f.obj = s.obj /\ f.anon = s.anon /\ f.pte = s.pte /\ f.tables = b /\ f.nfree = z /\ f.tlb = s.tlb
      /\ f \in VmType
  BY <1>1, <1>6, <1>7 DEF VmType
<1>10. PICK p : p = NewMap  OBVIOUS
<1>11. p \in MapType  BY <1>10, NewMapOK
<1>12. t = WithMap(f, m, p)  BY <1>8, <1>10 DEF Ended, WithMap
<1>13. /\ t \in VmType /\ t.obj = f.obj /\ t.anon = f.anon /\ t.pte = f.pte /\ t.tables = f.tables
       /\ t.nfree = f.nfree /\ t.tlb = f.tlb
       /\ \A x \in Maps : t.map[x] = IF x = m THEN p ELSE f.map[x]
  BY <1>9, <1>11, <1>12, MapSet
<1>14. Cardinality(AllTables(s.tables)) = Cardinality(AllTables(b)) + Cardinality(T)
  <2>1. T \cap b[m] = {} /\ \A x \in Maps : s.tables[x] = IF x = m THEN b[m] \cup T ELSE b[x]  BY <1>2, <1>6
  <2> QED  BY <1>1, <1>6, <2>1, TablesChange
<1>15. IsFiniteSet(AllTables(b)) /\ Cardinality(AllTables(b)) \in Nat  BY <1>6, AllTablesFinite
<1>16. PICK c \in Nat : c = Cardinality(UsedAnons(s.anon))  BY UsedFinite
<1>17. n = s.nfree + c + Cardinality(AllTables(s.tables))  BY <1>16 DEF VmOK, PagesOK
<1>18. n = z + c + Cardinality(AllTables(b))  BY <1>1, <1>3, <1>4, <1>14, <1>15, <1>17
<1>19. PagesOK(t.anon, t.tables, t.nfree, n)  BY <1>9, <1>13, <1>15, <1>16, <1>18 DEF PagesOK
<1>20. \A x \in Maps : t.map[x] = IF x = m THEN NewMap ELSE s.map[x]  BY <1>9, <1>10, <1>13
<1>21. t.obj = s.obj /\ t.anon = s.anon /\ t.pte = s.pte /\ t.tlb = s.tlb  BY <1>9, <1>13
<1>22. VmOK(t, n)  BY <1>13, <1>19, <1>20, <1>21, MapRenewed
<1> QED  BY <1>20, <1>21, <1>22

LEMMA ReleaseKeeps ==
    ASSUME VmInv, NEW m \in Maps, vm_map_release(m)
    PROVE  VmInv' /\ Deallocates(VmNow, VmNow', m)
<1>1. PICK s : s = VmNow  OBVIOUS
<1>2. PICK n : n = UserMemory - roots  OBVIOUS
<1>3. VmOK(s, n) /\ s.map = map /\ s \in VmType  BY <1>1, <1>2, VmNowTyped DEF VmInv
<1>4. PICK d : d = Deallocated(s, m, 0, UserPages)  OBVIOUS
<1>5. /\ VmOK(d, n) /\ \A k \in Maps \ {m} : d.map[k] = s.map[k]
      /\ Entries(d.map, m) = {e \in Entries(s.map, m) : ~Within(e, 0, UserPages)}
      /\ Bare(s) => Forgotten(s, d)
  BY <1>3, <1>4, DeallocatedOK
<1>6. Entries(d.map, m) = {}
  <2> SUFFICES ASSUME NEW e \in Entries(s.map, m) PROVE Within(e, 0, UserPages)  BY <1>5
  <2>1. s.map[m] \in MapType /\ MapOK(s.map[m])  BY <1>3, VmTyped DEF VmOK
  <2>2. e.start \in Nat /\ e.end \in Nat /\ e.end <= UserPages  BY <2>1, EntrySpot DEF Entries
  <2> QED  BY <2>2 DEF Within
<1>7. PICK t : t = Ended(d, m)  OBVIOUS
<1>8. /\ VmOK(t, n) /\ t.obj = d.obj /\ t.anon = d.anon
      /\ \A k \in Maps : t.map[k] = IF k = m THEN NewMap ELSE d.map[k]
  BY <1>5, <1>6, <1>7, MapEnded
<1>9. VmBecomes(t) /\ roots' = roots /\ procs' = procs \ {m}  BY <1>1, <1>4, <1>7 DEF vm_map_release, Ended
<1>10. NewMap.entries = <<>>  BY NewMapOK
<1>11. \A k \in Maps \ procs' : t.map[k].entries = <<>>  BY <1>3, <1>5, <1>8, <1>9, <1>10 DEF VmInv
<1>12. procs' \subseteq Maps /\ roots' \in Nat  BY <1>9 DEF VmInv
<1>13. VmInv' /\ VmNow' = t  BY <1>2, <1>8, <1>9, <1>11, <1>12, VmBecame
<1>14. \A k \in Maps : Entries(t.map, k) = Entries(d.map, k)  BY <1>6, <1>8, NewMapOK DEF Entries
<1>15. \A o \in Objs : Hidden(t, o) <=> Hidden(d, o)  BY <1>14 DEF Hidden
<1>16. \A o, i : Holds(t, o, i) = Holds(d, o, i)  BY <1>8 DEF Holds
<1>17. Forgotten(s, d) => Forgotten(s, t)  BY <1>15, <1>16 DEF Forgotten
<1>18. Deallocates(s, t, m)  BY <1>5, <1>6, <1>8, <1>14, <1>17 DEF Deallocates
<1> QED  BY <1>1, <1>13, <1>18

\* The function that Forked defines.
ForkedBy(f, s, n, q, l) ==
    f = [i \in 0 .. l |-> IF i = 0 THEN s ELSE CopyEntry(f[i - 1], n, q[i])]

\* The recursion of Forked defines a function.
LEMMA ForkedExists ==
    ASSUME NEW s, NEW n, NEW q, NEW l \in Nat
    PROVE  \E f : ForkedBy(f, s, n, q, l)
<1> DEFINE T == {j \in Nat : ~\E f : ForkedBy(f, s, n, q, j)}
<1> SUFFICES T = {}  OBVIOUS
<1> SUFFICES ASSUME T # {} PROVE FALSE  OBVIOUS
<1>1. PICK j \in T : \A i \in T : j <= i  BY LeastNatural
<1>2. j # 0
  <2> DEFINE f == [i \in 0 .. 0 |-> s]
  <2>1. ForkedBy(f, s, n, q, 0)  BY DEF ForkedBy
  <2> HIDE DEF f
  <2> QED  BY <2>1
<1>3. j - 1 \in Nat /\ j - 1 \notin T  BY <1>1, <1>2
<1>4. PICK f : ForkedBy(f, s, n, q, j - 1)  BY <1>3
<1> DEFINE h == [i \in 0 .. j |-> IF i = j THEN CopyEntry(f[j - 1], n, q[j]) ELSE f[i]]
<1>5. \A i \in 0 .. j - 1 : f[i] = IF i = 0 THEN s ELSE CopyEntry(f[i - 1], n, q[i])
  BY <1>4 DEF ForkedBy
<1>6. ASSUME NEW i \in 0 .. j
      PROVE  h[i] = IF i = 0 THEN s ELSE CopyEntry(h[i - 1], n, q[i])
  <2>1. CASE i = j
    <3>1. h[i] = CopyEntry(f[j - 1], n, q[j]) /\ i # 0  BY <1>2, <2>1
    <3>2. h[i - 1] = f[j - 1]  BY <1>3, <2>1
    <3> HIDE DEF h
    <3> QED  BY <2>1, <3>1, <3>2
  <2>2. CASE i # j /\ i = 0
    <3>1. h[i] = f[0] /\ 0 \in 0 .. j - 1  BY <1>3, <2>2
    <3> HIDE DEF h
    <3> QED  BY <1>5, <2>2, <3>1
  <2>3. CASE i # j /\ i # 0
    <3>1. i \in 0 .. j - 1 /\ i - 1 \in 0 .. j - 1 /\ i - 1 # j /\ i - 1 \in 0 .. j  BY <1>1, <2>3
    <3>2. h[i] = f[i] /\ h[i - 1] = f[i - 1]  BY <2>3, <3>1
    <3> HIDE DEF h
    <3> QED  BY <1>5, <2>3, <3>1, <3>2
  <2> QED  BY <2>1, <2>2, <2>3
<1>7. ForkedBy(h, s, n, q, j)
  <2>1. h = [i \in 0 .. j |-> h[i]]  OBVIOUS
  <2> HIDE DEF h
  <2> QED  BY <1>6, <2>1 DEF ForkedBy
<1> HIDE DEF h
<1> QED  BY <1>1, <1>7

\* vm_map_new, for the child.
Born(s, n) == [s EXCEPT !.map[n] = NewMap, !.nfree = @ - 1]
LEMMA ChildBorn ==
    ASSUME NEW s, NEW c \in Int, VmOK(s, c), NEW n \in Maps, Entries(s.map, n) = {}, NEW t, t = Born(s, n)
    PROVE  /\ VmOK(t, c - 1) /\ t.obj = s.obj /\ t.anon = s.anon
           /\ t.map[n] = NewMap /\ \A k \in Maps \ {n} : t.map[k] = s.map[k]
<1>1. s \in VmType /\ s.nfree \in Int /\ s.map \in [Maps -> MapType]  BY DEF VmOK, VmType
<1>2. PICK z \in Int : z = s.nfree - 1  BY <1>1
<1>3. PICK p \in MapType : p = NewMap  BY NewMapOK
<1>4. PICK mp : mp = [s.map EXCEPT ![n] = p]  OBVIOUS
<1>5. mp \in [Maps -> MapType] /\ \A k \in Maps : mp[k] = IF k = n THEN p ELSE s.map[k]  BY <1>1, <1>4
<1>6. t = [s EXCEPT !.map = mp, !.nfree = z]  BY <1>1, <1>2, <1>3, <1>4 DEF Born, VmType
<1>7. /\ t.map = mp /\ t.obj = s.obj /\ t.anon = s.anon /\ t.pte = s.pte /\ t.tables = s.tables /\ t.nfree = z
      /\ t.tlb = s.tlb /\ t \in VmType
  BY <1>1, <1>5, <1>6 DEF VmType
<1>8. PICK u \in Nat : u = Cardinality(UsedAnons(s.anon))  BY UsedFinite
<1>9. IsFiniteSet(AllTables(s.tables)) /\ c = s.nfree + u + Cardinality(AllTables(s.tables))
  BY <1>8 DEF VmOK, PagesOK
<1>10. Cardinality(AllTables(s.tables)) \in Nat  BY <1>9, FS_CardinalityType
<1>11. c - 1 = z + u + Cardinality(AllTables(s.tables))  BY <1>1, <1>2, <1>9, <1>10
<1>12. PagesOK(t.anon, t.tables, t.nfree, c - 1)  BY <1>7, <1>8, <1>9, <1>11 DEF PagesOK
<1>13. \A k \in Maps : t.map[k] = IF k = n THEN NewMap ELSE s.map[k]  BY <1>3, <1>5, <1>7
<1>14. VmOK(t, c - 1)  BY <1>7, <1>12, <1>13, MapRenewed
<1> QED  BY <1>7, <1>13, <1>14

\* The first i entries of map m have their copies in n, at the same addresses; what other
\* objects hold is as before.
CopyOf(s, t, e, f) ==
    /\ f.start = e.start /\ f.end = e.end /\ f.obj \in UnusedObjs(s)
    /\ \A x \in VAs : Holds(t, f.obj, x) = Holds(s, e.obj, x)
Copies(s, t, m, n, i) ==
    /\ Len(t.map[n].entries) = i
    /\ \A j \in 1 .. i : CopyOf(s, t, s.map[m].entries[j], t.map[n].entries[j])
    /\ \A o \in Objs, x \in VAs : o \notin UnusedObjs(s) \/ Hidden(t, o) => Holds(t, o, x) = Holds(s, o, x)
LEMMA CopiesNext ==
    ASSUME NEW s, NEW c, VmOK(s, c), NEW m \in Maps, NEW n \in Maps, m # n, NEW i \in 1 .. Len(s.map[m].entries),
           NEW t, VmOK(t, c), Copies(s, t, m, n, i - 1), UnusedObjs(t) \subseteq UnusedObjs(s), Whole(t.map[n].arena),
           NEW e, e = s.map[m].entries[i], NEW o, NEW u, CopyMade(t, u, c, n, e, o)
    PROVE  Copies(s, u, m, n, i) /\ Whole(u.map[n].arena)
<1>1. /\ o \in UnusedObjs(t) /\ HoldsCopy(t, u, e.obj, o) /\ \A k \in Maps \ {n} : u.map[k] = t.map[k]
      /\ Fitted(t.map[n], u.map[n], e.end - e.start, e.start, TRUE, o)
  BY DEF CopyMade
<1>2. s \in VmType /\ s.map[m] \in MapType /\ MapOK(s.map[m])  BY VmTyped DEF VmOK
<1>3. PICK q \in Seq(EntryType) : q = s.map[m].entries  BY <1>2 DEF MapType
<1>4. i \in Nat /\ i >= 1 /\ DOMAIN q = 1 .. Len(q) /\ Len(q) \in Nat /\ i \in DOMAIN q  BY <1>3
<1>5. e \in Range(s.map[m].entries) /\ e \in Entries(s.map, m)  BY <1>3, <1>4 DEF Range, Entries
<1>6. e.start \in Nat /\ e.end \in Nat /\ e.start < e.end /\ e.end <= UserPages  BY <1>2, <1>5, EntrySpot
<1>7. e.obj \in Objs /\ e.obj \notin UnusedObjs(s)
  <2>1. e.obj \in Objs  BY <1>5, EntryObj
  <2>2. s.obj[e.obj].refcnt = 1  BY <1>5 DEF VmOK, ViewsOK
  <2> QED  BY <2>1, <2>2 DEF UnusedObjs
<1>8. PICK p \in MapType : p = t.map[n] /\ MapOK(p)
  <2>1. t \in VmType  BY DEF VmOK
  <2> QED  BY <2>1, VmTyped DEF VmOK
<1>9. PICK r \in Seq(EntryType) : r = p.entries  BY <1>8 DEF MapType
<1>10. Len(r) = i - 1 /\ DOMAIN r = 1 .. i - 1  BY <1>8, <1>9 DEF Copies
<1>11. \A j \in 1 .. i - 1 : CopyOf(s, t, q[j], r[j]) /\ j \in DOMAIN q /\ j # i
  BY <1>3, <1>4, <1>8, <1>9 DEF Copies
<1>12. \A f \in Range(p.entries) : f.end <= e.start \/ e.end <= f.start
  <2> SUFFICES ASSUME NEW j \in DOMAIN r PROVE r[j].end <= e.start \/ e.end <= r[j].start  BY <1>9 DEF Range
  <2>1. q[j].end <= e.start \/ e.end <= q[j].start  BY <1>2, <1>3, <1>4, <1>10, <1>11 DEF MapOK
  <2> QED  BY <1>10, <1>11, <2>1 DEF CopyOf
<1>13. PICK w : w = Entry(e.start, e.end - e.start, o)  OBVIOUS
<1>14. w.start = e.start /\ w.end = e.end /\ w.obj = o /\ w \in EntryType
  <2>1. e.start + (e.end - e.start) = e.end  BY <1>6
  <2>2. o \in Objs  BY <1>1 DEF UnusedObjs
  <2> QED  BY <1>6, <1>13, <2>1, <2>2 DEF Entry, EntryType
<1>15. EntryAdded(p, u.map[n], e.start, e.end - e.start, o)
  <2>1. PICK lo \in Nat : lo = e.start  BY <1>6
  <2>2. PICK hi \in Nat : hi = e.end  BY <1>6
  <2>3. EntryAdded(p, u.map[n], lo, hi - lo, o)  BY <1>1, <1>6, <1>8, <1>12, <2>1, <2>2, CopyPlaced
  <2> QED  BY <2>1, <2>2, <2>3
<1>16. /\ u.map[n].entries = Append(r, w) /\ Range(u.map[n].entries) = Range(r) \cup {w} /\ Whole(u.map[n].arena)
  BY <1>8, <1>9, <1>13, <1>15 DEF EntryAdded
<1>17. PICK z : z = u.map[n].entries  OBVIOUS
<1>18. Len(z) = i /\ z[i] = w /\ \A j \in 1 .. i - 1 : z[j] = r[j]
  <2>1. z = Append(r, w)  BY <1>16, <1>17
  <2> QED  BY <1>4, <1>10, <1>14, <2>1
<1>19. o \in Objs /\ o \in UnusedObjs(s) /\ Hidden(t, o)
  <2>1. o \in Objs /\ t.obj[o].refcnt = 0  BY <1>1 DEF UnusedObjs
  <2> QED  BY <1>1, <2>1, UnusedHidden
<1>20. \A d \in Objs, x \in VAs : Holds(u, d, x) = IF d = o THEN Holds(t, e.obj, x) ELSE Holds(t, d, x)
  BY <1>1 DEF HoldsCopy
<1>21. ASSUME NEW j \in 1 .. i PROVE CopyOf(s, u, q[j], z[j])
  <2>1. CASE j = i
    <3>1. \A x \in VAs : Holds(u, o, x) = Holds(s, e.obj, x)  BY <1>7, <1>19, <1>20 DEF Copies
    <3> QED  BY <1>3, <1>14, <1>18, <1>19, <2>1, <3>1 DEF CopyOf
  <2>2. CASE j # i
    <3>1. j \in 1 .. i - 1  BY <1>4, <2>2
    <3>2. CopyOf(s, t, q[j], r[j]) /\ z[j] = r[j]  BY <1>11, <1>18, <3>1
    <3>3. r[j] \in Entries(t.map, n)  BY <1>8, <1>9, <1>10, <3>1 DEF Entries, Range
    <3>4. r[j].obj # o /\ r[j].obj \in Objs  BY <1>19, <3>2, <3>3 DEF Hidden, CopyOf, UnusedObjs
    <3> QED  BY <1>20, <3>2, <3>4 DEF CopyOf
  <2> QED  BY <2>1, <2>2
<1>22. ASSUME NEW d \in Objs, NEW x \in VAs, d \notin UnusedObjs(s) \/ Hidden(u, d)
       PROVE  Holds(u, d, x) = Holds(s, d, x)
  <2>1. d # o
    <3>1. w \in Entries(u.map, n)  BY <1>16 DEF Entries
    <3> QED  BY <1>14, <1>19, <1>22, <3>1 DEF Hidden
  <2>2. Hidden(u, d) => Hidden(t, d)
    <3>1. \A k \in Maps : Entries(t.map, k) \subseteq Entries(u.map, k)  BY <1>1, <1>8, <1>9, <1>16 DEF Entries
    <3> QED  BY <3>1 DEF Hidden
  <2> QED  BY <1>20, <1>22, <2>1, <2>2 DEF Copies
<1> QED  BY <1>3, <1>16, <1>17, <1>18, <1>21, <1>22 DEF Copies

ForkedTo(s, t, c, m, n, i) ==
    /\ VmOK(t, c) /\ \A k \in Maps \ {n} : t.map[k] = s.map[k]
    /\ Cardinality(UnusedObjs(t)) = Cardinality(UnusedObjs(s)) - i
    /\ UnusedObjs(t) \subseteq UnusedObjs(s) /\ Whole(t.map[n].arena)
    /\ Copies(s, t, m, n, i)

LEMMA UnusedObjsFinite == ASSUME NEW s PROVE IsFiniteSet(UnusedObjs(s)) /\ Cardinality(UnusedObjs(s)) \in Nat
<1>1. UnusedObjs(s) \subseteq Objs  BY DEF UnusedObjs
<1>2. IsFiniteSet(Objs)  BY VmAssumption
<1>3. IsFiniteSet(UnusedObjs(s))  BY <1>1, <1>2, FS_Subset
<1> QED  BY <1>3, FS_CardinalityType

LEMMA ForkedNext ==
    ASSUME NEW s, NEW c, VmOK(s, c), NEW m \in Maps, NEW n \in Maps, m # n, NEW q, q = s.map[m].entries,
           NEW i \in 1 .. Len(q), Len(q) <= Cardinality(UnusedObjs(s)),
           NEW t, ForkedTo(s, t, c, m, n, i - 1), NEW u, u = CopyEntry(t, n, q[i])
    PROVE  ForkedTo(s, u, c, m, n, i)
<1>1. s \in VmType /\ s.map[m] \in MapType /\ MapOK(s.map[m])  BY VmTyped DEF VmOK
<1>2. q \in Seq(EntryType)  BY <1>1 DEF MapType
<1>3. PICK l \in Nat : l = Len(q)  BY <1>2
<1>4. i \in DOMAIN q /\ i \in Nat /\ i >= 1 /\ i <= l  BY <1>2, <1>3
<1>5. VmOK(t, c) /\ \A k \in Maps \ {n} : t.map[k] = s.map[k]  BY DEF ForkedTo
<1>6. PICK e \in Range(q) : e = q[i]  BY <1>4 DEF Range
<1>7. e \in Entries(t.map, m)  BY <1>5, <1>6 DEF Entries
<1>8. PICK a \in Nat : a = Cardinality(UnusedObjs(s))  BY UnusedObjsFinite
<1>9. PICK U : U = UnusedObjs(t)  OBVIOUS
<1>10. IsFiniteSet(U) /\ Cardinality(U) \in Nat  BY <1>9, UnusedObjsFinite
<1>11. Cardinality(U) = a - (i - 1)  BY <1>8, <1>9 DEF ForkedTo
<1>12. Cardinality(U) > 0  BY <1>3, <1>4, <1>8, <1>11
<1>13. U # {}  BY <1>10, <1>12, FS_EmptySet
<1>14. \E p \in Objs : t.obj[p].refcnt = 0  BY <1>9, <1>13 DEF UnusedObjs
<1>15. PICK o : o = UnusedObj(t)  OBVIOUS
<1>16. CopyMade(t, u, c, n, e, o)  BY <1>5, <1>6, <1>7, <1>14, <1>15, EntryCopied
<1>17. /\ UnusedObjs(u) = U \ {o} /\ o \in U /\ VmOK(u, c) /\ \A k \in Maps \ {n} : u.map[k] = t.map[k]
  BY <1>9, <1>16 DEF CopyMade
<1>18. Cardinality(U \ {o}) = Cardinality(U) - 1  BY <1>10, <1>17, FS_RemoveElement
<1>19. Cardinality(UnusedObjs(u)) = a - i  BY <1>4, <1>10, <1>11, <1>17, <1>18
<1>20. U \subseteq UnusedObjs(s) /\ Whole(t.map[n].arena) /\ Copies(s, t, m, n, i - 1)  BY <1>9 DEF ForkedTo
<1>21. Copies(s, u, m, n, i) /\ Whole(u.map[n].arena)
  <2>1. UnusedObjs(t) \subseteq UnusedObjs(s) /\ e = s.map[m].entries[i] /\ i \in 1 .. Len(s.map[m].entries)
    BY <1>6, <1>9, <1>20
  <2> QED  BY <1>5, <1>16, <1>20, <2>1, CopiesNext
<1>22. UnusedObjs(u) \subseteq UnusedObjs(s)  BY <1>17, <1>20
<1> QED  BY <1>5, <1>8, <1>17, <1>19, <1>21, <1>22 DEF ForkedTo

LEMMA ForkedOK ==
    ASSUME NEW s, NEW c \in Int, VmOK(s, c), NEW m \in Maps, NEW n \in Maps, m # n, Entries(s.map, n) = {},
           Len(s.map[m].entries) <= Cardinality(UnusedObjs(s)), NEW t, t = Forked(s, m, n)
    PROVE  /\ VmOK(t, c - 1) /\ \A k \in Maps \ {n} : t.map[k] = s.map[k]
           /\ Copies(s, t, m, n, Len(s.map[m].entries))
<1>1. s \in VmType /\ s.map[m] \in MapType /\ MapOK(s.map[m])  BY VmTyped DEF VmOK
<1>2. PICK q \in Seq(EntryType) : q = s.map[m].entries  BY <1>1 DEF MapType
<1>3. PICK l \in Nat : l = Len(q)  BY <1>2
<1>4. PICK b : b = Born(s, n)  OBVIOUS
<1>5. PICK d : d = c - 1  OBVIOUS
<1>6. /\ VmOK(b, d) /\ b.obj = s.obj /\ b.anon = s.anon
      /\ b.map[n] = NewMap /\ \A k \in Maps \ {n} : b.map[k] = s.map[k]
  BY <1>4, <1>5, ChildBorn
<1>7. q = b.map[m].entries /\ UnusedObjs(b) = UnusedObjs(s)  BY <1>2, <1>6 DEF UnusedObjs
<1> DEFINE F(f) == f = [i \in 0 .. l |-> IF i = 0 THEN b ELSE CopyEntry(f[i - 1], n, q[i])]
<1>8. PICK f : f = CHOOSE g : F(g)  OBVIOUS
<1>9. t = f[l]
  <2>1. Forked(s, m, n) = (CHOOSE g : F(g))[l]  BY <1>2, <1>3, <1>4 DEF Forked, Born
  <2> QED  BY <1>8, <2>1
<1>10. F(f)
  <2>1. PICK g : ForkedBy(g, b, n, q, l)  BY ForkedExists
  <2>2. F(g)  BY <2>1 DEF ForkedBy
  <2>3. \E x : F(x)  BY <2>2
  <2> QED  BY <1>8, <2>3
<1>11. \A i \in 0 .. l : f[i] = IF i = 0 THEN b ELSE CopyEntry(f[i - 1], n, q[i])  BY <1>10
<1> HIDE DEF F
<1>12. Len(q) <= Cardinality(UnusedObjs(b))  BY <1>2, <1>7
<1> DEFINE T == {i \in Nat : i <= l /\ ~ForkedTo(b, f[i], d, m, n, i)}
<1>13. T = {}
  <2> SUFFICES ASSUME T # {} PROVE FALSE  OBVIOUS
  <2>1. PICK j \in T : \A i \in T : j <= i  BY LeastNatural
  <2>2. j \in 0 .. l  BY <2>1
  <2>3. j # 0
    <3>1. f[0] = b  BY <1>11
    <3>2. ForkedTo(b, b, d, m, n, 0)
      <4>1. Cardinality(UnusedObjs(b)) \in Nat  BY UnusedObjsFinite
      <4>2. Cardinality(UnusedObjs(b)) = Cardinality(UnusedObjs(b)) - 0  BY <4>1
      <4>3. Whole(b.map[n].arena) /\ Len(b.map[n].entries) = 0  BY <1>6, NewMapOK
      <4>4. Copies(b, b, m, n, 0)  BY <4>3 DEF Copies
      <4> QED  BY <1>6, <4>2, <4>3, <4>4 DEF ForkedTo
    <3> QED  BY <2>1, <3>1, <3>2
  <2>4. j - 1 \in Nat /\ j - 1 <= l /\ j - 1 \notin T  BY <2>1, <2>2, <2>3
  <2>5. PICK x : x = f[j - 1]  OBVIOUS
  <2>6. ForkedTo(b, x, d, m, n, j - 1)  BY <2>4, <2>5
  <2>7. PICK y : y = f[j]  OBVIOUS
  <2>8. y = CopyEntry(x, n, q[j])  BY <1>11, <2>2, <2>3, <2>5, <2>7
  <2>9. j \in 1 .. Len(q)  BY <1>3, <2>2, <2>3
  <2>10. ForkedTo(b, y, d, m, n, j)  BY <1>6, <1>7, <1>12, <2>6, <2>8, <2>9, ForkedNext
  <2> QED  BY <2>1, <2>7, <2>10
<1>14. ForkedTo(b, t, d, m, n, l)
  <2>1. l \notin T  BY <1>13
  <2> QED  BY <1>9, <2>1
<1> HIDE DEF T
<1>15. VmOK(t, c - 1) /\ \A k \in Maps \ {n} : t.map[k] = s.map[k]  BY <1>5, <1>6, <1>14 DEF ForkedTo
<1>16. Copies(s, t, m, n, Len(s.map[m].entries))
  <2>1. Copies(b, t, m, n, l)  BY <1>14 DEF ForkedTo
  <2>2. \A o, x : Holds(b, o, x) = Holds(s, o, x)  BY <1>6 DEF Holds
  <2>3. UnusedObjs(b) = UnusedObjs(s) /\ b.map[m] = s.map[m]  BY <1>6, <1>7
  <2>4. \A e, g : CopyOf(b, t, e, g) => CopyOf(s, t, e, g)  BY <2>2, <2>3 DEF CopyOf
  <2> QED  BY <1>2, <1>3, <2>1, <2>2, <2>3, <2>4 DEF Copies
<1> QED  BY <1>15, <1>16

Forks(s, t, m, n) ==
    /\ Entries(s.map, n) = {} /\ \A k \in Maps \ {n} : t.map[k] = s.map[k]
    /\ Copies(s, t, m, n, Len(s.map[m].entries))
LEMMA ForkKeeps ==
    ASSUME VmInv, NEW m \in Maps, NEW n \in Maps, vm_map_fork(m, n)
    PROVE  VmInv' /\ Forks(VmNow, VmNow', m, n)
<1>1. PICK s : s = VmNow  OBVIOUS
<1>2. roots \in Nat /\ UserMemory \in Nat /\ procs \subseteq Maps  BY VmAssumption DEF VmInv
<1>3. PICK c \in Int : c = UserMemory - roots  BY <1>2
<1>4. VmOK(s, c) /\ s.map = map /\ s.obj = obj  BY <1>1, <1>3, VmNowTyped DEF VmInv
<1>5. /\ m \in procs /\ n \in Maps \ procs /\ Unused(Len(map[m].entries)) /\ VmBecomes(Forked(VmNow, m, n))
      /\ procs' = procs \cup {n} /\ roots' = roots + 1
  BY DEF vm_map_fork
<1>6. Entries(s.map, n) = {}
  <2>1. s.map[n].entries = <<>>  BY <1>4, <1>5 DEF VmInv
  <2> QED  BY <2>1 DEF Entries, Range
<1>7. Len(s.map[m].entries) <= Cardinality(UnusedObjs(s))
  <2>1. PICK x \in Nat : x = Cardinality(UnusedObjs(s))  BY UnusedObjsFinite
  <2>2. PICK l \in Nat : l = Len(s.map[m].entries)
    <3>1. s.map[m].entries \in Seq(EntryType)  BY <1>4, VmTyped DEF VmOK, MapType
    <3> QED  BY <3>1
  <2>3. x >= l  BY <1>4, <1>5, <2>1, <2>2 DEF Unused, UnusedObjs
  <2> QED  BY <2>1, <2>2, <2>3
<1>8. PICK t : t = Forked(s, m, n)  OBVIOUS
<1>9. m # n  BY <1>5
<1>10. /\ VmOK(t, c - 1) /\ \A k \in Maps \ {n} : t.map[k] = s.map[k]
       /\ Copies(s, t, m, n, Len(s.map[m].entries))
  BY <1>4, <1>6, <1>7, <1>8, <1>9, ForkedOK
<1>11. VmBecomes(t)  BY <1>1, <1>5, <1>8
<1>12. c - 1 = UserMemory - roots'  BY <1>2, <1>3, <1>5
<1>13. roots' \in Nat /\ procs' \subseteq Maps  BY <1>2, <1>5
<1>14. \A k \in Maps \ procs' : t.map[k].entries = <<>>  BY <1>4, <1>5, <1>10 DEF VmInv
<1>15. VmInv' /\ VmNow' = t  BY <1>10, <1>11, <1>12, <1>13, <1>14, VmBecame
<1>16. Forks(s, t, m, n)  BY <1>6, <1>10 DEF Forks
<1> QED  BY <1>1, <1>15, <1>16

------------------------------------------------------------------------------
\* Every call, access and fault keeps the invariant.
LEMMA VmStep == ASSUME VmInv, VmNext PROVE VmInv'
<1>1. ASSUME NEW m \in Maps, NEW size \in Sizes, vm_allocate(m, size, 0, FALSE) PROVE VmInv'
  <2>1. PICK z \in Nat : z = 0  OBVIOUS
  <2>2. PICK w \in BOOLEAN : w = FALSE  OBVIOUS
  <2>3. vm_allocate(m, size, z, w)  BY <1>1, <2>1, <2>2
  <2> QED  BY <2>3, AllocateKeeps
<1>2. ASSUME NEW m \in Maps, NEW size \in Sizes, NEW va \in VAs, vm_allocate(m, size, va, TRUE) PROVE VmInv'
  <2>1. PICK w \in BOOLEAN : w = TRUE  OBVIOUS
  <2>2. va \in Nat  BY VAsFinite
  <2>3. vm_allocate(m, size, va, w)  BY <1>2, <2>1
  <2> QED  BY <2>2, <2>3, AllocateKeeps
<1>3. ASSUME NEW m \in Maps, NEW start \in VAs, NEW last \in VAs, vm_deallocate(m, start, last + 1) PROVE VmInv'
  <2>1. PICK z : z = last + 1  OBVIOUS
  <2>2. vm_deallocate(m, start, z)  BY <1>3, <2>1
  <2> QED  BY <2>2, DeallocateKeeps
<1>4. ASSUME NEW m \in Maps, NEW n \in Maps, vm_map_fork(m, n) PROVE VmInv'  BY <1>4, ForkKeeps
<1>5. ASSUME NEW m \in Maps, vm_map_release(m) PROVE VmInv'  BY <1>5, ReleaseKeeps
<1>6. ASSUME NEW m \in Maps, NEW va \in VAs, TlbFill(m, va) PROVE VmInv'  BY <1>6, TlbFillKeeps
<1>7. ASSUME NEW m \in Maps, vm_activate(m) PROVE VmInv'  BY <1>7, ActivateKeeps
<1>8. ASSUME NEW m \in Maps, NEW va \in VAs, NEW v \in Values, Store(m, va, v) PROVE VmInv'  BY <1>8, StoreKeeps
<1>9. ASSUME NEW m \in Maps, NEW va \in VAs, NEW write \in BOOLEAN, vm_fault(m, va, write) PROVE VmInv'
  BY <1>9, FaultKeeps
<1> QED  BY <1>1, <1>2, <1>3, <1>4, <1>5, <1>6, <1>7, <1>8, <1>9 DEF VmNext

\* The address spaces' invariant holds in every behaviour of the system's memory.
LEMMA VmAlways == Spec => []VmInv
<1>1. Init => VmInv  BY VmStart DEF Init
<1>2. VmInv /\ [Next]_<<part, kmem_vars, vm_vars, page_vars>> => VmInv'
  <2> SUFFICES ASSUME VmInv, [Next]_<<part, kmem_vars, vm_vars, page_vars>> PROVE VmInv'
    OBVIOUS
  <2>1. CASE VmNext  BY <2>1, VmStep
  <2>2. CASE UNCHANGED vm_vars
    <3>1. /\ procs' = procs /\ map' = map /\ obj' = obj /\ anon' = anon /\ pte' = pte /\ tables' = tables
          /\ nfree' = nfree /\ tlb' = tlb /\ roots' = roots
      BY <2>2 DEF vm_vars
    <3>2. VmNow' = VmNow  BY <3>1 DEF VmNow
    <3> QED  BY <3>1, <3>2 DEF VmInv
  <2> QED  BY <2>1, <2>2 DEF Next
<1> QED  BY <1>1, <1>2, PTL DEF Spec

\* A translation leads to the page that is mapped there now, and allows writing only while
\* nobody shares it, whatever the maps, objects and page tables are and however mapping,
\* forking, faulting, unmapping and the processor's caching follow each other; and the pv
\* tables are exact (fault_aobj and vm_map_fork of vm.c, pmap_enter, pmap_unenter and
\* pmap_reenter_all_readonly of x86_64/vm.c).
THEOREM TranslationsStayCurrent == Spec => []TranslationsCurrent
BY VmAlways, VmTranslations, PTL

\* The entries of a map are its arena's segments, the reference counts are the references,
\* and every page is accounted for, after any sequence of calls (vm_map_object,
\* unmap_entry, amap_copy, anon_release and pmap_free).
THEOREM BooksBalance == Spec => []Bookkeeping
BY VmAlways, VmBooks, PTL

------------------------------------------------------------------------------
\* Address spaces as objects with contents of their own.

\* What a map shows at an address.
LEMMA ViewAt ==
    ASSUME NEW p \in MapType, MapOK(p), NEW va \in VAs
    PROVE  /\ \A e \in Range(p.entries) : va \in e.start .. e.end - 1 =>
                  ViewOf(p)[va] = <<e.obj, va - e.start>> /\ ViewOf(p)[va] # NoView
           /\ ViewOf(p)[va] # NoView => \E e \in Range(p.entries) : va \in e.start .. e.end - 1
<1>1. PICK i : i = map_entry_for_addr(p, va)  OBVIOUS
<1>2. /\ i # 0 => i \in DOMAIN p.entries /\ va \in p.entries[i].start .. p.entries[i].end - 1
      /\ \A e \in Range(p.entries) : va \in e.start .. e.end - 1 => i # 0 /\ p.entries[i] = e
  BY <1>1, EntryFound
<1>3. ViewOf(p)[va] = IF i = 0 THEN NoView ELSE <<p.entries[i].obj, va - p.entries[i].start>>  BY <1>1 DEF ViewOf
<1>4. \A x, y : <<x, y>> # NoView  BY DEF NoView
<1>5. ASSUME NEW e \in Range(p.entries), va \in e.start .. e.end - 1
      PROVE  ViewOf(p)[va] = <<e.obj, va - e.start>> /\ ViewOf(p)[va] # NoView
  <2>1. i # 0 /\ p.entries[i] = e  BY <1>2, <1>5
  <2>2. ViewOf(p)[va] = <<e.obj, va - e.start>>  BY <1>3, <2>1
  <2> QED  BY <1>4, <2>2
<1>6. ASSUME ViewOf(p)[va] # NoView PROVE \E e \in Range(p.entries) : va \in e.start .. e.end - 1
  <2>1. i # 0  BY <1>3, <1>6
  <2> QED  BY <1>2, <2>1 DEF Range
<1> QED  BY <1>5, <1>6

\* The views and contents of a state.
ViewIn(s) == [m \in Maps |-> ViewOf(s.map[m])]
ContentsIn(s) == [o \in Objs |-> [i \in VAs |-> Holds(s, o, i)]]
LEMMA ViewTyped ==
    ASSUME NEW s
    PROVE  /\ \A m \in Maps : ViewIn(s)[m] = ViewOf(s.map[m]) /\ ViewIn(s)[m] = [va \in VAs |-> ViewIn(s)[m][va]]
           /\ \A o \in Objs, i \in VAs : ContentsIn(s)[o][i] = Holds(s, o, i)
           /\ \A o \in Objs : ContentsIn(s)[o] = [i \in VAs |-> Holds(s, o, i)]
<1>1. \A m \in Maps : ViewIn(s)[m] = ViewOf(s.map[m])  BY DEF ViewIn
<1>2. \A p : ViewOf(p) = [va \in VAs |-> ViewOf(p)[va]]  BY DEF ViewOf
<1>3. \A o \in Objs : ContentsIn(s)[o] = [i \in VAs |-> Holds(s, o, i)]  BY DEF ContentsIn
<1> QED  BY <1>1, <1>2, <1>3

LEMMA ViewNow == View = ViewIn(VmNow) /\ Contents = ContentsIn(VmNow)
<1>1. PICK s : s = VmNow  OBVIOUS
<1>2. s.map = map /\ s.obj = obj /\ s.anon = anon  BY <1>1 DEF VmNow
<1>3. View = ViewIn(s)  BY <1>2 DEF View, ViewIn
<1>4. Contents = ContentsIn(s)  BY <1>2 DEF Contents, ContentsIn, Holds
<1> QED  BY <1>1, <1>3, <1>4
LEMMA ViewThen == View' = ViewIn(VmNow') /\ Contents' = ContentsIn(VmNow')
<1>1. PICK s : s = VmNow'  OBVIOUS
<1>2. s.map = map' /\ s.obj = obj' /\ s.anon = anon'  BY <1>1 DEF VmNow
<1>3. View' = ViewIn(s)  BY <1>2 DEF View, ViewIn
<1>4. Contents' = ContentsIn(s)  BY <1>2 DEF Contents, ContentsIn, Holds
<1> QED  BY <1>1, <1>3, <1>4

\* An address of a map, in a good state.
LEMMA SpaceAt ==
    ASSUME NEW s, NEW n, VmOK(s, n), NEW m \in Maps, NEW va \in VAs
    PROVE  /\ \A e \in Entries(s.map, m) : va \in e.start .. e.end - 1 =>
                  ViewIn(s)[m][va] = <<e.obj, va - e.start>> /\ ViewIn(s)[m][va] # NoView
           /\ ViewIn(s)[m][va] # NoView => \E e \in Entries(s.map, m) : va \in e.start .. e.end - 1
<1>1. PICK p : p = s.map[m]  OBVIOUS
<1>2. s \in VmType  BY DEF VmOK
<1>3. p \in MapType /\ MapOK(p)  BY <1>1, <1>2, VmTyped DEF VmOK
<1>4. ViewIn(s)[m] = ViewOf(p) /\ Entries(s.map, m) = Range(p.entries)  BY <1>1, ViewTyped DEF Entries
<1> QED  BY <1>3, <1>4, ViewAt

\* The objects that are shown are those of the entries.
LEMMA ShownAre ==
    ASSUME NEW s, NEW n, VmOK(s, n)
    PROVE  /\ Spaces!Shown(ViewIn(s)) \subseteq Objs
           /\ \A o \in Objs : o \in Spaces!Shown(ViewIn(s)) <=> ~Hidden(s, o)
<1>1. PICK v : v = ViewIn(s)  OBVIOUS
<1>2. ASSUME NEW o \in Spaces!Shown(v) PROVE o \in Objs /\ ~Hidden(s, o)
  <2>1. PICK y \in {y \in Maps \X VAs : v[y[1]][y[2]] # NoView} : o = v[y[1]][y[2]][1]  BY DEF Spaces!Shown
  <2>2. PICK m \in Maps : m = y[1]  BY <2>1
  <2>3. PICK va \in VAs : va = y[2]  BY <2>1
  <2>4. v[m][va] # NoView /\ o = v[m][va][1]  BY <2>1, <2>2, <2>3
  <2>5. PICK e \in Entries(s.map, m) : va \in e.start .. e.end - 1  BY <1>1, <2>4, SpaceAt
  <2>6. v[m][va] = <<e.obj, va - e.start>>  BY <1>1, <2>5, SpaceAt
  <2>7. o = e.obj /\ e.obj \in Objs  BY <2>4, <2>6, EntryObj
  <2> QED  BY <2>7 DEF Hidden
<1>3. ASSUME NEW o \in Objs, ~Hidden(s, o) PROVE o \in Spaces!Shown(v)
  <2>1. PICK m \in Maps : \E e \in Entries(s.map, m) : e.obj = o  BY <1>3 DEF Hidden
  <2>2. PICK e \in Entries(s.map, m) : e.obj = o  BY <2>1
  <2>3. s \in VmType  BY DEF VmOK
  <2>4. s.map[m] \in MapType /\ MapOK(s.map[m])  BY <2>3, VmTyped DEF VmOK
  <2>5. e.start \in Nat /\ e.end \in Nat /\ e.start < e.end  BY <2>4, EntrySpot DEF Entries
  <2>6. PICK va \in e.start .. e.end - 1 : va = e.start  BY <2>5
  <2>7. va \in VAs  BY EntryOffset
  <2>8. v[m][va] = <<e.obj, va - e.start>> /\ v[m][va] # NoView  BY <1>1, <2>7, SpaceAt
  <2>9. PICK y : y = <<m, va>>  OBVIOUS
  <2>10. y \in Maps \X VAs /\ y[1] = m /\ y[2] = va  BY <2>7, <2>9
  <2>11. v[y[1]][y[2]] # NoView /\ v[y[1]][y[2]][1] = o  BY <2>2, <2>8, <2>10
  <2> QED  BY <2>10, <2>11 DEF Spaces!Shown
<1> QED  BY <1>1, <1>2, <1>3

\* A call after which every object holds what it held and the maps are the same changes nothing.
LEMMA Stutters ==
    ASSUME NEW s, NEW t, s = VmNow, t = VmNow', t.map = s.map, Unaltered(s, t)
    PROVE  UNCHANGED <<View, Contents>> /\ (Bare(s) => Bare(t))
<1>1. View' = View  BY ViewNow, ViewThen DEF ViewIn
<1>2. ContentsIn(t) = ContentsIn(s)  BY DEF ContentsIn, Unaltered
<1>3. Contents' = Contents  BY <1>2, ViewNow, ViewThen
<1>4. \A o \in Objs : Hidden(t, o) <=> Hidden(s, o)  BY DEF Hidden
<1>5. Bare(s) => Bare(t)  BY <1>4 DEF Bare, Unaltered
<1> QED  BY <1>1, <1>3, <1>5

\* vm_allocate maps a new object, or leaves everything as it was.
LEMMA AllocateMaps ==
    ASSUME NEW s, NEW t, s = VmNow, t = VmNow', NEW n, VmOK(s, n), NEW k, VmOK(t, k), Bare(s),
           NEW m \in Maps, ShowsNew(s, t, m)
    PROVE  Bare(t) /\ (Spaces!Next \/ UNCHANGED <<View, Contents>>)
<1>1. Unaltered(s, t) /\ \A j \in Maps \ {m} : t.map[j] = s.map[j]  BY DEF ShowsNew
<1>2. s \in VmType /\ t \in VmType  BY DEF VmOK
<1>3. CASE t.map[m] = s.map[m]
  <2>1. \A j \in Maps : t.map[j] = s.map[j]  BY <1>1, <1>3
  <2>2. t.map \in [Maps -> MapType] /\ s.map \in [Maps -> MapType]  BY <1>2 DEF VmType
  <2>3. t.map = s.map  BY <2>1, <2>2
  <2> QED  BY <1>1, <2>3, Stutters
<1>4. CASE t.map[m] # s.map[m]
  <2>1. PICK e : NewlyShown(s, t, m, e)  BY <1>4 DEF ShowsNew
  <2>2. PICK o \in Objs : o = e.obj /\ s.obj[o].refcnt = 0  BY <2>1 DEF NewlyShown, UnusedObjs
  <2>3. Entries(t.map, m) = Entries(s.map, m) \cup {e}  BY <2>1 DEF NewlyShown, Entries
  <2>4. Hidden(s, o) /\ \A i \in VAs : s.obj[o].amap[i] = NoAnon  BY <2>2, UnusedHidden
  <2>5. t.map[m] \in MapType /\ MapOK(t.map[m])  BY <1>2, VmTyped DEF VmOK
  <2>6. e \in Entries(t.map, m)  BY <2>3
  <2>7. e.start \in Nat /\ e.end \in Nat /\ e.start < e.end /\ e.end <= UserPages  BY <2>5, <2>6, EntrySpot DEF Entries
  <2>8. PICK base \in VAs : base = e.start  BY <2>7, VmAssumption DEF VAs
  <2>9. PICK end \in VAs : end = e.end - 1  BY <2>7, VmAssumption DEF VAs
  <2>10. ASSUME NEW va \in VAs
         PROVE  /\ va \in base .. end => /\ ViewIn(s)[m][va] = NoView
                                         /\ ViewIn(t)[m][va] = <<o, va - base>>
                /\ va \notin base .. end => ViewIn(t)[m][va] = ViewIn(s)[m][va]
    <3>1. ASSUME va \in base .. end, ViewIn(s)[m][va] # NoView PROVE FALSE
      <4>1. PICK f \in Entries(s.map, m) : va \in f.start .. f.end - 1  BY <3>1, SpaceAt
      <4>2. va \in e.start .. e.end - 1  BY <2>8, <2>9, <3>1
      <4>3. va \in Int /\ f \in Entries(t.map, m)  BY <2>3, VAsFinite
      <4>4. f = e  BY <2>5, <2>6, <4>1, <4>2, <4>3, OneEntry DEF Entries
      <4> QED  BY <2>2, <2>4, <4>4 DEF Hidden
    <3>2. ASSUME va \in base .. end PROVE ViewIn(t)[m][va] = <<o, va - base>>
      <4>1. va \in e.start .. e.end - 1  BY <2>8, <2>9, <3>2
      <4>2. ViewIn(t)[m][va] = <<e.obj, va - e.start>>  BY <2>6, <4>1, SpaceAt
      <4> QED  BY <2>2, <2>8, <4>2
    <3>3. ASSUME va \notin base .. end PROVE ViewIn(t)[m][va] = ViewIn(s)[m][va]
      <4>1. va \notin e.start .. e.end - 1  BY <2>8, <2>9, <3>3
      <4>2. CASE ViewIn(s)[m][va] # NoView
        <5>1. PICK f \in Entries(s.map, m) : va \in f.start .. f.end - 1  BY <4>2, SpaceAt
        <5>2. ViewIn(s)[m][va] = <<f.obj, va - f.start>>  BY <5>1, SpaceAt
        <5>3. f \in Entries(t.map, m)  BY <2>3
        <5>4. ViewIn(t)[m][va] = <<f.obj, va - f.start>>  BY <5>1, <5>3, SpaceAt
        <5> QED  BY <5>2, <5>4
      <4>3. CASE ViewIn(s)[m][va] = NoView
        <5> SUFFICES ASSUME ViewIn(t)[m][va] # NoView PROVE FALSE  BY <4>3
        <5>1. PICK f \in Entries(t.map, m) : va \in f.start .. f.end - 1  BY SpaceAt
        <5>2. f \in Entries(s.map, m)  BY <2>3, <4>1, <5>1
        <5> QED  BY <4>3, <5>1, <5>2, SpaceAt
      <4> QED  BY <4>2, <4>3
    <3> QED  BY <3>1, <3>2, <3>3
  <2>11. o \notin Spaces!Shown(View)  BY <2>4, ShownAre, ViewNow
  <2>12. Contents[o] = Spaces!AllZero
    <3>1. \A i \in VAs : Holds(s, o, i) = 0  BY <2>4 DEF Holds
    <3>2. Contents[o] = [i \in VAs |-> Holds(s, o, i)]  BY ViewNow, ViewTyped
    <3>3. [i \in VAs |-> Holds(s, o, i)] = [i \in VAs |-> 0]  BY <3>1
    <3> QED  BY <3>2, <3>3 DEF Spaces!AllZero
  <2>13. \A va \in base .. end : View[m][va] = NoView
    <3>1. base .. end \subseteq VAs  BY VmAssumption DEF VAs
    <3> QED  BY <2>10, <3>1, ViewNow
  <2>14. View' = [View EXCEPT ![m] = [va \in VAs |-> IF va \in base .. end THEN <<o, va - base>> ELSE @[va]]]
    <3>1. PICK w : w = [va \in VAs |-> IF va \in base .. end THEN <<o, va - base>> ELSE View[m][va]]  OBVIOUS
    <3>2. View = ViewIn(s) /\ View' = ViewIn(t)  BY ViewNow, ViewThen
    <3>3. ViewIn(t)[m] = w
      <4>1. \A va \in VAs : ViewIn(t)[m][va] = w[va]  BY <2>10, <3>1, <3>2
      <4>2. ViewIn(t)[m] = [va \in VAs |-> ViewIn(t)[m][va]] /\ w = [va \in VAs |-> w[va]]  BY <3>1, ViewTyped
      <4> QED  BY <4>1, <4>2
    <3>4. \A j \in Maps \ {m} : ViewIn(t)[j] = ViewIn(s)[j]  BY <1>1 DEF ViewIn
    <3>5. ViewIn(t) = [ViewIn(s) EXCEPT ![m] = w]
      <4>1. ViewIn(t) = [j \in Maps |-> ViewIn(t)[j]] /\ ViewIn(s) = [j \in Maps |-> ViewIn(s)[j]]  BY DEF ViewIn
      <4> QED  BY <3>3, <3>4, <4>1
    <3> QED  BY <3>1, <3>2, <3>5
  <2>15. Contents' = Contents
    <3>1. ContentsIn(t) = ContentsIn(s)  BY <1>1 DEF ContentsIn, Unaltered
    <3> QED  BY <3>1, ViewNow, ViewThen
  <2>16. Spaces!Map(m, o, base, end)  BY <2>11, <2>12, <2>13, <2>14, <2>15 DEF Spaces!Map
  <2>17. Spaces!Next  BY <2>16 DEF Spaces!Next
  <2>18. Bare(t)
    <3>1. \A j \in Maps : Entries(s.map, j) \subseteq Entries(t.map, j)  BY <1>1, <2>3 DEF Entries
    <3>2. \A x \in Objs : Hidden(t, x) => Hidden(s, x)  BY <3>1 DEF Hidden
    <3> QED  BY <1>1, <3>2 DEF Bare, Unaltered
  <2> QED  BY <2>17, <2>18
<1> QED  BY <1>3, <1>4

\* vm_deallocate and vm_map_release unmap.
LEMMA DeallocateUnmaps ==
    ASSUME NEW s, NEW t, s = VmNow, t = VmNow', NEW n, VmOK(s, n), NEW k, VmOK(t, k), Bare(s),
           NEW m \in Maps, Deallocates(s, t, m)
    PROVE  Bare(t) /\ Spaces!Next
<1>1. /\ \A j \in Maps \ {m} : t.map[j] = s.map[j]
      /\ Entries(t.map, m) \subseteq Entries(s.map, m) /\ Forgotten(s, t)
  BY DEF Deallocates
<1>2. View = ViewIn(s) /\ View' = ViewIn(t) /\ Contents = ContentsIn(s) /\ Contents' = ContentsIn(t)
  BY ViewNow, ViewThen
<1>3. \A j \in Maps \ {m} : View'[j] = View[j]  BY <1>1, <1>2 DEF ViewIn
<1>4. \A va \in VAs : View'[m][va] \in {View[m][va], NoView}
  <2> SUFFICES ASSUME NEW va \in VAs, ViewIn(t)[m][va] # NoView PROVE ViewIn(t)[m][va] = ViewIn(s)[m][va]
    BY <1>2
  <2>1. PICK e \in Entries(t.map, m) : va \in e.start .. e.end - 1  BY SpaceAt
  <2>2. e \in Entries(s.map, m)  BY <1>1
  <2>3. ViewIn(t)[m][va] = <<e.obj, va - e.start>>  BY <2>1, SpaceAt
  <2>4. ViewIn(s)[m][va] = <<e.obj, va - e.start>>  BY <2>1, <2>2, SpaceAt
  <2> QED  BY <2>3, <2>4
<1>5. ASSUME NEW o \in Objs
      PROVE  Contents'[o] = IF o \in Spaces!Shown(View') THEN Contents[o] ELSE Spaces!AllZero
  <2>1. o \in Spaces!Shown(View') <=> ~Hidden(t, o)  BY <1>2, ShownAre
  <2>2. Contents'[o] = [i \in VAs |-> Holds(t, o, i)] /\ Contents[o] = [i \in VAs |-> Holds(s, o, i)]
    BY <1>2, ViewTyped
  <2>3. \A i \in VAs : Holds(t, o, i) = IF Hidden(t, o) THEN 0 ELSE Holds(s, o, i)  BY <1>1 DEF Forgotten
  <2>4. CASE Hidden(t, o)
    <3>1. [i \in VAs |-> Holds(t, o, i)] = [i \in VAs |-> 0]  BY <2>3, <2>4
    <3> QED  BY <2>1, <2>2, <2>4, <3>1 DEF Spaces!AllZero
  <2>5. CASE ~Hidden(t, o)
    <3>1. [i \in VAs |-> Holds(t, o, i)] = [i \in VAs |-> Holds(s, o, i)]  BY <2>3, <2>5
    <3> QED  BY <2>1, <2>2, <2>5, <3>1
  <2> QED  BY <2>4, <2>5
<1>6. Spaces!Unmap(m)  BY <1>3, <1>4, <1>5 DEF Spaces!Unmap
<1>7. Spaces!Next  BY <1>6 DEF Spaces!Next
<1>8. Bare(t)  BY <1>1 DEF Bare, Forgotten
<1> QED  BY <1>7, <1>8

\* vm_map_fork gives each entry's addresses an object of their own.
Paired(s, t, m, n, va, j) ==
    /\ j \in DOMAIN s.map[m].entries
    /\ CopyOf(s, t, s.map[m].entries[j], t.map[n].entries[j])
    /\ ViewIn(s)[m][va] = <<s.map[m].entries[j].obj, va - s.map[m].entries[j].start>>
    /\ ViewIn(t)[n][va] = <<t.map[n].entries[j].obj, va - s.map[m].entries[j].start>>
    /\ ViewIn(t)[n][va] # NoView
LEMMA ForkPairs ==
    ASSUME NEW s, NEW t, NEW c, VmOK(s, c), NEW d, VmOK(t, d), NEW m \in Maps, NEW n \in Maps, Forks(s, t, m, n)
    PROVE  /\ \A va \in VAs : ViewIn(s)[m][va] # NoView => \E j : Paired(s, t, m, n, va, j)
           /\ \A va \in VAs : ViewIn(s)[m][va] = NoView => ViewIn(t)[n][va] = NoView
<1>1. PICK q : q = s.map[m].entries  OBVIOUS
<1>2. PICK r : r = t.map[n].entries  OBVIOUS
<1>3. q \in Seq(EntryType) /\ r \in Seq(EntryType)
  <2>1. s \in VmType /\ t \in VmType  BY DEF VmOK
  <2>2. s.map[m] \in MapType /\ t.map[n] \in MapType  BY <2>1, VmTyped
  <2> QED  BY <1>1, <1>2, <2>2 DEF MapType
<1>4. Len(r) = Len(q) /\ \A j \in 1 .. Len(q) : CopyOf(s, t, q[j], r[j])  BY <1>1, <1>2 DEF Forks, Copies
<1>5. DOMAIN q = 1 .. Len(q) /\ DOMAIN r = 1 .. Len(q)  BY <1>3, <1>4
<1>6. Entries(s.map, m) = Range(q) /\ Entries(t.map, n) = Range(r)  BY <1>1, <1>2 DEF Entries
<1>7. ASSUME NEW va \in VAs, ViewIn(s)[m][va] # NoView PROVE \E j : Paired(s, t, m, n, va, j)
  <2>1. PICK e \in Range(q) : va \in e.start .. e.end - 1  BY <1>6, <1>7, SpaceAt
  <2>2. PICK j \in DOMAIN q : e = q[j]  BY DEF Range
  <2>3. CopyOf(s, t, e, r[j]) /\ r[j] \in Range(r)  BY <1>4, <1>5, <2>2 DEF Range
  <2>4. PICK f \in Range(r) : f = r[j]  BY <2>3
  <2>5. f.start = e.start /\ f.end = e.end  BY <2>3, <2>4 DEF CopyOf
  <2>6. va \in f.start .. f.end - 1  BY <2>1, <2>5
  <2>7. ViewIn(s)[m][va] = <<e.obj, va - e.start>>  BY <1>6, <2>1, SpaceAt
  <2>8. ViewIn(t)[n][va] = <<f.obj, va - f.start>> /\ ViewIn(t)[n][va] # NoView  BY <1>6, <2>6, SpaceAt
  <2>9. Paired(s, t, m, n, va, j)  BY <1>1, <1>2, <2>2, <2>3, <2>4, <2>5, <2>7, <2>8 DEF Paired
  <2> QED  BY <2>9
<1>8. ASSUME NEW va \in VAs, ViewIn(t)[n][va] # NoView PROVE ViewIn(s)[m][va] # NoView
  <2>1. PICK f \in Range(r) : va \in f.start .. f.end - 1  BY <1>6, <1>8, SpaceAt
  <2>2. PICK j \in DOMAIN r : f = r[j]  BY DEF Range
  <2>3. CopyOf(s, t, q[j], f) /\ q[j] \in Range(q)  BY <1>4, <1>5, <2>2 DEF Range
  <2>4. PICK e \in Range(q) : e = q[j]  BY <2>3
  <2>5. f.start = e.start /\ f.end = e.end  BY <2>3, <2>4 DEF CopyOf
  <2>6. va \in e.start .. e.end - 1  BY <2>1, <2>5
  <2> QED  BY <1>6, <2>6, SpaceAt
<1> QED  BY <1>7, <1>8

LEMMA ForkForks ==
    ASSUME NEW s, NEW t, s = VmNow, t = VmNow', NEW c, VmOK(s, c), NEW d, VmOK(t, d), Bare(s),
           NEW m \in Maps, NEW n \in Maps, Forks(s, t, m, n)
    PROVE  Bare(t) /\ Spaces!Next
<1>1. /\ Entries(s.map, n) = {} /\ \A k \in Maps \ {n} : t.map[k] = s.map[k]
      /\ \A o \in Objs, x \in VAs : o \notin UnusedObjs(s) \/ Hidden(t, o) => Holds(t, o, x) = Holds(s, o, x)
      /\ Len(t.map[n].entries) = Len(s.map[m].entries)
  BY DEF Forks, Copies
<1>2. View = ViewIn(s) /\ View' = ViewIn(t) /\ Contents = ContentsIn(s) /\ Contents' = ContentsIn(t)
  BY ViewNow, ViewThen
<1>3. View[n] = Spaces!NoView
  <2>1. \A va \in VAs : ViewIn(s)[n][va] = NoView  BY <1>1, SpaceAt
  <2>2. ViewIn(s)[n] = [va \in VAs |-> ViewIn(s)[n][va]]  BY ViewTyped
  <2>3. ViewIn(s)[n] = [va \in VAs |-> NoView]  BY <2>1, <2>2
  <2> QED  BY <1>2, <2>3 DEF Spaces!NoView
<1>4. \A k \in Maps \ {n} : View'[k] = View[k]  BY <1>1, <1>2 DEF ViewIn
<1>5. PICK q : q = s.map[m].entries  OBVIOUS
<1>6. PICK r : r = t.map[n].entries  OBVIOUS
<1>7. /\ q \in Seq(EntryType) /\ r \in Seq(EntryType) /\ IsInjective(q) /\ IsInjective(r)
  <2>1. s \in VmType /\ t \in VmType  BY DEF VmOK
  <2>2. s.map[m] \in MapType /\ t.map[n] \in MapType /\ MapOK(s.map[m]) /\ MapOK(t.map[n])  BY <2>1, VmTyped DEF VmOK
  <2>3. IsInjective(q) /\ IsInjective(r)  BY <1>5, <1>6, <2>2, EntriesOnce
  <2> QED  BY <1>5, <1>6, <2>2, <2>3 DEF MapType
<1>8. DOMAIN r = DOMAIN q  BY <1>1, <1>5, <1>6, <1>7
<1>9. \A j \in DOMAIN q : q[j] \in Entries(s.map, m) /\ r[j] \in Entries(t.map, n)
  BY <1>5, <1>6, <1>8 DEF Entries, Range
<1>10. ASSUME NEW j \in DOMAIN q, NEW k \in DOMAIN q PROVE q[j].obj = q[k].obj <=> r[j].obj = r[k].obj
  <2>1. q[j].obj = q[k].obj => q[j] = q[k]  BY <1>9 DEF VmOK, ViewsOK
  <2>2. r[j].obj = r[k].obj => r[j] = r[k]  BY <1>9 DEF VmOK, ViewsOK
  <2> QED  BY <1>7, <1>8, <2>1, <2>2 DEF IsInjective
<1>11. ASSUME NEW va \in VAs, ViewIn(s)[m][va] # NoView
       PROVE  \E j \in DOMAIN q :
                  /\ CopyOf(s, t, q[j], r[j]) /\ ViewIn(t)[n][va] # NoView
                  /\ ViewIn(s)[m][va][1] = q[j].obj /\ ViewIn(t)[n][va][1] = r[j].obj
                  /\ ViewIn(t)[n][va][2] = ViewIn(s)[m][va][2]
  <2>1. PICK j : Paired(s, t, m, n, va, j)  BY <1>11, ForkPairs
  <2> QED  BY <1>5, <1>6, <2>1 DEF Paired
<1>12. ASSUME NEW va \in VAs, View[m][va] # NoView
       PROVE  /\ View'[n][va] # NoView
              /\ View'[n][va][2] = View[m][va][2]
              /\ View'[n][va][1] \notin Spaces!Shown(View)
              /\ Contents'[View'[n][va][1]] = Contents[View[m][va][1]]
              /\ \A vb \in VAs : View[m][vb] # NoView =>
                     (View[m][va][1] = View[m][vb][1] <=> View'[n][va][1] = View'[n][vb][1])
  <2>1. PICK j \in DOMAIN q :
            /\ CopyOf(s, t, q[j], r[j]) /\ ViewIn(t)[n][va] # NoView
            /\ ViewIn(s)[m][va][1] = q[j].obj /\ ViewIn(t)[n][va][1] = r[j].obj
            /\ ViewIn(t)[n][va][2] = ViewIn(s)[m][va][2]
    BY <1>2, <1>11, <1>12
  <2>2. r[j].obj \in Objs /\ s.obj[r[j].obj].refcnt = 0  BY <2>1 DEF CopyOf, UnusedObjs
  <2>3. r[j].obj \notin Spaces!Shown(ViewIn(s))  BY <2>2, ShownAre, UnusedHidden
  <2>4. ContentsIn(t)[r[j].obj] = ContentsIn(s)[q[j].obj]
    <3>1. q[j].obj \in Objs  BY <1>9, EntryObj
    <3>2. \A x \in VAs : Holds(t, r[j].obj, x) = Holds(s, q[j].obj, x)  BY <2>1 DEF CopyOf
    <3>3. [x \in VAs |-> Holds(t, r[j].obj, x)] = [x \in VAs |-> Holds(s, q[j].obj, x)]  BY <3>2
    <3>4. ContentsIn(t)[r[j].obj] = [x \in VAs |-> Holds(t, r[j].obj, x)]  BY <2>2 DEF ContentsIn
    <3>5. ContentsIn(s)[q[j].obj] = [x \in VAs |-> Holds(s, q[j].obj, x)]  BY <3>1 DEF ContentsIn
    <3> QED  BY <3>3, <3>4, <3>5
  <2>5. ASSUME NEW vb \in VAs, ViewIn(s)[m][vb] # NoView
        PROVE  ViewIn(s)[m][va][1] = ViewIn(s)[m][vb][1] <=> ViewIn(t)[n][va][1] = ViewIn(t)[n][vb][1]
    <3>1. PICK k \in DOMAIN q : ViewIn(s)[m][vb][1] = q[k].obj /\ ViewIn(t)[n][vb][1] = r[k].obj  BY <1>11, <2>5
    <3> QED  BY <1>10, <2>1, <3>1
  <2> QED  BY <1>2, <2>1, <2>3, <2>4, <2>5
<1>13. \A va \in VAs : View[m][va] = NoView => View'[n][va] = NoView  BY <1>2, ForkPairs
<1>14. \A o \in Spaces!Shown(View) : Contents'[o] = Contents[o]
  <2> SUFFICES ASSUME NEW o \in Spaces!Shown(View) PROVE Contents'[o] = Contents[o]  OBVIOUS
  <2>1. o \in Objs /\ ~Hidden(s, o)  BY <1>2, ShownAre
  <2>2. o \notin UnusedObjs(s)  BY <2>1, UnusedHidden DEF UnusedObjs
  <2>3. \A x \in VAs : Holds(t, o, x) = Holds(s, o, x)  BY <1>1, <2>1, <2>2
  <2>4. [x \in VAs |-> Holds(t, o, x)] = [x \in VAs |-> Holds(s, o, x)]  BY <2>3
  <2>5. ContentsIn(t)[o] = ContentsIn(s)[o]  BY <2>1, <2>4 DEF ContentsIn
  <2> QED  BY <1>2, <2>5
<1>15. Spaces!Fork(m, n)  BY <1>3, <1>4, <1>12, <1>13, <1>14 DEF Spaces!Fork
<1>16. Spaces!Next  BY <1>15 DEF Spaces!Next
<1>17. Bare(t)
  <2>1. \A k \in Maps : Entries(s.map, k) \subseteq Entries(t.map, k)  BY <1>1 DEF Entries
  <2>2. \A o \in Objs : Hidden(t, o) => Hidden(s, o)  BY <2>1 DEF Hidden
  <2> QED  BY <1>1, <2>2 DEF Bare
<1> QED  BY <1>16, <1>17

\* A store through a translation changes one page of one object.
LEMMA StoreStores ==
    ASSUME VmInv, NEW m \in Maps, NEW va \in VAs, NEW v \in Values, Store(m, va, v), Bare(VmNow)
    PROVE  Bare(VmNow') /\ Spaces!Next
<1>1. PICK s : s = VmNow  OBVIOUS
<1>2. PICK n : n = UserMemory - roots  OBVIOUS
<1>3. VmOK(s, n) /\ s \in VmType /\ s.map = map /\ s.obj = obj /\ s.anon = anon /\ s.tlb = tlb
  BY <1>1, <1>2, VmNowTyped DEF VmInv
<1>4. PICK a : a = tlb[m][va].page  OBVIOUS
<1>5. a \in Anons /\ Shows(s.map, s.obj, m, va, a) /\ s.anon[a].refcnt = 1
  <2>1. tlb[m][va] # NoPte /\ tlb[m][va].write  BY AnonsNatural DEF Store
  <2>2. Caches(s.tlb[m][va], s.pte[m][va]) /\ PteOK(s.map, s.obj, s.anon, m, va, s.pte[m][va])
    BY <1>3 DEF VmOK, TlbOK, PtesOK
  <2> QED  BY <1>3, <1>4, <2>1, <2>2 DEF Caches, PteOK
<1>6. PICK e \in Entries(s.map, m) : va \in e.start .. e.end - 1 /\ s.obj[e.obj].amap[va - e.start] = a
  BY <1>5 DEF Shows
<1>7. PICK o \in Objs : o = e.obj  BY <1>3, EntryObj
<1>8. PICK i \in VAs : i = va - e.start  BY <1>3, <1>6, EntryOffset
<1>9. ASSUME NEW p \in Objs, NEW j \in VAs, s.obj[p].amap[j] = a PROVE p = o /\ j = i
  <2>1. PICK P : P = AmapPlaces(s.obj, a)  OBVIOUS
  <2>2. <<p, j>> \in P /\ <<o, i>> \in P  BY <1>6, <1>7, <1>8, <1>9, <2>1 DEF AmapPlaces
  <2>3. Cardinality(P) = 1 /\ IsFiniteSet(P)
    <3>1. s.anon[a].refcnt = Cardinality(P)  BY <1>3, <1>5, <2>1 DEF VmOK, RefsOK
    <3> QED  BY <1>5, <2>1, <3>1, PlacesFinite
  <2>4. PICK x : P = {x}  BY <2>3, FS_Singleton
  <2>5. <<p, j>> = <<o, i>>  BY <2>2, <2>4
  <2> QED  BY <2>5
<1>10. PICK t : t = VmNow'  OBVIOUS
<1>11. t.map = s.map /\ t.obj = s.obj /\ \A b \in Anons : t.anon[b].content = IF b = a THEN v ELSE s.anon[b].content
  <2>1. s.anon \in [Anons -> AnonType]  BY <1>3 DEF VmType
  <2>2. PICK an : an = [s.anon EXCEPT ![a].content = v]  OBVIOUS
  <2>3. map' = map /\ obj' = obj /\ anon' = an
    <3>1. PICK u : u = [s EXCEPT !.anon[a].content = v]  OBVIOUS
    <3>2. u.map = s.map /\ u.obj = s.obj /\ u.anon = an  BY <1>3, <2>2, <3>1 DEF VmType
    <3>3. VmBecomes(u)  BY <1>1, <1>4, <3>1 DEF Store
    <3> QED  BY <1>3, <3>2, <3>3 DEF VmBecomes
  <2>4. t.map = map' /\ t.obj = obj' /\ t.anon = anon'  BY <1>10 DEF VmNow
  <2>5. \A b \in Anons : an[b].content = IF b = a THEN v ELSE s.anon[b].content
    <3>1. \A b \in Anons : b # a => an[b] = s.anon[b]  BY <2>1, <2>2
    <3>2. an[a] = [s.anon[a] EXCEPT !.content = v] /\ s.anon[a] \in AnonType  BY <1>5, <2>1, <2>2
    <3>3. an[a].content = v  BY <3>2 DEF AnonType
    <3> QED  BY <3>1, <3>3
  <2> QED  BY <1>3, <2>3, <2>4, <2>5
<1>12. ASSUME NEW p \in Objs, NEW j \in VAs PROVE Holds(t, p, j) = IF p = o /\ j = i THEN v ELSE Holds(s, p, j)
  <2>1. s.obj[p] \in ObjType  BY <1>3, VmTyped
  <2>2. PICK b \in Anons \cup {NoAnon} : b = s.obj[p].amap[j]  BY <2>1 DEF ObjType
  <2>3. t.obj[p].amap[j] = b  BY <1>11, <2>2
  <2>4. CASE p = o /\ j = i
    <3>1. b = a /\ b # NoAnon  BY <1>5, <1>6, <1>7, <1>8, <2>2, <2>4, AnonsNatural
    <3> QED  BY <1>5, <1>11, <2>3, <2>4, <3>1 DEF Holds
  <2>5. CASE ~(p = o /\ j = i)
    <3>1. b # a  BY <1>9, <2>2, <2>5
    <3>2. b # NoAnon => t.anon[b].content = s.anon[b].content  BY <1>11, <3>1
    <3> QED  BY <2>2, <2>3, <2>5, <3>2 DEF Holds
  <2> QED  BY <2>4, <2>5
<1>13. View[m][va] = <<o, i>> /\ View[m][va] # NoView  BY <1>1, <1>3, <1>6, <1>7, <1>8, SpaceAt, ViewNow
<1>14. View' = View
  <2>1. ViewIn(t) = ViewIn(s)  BY <1>11 DEF ViewIn
  <2> QED  BY <1>1, <1>10, <2>1, ViewNow, ViewThen
<1>15. Contents' = [Contents EXCEPT ![o][i] = v]
  <2>1. PICK C : C = ContentsIn(s)  OBVIOUS
  <2>2. C = [p \in Objs |-> [j \in VAs |-> Holds(s, p, j)]]  BY <2>1 DEF ContentsIn
  <2>3. ContentsIn(t) = [C EXCEPT ![o][i] = v]
    <3>1. PICK D : D = [p \in Objs |-> [j \in VAs |-> IF p = o /\ j = i THEN v ELSE Holds(s, p, j)]]  OBVIOUS
    <3>2. ContentsIn(t) = D  BY <1>12, <3>1 DEF ContentsIn
    <3>3. D = [C EXCEPT ![o][i] = v]
      <4>1. PICK h : h = C[o]  OBVIOUS
      <4>2. h = [j \in VAs |-> Holds(s, o, j)]  BY <2>2, <4>1
      <4>3. D[o] = [h EXCEPT ![i] = v]  BY <3>1, <4>2
      <4>4. \A p \in Objs \ {o} : D[p] = C[p]
        <5> SUFFICES ASSUME NEW p \in Objs \ {o} PROVE D[p] = C[p]  OBVIOUS
        <5>1. D[p] = [j \in VAs |-> Holds(s, p, j)]  BY <3>1
        <5> QED  BY <2>2, <5>1
      <4>5. D = [p \in Objs |-> D[p]] /\ C = [p \in Objs |-> C[p]]  BY <2>2, <3>1
      <4>6. D = [C EXCEPT ![o] = [h EXCEPT ![i] = v]]  BY <4>3, <4>4, <4>5
      <4> QED  BY <4>1, <4>6
    <3> QED  BY <3>2, <3>3
  <2> QED  BY <1>1, <1>10, <2>1, <2>3, ViewNow, ViewThen
<1>16. Spaces!Store(m, va, v)
  <2>1. View[m][va][1] = o /\ View[m][va][2] = i  BY <1>13
  <2> QED  BY <1>13, <1>14, <1>15, <2>1 DEF Spaces!Store
<1>17. Spaces!Next  BY <1>16 DEF Spaces!Next
<1>18. Bare(t)
  <2>1. ~Hidden(s, o)  BY <1>6, <1>7 DEF Hidden
  <2>2. \A p \in Objs : Hidden(t, p) <=> Hidden(s, p)  BY <1>11 DEF Hidden
  <2> QED  BY <1>1, <1>12, <2>1, <2>2 DEF Bare
<1> QED  BY <1>10, <1>17, <1>18

\* At the start nothing is shown and every object is zero.
LEMMA SpacesStart == ASSUME VmInit PROVE Spaces!Init /\ Bare(VmNow)
<1>1. PICK s : s = VmNow  OBVIOUS
<1>2. VmInv  BY VmStart
<1>3. VmOK(s, UserMemory - roots) /\ s.map = map /\ s.obj = obj  BY <1>1, <1>2, VmNowTyped DEF VmInv
<1>4. \A o \in Objs, i \in VAs : Holds(s, o, i) = 0
  <2>1. \A o \in Objs, i \in VAs : obj[o].amap[i] = NoAnon  BY DEF VmInit, FreeObj
  <2> QED  BY <1>3, <2>1 DEF Holds
<1>5. \A m \in Maps : Entries(s.map, m) = {}
  <2>1. \A m \in Maps : map[m] = NewMap  BY DEF VmInit
  <2> QED  BY <1>3, <2>1, NewMapOK DEF Entries
<1>6. View = [m \in Maps |-> Spaces!NoView]
  <2>1. ASSUME NEW m \in Maps PROVE ViewIn(s)[m] = [va \in VAs |-> NoView]
    <3>1. \A va \in VAs : ViewIn(s)[m][va] = NoView  BY <1>3, <1>5, SpaceAt
    <3>2. ViewIn(s)[m] = [va \in VAs |-> ViewIn(s)[m][va]]  BY ViewTyped
    <3> QED  BY <3>1, <3>2
  <2>2. ViewIn(s) = [m \in Maps |-> ViewIn(s)[m]]  BY DEF ViewIn
  <2>3. ViewIn(s) = [m \in Maps |-> [va \in VAs |-> NoView]]  BY <2>1, <2>2
  <2> QED  BY <1>1, <2>3, ViewNow DEF Spaces!NoView
<1>7. Contents = [o \in Objs |-> Spaces!AllZero]
  <2>1. ContentsIn(s) = [o \in Objs |-> [i \in VAs |-> 0]]  BY <1>4 DEF ContentsIn
  <2> QED  BY <1>1, <2>1, ViewNow DEF Spaces!AllZero
<1>8. Bare(s)  BY <1>4 DEF Bare
<1> QED  BY <1>1, <1>6, <1>7, <1>8 DEF Spaces!Init

\* The invariant of the refinement, and its steps.
SpacesInv == VmInv /\ Bare(VmNow)
LEMMA SpacesStep ==
    ASSUME SpacesInv, VmNext
    PROVE  SpacesInv' /\ (Spaces!Next \/ UNCHANGED <<View, Contents>>)
<1> DEFINE Goal == SpacesInv' /\ (Spaces!Next \/ UNCHANGED <<View, Contents>>)
<1>1. PICK s : s = VmNow  OBVIOUS
<1>2. PICK t : t = VmNow'  OBVIOUS
<1>3. VmInv /\ VmInv' /\ Bare(s)  BY <1>1, VmStep DEF SpacesInv
<1>4. PICK n : VmOK(s, n)  BY <1>1, <1>3 DEF VmInv
<1>5. PICK k : VmOK(t, k)  BY <1>2, <1>3 DEF VmInv
<1>6. s.map = map /\ t.map = map' /\ s.obj = obj /\ t.obj = obj' /\ s.anon = anon /\ t.anon = anon'
  BY <1>1, <1>2 DEF VmNow
<1>7. Bare(t) /\ (Spaces!Next \/ UNCHANGED <<View, Contents>>) => Goal  BY <1>2, <1>3 DEF SpacesInv
<1> HIDE DEF Goal
<1>8. ASSUME NEW m \in Maps, ShowsNew(s, t, m) PROVE Goal
  BY <1>1, <1>2, <1>3, <1>4, <1>5, <1>7, <1>8, AllocateMaps
<1>9. ASSUME NEW m \in Maps, Deallocates(s, t, m) PROVE Goal
  BY <1>1, <1>2, <1>3, <1>4, <1>5, <1>7, <1>9, DeallocateUnmaps
<1>10. ASSUME t.map = s.map, Unaltered(s, t) PROVE Goal  BY <1>1, <1>2, <1>3, <1>7, <1>10, Stutters
<1>11. ASSUME NEW m \in Maps, NEW size \in Sizes, vm_allocate(m, size, 0, FALSE) PROVE Goal
  <2>1. PICK z \in Nat : z = 0  OBVIOUS
  <2>2. PICK w \in BOOLEAN : w = FALSE  OBVIOUS
  <2>3. vm_allocate(m, size, z, w)  BY <1>11, <2>1, <2>2
  <2>4. ShowsNew(s, t, m)  BY <1>1, <1>2, <1>3, <2>3, AllocateKeeps
  <2> QED  BY <1>8, <2>4
<1>12. ASSUME NEW m \in Maps, NEW size \in Sizes, NEW va \in VAs, vm_allocate(m, size, va, TRUE) PROVE Goal
  <2>1. PICK w \in BOOLEAN : w = TRUE  OBVIOUS
  <2>2. va \in Nat  BY VAsFinite
  <2>3. vm_allocate(m, size, va, w)  BY <1>12, <2>1
  <2>4. ShowsNew(s, t, m)  BY <1>1, <1>2, <1>3, <2>2, <2>3, AllocateKeeps
  <2> QED  BY <1>8, <2>4
<1>13. ASSUME NEW m \in Maps, NEW start \in VAs, NEW last \in VAs, vm_deallocate(m, start, last + 1) PROVE Goal
  <2>1. PICK z : z = last + 1  OBVIOUS
  <2>2. vm_deallocate(m, start, z)  BY <1>13, <2>1
  <2>3. Deallocates(s, t, m)  BY <1>1, <1>2, <1>3, <2>2, DeallocateKeeps
  <2> QED  BY <1>9, <2>3
<1>14. ASSUME NEW m \in Maps, NEW p \in Maps, vm_map_fork(m, p) PROVE Goal
  <2>1. Forks(s, t, m, p)  BY <1>1, <1>2, <1>3, <1>14, ForkKeeps
  <2>2. Bare(t) /\ Spaces!Next  BY <1>1, <1>2, <1>3, <1>4, <1>5, <2>1, ForkForks
  <2> QED  BY <1>7, <2>2
<1>15. ASSUME NEW m \in Maps, vm_map_release(m) PROVE Goal
  <2>1. Deallocates(s, t, m)  BY <1>1, <1>2, <1>3, <1>15, ReleaseKeeps
  <2> QED  BY <1>9, <2>1
<1>16. ASSUME map' = map, obj' = obj, anon' = anon PROVE Goal
  <2>1. Unaltered(s, t)  BY <1>6, <1>16 DEF Unaltered, Holds
  <2> QED  BY <1>6, <1>10, <1>16, <2>1
<1>17. ASSUME NEW m \in Maps, NEW va \in VAs, TlbFill(m, va) PROVE Goal
  BY <1>16, <1>17 DEF TlbFill, VmBecomes, VmNow
<1>18. ASSUME NEW m \in Maps, vm_activate(m) PROVE Goal  BY <1>16, <1>18 DEF vm_activate, VmBecomes, VmNow
<1>19. ASSUME NEW m \in Maps, NEW va \in VAs, NEW v \in Values, Store(m, va, v) PROVE Goal
  <2>1. Bare(t) /\ Spaces!Next  BY <1>1, <1>2, <1>3, <1>19, StoreStores
  <2> QED  BY <1>7, <2>1
<1>20. ASSUME NEW m \in Maps, NEW va \in VAs, NEW write \in BOOLEAN, vm_fault(m, va, write) PROVE Goal
  <2>1. map' = map /\ Unaltered(s, t)  BY <1>1, <1>2, <1>3, <1>20, FaultKeeps
  <2> QED  BY <1>6, <1>10, <2>1
<1>21. Goal
  BY <1>11, <1>12, <1>13, <1>14, <1>15, <1>17, <1>18, <1>19, <1>20 DEF VmNext
<1> QED  BY <1>21 DEF Goal

\* Copy-on-write is invisible: whatever the maps, objects, pages and calls, the virtual memory
\* system behaves as address spaces that show objects with contents of their own.  A store
\* changes one place of one object, a forked map shows copies that are its own, at the same
\* addresses, a new object is zero, and faults, cached translations and page tables never
\* change what is seen (fault_aobj, amap_copy, vm_map_fork, vm_allocate and unmap_entry).
THEOREM SpacesImplemented == Spec => ImplementsAddressSpaces
<1>1. Init => SpacesInv /\ Spaces!Init
  <2> SUFFICES ASSUME VmInit PROVE SpacesInv /\ Spaces!Init  BY DEF Init
  <2> QED  BY VmStart, SpacesStart DEF SpacesInv
<1>2. SpacesInv /\ [Next]_<<part, kmem_vars, vm_vars, page_vars>> => SpacesInv' /\ [Spaces!Next]_Spaces!vars
  <2> SUFFICES ASSUME SpacesInv, [Next]_<<part, kmem_vars, vm_vars, page_vars>>
               PROVE  SpacesInv' /\ (Spaces!Next \/ UNCHANGED <<View, Contents>>)
    BY DEF Spaces!vars
  <2>1. CASE VmNext  BY <2>1, SpacesStep
  <2>2. CASE UNCHANGED vm_vars
    <3>1. /\ procs' = procs /\ map' = map /\ obj' = obj /\ anon' = anon /\ pte' = pte /\ tables' = tables
          /\ nfree' = nfree /\ tlb' = tlb /\ roots' = roots
      BY <2>2 DEF vm_vars
    <3>2. VmNow' = VmNow  BY <3>1 DEF VmNow
    <3>3. UNCHANGED <<View, Contents>>  BY <3>2, ViewNow, ViewThen
    <3> QED  BY <3>1, <3>2, <3>3 DEF SpacesInv, VmInv
  <2> QED  BY <2>1, <2>2 DEF Next
<1> QED  BY <1>1, <1>2, PTL DEF Spec, ImplementsAddressSpaces, Spaces!Spec
===============================================================================
