------------------------------ MODULE PageQueue ------------------------------
(***************************************************************************)
(* The queues of physical pages: vm_pagealloc, vm_page_free,               *)
(* vm_page_queue and vm_page_changequeue of vm/vm_page.c, from the state   *)
(* that mem_init (x86_64/kmain.c) leaves behind.                           *)
(*                                                                         *)
(* The queues are TAILQs, and the code may unlink a page without holding   *)
(* the lock of the queue it is on, so the links are modelled one by one: a *)
(* page points to the next page and to the place that points to it, which  *)
(* is a queue's head or the page before it.  The queues' tail pointers are *)
(* left out: after mem_init nothing reads them.  The queues' mutexes are   *)
(* abstract locks (Mutex shows that they exclude each other).              *)
(***************************************************************************)
EXTENDS Integers, Sequences, SequencesExt, FiniteSets

CONSTANTS
    Procs,      \* threads that allocate and free pages
    FreePages,  \* the usable pages, in mem_init's order
    BootPages,  \* the pages that hold the resident page table
    Uses,       \* the queues vm_pagealloc is called with
    Counter,    \* npages, a size_t, counts modulo this (2^64 in the code)
    NULL

Pages  == Range(FreePages \o BootPages)
Queues == {"free", "kmem", "wired", "active", "inactive", "pmap"}

ASSUME PageAssumption ==
    /\ FreePages \in Seq(Range(FreePages)) /\ BootPages \in Seq(Range(BootPages))
    /\ IsInjective(FreePages \o BootPages)
    /\ Uses \subseteq {"kmem", "wired", "active", "pmap"}
    /\ Counter \in Nat /\ Counter > Len(FreePages \o BootPages)
    /\ NULL \notin Pages /\ Pages \cap Queues = {}

VARIABLES
    first,   \* the head of each queue
    next,    \* page->pagequeue.tqe_next
    prev,    \* what page->pagequeue.tqe_prev points into: a page or a queue
    npages,  \* the queues' counters
    locked,  \* queues whose mutex is held
    used,    \* pages vm_pagealloc has returned and nobody has freed
    pc, page, from, to  \* each thread's vm_page_changequeue

links == <<first, next, prev, npages>>
call == <<page, from, to>>
page_vars == <<links, locked, used, pc, call>>

\* The list s of pages, linked: the page after s[i] and the place before it.
Position(s, p)  == CHOOSE i \in DOMAIN s : s[i] = p
After(s, p)     == IF Position(s, p) = Len(s) THEN NULL ELSE s[Position(s, p) + 1]
Before(s, q, p) == IF Position(s, p) = 1 THEN q ELSE s[Position(s, p) - 1]

\* page->queue, which only mem_init sets, decides where vm_page_queue thinks a
\* page is.
vm_page_queue(p) == IF p \in Range(FreePages) THEN "free" ELSE "pmap"

PageInit ==
    LET list(q) == CASE q = "free" -> FreePages
                     [] q = "pmap" -> BootPages
                     [] OTHER -> <<>>
    IN  /\ first = [q \in Queues |-> IF list(q) = <<>> THEN NULL ELSE list(q)[1]]
        /\ next = [p \in Pages |-> After(list(vm_page_queue(p)), p)]
        /\ prev = [p \in Pages |-> Before(list(vm_page_queue(p)), vm_page_queue(p), p)]
        /\ npages = [q \in Queues |-> Len(list(q))]
        /\ locked = {}
        /\ used = {}
        /\ pc = [t \in Procs |-> "idle"]
        /\ page = [t \in Procs |-> NULL]
        /\ from = [t \in Procs |-> "free"]
        /\ to = [t \in Procs |-> "free"]

------------------------------------------------------------------------------
\* vm_pagealloc(q) takes the first free page, with the free queue locked; none
\* left is fatal.
vm_pagealloc(t, q) ==
    /\ pc[t] = "idle"
    /\ "free" \notin locked
    /\ first["free"] # NULL
    /\ locked' = locked \cup {"free"}
    /\ page' = [page EXCEPT ![t] = first["free"]]
    /\ from' = [from EXCEPT ![t] = "free"]
    /\ to' = [to EXCEPT ![t] = q]
    /\ pc' = [pc EXCEPT ![t] = "remove"]
    /\ UNCHANGED <<links, used>>

\* vm_page_free(p), up to vm_page_changequeue's lock of the queue it finds.
vm_page_free(t, p) ==
    /\ pc[t] = "idle"
    /\ p \in used
    /\ used' = used \ {p}
    /\ page' = [page EXCEPT ![t] = p]
    /\ from' = [from EXCEPT ![t] = vm_page_queue(p)]
    /\ to' = [to EXCEPT ![t] = "free"]
    /\ pc' = [pc EXCEPT ![t] = "lock"]
    /\ UNCHANGED <<links, locked>>

LockFrom(t) ==
    /\ pc[t] = "lock"
    /\ from[t] \notin locked
    /\ locked' = locked \cup {from[t]}
    /\ pc' = [pc EXCEPT ![t] = "remove"]
    /\ UNCHANGED <<links, used, call>>

\* TAILQ_REMOVE: the following page is made to point back to the place before.
RemoveNext(t) ==
    LET p == page[t]
    IN  /\ pc[t] = "remove"
        /\ prev' = IF next[p] = NULL THEN prev ELSE [prev EXCEPT ![next[p]] = prev[p]]
        /\ pc' = [pc EXCEPT ![t] = "unlink"]
        /\ UNCHANGED <<first, next, npages, locked, used, call>>

\* The place before is made to point to the following page.
RemovePrev_Head(t) ==  \* mutant: SIMPLEQ_REMOVE_HEAD for TAILQ_REMOVE
    LET p == page[t]
    IN  /\ pc[t] = "unlink"
        /\ first' = [first EXCEPT ![from[t]] = next[p]]
        /\ npages' = [npages EXCEPT ![from[t]] = (@ - 1) % Counter]
        /\ locked' = locked \ {from[t]}
        /\ pc' = [pc EXCEPT ![t] = "insert"]
        /\ UNCHANGED <<next, prev, used, call>>
RemovePrev(t) ==
    LET p == page[t]
    IN  /\ pc[t] = "unlink"
        /\ first' = IF prev[p] \in Queues THEN [first EXCEPT ![prev[p]] = next[p]] ELSE first
        /\ next' = IF prev[p] \in Pages THEN [next EXCEPT ![prev[p]] = next[p]] ELSE next
        /\ npages' = [npages EXCEPT ![from[t]] = (@ - 1) % Counter]
        /\ locked' = locked \ {from[t]}
        /\ pc' = [pc EXCEPT ![t] = "insert"]
        /\ UNCHANGED <<prev, used, call>>

\* TAILQ_INSERT_HEAD with the target queue locked: link to the old head ...
InsertNext(t) ==
    LET p == page[t]
        head == first[to[t]]
    IN  /\ pc[t] = "insert"
        /\ to[t] \notin locked
        /\ locked' = locked \cup {to[t]}
        /\ next' = [next EXCEPT ![p] = head]
        /\ prev' = IF head = NULL THEN prev ELSE [prev EXCEPT ![head] = p]
        /\ pc' = [pc EXCEPT ![t] = "link"]
        /\ UNCHANGED <<first, npages, used, call>>

\* ... and become the head.  vm_pagealloc's caller now has the page.
InsertFirst(t) ==
    LET p == page[t]
    IN  /\ pc[t] = "link"
        /\ first' = [first EXCEPT ![to[t]] = p]
        /\ prev' = [prev EXCEPT ![p] = to[t]]
        /\ npages' = [npages EXCEPT ![to[t]] = (@ + 1) % Counter]
        /\ locked' = locked \ {to[t]}
        /\ used' = IF to[t] = "free" THEN used ELSE used \cup {p}
        /\ pc' = [pc EXCEPT ![t] = "idle"]
        /\ UNCHANGED <<next, call>>

PageNext ==
    \E t \in Procs :
        \/ \E q \in Uses : vm_pagealloc(t, q)
        \/ \E p \in Pages : vm_page_free(t, p)
        \/ LockFrom(t) \/ RemoveNext(t) \/ RemovePrev(t)
        \/ InsertNext(t) \/ InsertFirst(t)

PageSpec == PageInit /\ [][PageNext]_page_vars

------------------------------------------------------------------------------
PageTypeOK ==
    /\ first \in [Queues -> Pages \cup {NULL}]
    /\ next \in [Pages -> Pages \cup {NULL}]
    /\ prev \in [Pages -> Pages \cup Queues]
    /\ npages \in [Queues -> 0 .. Counter - 1]
    /\ locked \subseteq Queues
    /\ used \subseteq Pages
    /\ pc \in [Procs -> {"idle", "lock", "remove", "unlink", "insert", "link"}]
    /\ page \in [Procs -> Pages \cup {NULL}]
    /\ from \in [Procs -> Queues]
    /\ to \in [Procs -> Queues]

Quiet == \A t \in Procs : pc[t] = "idle"

\* The pages of a queue: those that following the links from its head leads to,
\* which is the least set that holds the head and, with a page, the next one.
OnQueue(q) ==
    {p \in Pages : \A S \in SUBSET Pages :
        /\ first[q] # NULL => first[q] \in S
        /\ \A x \in S : next[x] # NULL => next[x] \in S
        => p \in S}

\* Following the links of a queue passes no page twice: none leads back to the
\* head, nor two to the same page.
NoPageTwice(q) ==
    \A x \in OnQueue(q) : next[x] # NULL =>
        next[x] # first[q] /\ \A y \in OnQueue(q) : next[y] = next[x] => y = x

\* Between calls the free queue holds exactly the pages that nobody uses, and
\* every page is linked into exactly one queue, once - although vm_page_free
\* unlinks it as if it were still on the queue it was on at boot.
EveryPageOnOneQueue ==
    Quiet => /\ OnQueue("free") = Range(FreePages) \ used
             /\ \A q \in Queues : NoPageTwice(q)
             /\ \A p \in Pages : \E q \in Queues :
                    /\ p \in OnQueue(q)
                    /\ \A r \in Queues \ {q} : p \notin OnQueue(r)

\* "Allocate a new page" (vm_pagealloc): a page is not handed out while it is in
\* use, nor twice at once.
AllocatedPageIsNew ==
    \A t \in Procs : pc[t] # "idle" /\ to[t] # "free" =>
        /\ page[t] \notin used
        /\ \A u \in Procs \ {t} : pc[u] # "idle" /\ to[u] # "free" => page[u] # page[t]

------------------------------------------------------------------------------
\* Why calls that do not overlap are safe.  The pages between two queues, and
\* those that belong on the free queue:
Away    == {page[t] : t \in {u \in Procs : pc[u] \in {"insert", "link"}}}
Freeing == {page[t] : t \in {u \in Procs : pc[u] # "idle" /\ to[u] = "free"}}
OnFree  == Range(FreePages) \ (used \cup Away \cup Freeing)

\* The pages of S are linked both ways: whatever points to one of them is what it
\* points back to, and it is one place only.
Linked(fst, nxt, prv, S) ==
    /\ \A q \in Queues : fst[q] # NULL => fst[q] \in S /\ prv[fst[q]] = q
    /\ \A x \in S :
           /\ nxt[x] # NULL => nxt[x] \in S /\ prv[nxt[x]] = x
           /\ prv[x] \in Queues => fst[prv[x]] = x
           /\ prv[x] \in Pages => prv[x] \in S /\ nxt[prv[x]] = x

\* Following the links backwards ends, at a queue's head: no pages of S only lead
\* to each other.
Grounded(prv, S) == \A T \in SUBSET S : T # {} => \E x \in T : prv[x] \notin T

\* prev, but for the one link that is out of step halfway through a removal or
\* an insertion.
Mended(t) ==
    LET n == next[page[t]]
    IN  CASE pc[t] = "unlink" /\ n # NULL -> [prev EXCEPT ![n] = page[t]]
          [] pc[t] = "link" /\ n # NULL   -> [prev EXCEPT ![n] = to[t]]
          [] OTHER -> prev

\* The inductive invariant of one thread: the links, that they form no rings, what
\* the half-done steps have done, that no link joins the free queue to another,
\* and whose the page of a call is.
PageInv ==
    /\ PageTypeOK
    /\ \A t \in Procs : Linked(first, next, Mended(t), Pages \ Away)
    /\ \A t \in Procs : Grounded(Mended(t), Pages \ Away)
    /\ \A t \in Procs : LET n == next[page[t]] IN
           /\ pc[t] = "unlink" /\ n # NULL => prev[n] = Mended(t)[page[t]]
           /\ pc[t] = "link" => n = first[to[t]] /\ (n # NULL => prev[n] = page[t])
           /\ pc[t] # "idle" => page[t] \in Range(FreePages) \ used
    /\ \A q \in Queues : first[q] # NULL => (q = "free" <=> first[q] \in OnFree)
    /\ \A x \in Pages \ Away : next[x] # NULL => (x \in OnFree <=> next[x] \in OnFree)
    /\ used \subseteq Range(FreePages)
=============================================================================
