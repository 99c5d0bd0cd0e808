------------------------------ MODULE NVMeQueue ------------------------------
(***************************************************************************)
(* The I/O queue pair of the NVMe driver: queue_alloc, readBlocks,         *)
(* submitRequest, queueCompleteRequests and nvme_intr of                   *)
(* dev/NVMeController.m, with the controller as a process of its own.      *)
(*                                                                         *)
(* queue->lock is taken with interrupts off.  Taking a request and putting *)
(* a command on the ring are short sections under it, each one step; the   *)
(* interrupt handler holds it while it walks the completion ring, which    *)
(* the controller keeps filling.  A command that fails is fatal and not    *)
(* modelled.                                                               *)
(***************************************************************************)
EXTENDS Naturals, Sequences, SequencesExt, FiniteSets

CONSTANTS
    Procs,  \* threads that read from the disk, one request at a time
    Slots,  \* sqslots = cqslots = the number of requests (64 in the code)
    NULL

ASSUME QueueAssumption == Slots \in Nat /\ Slots > 1 /\ NULL \notin Procs

Ring == 0 .. Slots - 1

VARIABLES
    req_q,       \* the command ids of free requests
    completion,  \* completion[cid]: the thread to tell, or NULL
    sq, sqtail,  \* the submission ring; the driver's tail and its doorbell
    cq, cqhead, phase,     \* the completion ring; the driver's head and phase
    sqhead, cqtail, dphase,\* the controller's own head, tail and phase
    executing,   \* the command ids the controller is working on
    handler,     \* the interrupt handler runs, and holds queue->lock
    pc,          \* per thread: "idle", "taken" a request, "waiting" for it
    req          \* the command id of a thread's request

driver  == <<req_q, completion, sqtail, sq, cqhead, phase, handler>>
device  == <<sqhead, cqtail, dphase, cq, executing>>
threads == <<pc, req>>
vars    == <<driver, device, threads>>

\* queue_alloc.  The rings are zeroed pages, the driver expects phase 1 first.
Init ==
    /\ req_q = [i \in 1 .. Slots |-> i - 1]
    /\ completion = [c \in Ring |-> NULL]
    /\ sq = [i \in Ring |-> 0] /\ sqtail = 0 /\ sqhead = 0
    /\ cq = [i \in Ring |-> [cid |-> 0, phase |-> 0]]
    /\ cqhead = 0 /\ phase = 1 /\ cqtail = 0 /\ dphase = 1
    /\ executing = {}
    /\ handler = FALSE
    /\ pc = [t \in Procs |-> "idle"]
    /\ req = [t \in Procs |-> 0]

\* The next slot of a ring, and the phase after passing slot i.
Succ(i)     == (i + 1) % Slots
Flip(i, ph) == IF Succ(i) = 0 THEN 1 - ph ELSE ph

------------------------------------------------------------------------------
\* readBlocks takes the last free request and fills it in.  That there is one
\* is asserted.
TakeRequest(t) ==
    /\ pc[t] = "idle"
    /\ ~handler
    /\ req_q # <<>>
    /\ req' = [req EXCEPT ![t] = Last(req_q)]
    /\ req_q' = Front(req_q)
    /\ completion' = [completion EXCEPT ![Last(req_q)] = t]
    /\ pc' = [pc EXCEPT ![t] = "taken"]
    /\ UNCHANGED <<sqtail, sq, cqhead, phase, handler, device>>

\* submitRequest: the command goes on the ring and the doorbell is rung.
submitRequest_Doorbell(t) ==  \* mutant: the slot is written after the doorbell
    /\ pc[t] = "taken"
    /\ ~handler
    /\ sqtail' = Succ(sqtail)
    /\ sq' = [sq EXCEPT ![sqtail'] = req[t]]
    /\ pc' = [pc EXCEPT ![t] = "waiting"]
    /\ UNCHANGED <<req_q, completion, cqhead, phase, handler, device, req>>
submitRequest(t) ==
    /\ pc[t] = "taken"
    /\ ~handler
    /\ sq' = [sq EXCEPT ![sqtail] = req[t]]
    /\ sqtail' = Succ(sqtail)
    /\ pc' = [pc EXCEPT ![t] = "waiting"]
    /\ UNCHANGED <<req_q, completion, cqhead, phase, handler, device, req>>

\* The controller fetches a command: equal head and tail mean an empty ring.
Fetch ==
    /\ sqhead # sqtail
    /\ executing' = executing \cup {sq[sqhead]}
    /\ sqhead' = Succ(sqhead)
    /\ UNCHANGED <<driver, cqtail, dphase, cq, threads>>

\* It finishes one, in any order, when the completion ring has room.
Post(c) ==
    /\ c \in executing
    /\ Succ(cqtail) # cqhead
    /\ executing' = executing \ {c}
    /\ cq' = [cq EXCEPT ![cqtail] = [cid |-> c, phase |-> dphase]]
    /\ cqtail' = Succ(cqtail)
    /\ dphase' = Flip(cqtail, dphase)
    /\ UNCHANGED <<driver, sqhead, threads>>

\* The interrupt line is level-triggered and asserted while completions are
\* unconsumed.  nvme_intr enters queueCompleteRequests and takes the lock.
nvme_intr ==
    /\ cqhead # cqtail
    /\ ~handler
    /\ handler' = TRUE
    /\ UNCHANGED <<req_q, completion, sqtail, sq, cqhead, phase, device, threads>>

\* An iteration of its loop.  The callback tells the thread, whose read is over.
CompleteRequest_NoFlip ==  \* mutant: the phase is not flipped
    LET c == cq[cqhead].cid
    IN  /\ handler
        /\ cq[cqhead].phase = phase
        /\ pc' = [t \in Procs |-> IF t = completion[c] THEN "idle" ELSE pc[t]]
        /\ completion' = [completion EXCEPT ![c] = NULL]
        /\ req_q' = <<c>> \o req_q
        /\ cqhead' = Succ(cqhead)
        /\ UNCHANGED <<phase, sqtail, sq, handler, device, req>>
CompleteRequest ==
    LET c == cq[cqhead].cid
    IN  /\ handler
        /\ cq[cqhead].phase = phase
        /\ pc' = [t \in Procs |-> IF t = completion[c] THEN "idle" ELSE pc[t]]
        /\ completion' = [completion EXCEPT ![c] = NULL]
        /\ req_q' = <<c>> \o req_q
        /\ cqhead' = Succ(cqhead)
        /\ phase' = Flip(cqhead, phase)
        /\ UNCHANGED <<sqtail, sq, handler, device, req>>

\* The loop ends at an entry that is not new.
HandlerDone ==
    /\ handler
    /\ cq[cqhead].phase # phase
    /\ handler' = FALSE
    /\ UNCHANGED <<req_q, completion, sqtail, sq, cqhead, phase, device, threads>>

Next ==
    \/ \E t \in Procs : TakeRequest(t) \/ submitRequest(t)
    \/ Fetch
    \/ \E c \in Ring : Post(c)
    \/ nvme_intr \/ CompleteRequest \/ HandlerDone

Spec == Init /\ [][Next]_vars

\* The controller works, its interrupt is delivered, a handler runs to its end,
\* and a thread that has taken a request gets the lock in order to submit it.
Fairness ==
    /\ \A t \in Procs : SF_vars(submitRequest(t))
    /\ WF_vars(Fetch)
    /\ \A c \in Ring : SF_vars(Post(c))
    /\ WF_vars(nvme_intr) /\ WF_vars(CompleteRequest) /\ WF_vars(HandlerDone)

FairSpec == Spec /\ Fairness

------------------------------------------------------------------------------
TypeOK ==
    /\ req_q \in Seq(Ring)
    /\ completion \in [Ring -> Procs \cup {NULL}]
    /\ sq \in [Ring -> Ring]
    /\ cq \in [Ring -> [cid : Ring, phase : 0 .. 1]]
    /\ {sqtail, sqhead, cqhead, cqtail} \subseteq Ring
    /\ {phase, dphase} \subseteq 0 .. 1
    /\ executing \subseteq Ring
    /\ handler \in BOOLEAN
    /\ pc \in [Procs -> {"idle", "taken", "waiting"}]
    /\ req \in [Procs -> Ring]

\* The slots of a ring from h up to t.
Slice(h, t) == {i \in Ring : (i + Slots - h) % Slots < (t + Slots - h) % Slots}

Submitted == {sq[i] : i \in Slice(sqhead, sqtail)}
Posted    == {cq[i].cid : i \in Slice(cqhead, cqtail)}

\* The driver never sees the controller's tail: the phase bit alone tells it
\* exactly whether the entry at its head is new, lap after lap.
PhaseTellsNew == cq[cqhead].phase = phase <=> cqhead # cqtail

\* A command id is in one place at a time, once: free, with a thread that fills
\* it in, on the submission ring, in the controller, or on the completion ring.
\* It is free exactly while no completion is registered for it, so that the
\* handler's assert(req->completion) holds.
OnePlace ==
    /\ IsInjective(req_q)
    /\ \A t \in Procs : pc[t] # "idle" => completion[req[t]] = t
    /\ \A c \in Ring : completion[c] = NULL <=> c \in Range(req_q)
    /\ \A t \in Procs : pc[t] = "waiting" <=>
           \E c \in Submitted \cup executing \cup Posted : completion[c] = t
    /\ Submitted \cap executing = {}
    /\ Submitted \cap Posted = {}
    /\ executing \cap Posted = {}
    /\ Cardinality(Posted) = Cardinality(Slice(cqhead, cqtail))

\* Why the phase bit suffices: the entries before the controller's tail carry its
\* phase and the others the opposite one, and the driver's head is on the
\* controller's lap or on the one before it.
PhaseInv ==
    /\ \A i \in Ring : cq[i].phase = IF i < cqtail THEN dphase ELSE 1 - dphase
    /\ IF phase = dphase THEN cqhead <= cqtail ELSE cqhead > cqtail

\* Why a command id is in one place: completions and busy threads correspond, ...
RequestsInv ==
    /\ IsInjective(req_q)
    /\ \A c \in Ring : completion[c] = NULL <=> c \in Range(req_q)
    /\ \A t \in Procs : pc[t] # "idle" => completion[req[t]] = t
    /\ \A c \in Ring : completion[c] # NULL =>
           pc[completion[c]] # "idle" /\ req[completion[c]] = c

\* ... and the requests of waiting threads, no other, are on their way, no two in
\* the same slot.
FlightInv ==
    /\ \A c \in Ring : c \in Submitted \cup executing \cup Posted <=>
           completion[c] # NULL /\ pc[completion[c]] = "waiting"
    /\ Submitted \cap executing = {}
    /\ Submitted \cap Posted = {}
    /\ executing \cap Posted = {}
    /\ \A i, j \in Slice(sqhead, sqtail) : sq[i] = sq[j] => i = j
    /\ \A i, j \in Slice(cqhead, cqtail) : cq[i].cid = cq[j].cid => i = j

\* "Function to be called when the I/O completes" (dk_diskio_completion): every
\* read that was submitted completes.
ReadCompletes == \A t \in Procs : pc[t] = "waiting" ~> pc[t] = "idle"
=============================================================================
