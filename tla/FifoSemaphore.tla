---------------------------- MODULE FifoSemaphore ----------------------------
(***************************************************************************)
(* What a counting semaphore promises, without threads' states, locks or   *)
(* run queues: every signal makes one permit, every wait that returns has  *)
(* consumed one, permits go to the waiters in the order in which they      *)
(* queued, and a newcomer takes one only if every waiter already has its   *)
(* own.  Semaphore.tla implements this specification.                      *)
(***************************************************************************)
EXTENDS Naturals, Sequences

CONSTANTS Procs, Sems, None

VARIABLES
    permits,  \* permits made by signals and not yet consumed
    queue,    \* the processes blocked in a wait, first come first served
    want      \* the semaphore a process is waiting for, or None

vars == <<permits, queue, want>>

Init ==
    /\ permits = [s \in Sems |-> 0]
    /\ queue = [s \in Sems |-> <<>>]
    /\ want = [p \in Procs |-> None]

\* Process p calls wait on s.
Wait(p, s) ==
    /\ want[p] = None
    /\ want' = [want EXCEPT ![p] = s]
    /\ UNCHANGED <<permits, queue>>

Queued(p) == \E s \in Sems : \E i \in DOMAIN queue[s] : queue[s][i] = p

\* There are more permits than blocked processes: p takes one and returns.
Take(p) ==
    /\ want[p] # None
    /\ ~Queued(p)
    /\ permits[want[p]] > Len(queue[want[p]])
    /\ permits' = [permits EXCEPT ![want[p]] = @ - 1]
    /\ want' = [want EXCEPT ![p] = None]
    /\ UNCHANGED queue

\* Otherwise p joins the queue.
Block(p) ==
    /\ want[p] # None
    /\ ~Queued(p)
    /\ permits[want[p]] <= Len(queue[want[p]])
    /\ queue' = [queue EXCEPT ![want[p]] = Append(@, p)]
    /\ UNCHANGED <<permits, want>>

\* The foremost process is given a permit, and its wait ends.
Grant(s) ==
    /\ permits[s] > 0
    /\ queue[s] # <<>>
    /\ permits' = [permits EXCEPT ![s] = @ - 1]
    /\ queue' = [queue EXCEPT ![s] = Tail(@)]
    /\ want' = [want EXCEPT ![Head(queue[s])] = None]

Signal(s) ==
    /\ permits' = [permits EXCEPT ![s] = @ + 1]
    /\ UNCHANGED <<queue, want>>

Next ==
    \/ \E p \in Procs, s \in Sems : Wait(p, s)
    \/ \E p \in Procs : Take(p) \/ Block(p)
    \/ \E s \in Sems : Grant(s) \/ Signal(s)

Spec == Init /\ [][Next]_vars
=============================================================================
