------------------------------- MODULE MCMutex -------------------------------
(* Instances of Mutex for TLC. *)
EXTENDS Mutex

CONSTANTS c1, c2, t1, t2, t3, q1, q2

OneCPU  == [t \in Threads |-> c1]
\* nextcpu() deals threads out in turn.
TwoCPUs == [t \in Threads |-> IF t = t2 THEN c2 ELSE c1]
=============================================================================
