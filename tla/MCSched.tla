------------------------------- MODULE MCSched -------------------------------
(* Instances of Sched for TLC. *)
EXTENDS Sched, TLC

CONSTANTS c1, c2, t1, t2, t3, q1, q2

\* nextcpu() deals threads out in turn.
TwoCPUs   == [t \in Threads |-> IF t = t2 THEN c2 ELSE c1]
=============================================================================
