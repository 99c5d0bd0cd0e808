------------------------------ MODULE MCSyncIO ------------------------------
(* Instances of SyncIO for TLC. *)
EXTENDS SyncIO

CONSTANTS c1, c2, t1, t2, q1, q2

TwoCPUs == [t \in Threads |-> IF t = t2 THEN c2 ELSE c1]
OwnSem  == [t \in Threads |-> IF t = t2 THEN q2 ELSE q1]
=============================================================================
