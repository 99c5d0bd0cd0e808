----------------------------- MODULE MCPageQueue -----------------------------
(* Instances of PageQueue for TLC. *)
EXTENDS PageQueue

CONSTANTS p1, p2, p3, b1

ThreeFree == <<p1, p2, p3>>
OneBoot   == <<b1>>
=============================================================================
