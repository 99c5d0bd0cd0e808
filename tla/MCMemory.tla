------------------------------- MODULE MCMemory -------------------------------
(* Instances of Memory for TLC: four pages, the last holding the page table. *)
EXTENDS Memory

ThreeFree == <<"p1", "p2", "p3">>
OneBoot   == <<"b1">>
===============================================================================
