--------------------------- MODULE MCTlbShootdown ---------------------------
(* Instances of TlbShootdown for TLC. *)
EXTENDS TlbShootdown, TLC

Sym == Permutations(CPUs)
=============================================================================
