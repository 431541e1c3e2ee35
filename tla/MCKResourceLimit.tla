--------------------------- MODULE MCKResourceLimit ---------------------------
(* Instances of KResourceLimit for TLC. *)
EXTENDS KResourceLimit

CONSTANTS t1, t2, t3, r1, r2

Symmetry == Permutations(Threads)
=============================================================================
