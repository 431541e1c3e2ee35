---------------------------- MODULE MCKHandleTable ----------------------------
(* Instances of KHandleTable for TLC. *)
EXTENDS KHandleTable, TLC

CONSTANTS t1, t2, o1, o2

Symmetry == Permutations(Threads) \cup Permutations(Objects)
=============================================================================
