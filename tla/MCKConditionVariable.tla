-------------------------- MODULE MCKConditionVariable --------------------------
(* Instances of KConditionVariable for TLC. *)
EXTENDS KConditionVariable

\* Thread 1 has the highest priority.
Ascending == [t \in Threads |-> t]
=============================================================================
