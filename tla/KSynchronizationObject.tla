------------------------ MODULE KSynchronizationObject ------------------------
(***************************************************************************)
(* Synchronization objects (k_synchronization_object.rs), here the         *)
(* readable events (k_readable_event.rs): whether each is signalled, and   *)
(* its list of nodes.  A wait on several objects links one node into the   *)
(* list of each; whoever ends the wait unlinks all of them.  The order of  *)
(* a list is left out: a signal notifies every thread of it in one step.   *)
(***************************************************************************)
EXTENDS Integers, Sequences

CONSTANT Events  \* readable events

VARIABLES
    signaled,  \* events that are signalled
    lists      \* the nodes linked to each event: a thread and a position in its wait

syncVars == <<signaled, lists>>

Node(t, i) == [thread |-> t, at |-> i]

SyncInit ==
    /\ signaled = {}
    /\ lists = [e \in Events |-> {}]

-----------------------------------------------------------------------------
\* first_signaled_waitable_index, and synced_index_for; 0 stands for -1.
\* A bug: only the first handle is looked at.
MutFirstIndex(objs, set) == IF objs[1] \in set THEN 1 ELSE 0
FirstIndex(objs, set) ==
    IF \E i \in DOMAIN objs : objs[i] \in set
    THEN CHOOSE i \in DOMAIN objs :
            objs[i] \in set /\ \A j \in 1..(i - 1) : objs[j] \notin set
    ELSE 0

\* link_node, for every object of the wait in turn.
Linked(t, objs) ==
    [e \in Events |-> lists[e] \cup {Node(t, i) : i \in {j \in DOMAIN objs : objs[j] = e}}]

\* unlink_node, for every node of the threads whose wait ends.
\* A bug: only the node of the first handle is unlinked.
MutUnlinked(gone) ==
    [e \in Events |-> {n \in lists[e] : ~(n.thread \in gone /\ n.at = 1)}]
Unlinked(gone) ==
    [e \in Events |-> {n \in lists[e] : n.thread \notin gone}]

\* waiter_snapshot.
Snapshot(e) == {n.thread : n \in lists[e]}
=============================================================================
