------------------------------- MODULE HandleMap -------------------------------
(***************************************************************************)
(* What a handle table promises, without its representation: a partial map *)
(* from handles to objects, and a set of handles that are set aside for    *)
(* objects still being made.  Nothing says which handle an object gets,    *)
(* only that it is not in use.                                             *)
(***************************************************************************)
EXTENDS FiniteSets, Integers

CONSTANTS Handles, Objects

VARIABLES map,       \* the object of each handle in use
          reserved,  \* handles set aside
          capacity   \* how many of both there may be

vars == <<map, reserved, capacity>>

InUse == DOMAIN map \cup reserved
HasRoom == Cardinality(InUse) < capacity

Init == /\ map = [h \in {} |-> 0]
        /\ reserved = {}
        /\ capacity = 0

Open(n) ==
    /\ InUse = {}
    /\ capacity' = n
    /\ UNCHANGED <<map, reserved>>

Add(h, o) ==
    /\ HasRoom
    /\ h \notin InUse
    /\ map' = [k \in DOMAIN map \cup {h} |-> IF k = h THEN o ELSE map[k]]
    /\ UNCHANGED <<reserved, capacity>>

Remove(h) ==
    /\ h \in DOMAIN map
    /\ map' = [k \in DOMAIN map \ {h} |-> map[k]]
    /\ UNCHANGED <<reserved, capacity>>

Reserve(h) ==
    /\ HasRoom
    /\ h \notin InUse
    /\ reserved' = reserved \cup {h}
    /\ UNCHANGED <<map, capacity>>

Register(h, o) ==
    /\ h \in reserved
    /\ reserved' = reserved \ {h}
    /\ map' = [k \in DOMAIN map \cup {h} |-> IF k = h THEN o ELSE map[k]]
    /\ UNCHANGED capacity

Unreserve(h) ==
    /\ h \in reserved
    /\ reserved' = reserved \ {h}
    /\ UNCHANGED <<map, capacity>>

Close ==
    /\ map' = [h \in {} |-> 0]
    /\ reserved' = {}
    /\ capacity' = 0

Next ==
    \/ \E n \in 1..Cardinality(Handles) : Open(n)
    \/ \E h \in Handles :
          \/ \E o \in Objects : Add(h, o) \/ Register(h, o)
          \/ Remove(h) \/ Reserve(h) \/ Unreserve(h)
    \/ Close

Spec == Init /\ [][Next]_vars
=============================================================================
