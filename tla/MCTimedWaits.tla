----------------------------- MODULE MCTimedWaits -----------------------------
EXTENDS TimedWaits

CONSTANTS t1, t2, a1, e1, e2

MCRequests == {
    [kind |-> "Decrement", addr |-> a1, value |-> 0],
    [kind |-> "Equal", addr |-> a1, value |-> 0],
    [kind |-> "LessThan", addr |-> a1, value |-> 1],
    [kind |-> "Sync", objs |-> <<e2, e1, e2>>],
    [kind |-> "Sleep"]}

MCTimeouts == {-1, 0, 1}
=============================================================================
