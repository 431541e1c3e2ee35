---------------------------- MODULE KAddressArbiter ---------------------------
(***************************************************************************)
(* The address arbiter of a process (k_address_arbiter.rs): guest words,   *)
(* the tree of the threads that wait on an address, and what the wait and  *)
(* signal operations do to both.  The compare-and-swap loops on a word     *)
(* retry until no store of the guest came between, so that each is atomic. *)
(*                                                                         *)
(* A thread is filed under the priority it had when its call began.  The   *)
(* tree is not rearranged when the priority of a waiter changes.           *)
(***************************************************************************)
EXTENDS Integers, Sequences, ListFilter

CONSTANTS
    Addresses,  \* guest words that are waited on
    Half        \* 2^31: half the range of a word

ASSUME ArbiterAssumption == Half \in Nat \ {0}

VARIABLES
    word,  \* the guest words
    tree   \* waiting_threads of each address, best priority first, then oldest

arbiterVars == <<word, tree>>

Words == (-Half)..(Half - 1)

\* wrapping_add and wrapping_sub.
\* A bug: the sum is not wrapped.
MutWrap(v) == v
Wrap(v) == ((v + Half) % (2 * Half)) - Half

ArbiterInit ==
    /\ word \in [Addresses -> {0}]
    /\ tree = [a \in Addresses |-> <<>>]

-----------------------------------------------------------------------------
\* AddressArbiterThreadTree.
Waiter(prio, t) == [prio |-> prio, thread |-> t]
WaitersOf(a) == {tree[a][i].thread : i \in DOMAIN tree[a]}

Inserted(a, prio, t) ==
    [tree EXCEPT ![a] = PutAfter(@, {w \in Range(@) : w.prio <= prio}, Waiter(prio, t))]

Erased(gone) ==
    [a \in Addresses |-> Kept(tree[a], {w \in Range(tree[a]) : w.thread \notin gone})]

\* signal_locked: the threads it wakes, all of them if count is not positive.
Signalled(a, count) ==
    {tree[a][i].thread :
        i \in {j \in DOMAIN tree[a] : count <= 0 \/ j <= count}}

\* decrement_if_less_than.
DecrementIfLessThan(a, value) ==
    word' = IF word[a] >= value THEN word
            ELSE [word EXCEPT ![a] = Wrap(@ - 1)]

\* signal_and_modify_by_waiting_count_if_equal: the value it stores.
\* A bug: off by one in the number of waiters.
MutNewValue(a, value, count) ==
    IF tree[a] = <<>> THEN Wrap(value + 1)
    ELSE IF count <= 0 THEN Wrap(value - 2)
    ELSE IF Len(tree[a]) - 1 <= count THEN Wrap(value - 1) ELSE value
NewValue(a, value, count) ==
    IF tree[a] = <<>> THEN Wrap(value + 1)
    ELSE IF count <= 0 THEN Wrap(value - 2)
    ELSE IF Len(tree[a]) - 1 < count THEN Wrap(value - 1) ELSE value
=============================================================================
