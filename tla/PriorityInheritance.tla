-------------------------- MODULE PriorityInheritance --------------------------
(***************************************************************************)
(* The lock waiters of KThread (k_thread.rs): which threads wait for the   *)
(* user mutexes another thread holds, in trees ordered by the priority the *)
(* waiters had when they were inserted, and the priority a thread inherits *)
(* from them along the chain of owners.                                    *)
(*                                                                         *)
(* These are operators on a record s of the threads' fields, so that one   *)
(* system call can apply several of them in the order of the code:         *)
(*   base, prio   base_priority and priority; a smaller number is higher   *)
(*   held         held_lock_info_list: per mutex the tree of waiters; a    *)
(*                lock info exists exactly while its tree is not empty     *)
(*   ref          waiting_lock_info: the mutex waited for and its owner    *)
(*   cv           condvar_tree_state and condvar_key                       *)
(*   tree         the condition variable tree, per key                     *)
(*   panic        an expect() has failed; the emulator ends there          *)
(*                                                                         *)
(* A definition named Mut... is a faulty variant of the one it precedes.   *)
(***************************************************************************)
EXTENDS FiniteSets, ListFilter

CONSTANTS
    Threads,  \* thread ids, which stand for the threads' handles too
    Mutexes,  \* addresses of user mutexes
    CVs       \* addresses of user condition variables

NoThread == 0   \* INVALID_HANDLE, and the null owner pointer
NoCV == 0       \* ConditionVariableTreeState::None
NoRef == [owner |-> NoThread, addr |-> 0]

ASSUME IdsAssumption ==
    /\ IsFiniteSet(Threads)
    /\ Threads \subseteq Nat \ {NoThread}
    /\ Mutexes \subseteq Nat \ {0}
    /\ CVs \subseteq Nat \ {NoCV}

-----------------------------------------------------------------------------
(* Trees *)

\* LockWaiterKey and ConditionVariableThreadKey of thread t.
Keys == [prio : Int, thread : Threads]
KeyOf(s, t) == [prio |-> s.prio[t], thread |-> t]

\* The order of LockWaiterKey.
Before(k, j) == k.prio < j.prio \/ (k.prio = j.prio /\ k.thread <= j.thread)

\* get_highest_priority_waiter.
MutHighest(keys) == CHOOSE k \in keys : \A j \in keys : k.thread <= j.thread
Highest(keys) == CHOOSE k \in keys : \A j \in keys : Before(k, j)

\* insert of the condition variable tree: one bucket per priority, in the order
\* of insertion.
TreeInsert(q, key) == PutAfter(q, {k \in Range(q) : k.prio <= key.prio}, key)

\* erase_by_thread_id.
TreeErase(q, t) == Kept(q, {k \in Range(q) : k.thread # t})

-----------------------------------------------------------------------------
(* The waiters of one owner *)

\* add_waiter_impl, which makes the lock info if there is none.
AddWaiterImpl(s, o, m, key) == [s EXCEPT !.held[o][m] = @ \cup {key}]

\* remove_waiter_impl, which expects the lock info to be there.
RemoveWaiterImpl(s, o, m, key) ==
    [s EXCEPT !.held[o][m] = @ \ {key}, !.panic = @ \/ s.held[o][m] = {}]

WaiterKeys(s, t) == UNION {s.held[t][m] : m \in Mutexes}

\* The priority a thread should have: its own, or that of a waiter.
InheritedPriority(s, t) ==
    Min({s.base[t]} \cup {k.prio : k \in WaiterKeys(s, t)})

\* A thread's key in the condition variable tree follows its priority.
MutRekey(s, t, p) == s
Rekey(s, t, p) ==
    IF s.cv[t] = NoCV THEN s
    ELSE [s EXCEPT !.tree[s.cv[t]] =
              TreeInsert(TreeErase(@, t), [prio |-> p, thread |-> t])]

\* One round of the loop of restore_priority, at thread t.
RestoreRound(s, t) ==
    LET p == InheritedPriority(s, t)
        r == s.ref[t]
        removed == IF r.owner = NoThread THEN s
                   ELSE RemoveWaiterImpl(s, r.owner, r.addr, KeyOf(s, t))
        set == [Rekey(removed, t, p) EXCEPT !.prio[t] = p]
        added == IF r.owner = NoThread THEN set
                 ELSE AddWaiterImpl(set, r.owner, r.addr, KeyOf(set, t))
    IN IF p = s.prio[t] THEN [s |-> s, at |-> NoThread]
       ELSE IF removed.panic THEN [s |-> removed, at |-> NoThread]
       ELSE [s |-> added, at |-> r.owner]

NextRound(c) == IF c.at = NoThread THEN c ELSE RestoreRound(c.s, c.at)

\* restore_priority: the loop along the owners, until a priority stays the same.
\* A chain visits a thread twice only when the threads wait in a circle.
MaxRounds == 2 * Cardinality(Threads) + 1
RestorePriority(s, t) ==
    LET after[n \in 0..MaxRounds] ==
            IF n = 0 THEN [s |-> s, at |-> t] ELSE NextRound(after[n - 1])
    IN after[MaxRounds].s

\* The test before restore_priority when a waiter with priority p goes away.
MutInheritedFrom(s, o, p) == FALSE
InheritedFrom(s, o, p) == s.prio[o] = p /\ s.prio[o] < s.base[o]

\* add_waiter_with_process: thread w waits for m, which thread o holds.
AddWaiter(s, o, w, m) ==
    LET added == [AddWaiterImpl(s, o, m, KeyOf(s, w)) EXCEPT
                     !.ref[w] = [owner |-> o, addr |-> m]]
    IN IF s.prio[w] < s.prio[o] THEN RestorePriority(added, o) ELSE added

\* remove_waiter_by_key when m has waiters: the lock info is detached from o.
RemoveWaiterByKey(s, o, m) ==
    LET detached == [s EXCEPT !.held[o][m] = {}] IN
    IF InheritedFrom(s, o, Highest(s.held[o][m]).prio)
    THEN RestorePriority(detached, o) ELSE detached

\* transfer_lock_info_to_next_owner: the other waiters wait for thread n now.
MutTransferLockInfo(s, n, m, rest) == [s EXCEPT !.held[n][m] = rest]
TransferLockInfo(s, n, m, rest) ==
    [s EXCEPT !.held[n][m] = rest,
              !.ref = [w \in Threads |->
                          IF \E k \in rest : k.thread = w
                          THEN [owner |-> n, addr |-> m] ELSE s.ref[w]]]

\* What signal_to_address and wait do with the first waiter for m: it becomes
\* the owner, and o gives up what it inherited.
HandOver(s, o, m) ==
    LET first == Highest(s.held[o][m])
        rest == s.held[o][m] \ {first}
        moved == TransferLockInfo(RemoveWaiterByKey(s, o, m), first.thread, m, rest)
    IN RestorePriority([moved EXCEPT !.ref[first.thread] = NoRef], o)

\* remove_waiter_by_thread_id: w stops waiting for whatever it waits for.
RemoveWaiterByThreadId(s, o, w) ==
    LET m == CHOOSE a \in Mutexes : \E k \in s.held[o][a] : k.thread = w
        key == CHOOSE k \in s.held[o][m] : k.thread = w
        removed == [s EXCEPT !.held[o][m] = @ \ {key}]
    IN IF \A k \in WaiterKeys(s, o) : k.thread # w THEN s
       ELSE IF InheritedFrom(s, o, key.prio) THEN RestorePriority(removed, o)
       ELSE removed

\* The cancel_wait of the two wait queues of KConditionVariable.
CancelWait(s, w) ==
    LET o == s.ref[w].owner
        left == IF o = NoThread THEN s ELSE RemoveWaiterByThreadId(s, o, w)
        unref == [left EXCEPT !.ref[w] = NoRef]
    IN IF unref.cv[w] = NoCV THEN unref
       ELSE [unref EXCEPT !.tree[unref.cv[w]] = TreeErase(@, w), !.cv[w] = NoCV]

\* set_base_priority_with_process.
SetBasePriority(s, t, p) == RestorePriority([s EXCEPT !.base[t] = p], t)

\* increase_base_priority.
IncreaseBasePriority(s, t, p) ==
    IF s.base[t] > p THEN SetBasePriority(s, t, p) ELSE s
=============================================================================
