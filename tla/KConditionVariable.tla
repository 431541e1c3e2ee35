-------------------------- MODULE KConditionVariable --------------------------
(***************************************************************************)
(* User mutexes and condition variables (k_condition_variable.rs, and the  *)
(* system calls of svc_lock.rs, svc_condition_variable.rs, svc_thread.rs): *)
(* a mutex is a word in guest memory, the handle of its owner and a bit    *)
(* that says that the kernel has waiters for it.  Guests take a free mutex *)
(* and give up an uncontended one by themselves; the kernel parks waiters  *)
(* on the owner's thread, hands mutexes over, and moves the waiters of a   *)
(* condition variable to the owner of their mutex when they are signalled. *)
(*                                                                         *)
(* A system call is one step: its body runs under the scheduler lock, and  *)
(* what a guest can do meanwhile, set the wait bit of a word somebody      *)
(* owns, commutes with it.  The guest's steps before and after are steps   *)
(* of their own.                                                           *)
(***************************************************************************)
EXTENDS PriorityInheritance

CONSTANTS
    InitialPriority,  \* of each thread
    Priorities,       \* that SetThreadPriority is called with
    TermPriority,     \* TERMINATING_THREAD_PRIORITY
    Terminable,       \* threads somebody terminates
    Counts,           \* that SignalProcessWideKey is called with
    LockOrder         \* whether guests lock mutexes in the order of addresses

ASSUME PriorityAssumption ==
    /\ InitialPriority \in [Threads -> Int]
    /\ Priorities \subseteq Int
    /\ TermPriority \in Int
    /\ Counts \subseteq Int
    /\ LockOrder \in BOOLEAN

VARIABLES
    base, prio, held, ref, cv, tree, panic,  \* see PriorityInheritance
    tag,          \* the word of each mutex
    flag,         \* the word of each condition variable: it has waiters
    pc,           \* where each thread is
    want,         \* the mutex of the call or wait in progress (address_key), or 0
    seen,         \* the owner that ArbitrateLock is called with
    owns,         \* the mutexes each guest thread takes itself to hold
    terminating,  \* termination_requested
    alive         \* not finalized: the thread's handle is valid

threadVars == <<base, prio, held, ref, cv, tree, panic>>
guestVars == <<want, seen, owns>>
lifeVars == <<terminating, alive>>
vars == <<threadVars, tag, flag, pc, guestVars, lifeVars>>

Free == [owner |-> NoThread, waiters |-> FALSE]
Waiting == {"mutex_wait", "cv_wait"}
InUser == {"user", "arbitrate_lock", "arbitrate_unlock", "resume", "cv_resume"}

TypeOK ==
    /\ base \in [Threads -> Int]
    /\ prio \in [Threads -> Int]
    /\ \A t \in Threads, m \in Mutexes : held[t][m] \subseteq Keys
    /\ ref \in [Threads -> {NoRef} \cup [owner : Threads, addr : Mutexes]]
    /\ cv \in [Threads -> CVs \cup {NoCV}]
    /\ tree \in [CVs -> Seq(Keys)]
    /\ panic \in BOOLEAN
    /\ tag \in [Mutexes -> {Free} \cup [owner : Threads, waiters : BOOLEAN]]
    /\ flag \in [CVs -> {0, 1}]
    /\ pc \in [Threads -> Waiting \cup InUser \cup {"exited"}]
    /\ want \in [Threads -> Mutexes \cup {0}]
    /\ seen \in [Threads -> Threads \cup {NoThread}]
    /\ owns \in [Threads -> SUBSET Mutexes]
    /\ terminating \in [Threads -> BOOLEAN]
    /\ alive \in [Threads -> BOOLEAN]

Init ==
    /\ base = InitialPriority
    /\ prio = InitialPriority
    /\ held = [t \in Threads |-> [m \in Mutexes |-> {}]]
    /\ ref = [t \in Threads |-> NoRef]
    /\ cv = [t \in Threads |-> NoCV]
    /\ tree = [k \in CVs |-> <<>>]
    /\ panic = FALSE
    /\ tag = [m \in Mutexes |-> Free]
    /\ flag = [k \in CVs |-> 0]
    /\ pc = [t \in Threads |-> "user"]
    /\ want = [t \in Threads |-> 0]
    /\ seen = [t \in Threads |-> NoThread]
    /\ owns = [t \in Threads |-> {}]
    /\ terminating = [t \in Threads |-> FALSE]
    /\ alive = [t \in Threads |-> TRUE]

\* What a system call reads and writes, as the record PriorityInheritance takes,
\* with the mutex words and the program counters.
Kernel == [base |-> base, prio |-> prio, held |-> held, ref |-> ref, cv |-> cv,
           tree |-> tree, panic |-> panic, tag |-> tag, pc |-> pc]

\* The call or wait of thread t is over.
Returns(t) ==
    /\ want' = [want EXCEPT ![t] = 0]
    /\ seen' = [seen EXCEPT ![t] = NoThread]

SetKernel(s) ==
    /\ base' = s.base
    /\ prio' = s.prio
    /\ held' = s.held
    /\ ref' = s.ref
    /\ cv' = s.cv
    /\ tree' = s.tree
    /\ panic' = s.panic
    /\ tag' = s.tag
    /\ pc' = s.pc

-----------------------------------------------------------------------------
(* What guests do by themselves, with an atomic exchange of the word *)

MayLock(t, m) == m \notin owns[t] /\ (LockOrder => \A a \in owns[t] : a < m)

GuestLock(t, m) ==
    /\ pc[t] = "user"
    /\ MayLock(t, m)
    /\ tag[m] = Free
    /\ tag' = [tag EXCEPT ![m] = [owner |-> t, waiters |-> FALSE]]
    /\ owns' = [owns EXCEPT ![t] = @ \cup {m}]
    /\ UNCHANGED <<threadVars, flag, pc, want, seen, lifeVars>>

\* A mutex somebody owns: set the wait bit and ask the kernel.
GuestContend(t, m) ==
    /\ pc[t] = "user"
    /\ MayLock(t, m)
    /\ tag[m].owner \in Threads \ {t}
    /\ tag' = [tag EXCEPT ![m].waiters = TRUE]
    /\ seen' = [seen EXCEPT ![t] = tag[m].owner]
    /\ want' = [want EXCEPT ![t] = m]
    /\ pc' = [pc EXCEPT ![t] = "arbitrate_lock"]
    /\ UNCHANGED <<threadVars, flag, owns, lifeVars>>

\* After ArbitrateLock the guest looks at the word again; a wait on a condition
\* variable that succeeded promises the mutex.
GuestResume(t) ==
    /\ pc[t] \in {"resume", "cv_resume"}
    /\ owns' = [owns EXCEPT ![t] =
           IF pc[t] = "cv_resume" \/ tag[want[t]].owner = t
           THEN @ \cup {want[t]} ELSE @]
    /\ pc' = [pc EXCEPT ![t] = "user"]
    /\ Returns(t)
    /\ UNCHANGED <<threadVars, tag, flag, lifeVars>>

\* Unlock: alone if nobody waits, with the kernel otherwise.
GuestUnlock(t, m) ==
    /\ pc[t] = "user"
    /\ m \in owns[t]
    /\ owns' = [owns EXCEPT ![t] = @ \ {m}]
    /\ \/ /\ tag[m] = [owner |-> t, waiters |-> FALSE]
          /\ tag' = [tag EXCEPT ![m] = Free]
          /\ UNCHANGED <<pc, want>>
       \/ /\ tag[m] # [owner |-> t, waiters |-> FALSE]
          /\ pc' = [pc EXCEPT ![t] = "arbitrate_unlock"]
          /\ want' = [want EXCEPT ![t] = m]
          /\ UNCHANGED tag
    /\ UNCHANGED <<threadVars, flag, seen, lifeVars>>

-----------------------------------------------------------------------------
(* ArbitrateLock: wait_for_address *)

\* The test of the tag: anything but the owner the caller saw, with the wait
\* bit, and the call returns at once.
SameTag(t) == tag[want[t]] = [owner |-> seen[t], waiters |-> TRUE]

\* Returns without waiting: the thread terminates or the mutex moved on.
ArbitrateLockReturns(t) ==
    /\ pc[t] = "arbitrate_lock"
    /\ terminating[t] \/ ~SameTag(t)
    /\ pc' = [pc EXCEPT ![t] = "user"]
    /\ Returns(t)
    /\ UNCHANGED <<threadVars, tag, flag, owns, lifeVars>>

\* The owner's handle is closed: an error, which a guest does not survive.
ArbitrateLockFails(t) ==
    /\ pc[t] = "arbitrate_lock"
    /\ ~terminating[t]
    /\ SameTag(t)
    /\ ~alive[tag[want[t]].owner]
    /\ pc' = [pc EXCEPT ![t] = "exited"]
    /\ Returns(t)
    /\ UNCHANGED <<threadVars, tag, flag, owns, lifeVars>>

ArbitrateLockWaits(t) ==
    /\ pc[t] = "arbitrate_lock"
    /\ ~terminating[t]
    /\ SameTag(t)
    /\ alive[tag[want[t]].owner]
    /\ SetKernel([AddWaiter(Kernel, tag[want[t]].owner, t, want[t]) EXCEPT
                     !.pc[t] = "mutex_wait"])
    /\ UNCHANGED <<flag, guestVars, lifeVars>>

-----------------------------------------------------------------------------
(* ArbitrateUnlock: signal_to_address *)

\* The word for the next owner, with the wait bit if others wait too.
MutNextTag(s, n, m) == [owner |-> n, waiters |-> FALSE]
NextTag(s, n, m) == [owner |-> n, waiters |-> s.held[n][m] # {}]

\* end_wait with success, in either kind of wait.
Wake(s, w) ==
    [s EXCEPT !.pc[w] = IF @ = "cv_wait" THEN "cv_resume" ELSE "resume"]

\* Thread t gives up m: it goes to the first waiter, which is woken.
GiveUp(s, t, m) ==
    LET n == Highest(s.held[t][m]).thread
        after == HandOver(s, t, m)
    IN IF s.held[t][m] = {} THEN [s EXCEPT !.tag[m] = Free]
       ELSE Wake([after EXCEPT !.tag[m] = NextTag(after, n, m)], n)

ArbitrateUnlock(t) ==
    /\ pc[t] = "arbitrate_unlock"
    /\ SetKernel([RestorePriority(GiveUp(Kernel, t, want[t]), t) EXCEPT
                     !.pc[t] = "user"])
    /\ Returns(t)
    /\ UNCHANGED <<flag, owns, lifeVars>>

-----------------------------------------------------------------------------
(* WaitProcessWideKeyAtomic: wait_locked_after_sleep_guard *)

MayWait(t, m) ==
    /\ pc[t] = "user"
    /\ m \in owns[t]
    /\ LockOrder => \A a \in owns[t] : a <= m
    /\ ~terminating[t]

\* set_condition_variable, the insertion in the tree, and begin_wait.
EnterTree(s, t, k) ==
    [s EXCEPT !.cv[t] = k, !.tree[k] = TreeInsert(@, KeyOf(s, t)), !.pc[t] = "cv_wait"]

WaitProcessWideKey(t, m, k) ==
    /\ MayWait(t, m)
    /\ SetKernel(EnterTree(GiveUp(Kernel, t, m), t, k))
    /\ flag' = [flag EXCEPT ![k] = 1]
    /\ owns' = [owns EXCEPT ![t] = @ \ {m}]
    /\ want' = [want EXCEPT ![t] = m]
    /\ UNCHANGED <<seen, lifeVars>>

\* With timeout 0 the mutex is given up and the call returns TIMED_OUT.
WaitProcessWideKeyPolls(t, m, k) ==
    /\ MayWait(t, m)
    /\ SetKernel(GiveUp(Kernel, t, m))
    /\ flag' = [flag EXCEPT ![k] = 1]
    /\ owns' = [owns EXCEPT ![t] = @ \ {m}]
    /\ UNCHANGED <<want, seen, lifeVars>>

-----------------------------------------------------------------------------
(* SignalProcessWideKey: signal and signal_impl *)

\* update_lock_atomic: take a free mutex for own, or set the wait bit.
MutUpdateLockAtomic(word, own) == [word EXCEPT !.waiters = TRUE]
UpdateLockAtomic(word, own) ==
    IF word = Free THEN [owner |-> own, waiters |-> FALSE]
    ELSE [word EXCEPT !.waiters = TRUE]

\* signal_impl: the waiter gets the mutex, or waits for its owner.
MutNobodyHeld(prev) == ~prev.waiters
NobodyHeld(prev) == prev = Free

SignalImpl(s, w) ==
    LET m == want[w]
        prev == s.tag[m]
        updated == [s EXCEPT !.tag[m] = UpdateLockAtomic(prev, w)]
    IN IF NobodyHeld(prev) THEN Wake(updated, w)
       ELSE IF alive[prev.owner] THEN AddWaiter(updated, prev.owner, w, m)
       ELSE [updated EXCEPT !.pc[w] = "exited"]

\* The loop body of signal: the first waiter leaves the tree.
SignalOne(s, k) ==
    LET w == Head(s.tree[k]).thread IN
    SignalImpl([s EXCEPT !.tree[k] = TreeErase(@, w), !.cv[w] = NoCV], w)

\* signal: up to count waiters, or all of them.
SignalAll(s, k, count) ==
    LET n == IF count <= 0 THEN Len(s.tree[k]) ELSE Min({count, Len(s.tree[k])})
        after[i \in 0..n] == IF i = 0 THEN s ELSE SignalOne(after[i - 1], k)
    IN after[n]

\* The word of the condition variable is cleared when nobody is left.
MutFlagAfter(s, k) == [flag EXCEPT ![k] = 0]
FlagAfter(s, k) == IF s.tree[k] = <<>> THEN [flag EXCEPT ![k] = 0] ELSE flag

SignalProcessWideKey(t, k, count) ==
    LET s == SignalAll(Kernel, k, count) IN
    /\ pc[t] = "user"
    /\ SetKernel(s)
    /\ flag' = FlagAfter(s, k)
    /\ UNCHANGED <<guestVars, lifeVars>>

-----------------------------------------------------------------------------
(* Timers, priorities and the end of threads *)

\* on_timer, for a wait on a condition variable that has a timeout, also after
\* the waiter was signalled and waits for the mutex.
OnTimer(t) ==
    /\ pc[t] = "cv_wait"
    /\ SetKernel([CancelWait(Kernel, t) EXCEPT !.pc[t] = "user"])
    /\ Returns(t)
    /\ UNCHANGED <<flag, owns, lifeVars>>

\* svcSetThreadPriority of thread u, by thread t, to another value.
SetThreadPriority(t, u, p) ==
    /\ pc[t] = "user"
    /\ alive[u]
    /\ base[u] # p
    /\ SetKernel(SetBasePriority(Kernel, u, p))
    /\ UNCHANGED <<flag, guestVars, lifeVars>>

\* request_terminate: the priority is raised and the wait cancelled.
RequestTerminate(t) ==
    LET raised == IncreaseBasePriority(Kernel, t, TermPriority) IN
    /\ t \in Terminable
    /\ alive[t]
    /\ ~terminating[t]
    /\ terminating' = [terminating EXCEPT ![t] = TRUE]
    /\ \/ /\ pc[t] \in Waiting
          /\ SetKernel([CancelWait(raised, t) EXCEPT !.pc[t] = "user"])
          /\ Returns(t)
       \/ /\ pc[t] \notin Waiting
          /\ SetKernel(raised)
          /\ UNCHANGED <<want, seen>>
    /\ UNCHANGED <<flag, owns, alive>>

\* The terminating DPC: the thread exits wherever it is in user mode.
Exit(t) ==
    /\ terminating[t]
    /\ pc[t] \in InUser
    /\ pc' = [pc EXCEPT ![t] = "exited"]
    /\ Returns(t)
    /\ UNCHANGED <<threadVars, tag, flag, owns, lifeVars>>

\* finalize, when the last handle is closed: all waiters are released with an
\* error.
ReleaseWaiters(s, t) ==
    LET released == {k.thread : k \in WaiterKeys(s, t)} IN
    [s EXCEPT !.held[t] = [m \in Mutexes |-> {}],
              !.ref = [w \in Threads |-> IF w \in released THEN NoRef ELSE s.ref[w]],
              !.pc = [w \in Threads |-> IF w \in released THEN "exited" ELSE s.pc[w]]]

Finalize(t) ==
    /\ pc[t] = "exited"
    /\ alive[t]
    /\ alive' = [alive EXCEPT ![t] = FALSE]
    /\ SetKernel(ReleaseWaiters(Kernel, t))
    /\ UNCHANGED <<flag, guestVars, terminating>>

GuestStep(t) ==
    \/ GuestResume(t)
    \/ \E m \in Mutexes :
          GuestLock(t, m) \/ GuestContend(t, m) \/ GuestUnlock(t, m)

SystemCall(t) ==
    \/ ArbitrateLockReturns(t) \/ ArbitrateLockFails(t) \/ ArbitrateLockWaits(t)
    \/ ArbitrateUnlock(t)
    \/ \E m \in Mutexes, k \in CVs :
          WaitProcessWideKey(t, m, k) \/ WaitProcessWideKeyPolls(t, m, k)
    \/ \E k \in CVs, count \in Counts : SignalProcessWideKey(t, k, count)
    \/ \E u \in Threads, p \in Priorities : SetThreadPriority(t, u, p)

Next ==
    \E t \in Threads :
       \/ GuestStep(t)
       \/ SystemCall(t)
       \/ OnTimer(t)
       \/ RequestTerminate(t)
       \/ Exit(t)
       \/ Finalize(t)

Spec == Init /\ [][Next]_vars

-----------------------------------------------------------------------------
(* Properties *)

\* Whom a thread's priority comes from, by what the threads wait for now.
WaitersOf(o) == {w \in Threads : ref[w].owner = o}

\* restore_priority and the shortcuts around it keep every thread at the
\* highest of its own priority and the priorities of the threads that wait for
\* it, directly or through other owners, whatever order waits begin, time out,
\* are signalled and priorities change in.
PriorityInherited ==
    \A t \in Threads : alive[t] =>
        prio[t] = Min({base[t]} \cup {prio[w] : w \in WaitersOf(t)})

\* Every waiter is in exactly one place, under its present priority: in the
\* tree of the mutex of the owner it refers to, or in the tree of its condition
\* variable.
QueuesAgree ==
    /\ \A o \in Threads, m \in Mutexes :
          held[o][m] = {KeyOf(Kernel, w) : w \in
                           {u \in Threads : ref[u] = [owner |-> o, addr |-> m]}}
    /\ \A k \in CVs :
          /\ {tree[k][i] : i \in 1..Len(tree[k])} =
                {KeyOf(Kernel, w) : w \in {u \in Threads : cv[u] = k}}
          /\ Len(tree[k]) = Cardinality({u \in Threads : cv[u] = k})
          /\ \A i \in 1..(Len(tree[k]) - 1) : tree[k][i].prio <= tree[k][i + 1].prio
    /\ \A t \in Threads :
          /\ cv[t] # NoCV => pc[t] = "cv_wait"
          /\ ref[t] # NoRef <=> pc[t] \in Waiting /\ cv[t] = NoCV

\* Two guests never hold the same mutex, whether they took it by themselves or
\* were handed it by the kernel.
MutualExclusion == \A t, u \in Threads : t # u => owns[t] \cap owns[u] = {}

\* Who waits for a mutex waits for the thread its word names, and the word has
\* the wait bit, so that the owner cannot unlock it without the kernel.
WaitersAreCovered ==
    \A t \in Threads : ref[t] # NoRef =>
        tag[ref[t].addr] = [owner |-> ref[t].owner, waiters |-> TRUE]

\* The kernel hands a mutex from one thread to another only among its waiters,
\* and to one of the highest priority, although priorities change while they
\* wait.
HandsToHighest ==
    [][\A m \in Mutexes :
          LET queue == {w \in Threads : ref[w] = [owner |-> tag[m].owner, addr |-> m]} IN
          /\ tag[m].owner # NoThread
          /\ tag'[m].owner \notin {NoThread, tag[m].owner}
          => /\ tag'[m].owner \in queue
             /\ \A w \in queue : prio[tag'[m].owner] <= prio[w]]_vars

\* A guest that finds the word of a condition variable 0 signals nobody: the
\* word is not 0 while somebody waits in the tree.
SignalsAreNotLost == \A k \in CVs : tree[k] # <<>> => flag[k] = 1

\* restore_priority never takes a thread out of a tree it is not in: the
\* expect("RemoveWaiterImpl: lock info not found") of remove_waiter_impl holds,
\* also for the waiters a hand-over moved to another owner.
LockInfoFound == ~panic
=============================================================================
