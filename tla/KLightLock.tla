------------------------------ MODULE KLightLock ------------------------------
(***************************************************************************)
(* The kernel's light lock (k_light_lock.rs): a tag word holding the       *)
(* owning thread and a "has waiters" bit, a CAS fast path, and a slow path *)
(* under the scheduler lock that parks the caller on the owner's held-lock *)
(* list and lets unlock hand the ownership over.  Threads the kernel does  *)
(* not know (Hosts) use a native condition variable instead.               *)
(*                                                                         *)
(* What a thread does without the scheduler lock interleaves with what     *)
(* another one does under it: the tag is read and swapped by lock() at any *)
(* time, also between the two halves of unlock_slow_path.                  *)
(*                                                                         *)
(* A definition named Mut... is a faulty variant of the one it precedes;   *)
(* no specification uses it.  It shows that a property can fail.           *)
(***************************************************************************)
EXTENDS Integers, FiniteSets

CONSTANTS
    Guests,        \* threads with a KThread
    Hosts,         \* native threads without one (HOST_TAG_FLAG)
    Rank,          \* Rank[g]: position of g in the order (priority, thread id)
    Suspendable,   \* guests that somebody suspends and resumes
    SuspendTypes,  \* the reasons for suspension in use
    Terminable,    \* guests that somebody terminates while they run
    NoThread       \* the null thread pointer

ASSUME ThreadsAssumption ==
    /\ IsFiniteSet(Guests)
    /\ Guests \cap Hosts = {}
    /\ NoThread \notin Guests \cup Hosts
    /\ Suspendable \subseteq Guests
    /\ Terminable \subseteq Guests

ASSUME RankAssumption ==
    /\ Rank \in [Guests -> Nat]
    /\ \A g, h \in Guests : Rank[g] = Rank[h] => g = h

VARIABLES
    tag,         \* m_tag: the owner and the WAITERS_FLAG
    pc,          \* where each thread is in lock() and unlock()
    seen,        \* old_tag | WAITERS_FLAG that lock() passes to its slow path
    waiters,     \* held_lock_info_list of each guest, this lock's entry
    lockOwner,   \* waiting_lock_info of each guest: whom it waits for
    kwaiters,    \* num_kernel_waiters of each guest
    state,       \* base thread state: RUNNABLE or WAITING
    request,     \* suspend_request_flags of each guest, while allowed
    allowed,     \* whether suspend_allowed_flags is not 0
    stopped,     \* whether the raw thread state carries suspend bits
    terminating, \* termination_requested of each guest
    sched,       \* the thread that holds the scheduler lock
    next         \* next_tag, local to the unlocker that holds the scheduler lock

threadVars == <<waiters, lockOwner, kwaiters, state>>
suspendVars == <<request, allowed, stopped>>
vars == <<tag, pc, seen, threadVars, suspendVars, terminating, sched, next>>

Threads == Guests \cup Hosts
\* The tag word: 0, or the owner with or without WAITERS_FLAG.
Free == [owner |-> NoThread, waiters |-> FALSE]
Tags == {Free} \cup [owner : Threads, waiters : BOOLEAN]

PCs == {"idle", "lock", "lock_slow", "enqueue", "parked", "host_check",
        "host_sleep", "host_parked", "cs", "unlock_slow", "store", "notify"}

TypeOK ==
    /\ tag \in Tags
    /\ pc \in [Threads -> PCs]
    /\ seen \in [Threads -> Threads \cup {NoThread}]
    /\ waiters \in [Guests -> SUBSET Guests]
    /\ lockOwner \in [Guests -> Threads \cup {NoThread}]
    /\ kwaiters \in [Guests -> Int]
    /\ state \in [Guests -> {"RUNNABLE", "WAITING"}]
    /\ request \in [Guests -> SUBSET SuspendTypes]
    /\ allowed \in [Guests -> BOOLEAN]
    /\ stopped \in [Guests -> BOOLEAN]
    /\ terminating \in [Guests -> BOOLEAN]
    /\ sched \in Guests \cup {NoThread}
    /\ next \in Tags

Init ==
    /\ tag = Free
    /\ pc = [t \in Threads |-> "idle"]
    /\ seen = [t \in Threads |-> NoThread]
    /\ waiters = [g \in Guests |-> {}]
    /\ lockOwner = [g \in Guests |-> NoThread]
    /\ kwaiters = [g \in Guests |-> 0]
    /\ state = [g \in Guests |-> "RUNNABLE"]
    /\ request = [g \in Guests |-> {}]
    /\ allowed = [g \in Guests |-> TRUE]
    /\ stopped = [g \in Guests |-> FALSE]
    /\ terminating = [g \in Guests |-> FALSE]
    /\ sched = NoThread
    /\ next = Free

Goto(t, l) == pc' = [pc EXCEPT ![t] = l]

\* The value lock_slow_path is called with: the owner seen, with WAITERS_FLAG.
SeenTag(t) == [owner |-> seen[t], waiters |-> TRUE]

\* try_suspend: whether a thread with these suspend requests and this many
\* kernel waiters is stopped.
MutTrySuspend(requests, count) == requests # {}
TrySuspend(requests, count) == requests # {} /\ count <= 0

-----------------------------------------------------------------------------
(* lock() *)

Lock(t) ==
    /\ pc[t] = "idle"
    /\ Goto(t, "lock")
    /\ UNCHANGED <<tag, seen, threadVars, suspendVars, terminating, sched, next>>

\* The inner load / compare_exchange_weak loop up to the exchange that
\* succeeds: takes a free lock, or marks the owner as having waiters.
LockExchange(t) ==
    /\ pc[t] = "lock"
    /\ \/ /\ tag = Free
          /\ tag' = [owner |-> t, waiters |-> FALSE]
          /\ Goto(t, "cs")
          /\ UNCHANGED seen
       \/ /\ tag # Free
          /\ tag' = [owner |-> tag.owner, waiters |-> TRUE]
          /\ seen' = [seen EXCEPT ![t] = tag.owner]
          /\ Goto(t, "lock_slow")
    /\ UNCHANGED <<threadVars, suspendVars, terminating, sched, next>>

UsesHostPath(t) == t \in Hosts \/ seen[t] \in Hosts

\* lock_slow_path up to its check of the tag, under the scheduler lock: a tag
\* that moved on sends the caller back to the loop of lock().
LockSlowPath(t) ==
    /\ pc[t] = "lock_slow"
    /\ ~UsesHostPath(t)
    /\ sched = NoThread
    /\ \/ /\ tag = SeenTag(t)
          /\ sched' = t
          /\ Goto(t, "enqueue")
       \/ /\ tag # SeenTag(t)
          /\ Goto(t, "lock")
          /\ UNCHANGED sched
    /\ UNCHANGED <<tag, seen, threadVars, suspendVars, terminating, next>>

\* KThread::add_waiter of waiter w on owner o, whose priority inheritance is
\* left out: with one lock it does not change the order of the waiters.
AddWaiter(o, w) ==
    /\ waiters' = [waiters EXCEPT ![o] = @ \cup {w}]
    /\ kwaiters' = [kwaiters EXCEPT ![o] = @ + 1]
    /\ lockOwner' = [lockOwner EXCEPT ![w] = o]

\* The rest of lock_slow_path: add_waiter on the owner, begin_wait, let a
\* suspended owner run on, and drop the scheduler lock, which switches away.
LockSlowPathWait(t) ==
    LET o == seen[t] IN
    /\ pc[t] = "enqueue"
    /\ AddWaiter(o, t)
    /\ state' = [state EXCEPT ![t] = "WAITING"]
    /\ stopped' = [stopped EXCEPT ![o] = @ /\ request[o] = {}]
    /\ sched' = NoThread
    /\ Goto(t, "parked")
    /\ UNCHANGED <<tag, seen, request, allowed, terminating, next>>

\* A parked thread made RUNNABLE returns true from lock_slow_path.  A dummy
\* thread wakes as soon as its wait ends, others when the unlocker drops the
\* scheduler lock: either may happen here.
MutLockResume(t) ==
    /\ pc[t] = "parked"
    /\ ~stopped[t]
    /\ Goto(t, "cs")
    /\ UNCHANGED <<tag, seen, threadVars, suspendVars, terminating, sched, next>>

LockResume(t) ==
    /\ pc[t] = "parked"
    /\ state[t] = "RUNNABLE"
    /\ ~stopped[t]
    /\ Goto(t, "cs")
    /\ UNCHANGED <<tag, seen, threadVars, suspendVars, terminating, sched, next>>

\* lock_host_slow_path up to the first look at the tag.
LockHostSlowPath(t) ==
    /\ pc[t] = "lock_slow"
    /\ UsesHostPath(t)
    /\ Goto(t, IF tag = SeenTag(t) THEN "host_check" ELSE "lock")
    /\ UNCHANGED <<tag, seen, threadVars, suspendVars, terminating, sched, next>>

\* One evaluation of the predicate of Condvar::wait_while.
HostWaitCheck(t) ==
    /\ pc[t] = "host_check"
    /\ Goto(t, IF tag = Free THEN "lock" ELSE "host_sleep")
    /\ UNCHANGED <<tag, seen, threadVars, suspendVars, terminating, sched, next>>

\* The thread goes to sleep on the condition variable; a notify_all that came
\* after the predicate was evaluated and before this step does not reach it.
HostWaitSleep(t) ==
    /\ pc[t] = "host_sleep"
    /\ Goto(t, "host_parked")
    /\ UNCHANGED <<tag, seen, threadVars, suspendVars, terminating, sched, next>>

-----------------------------------------------------------------------------
(* unlock() *)

Unlock(t) ==
    /\ pc[t] = "cs"
    /\ \/ /\ tag = [owner |-> t, waiters |-> FALSE]
          /\ tag' = Free
          /\ Goto(t, "idle")
       \/ /\ tag # [owner |-> t, waiters |-> FALSE]
          /\ Goto(t, "unlock_slow")
          /\ UNCHANGED tag
    /\ UNCHANGED <<seen, threadVars, suspendVars, terminating, sched, next>>

UnlockHostStore(t) ==
    /\ t \in Hosts
    /\ pc[t] = "unlock_slow"
    /\ tag' = Free
    /\ Goto(t, "notify")
    /\ UNCHANGED <<seen, threadVars, suspendVars, terminating, sched, next>>

UnlockHostNotify(t) ==
    /\ pc[t] = "notify"
    /\ pc' = [u \in Threads |->
                CASE u = t -> "idle"
                  [] u # t /\ pc[u] = "host_parked" -> "host_check"
                  [] OTHER -> pc[u]]
    /\ UNCHANGED <<tag, seen, threadVars, suspendVars, terminating, sched, next>>

\* get_highest_priority_waiter: the front of the tree ordered by LockWaiterKey.
MutIsHighestPriority(w, W) == w \in W /\ \A v \in W : Rank[v] <= Rank[w]
IsHighestPriority(w, W) == w \in W /\ \A v \in W : Rank[w] <= Rank[v]

\* The tag unlock_slow_path stores for its next owner: next_owner_ptr with
\* WAITERS_FLAG when remove_waiter_by_key left waiters behind.
MutTransferTagNoOwner(n, rest) == [owner |-> NoThread, waiters |-> rest # {}]
MutTransferTagZero(n, rest) == Free
MutTransferTagNoFlag(n, rest) == [owner |-> n, waiters |-> FALSE]
TransferTag(n, rest) == [owner |-> n, waiters |-> rest # {}]

\* The waiters left behind point at the new owner; the new owner waits no more.
MutRetarget(n, rest) == [lockOwner EXCEPT ![n] = NoThread]
Retarget(n, rest) == [g \in Guests |-> CASE g \in rest -> n
                                          [] g = n -> NoThread
                                          [] OTHER -> lockOwner[g]]

\* unlock_slow_path of the current thread t when nobody waits on it.
UnlockSlowPathAlone(t) ==
    /\ t \in Guests
    /\ pc[t] = "unlock_slow"
    /\ sched = NoThread
    /\ waiters[t] = {}
    /\ sched' = t
    /\ next' = Free
    /\ UNCHANGED kwaiters
    /\ stopped' = [stopped EXCEPT ![t] = @ \/ TrySuspend(request[t], kwaiters'[t])]
    /\ Goto(t, "store")
    /\ UNCHANGED <<tag, seen, waiters, lockOwner, state, request, allowed,
                   terminating>>

\* KThread::remove_waiter_by_key on t, with n the waiter it returns, and
\* add_held_lock / add_transferred_kernel_waiters on n for the others.
RemoveWaiterByKey(t, n) ==
    /\ IsHighestPriority(n, waiters[t])
    /\ waiters' = [waiters EXCEPT ![t] = {}, ![n] = @ \cup (waiters[t] \ {n})]
    /\ kwaiters' = [kwaiters EXCEPT ![t] = @ - Cardinality(waiters[t]),
                                    ![n] = @ + Cardinality(waiters[t] \ {n})]

\* unlock_slow_path that hands over to n: the list moves, the wait of n ends,
\* and the tag to be stored is computed.
UnlockSlowPathTransfer(t, n) ==
    LET rest == waiters[t] \ {n} IN
    /\ pc[t] = "unlock_slow"
    /\ sched = NoThread
    /\ sched' = t
    /\ RemoveWaiterByKey(t, n)
    /\ lockOwner' = Retarget(n, rest)
    /\ state' = [state EXCEPT ![n] = "RUNNABLE"]
    /\ stopped' = [stopped EXCEPT
                     ![n] = @ /\ ~(request[n] # {} /\ kwaiters'[n] > 0),
                     ![t] = @ \/ TrySuspend(request[t], kwaiters'[t])]
    /\ next' = TransferTag(n, rest)
    /\ Goto(t, "store")
    /\ UNCHANGED <<tag, seen, request, allowed, terminating>>

\* The last statement of unlock_slow_path, and the end of its scheduler guard.
UnlockStore(t) ==
    /\ pc[t] = "store"
    /\ tag' = next
    /\ sched' = NoThread
    /\ Goto(t, "idle")
    /\ UNCHANGED <<seen, threadVars, suspendVars, terminating, next>>

-----------------------------------------------------------------------------
(* What others do to a thread: KThread::request_suspend, resume and           *)
(* request_terminate.                                                         *)

RequestSuspend(g, type) ==
    /\ sched = NoThread
    /\ allowed[g]
    /\ type \notin request[g]
    /\ request' = [request EXCEPT ![g] = @ \cup {type}]
    /\ stopped' = [stopped EXCEPT ![g] = @ \/ TrySuspend(request'[g], kwaiters[g])]
    /\ UNCHANGED <<tag, pc, seen, threadVars, allowed, terminating, sched, next>>

Resume(g, type) ==
    /\ sched = NoThread
    /\ type \in request[g]
    /\ request' = [request EXCEPT ![g] = @ \ {type}]
    /\ stopped' = [stopped EXCEPT ![g] = request[g] # {type}]
    /\ UNCHANGED <<tag, pc, seen, threadVars, allowed, terminating, sched, next>>

\* cancel_light_lock_wait: the owner drops the thread from its list.
MutCancelLightLockWait(g) ==
    /\ UNCHANGED waiters
    /\ kwaiters' = [kwaiters EXCEPT ![lockOwner[g]] = @ - 1]

CancelLightLockWait(g) ==
    /\ waiters' = [waiters EXCEPT ![lockOwner[g]] = @ \ {g}]
    /\ kwaiters' = [kwaiters EXCEPT ![lockOwner[g]] = @ - 1]

\* request_terminate clears a suspension, and forbids others from then on, and
\* cancels a wait, after which the thread is RUNNABLE.  terminate_children calls it without the scheduler lock.
RequestTerminate(g) ==
    /\ ~terminating[g]
    /\ terminating' = [terminating EXCEPT ![g] = TRUE]
    /\ allowed' = [allowed EXCEPT ![g] = @ /\ request[g] = {}]
    /\ request' = [request EXCEPT ![g] = {}]
    /\ stopped' = [stopped EXCEPT ![g] = FALSE]
    /\ \/ /\ state[g] = "WAITING"
          /\ CancelLightLockWait(g)
          /\ lockOwner' = [lockOwner EXCEPT ![g] = NoThread]
          /\ state' = [state EXCEPT ![g] = "RUNNABLE"]
       \/ /\ state[g] = "RUNNABLE"
          /\ UNCHANGED threadVars
    /\ UNCHANGED <<tag, pc, seen, sched, next>>

-----------------------------------------------------------------------------
\* The steps of unlock and lock that wait for the scheduler lock.
SchedulerStep(g) ==
    \/ LockSlowPath(g)
    \/ UnlockSlowPathAlone(g)
    \/ \E n \in Guests : UnlockSlowPathTransfer(g, n)

\* The other steps by which t finishes a lock() or an unlock() it has begun.
GuestStep(g) == LockSlowPathWait(g) \/ LockResume(g) \/ UnlockStore(g)

Step(t) ==
    \/ LockExchange(t)
    \/ LockHostSlowPath(t) \/ HostWaitCheck(t) \/ HostWaitSleep(t)
    \/ Unlock(t) \/ UnlockHostStore(t) \/ UnlockHostNotify(t)
    \/ t \in Guests /\ GuestStep(t)

Next ==
    \/ \E t \in Threads : Lock(t) \/ Step(t)
    \/ \E g \in Guests : SchedulerStep(g)
    \/ \E g \in Suspendable, type \in SuspendTypes :
          RequestSuspend(g, type) \/ Resume(g, type)
    \/ \E g \in Terminable : RequestTerminate(g)

Spec == Init /\ [][Next]_vars

\* The scheduler runs a runnable guest that is not stopped, and whoever holds
\* the scheduler lock; the other cores' fast paths cannot starve a thread that
\* wants the scheduler lock forever.  Nothing forces a thread to call lock(),
\* and nothing forces a suspended one to be resumed.
CanRun(t) == t \in Guests => (~stopped[t] \/ sched = t)

Fairness ==
    /\ \A t \in Threads : WF_vars(CanRun(t) /\ Step(t))
    /\ \A g \in Guests : SF_vars(CanRun(g) /\ SchedulerStep(g))

FairSpec == Spec /\ Fairness

-----------------------------------------------------------------------------
(* Properties *)

InCriticalSection(t) == pc[t] \in {"cs", "unlock_slow"}

\* The tag as it stands once the hand-over in progress, if any, is stored.
HandingOver == sched # NoThread /\ pc[sched] = "store"
EffectiveTag == IF HandingOver THEN next ELSE tag

\* k_light_lock.rs lock()/unlock(): no two threads, guest or host, are between
\* a lock() that returned and the end of its unlock().
MutualExclusion ==
    \A t, u \in Threads :
        InCriticalSection(t) /\ InCriticalSection(u) => t = u

\* lock_slow_path's comment: the call "resumes only after UnlockSlowPath
\* transfers ownership".  A thread that lock() returned to is the owner in the
\* tag, or the one whose tag the unlocker is about to store.
ResumesAsOwner ==
    \A t \in Threads : InCriticalSection(t) => EffectiveTag.owner = t

\* No lost wake-up: a guest that is parked and still WAITING is in the list of
\* the effective owner, whose tag has the flag that sends its unlock() to
\* unlock_slow_path.
ParkedIsCovered ==
    \A g \in Guests :
        pc[g] = "parked" /\ state[g] = "WAITING" =>
            \E o \in Guests : /\ g \in waiters[o]
                              /\ EffectiveTag = [owner |-> o, waiters |-> TRUE]

\* The two directions of the wait, the owner's held-lock list and the waiter's
\* waiting_lock_info, agree with each other, with the waiter's state and with
\* the owner's num_kernel_waiters, through transfers and cancellations.
WaitLinksAgree ==
    \A o \in Guests :
        /\ waiters[o] = {g \in Guests : lockOwner[g] = o}
        /\ kwaiters[o] = Cardinality(waiters[o])
        /\ \A g \in waiters[o] : pc[g] = "parked" /\ state[g] = "WAITING"

\* A guest others wait for is not kept off the cores by a suspension (try_suspend's
\* early return, continue_if_has_kernel_waiters).  It can be stopped in one way
\* only: by a resume() of one type while another is still requested, since
\* resume() calls update_state() without looking at the kernel waiters.
SuspendDefersToWaiters ==
    [][\A o \in Guests : ~stopped[o] /\ stopped'[o] /\ waiters'[o] # {} =>
            request'[o] # {} /\ request'[o] # request[o]
                             /\ request'[o] \subseteq request[o]]_vars

\* While a guest is parked its owner gets to the end of its critical section,
\* suspended or not, and hands the lock to somebody.
ParkedLeadsToHandOver ==
    \A g \in Guests :
        pc[g] = "parked" ~> (HandingOver \/ pc[g] # "parked" \/ stopped[g])

\* The waiter every unlock prefers is not overtaken for ever once it is parked.
HighestPriority == {g \in Guests : \A h \in Guests : Rank[g] <= Rank[h]}
HighestPriorityEnters ==
    \A g \in HighestPriority : pc[g] = "parked" ~> (pc[g] = "cs" \/ stopped[g])
=============================================================================
