----------------------- MODULE KLightConditionVariable -----------------------
(***************************************************************************)
(* The condition variable kernel objects pair with a KLightLock            *)
(* (k_light_condition_variable.rs).  The lock is taken as the exclusive    *)
(* lock that KLightLock is shown to be; the scheduler lock is explicit,    *)
(* since wait() gives the lock up before it joins the list and             *)
(* broadcast() wakes the waiters one by one.                               *)
(*                                                                         *)
(* The module has no specification of its own: the object that uses the    *)
(* condition variable says when its threads wait and broadcast.            *)
(*                                                                         *)
(* A definition named Mut... is a faulty variant of the one it precedes.   *)
(***************************************************************************)
EXTENDS Integers, Sequences, FiniteSets, SequencesExt

CONSTANTS Threads,    \* guest threads
          NoThread    \* nobody

ASSUME CVThreads == IsFiniteSet(Threads) /\ NoThread \notin Threads

VARIABLES
    lock,        \* holder of the KLightLock
    sched,       \* holder of the scheduler lock
    waitList,    \* m_wait_list, in insertion order
    waking,      \* the waiter broadcast_waiters has picked
    state,       \* thread state: RUNNABLE or WAITING
    timer,       \* whether a timer task is registered for the thread
    terminating  \* termination_requested

cvVars == <<lock, sched, waitList, waking, state, timer, terminating>>

CVTypeOK ==
    /\ lock \in Threads \cup {NoThread}
    /\ sched \in Threads \cup {NoThread}
    /\ waitList \in Seq(Threads)
    /\ waking \in Threads \cup {NoThread}
    /\ state \in [Threads -> {"RUNNABLE", "WAITING"}]
    /\ timer \in [Threads -> BOOLEAN]
    /\ terminating \in [Threads -> BOOLEAN]

CVInit ==
    /\ lock = NoThread
    /\ sched = NoThread
    /\ waitList = <<>>
    /\ waking = NoThread
    /\ state = [t \in Threads |-> "RUNNABLE"]
    /\ timer = [t \in Threads |-> FALSE]
    /\ terminating = [t \in Threads |-> FALSE]

-----------------------------------------------------------------------------
\* wait() of a terminating thread: back at once, with the lock still held.
WaitRefused(t) ==
    /\ sched = NoThread
    /\ terminating[t]
    /\ UNCHANGED cvVars

\* wait() up to lock.unlock(), under the scheduler lock.
WaitUnlock(t) ==
    /\ sched = NoThread
    /\ ~terminating[t]
    /\ sched' = t
    /\ lock' = NoThread
    /\ UNCHANGED <<waitList, waking, state, timer, terminating>>

\* The rest of wait() before the thread is switched away: it joins the list,
\* begins to wait, registers its timer and drops the scheduler lock.
WaitEnqueue(t) ==
    /\ sched = t
    /\ waitList' = Append(waitList, t)
    /\ state' = [state EXCEPT ![t] = "WAITING"]
    /\ timer' = [timer EXCEPT ![t] = TRUE]
    /\ sched' = NoThread
    /\ UNCHANGED <<lock, waking, terminating>>

\* The end of wait(), once the wait is over: lock.lock().
WaitRelock(t) ==
    /\ state[t] = "RUNNABLE"
    /\ lock = NoThread
    /\ lock' = t
    /\ UNCHANGED <<sched, waitList, waking, state, timer, terminating>>

-----------------------------------------------------------------------------
(* broadcast() *)

BroadcastBegin(t) ==
    /\ sched = NoThread
    /\ sched' = t
    /\ UNCHANGED <<lock, waitList, waking, state, timer, terminating>>

\* broadcast_waiters takes a copy of the first waiter ...
BroadcastPick(t) ==
    /\ sched = t
    /\ waking = NoThread
    /\ waitList # <<>>
    /\ waking' = Head(waitList)
    /\ UNCHANGED <<lock, sched, waitList, state, timer, terminating>>

\* ... ends its wait, which does nothing to a thread that does not wait and
\* cancels the timer of one that does, and then drops the first entry of the
\* list.  (A removal from an empty list panics: no step.)
EndWait(t) ==
    /\ state' = [state EXCEPT ![t] = "RUNNABLE"]
    /\ timer' = [timer EXCEPT ![t] = FALSE]

BroadcastWake(t) ==
    /\ sched = t
    /\ waking # NoThread
    /\ waitList # <<>>
    /\ EndWait(waking)
    /\ waitList' = Tail(waitList)
    /\ waking' = NoThread
    /\ UNCHANGED <<lock, sched, terminating>>

\* The list is empty: both guards, the scheduler lock's and the caller's of
\* the light lock, are dropped.
BroadcastEnd(t) ==
    /\ sched = t
    /\ waking = NoThread
    /\ waitList = <<>>
    /\ sched' = NoThread
    /\ lock' = NoThread
    /\ UNCHANGED <<waitList, waking, state, timer, terminating>>

-----------------------------------------------------------------------------
\* The cancel_wait callback takes the first entry of the thread off the list (a
\* thread that is not there is a panic: no step) and KThreadQueue::cancel_wait
\* ends the wait.
IsPosition(i, t) == waitList[i] = t /\ \A j \in 1..(i - 1) : waitList[j] # t

MutCancelWait(t) ==
    /\ state[t] = "WAITING"
    /\ Contains(waitList, t)
    /\ UNCHANGED waitList
    /\ EndWait(t)

CancelWait(t) ==
    /\ state[t] = "WAITING"
    /\ \E i \in DOMAIN waitList : /\ IsPosition(i, t)
                                 /\ waitList' = RemoveAt(waitList, i)
    /\ EndWait(t)

\* KThread::on_timer, called by KHardwareTimer::do_task under the scheduler
\* lock: the registered timer ends the wait with TIMED_OUT.
OnTimer(t) ==
    /\ sched = NoThread
    /\ timer[t]
    /\ CancelWait(t)
    /\ UNCHANGED <<lock, sched, waking, terminating>>

\* KThread::request_terminate cancels a wait, which this queue never vetoes:
\* every caller passes allow_terminating_thread = false.  terminate_children
\* calls it without the scheduler lock.
RequestTerminate(t) ==
    /\ ~terminating[t]
    /\ terminating' = [terminating EXCEPT ![t] = TRUE]
    /\ \/ CancelWait(t)
       \/ state[t] = "RUNNABLE" /\ UNCHANGED <<waitList, state, timer>>
    /\ UNCHANGED <<lock, sched, waking>>

-----------------------------------------------------------------------------
\* broadcast()'s comment: it wakes "every waiter".  Every thread that waits is
\* in the list for the next broadcast to find, once; and the list holds no
\* other, so the callback of a cancelled wait finds its thread (it panics with
\* "is not in its waiter list" otherwise).
WaitListAgrees ==
    /\ \A i, j \in DOMAIN waitList : waitList[i] = waitList[j] => i = j
    /\ \A t \in Threads : Contains(waitList, t) <=> state[t] = "WAITING"
=============================================================================
