------------------------------ MODULE TimedWaits ------------------------------
(***************************************************************************)
(* The waits of guest threads that the hardware timer can end: on an       *)
(* address (svc_address_arbiter.rs, KAddressArbiter), on events            *)
(* (svc_synchronization.rs, KSynchronizationObject) and SleepThread        *)
(* (k_thread.rs), with the thread queues that tie a wait to its timer      *)
(* task (k_thread_queue.rs).  A wait is ended by a signal, by its          *)
(* deadline, by CancelSynchronization or by the termination of the thread; *)
(* all of them compete, and each must undo what the wait set up.           *)
(*                                                                         *)
(* The waiting threads are Threads.  Signals, stores to the words,         *)
(* cancellations and terminations come from other threads, of the process  *)
(* or of the host, at any time.  Priorities change at any time as well: a  *)
(* call reads one and files its thread under it, and nothing else here     *)
(* looks at them.                                                          *)
(*                                                                         *)
(* A call is two steps: it reads the clock for its deadline (and its       *)
(* thread's priority), then it does the rest under the scheduler lock,     *)
(* which ends with the registration of the timer task.                     *)
(***************************************************************************)
EXTENDS KHardwareTimer, KAddressArbiter, KSynchronizationObject

CONSTANTS
    Requests,    \* what a thread may call
    Timeouts,    \* timeouts it may give: -1 waits forever, 0 polls
    Priorities,  \* priorities of threads, the lower the better
    Counts,      \* how many waiters a signal may ask for
    Signals,     \* events that others signal and reset
    Cancelled,   \* threads that others call CancelSynchronization for
    Terminable   \* threads that may be terminated

AddressKinds == {"LessThan", "Decrement", "Equal"}

ASSUME WaitsAssumption ==
    /\ \A r \in Requests :
         /\ r.kind \in AddressKinds \cup {"Sync", "Sleep"}
         /\ r.kind \in AddressKinds => r.addr \in Addresses /\ r.value \in Int
         /\ r.kind = "Sync" => r.objs \in Seq(Events)
    /\ Timeouts \subseteq Nat \cup {-1}
    /\ Priorities \cup Counts \subseteq Int
    /\ Signals \subseteq Events
    /\ {Cancelled, Terminable} \subseteq SUBSET Threads

VARIABLES
    pc,           \* "idle", "called", "waiting" or "exited"
    since,        \* the time at which a call computed its deadline
    wait,         \* what a thread waits on, until when, and the priority it was filed under
    outcome,      \* wait_result and synced_index of a call that has just ended
    terminating,  \* termination_requested
    cancelled,    \* wait_cancelled
    cancellable   \* cancellable

threadVars == <<pc, since, wait, terminating, cancelled, cancellable>>
vars == <<timerVars, arbiterVars, syncVars, threadVars, outcome>>

NoWait == [on |-> [kind |-> "none"], deadline |-> 0, prio |-> 0]
Results == {"none", "success", "timeout", "cancelled", "terminated", "state"}

\* The thread reads both when it runs again; until then nothing writes them, since
\* end_wait and cancel_wait leave a thread alone that does not wait.
Outcome(res, i) == [result |-> res, index |-> i]
NoOutcome == [t \in Threads |-> Outcome("none", 0)]
Quiet == outcome' = NoOutcome

Waiting(t) == pc[t] = "waiting"
AtAddress(t) == wait[t].on.kind = "Address"
AtObjects(t) == wait[t].on.kind = "Sync"

TypeOK ==
    /\ now \in 0..Horizon
    /\ events \in [1..Horizon -> 0..2]
    /\ firing \in BOOLEAN
    /\ taskTime \in [Threads -> 0..TimeMax]
    /\ wakeup \in 1..TimeMax
    /\ word \in [Addresses -> Words]
    /\ \A a \in Addresses : WaitersOf(a) \subseteq Threads
    /\ signaled \subseteq Events
    /\ \A e \in Events : Snapshot(e) \subseteq Threads
    /\ pc \in [Threads -> {"idle", "called", "waiting", "exited"}]
    /\ since \in [Threads -> 0..Horizon]
    /\ outcome \in [Threads -> [result : Results, index : Nat]]
    /\ {terminating, cancelled, cancellable} \subseteq SUBSET Threads

Init ==
    /\ TimerInit
    /\ ArbiterInit
    /\ SyncInit
    /\ pc = [t \in Threads |-> "idle"]
    /\ since = [t \in Threads |-> 0]
    /\ wait = [t \in Threads |-> NoWait]
    /\ outcome = NoOutcome
    /\ terminating = {}
    /\ cancelled = {}
    /\ cancellable = {}

-----------------------------------------------------------------------------
\* The first step of a call; what the call asks for is chosen in the second.
Call(t) ==
    /\ pc[t] = "idle"
    /\ t \notin terminating
    /\ pc' = [pc EXCEPT ![t] = "called"]
    /\ since' = [since EXCEPT ![t] = now]
    /\ Quiet
    /\ UNCHANGED <<timerVars, arbiterVars, syncVars, wait, terminating, cancelled, cancellable>>

\* The deadline the call computed.  A sum past i64::MAX is i64::MAX.
Deadline(t, timeout) ==
    IF timeout <= 0 THEN timeout
    ELSE IF since[t] + timeout > TimeMax THEN TimeMax ELSE since[t] + timeout

\* A call that returns without waiting cancels the sleep of its guard.
Returns(t, res, i) ==
    /\ pc' = [pc EXCEPT ![t] = "idle"]
    /\ since' = [since EXCEPT ![t] = 0]
    /\ outcome' = [NoOutcome EXCEPT ![t] = Outcome(res, i)]
    /\ UNCHANGED <<timerVars, tree, syncVars, wait, terminating, cancellable>>

\* begin_wait_with_queue, and the guard's drop.
BeginWait(t, on, timeout, prio) ==
    /\ pc' = [pc EXCEPT ![t] = "waiting"]
    /\ since' = [since EXCEPT ![t] = 0]
    /\ wait' = [wait EXCEPT ![t] = [on |-> on, deadline |-> Deadline(t, timeout), prio |-> prio]]
    /\ Drop(t, Deadline(t, timeout))
    /\ Quiet
    /\ UNCHANGED <<terminating, cancelled>>

\* The check every wait begins with.
TerminationRequested(t) ==
    /\ pc[t] = "called"
    /\ t \in terminating
    /\ Returns(t, "terminated", 0)
    /\ UNCHANGED <<word, cancelled>>

Starts(t) == pc[t] = "called" /\ t \notin terminating

\* wait_if_less_than and wait_if_equal.
StaysAwake(r) ==
    IF r.kind = "Equal" THEN word[r.addr] # r.value ELSE word[r.addr] >= r.value

WaitForAddress(t, r, timeout, prio) ==
    /\ Starts(t)
    /\ r.kind \in AddressKinds
    /\ IF r.kind = "Decrement" THEN DecrementIfLessThan(r.addr, r.value)
       ELSE UNCHANGED word
    /\ \/ /\ StaysAwake(r)
          /\ Returns(t, "state", 0)
          /\ UNCHANGED cancelled
       \/ /\ ~StaysAwake(r)
          /\ timeout = 0
          /\ Returns(t, "timeout", 0)
          /\ UNCHANGED cancelled
       \/ /\ ~StaysAwake(r)
          /\ timeout # 0
          /\ tree' = Inserted(r.addr, prio, t)
          /\ BeginWait(t, [kind |-> "Address", addr |-> r.addr], timeout, prio)
          /\ UNCHANGED <<syncVars, cancellable>>

\* wait_on_objects.
WaitOnObjects(t, r, timeout) ==
    LET i == FirstIndex(r.objs, signaled) IN
    /\ Starts(t)
    /\ r.kind = "Sync"
    /\ UNCHANGED word
    /\ \/ i > 0 /\ Returns(t, "success", i) /\ UNCHANGED cancelled
       \/ i = 0 /\ timeout = 0 /\ Returns(t, "timeout", 0) /\ UNCHANGED cancelled
       \/ /\ i = 0
          /\ timeout # 0
          /\ t \in cancelled
          /\ Returns(t, "cancelled", 0)
          /\ cancelled' = cancelled \ {t}
       \/ /\ i = 0
          /\ timeout # 0
          /\ t \notin cancelled
          /\ lists' = Linked(t, r.objs)
          /\ cancellable' = cancellable \cup {t}
          /\ BeginWait(t, r, timeout, 0)
          /\ UNCHANGED <<tree, signaled>>

\* KThread::sleep.
Sleep(t, r, timeout) ==
    /\ Starts(t)
    /\ r.kind = "Sleep"
    /\ timeout > 0
    /\ BeginWait(t, r, timeout, 0)
    /\ UNCHANGED <<arbiterVars, syncVars, cancellable>>

-----------------------------------------------------------------------------
\* What the end of a wait does to its thread (base_end_wait, cancel_wait).
Ends(gone, res, synced) ==
    /\ pc' = [t \in Threads |-> IF t \in gone THEN "idle" ELSE pc[t]]
    /\ wait' = [t \in Threads |-> IF t \in gone THEN NoWait ELSE wait[t]]
    /\ UNCHANGED since
    /\ outcome' = [t \in Threads |->
                     IF t \in gone THEN Outcome(res, synced[t]) ELSE Outcome("none", 0)]

NoIndex == [t \in Threads |-> 0]

\* The callbacks of the queues that a cancelled wait runs.
CancelCallbacks(gone) ==
    /\ tree' = Erased(gone)
    /\ lists' = Unlinked(gone)
    /\ cancellable' = cancellable \ gone

\* signal_locked.
WakeAtAddress(gone) ==
    /\ tree' = Erased(gone)
    /\ Ends(gone, "success", NoIndex)
    /\ CancelTasks(gone)

Signal(a, count) ==
    /\ WakeAtAddress(Signalled(a, count))
    /\ UNCHANGED <<word, now, events, firing, wakeup, syncVars,
                   terminating, cancelled, cancellable>>

SignalAndIncrementIfEqual(a, value, count) ==
    /\ word[a] = value
    /\ word' = [word EXCEPT ![a] = Wrap(value + 1)]
    /\ WakeAtAddress(Signalled(a, count))
    /\ UNCHANGED <<now, events, firing, wakeup, syncVars,
                   terminating, cancelled, cancellable>>

SignalAndModifyByWaitingCountIfEqual(a, value, count) ==
    /\ word[a] = value
    /\ word' = [word EXCEPT ![a] = NewValue(a, value, count)]
    /\ WakeAtAddress(Signalled(a, count))
    /\ UNCHANGED <<now, events, firing, wakeup, syncVars,
                   terminating, cancelled, cancellable>>

\* A guest thread stores to the word.
Store(a, value) ==
    /\ word' = [word EXCEPT ![a] = value]
    /\ Quiet
    /\ UNCHANGED <<timerVars, tree, syncVars, threadVars>>

\* KReadableEvent::signal, which notifies each thread of the snapshot.
SignalEvent(e) ==
    LET gone == Snapshot(e) IN
    /\ e \notin signaled
    /\ signaled' = signaled \cup {e}
    /\ lists' = Unlinked(gone)
    /\ Ends(gone, "success", [t \in Threads |->
            IF t \in gone THEN FirstIndex(wait[t].on.objs, {e}) ELSE 0])
    /\ cancellable' = cancellable \ gone
    /\ CancelTasks(gone)
    /\ UNCHANGED <<now, events, firing, wakeup, arbiterVars, terminating, cancelled>>

\* KReadableEvent::reset.
ResetEvent(e) ==
    /\ e \in signaled
    /\ signaled' = signaled \ {e}
    /\ Quiet
    /\ UNCHANGED <<timerVars, arbiterVars, lists, threadVars>>

\* do_task: the threads whose tasks have expired time out (on_timer).
DoTask ==
    /\ firing
    /\ firing' = FALSE
    /\ \/ \E fired \in {DoInterruptTaskImpl} :
            LET gone == {t \in fired : Waiting(t)} IN
            /\ TimerExpires(fired)
            /\ CancelCallbacks(gone)
            /\ Ends(gone, "timeout", NoIndex)
       \/ TimerIsOff /\ Quiet /\ UNCHANGED <<tree, lists, pc, since, wait, cancellable>>
    /\ UNCHANGED <<now, word, signaled, terminating, cancelled>>

\* wait_cancel.
CancelSynchronization(t) ==
    /\ t \in Cancelled
    /\ pc[t] # "exited"
    /\ \/ /\ Waiting(t)
          /\ t \in cancellable
          /\ cancelled' = cancelled \ {t}
          /\ CancelCallbacks({t})
          /\ Ends({t}, "cancelled", NoIndex)
          /\ CancelTasks({t})
          /\ UNCHANGED <<now, events, firing, wakeup>>
       \/ /\ ~(Waiting(t) /\ t \in cancellable)
          /\ cancelled' = cancelled \cup {t}
          /\ Quiet
          /\ UNCHANGED <<timerVars, tree, lists, pc, since, wait, cancellable>>
    /\ UNCHANGED <<word, signaled, terminating>>

\* request_terminate, and the exit of the thread when it runs again.
RequestTerminate(t) ==
    /\ t \in Terminable \ terminating
    /\ terminating' = terminating \cup {t}
    /\ \/ /\ Waiting(t)
          /\ CancelCallbacks({t})
          /\ Ends({t}, "terminated", NoIndex)
          /\ CancelTasks({t})
          /\ UNCHANGED <<now, events, firing, wakeup>>
       \/ /\ ~Waiting(t)
          /\ Quiet
          /\ UNCHANGED <<timerVars, tree, lists, pc, since, wait, cancellable>>
    /\ UNCHANGED <<word, signaled, cancelled>>

Exit(t) ==
    /\ pc[t] = "idle"
    /\ t \in terminating
    /\ pc' = [pc EXCEPT ![t] = "exited"]
    /\ Quiet
    /\ UNCHANGED <<timerVars, arbiterVars, syncVars, since, wait,
                   terminating, cancelled, cancellable>>

-----------------------------------------------------------------------------
Thread(t) ==
    \/ Call(t)
    \/ TerminationRequested(t)
    \/ \E r \in Requests, d \in Timeouts :
         \/ \E p \in Priorities : WaitForAddress(t, r, d, p)
         \/ WaitOnObjects(t, r, d)
         \/ Sleep(t, r, d)
    \/ CancelSynchronization(t)
    \/ RequestTerminate(t)
    \/ Exit(t)

Word(a) ==
    \/ \E v \in Words : Store(a, v)
    \/ \E n \in Counts :
         \/ Signal(a, n)
         \/ \E v \in Words :
              \/ SignalAndIncrementIfEqual(a, v, n)
              \/ SignalAndModifyByWaitingCountIfEqual(a, v, n)

Clock == Tick /\ Quiet /\ UNCHANGED <<arbiterVars, syncVars, threadVars>>
TimingThread == Advance /\ Quiet /\ UNCHANGED <<arbiterVars, syncVars, threadVars>>

Next ==
    \/ \E t \in Threads : Thread(t)
    \/ \E a \in Addresses : Word(a)
    \/ \E e \in Signals : SignalEvent(e) \/ ResetEvent(e)
    \/ Clock
    \/ TimingThread
    \/ DoTask

Spec == Init /\ [][Next]_vars

\* Time goes on, and the timing thread runs and gets the scheduler lock.
FairSpec == Spec /\ WF_vars(Clock) /\ WF_vars(TimingThread) /\ WF_vars(DoTask)

-----------------------------------------------------------------------------
\* A thread has its entries exactly while it waits: one in the tree of its
\* address, a node for each handle in the list of each object, a timer task for
\* its deadline; and it can be cancelled exactly while it waits for objects.
QueuesAgree ==
    /\ \A a \in Addresses :
         /\ IsInjective([i \in DOMAIN tree[a] |-> tree[a][i].thread])
         /\ WaitersOf(a) = {t \in Threads : AtAddress(t) /\ wait[t].on.addr = a}
    /\ \A e \in Events :
         lists[e] =
           UNION {{Node(t, i) : i \in {j \in DOMAIN wait[t].on.objs :
                                          wait[t].on.objs[j] = e}} :
                   t \in {u \in Threads : AtObjects(u)}}
    /\ \A t \in Threads :
         taskTime[t] = IF Waiting(t) /\ wait[t].deadline > 0 THEN wait[t].deadline ELSE 0
    /\ {<<taskTree[k].time, taskTree[k].thread>> : k \in DOMAIN taskTree} =
         {<<taskTime[t], t>> : t \in {u \in Threads : taskTime[u] > 0}}
    /\ cancellable = {t \in Threads : AtObjects(t)}

\* No deadline is forgotten: the timer knows the earliest task, and an event is
\* scheduled at or before it, or the callback is about to look (the
\* registrations that schedule none, do_task's rearming).
TimerCovers ==
    /\ nextTask = First(taskTree)
    /\ \A k \in DOMAIN taskTree :
         taskTree[k].time < TimeMax =>
           /\ wakeup <= taskTree[k].time
           /\ firing \/ \E i \in 1..taskTree[k].time : events[i] > 0

\* No signal is missed: no thread sleeps on an event that is signalled, whatever
\* was signalled, reset and cancelled before (wait_on_objects against signal).
SleepersUnsignaled ==
    \A t \in Threads :
        AtObjects(t) => \A i \in DOMAIN wait[t].on.objs : wait[t].on.objs[i] \notin signaled

\* A wait ends for the reason it returns: it times out at its deadline and not
\* before, only a wait for objects is cancelled, only a terminating thread is told
\* so, and a wait for objects succeeds with the index of one just signalled.  A
\* task or a flag left over from an earlier wait would break it.
WaitEndsRight ==
    [][\A t \in Threads : Waiting(t) /\ pc'[t] # "waiting" =>
         \/ outcome'[t].result = "timeout" /\ 0 < wait[t].deadline /\ wait[t].deadline <= now
         \/ outcome'[t].result = "cancelled" /\ AtObjects(t)
         \/ outcome'[t].result = "terminated" /\ t \in terminating'
         \/ outcome'[t].result = "success" /\ AtAddress(t)
         \/ /\ outcome'[t].result = "success"
            /\ AtObjects(t)
            /\ wait[t].on.objs[outcome'[t].index] \in signaled' \ signaled]_vars

\* A signal passes over no waiter that was filed with a better priority, or as
\* good a one and earlier.
WakesInOrder(a) ==
    \A i, j \in DOMAIN tree[a] :
        LET t == tree[a][i].thread
            u == tree[a][j].thread
        IN (/\ outcome'[u].result = "success" /\ pc'[u] # "waiting"
            /\ \/ wait[t].prio < wait[u].prio
               \/ wait[t].prio = wait[u].prio /\ i < j)
           => pc'[t] # "waiting"

\* SignalAndModifyByWaitingCountIfEqual leaves a word that tells the guest whether
\* threads still wait: value itself if and only if some do.
WordTells(a, v, n) ==
    word'[a] = Wrap(IF tree[a] = <<>> THEN v + 1
                    ELSE IF tree'[a] # <<>> THEN v
                    ELSE IF n <= 0 THEN v - 2 ELSE v - 1)

\* Signals of the address arbiter wake the right threads and store the right
\* value (first_waiter_for_addr, signal_locked, the waiter count).
SignalsAreExact ==
    [][\A a \in Addresses :
         /\ WakesInOrder(a)
         /\ \A n \in Counts :
              SignalAndModifyByWaitingCountIfEqual(a, word[a], n) =>
                WordTells(a, word[a], n)]_vars

\* Every wait whose deadline the clock reaches ends, also when tasks before it
\* were cancelled, registered again or moved the wakeup time.  The clock stops at
\* the horizon, so only finitely many such waits begin and in the end there is none.
TimedWaitsEnd ==
    <>[](\A t \in Threads :
            ~(Waiting(t) /\ 0 < wait[t].deadline /\ wait[t].deadline < TimeMax))
=============================================================================
