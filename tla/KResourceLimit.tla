---------------------------- MODULE KResourceLimit ----------------------------
(***************************************************************************)
(* A resource limit (k_resource_limit.rs): counters per resource under a   *)
(* light lock, reserve() that waits on a condition variable with a         *)
(* deadline until others release, and the two-step release of exiting      *)
(* threads and processes, which give up the hint first and the value when  *)
(* the object is destroyed.                                                *)
(*                                                                         *)
(* A thread stands for one client: it reserves, holds, and gives back one  *)
(* reservation at a time.  Integers wrap at MaxInt as i64 does in the      *)
(* release build.                                                          *)
(***************************************************************************)
EXTENDS KLightConditionVariable, FiniteSetsExt

CONSTANTS
    Resources,    \* LimitableResource
    Limits,       \* values that set_limit_value is called with
    Initial,      \* the limit of every resource once the system is set up
    Amounts,      \* values that reserve is called with
    MaxInt,       \* i64::MAX
    Terminable    \* threads that somebody terminates

ASSUME RLAssumption ==
    /\ Resources # {}
    /\ MaxInt \in Nat
    /\ Limits \subseteq 0..MaxInt
    /\ Initial \in 0..MaxInt
    /\ Amounts \subseteq 1..MaxInt
    /\ Terminable \subseteq Threads

VARIABLES
    limit,        \* m_limit_values
    current,      \* m_current_values
    hint,         \* m_current_hints
    peak,         \* m_peak_values
    waiterCount,  \* m_waiter_count
    pc,           \* where each thread is
    which,        \* the resource each thread reserves or holds
    value,        \* the amount it reserves or holds
    expired       \* whether the deadline of its reserve() has passed

counters == <<limit, current, hint, peak>>
locals == <<which, value, expired>>
vars == <<cvVars, counters, waiterCount, pc, locals>>

PCs == {"idle", "reserve", "loop", "wait", "enqueue", "asleep",
        "holding", "exited", "broadcast_hint", "broadcast"}

TypeOK ==
    /\ CVTypeOK
    /\ \A c \in {limit, current, hint, peak} : c \in [Resources -> Int]
    /\ waiterCount \in 0..Cardinality(Threads)
    /\ pc \in [Threads -> PCs]
    /\ which \in [Threads -> Resources]
    /\ value \in [Threads -> Amounts \cup {0}]
    /\ expired \in [Threads -> BOOLEAN]

Init ==
    /\ CVInit
    /\ limit = [r \in Resources |-> Initial]
    /\ current = [r \in Resources |-> 0]
    /\ hint = [r \in Resources |-> 0]
    /\ peak = [r \in Resources |-> 0]
    /\ waiterCount = 0
    /\ pc = [t \in Threads |-> "idle"]
    /\ which \in [Threads -> {CHOOSE r \in Resources : TRUE}]
    /\ value = [t \in Threads |-> 0]
    /\ expired = [t \in Threads |-> FALSE]

Goto(t, l) == pc' = [pc EXCEPT ![t] = l]

\* i64 addition of two non-negative numbers.
WrapAdd(a, b) == IF a + b > MaxInt THEN a + b - 2 * (MaxInt + 1) ELSE a + b

\* A KScopedLightLock over a body that does not wait is one step; `other` is
\* the condition variable's state, which such a body leaves alone.
LockFree == lock = NoThread
other == <<sched, waitList, waking, state, timer, terminating>>

-----------------------------------------------------------------------------
(* reserve_with_timeout *)

Reserve(t, r, v) ==
    /\ pc[t] = "idle"
    /\ which' = [which EXCEPT ![t] = r]
    /\ value' = [value EXCEPT ![t] = v]
    /\ expired' = [expired EXCEPT ![t] = FALSE]
    /\ Goto(t, "reserve")
    /\ UNCHANGED <<cvVars, counters, waiterCount>>

\* The light lock is taken, and the hint is compared with the limit once.
ReserveLock(t) ==
    /\ pc[t] = "reserve"
    /\ LockFree
    /\ \/ /\ hint[which[t]] >= limit[which[t]]
          /\ Goto(t, "idle")
          /\ UNCHANGED lock
       \/ /\ hint[which[t]] < limit[which[t]]
          /\ lock' = t
          /\ Goto(t, "loop")
    /\ UNCHANGED <<other, counters, waiterCount, locals>>

\* current.wrapping_add(value) <= current.
MutOverflows(t) == FALSE
Overflows(t) == WrapAdd(current[which[t]], value[t]) <= current[which[t]]

Fits(t) == WrapAdd(current[which[t]], value[t]) <= limit[which[t]]

\* An iteration that takes the resource and returns true.
ReserveTake(t) ==
    LET r == which[t]
        new == WrapAdd(current[r], value[t]) IN
    /\ pc[t] = "loop"
    /\ ~Overflows(t)
    /\ Fits(t)
    /\ current' = [current EXCEPT ![r] = new]
    /\ hint' = [hint EXCEPT ![r] = @ + value[t]]
    /\ peak' = [peak EXCEPT ![r] = Max({@, new})]
    /\ lock' = NoThread
    /\ Goto(t, "holding")
    /\ UNCHANGED <<other, limit, waiterCount, locals>>

\* should_wait.  While the deadline is ahead the caller waits if its amount
\* would fit once those that have given up their hint give up the value too.
MutShouldWait(t) == hint[which[t]] + value[t] <= limit[which[t]]
ShouldWait(t) == hint[which[t]] + value[t] <= limit[which[t]] /\ ~expired[t]

ReserveFail(t) ==
    /\ pc[t] = "loop"
    /\ Overflows(t) \/ (~Fits(t) /\ ~ShouldWait(t))
    /\ lock' = NoThread
    /\ Goto(t, "idle")
    /\ UNCHANGED <<other, counters, waiterCount, locals>>

ReserveWait(t) ==
    /\ pc[t] = "loop"
    /\ ~Overflows(t) /\ ~Fits(t) /\ ShouldWait(t)
    /\ waiterCount' = waiterCount + 1
    /\ Goto(t, "wait")
    /\ UNCHANGED <<cvVars, counters, locals>>

\* m_waiter_count -= 1 when wait() has returned, and the next iteration.
MutWaited(t) ==
    /\ UNCHANGED waiterCount
    /\ Goto(t, "loop")
    /\ UNCHANGED <<counters, locals>>

Waited(t) ==
    /\ waiterCount' = waiterCount - 1
    /\ Goto(t, "loop")
    /\ UNCHANGED <<counters, locals>>

\* m_cond_var.wait(&m_lock, timeout, false)
ReserveWaitRefused(t) == pc[t] = "wait" /\ WaitRefused(t) /\ Waited(t)

ReserveWaitUnlock(t) ==
    /\ pc[t] = "wait"
    /\ WaitUnlock(t)
    /\ Goto(t, "enqueue")
    /\ UNCHANGED <<counters, waiterCount, locals>>

ReserveWaitEnqueue(t) ==
    /\ pc[t] = "enqueue"
    /\ WaitEnqueue(t)
    /\ Goto(t, "asleep")
    /\ UNCHANGED <<counters, waiterCount, locals>>

ReserveWaitRelock(t) == pc[t] = "asleep" /\ WaitRelock(t) /\ Waited(t)

-----------------------------------------------------------------------------
(* release_with_hint *)

\* Whether the release broadcasts.
MutHasWaiters == waitList # <<>>
HasWaiters == waiterCount # 0

\* Gives back v and h of the resource of t, and then goes to b, where the lock
\* is still held, if there are waiters, and to l otherwise.
ReleaseWithHint(t, v, h, b, l) ==
    LET r == which[t] IN
    /\ LockFree
    /\ current' = [current EXCEPT ![r] = @ - v]
    /\ hint' = [hint EXCEPT ![r] = @ - h]
    /\ \/ HasWaiters /\ lock' = t /\ Goto(t, b)
       \/ ~HasWaiters /\ UNCHANGED lock /\ Goto(t, l)
    /\ UNCHANGED <<other, limit, peak, waiterCount, locals>>

\* release(): a reservation that is dropped, or an object destroyed at once.
Release(t) ==
    /\ pc[t] = "holding"
    /\ ReleaseWithHint(t, value[t], value[t], "broadcast", "idle")

\* KThread::exit, KProcess::finish_termination: the hint alone.
ReleaseHint(t) ==
    /\ pc[t] = "holding"
    /\ ReleaseWithHint(t, 0, value[t], "broadcast_hint", "exited")

\* KThread::post_destroy, KProcess::finalize after that: the value alone.
ReleaseValue(t) ==
    /\ pc[t] = "exited"
    /\ ReleaseWithHint(t, value[t], 0, "broadcast", "idle")

Broadcasting(t) == pc[t] \in {"broadcast_hint", "broadcast"}

\* m_cond_var.broadcast() and the end of the guard.
ReleaseBroadcast(t) ==
    /\ Broadcasting(t)
    /\ BroadcastBegin(t) \/ BroadcastPick(t) \/ BroadcastWake(t)
    /\ UNCHANGED <<counters, waiterCount, pc, locals>>

ReleaseEnd(t) ==
    /\ Broadcasting(t)
    /\ BroadcastEnd(t)
    /\ Goto(t, IF pc[t] = "broadcast" THEN "idle" ELSE "exited")
    /\ UNCHANGED <<counters, waiterCount, locals>>

-----------------------------------------------------------------------------
(* set_limit_value, which wakes nobody; the timer; termination *)

SetLimitValue(r, v) ==
    /\ LockFree
    /\ current[r] <= v
    /\ limit' = [limit EXCEPT ![r] = v]
    /\ peak' = [peak EXCEPT ![r] = current[r]]
    /\ UNCHANGED <<cvVars, current, hint, waiterCount, pc, locals>>

\* Time reaches the deadline of the reserve() that t is in.
Expire(t) ==
    /\ pc[t] \in {"reserve", "loop", "wait", "enqueue", "asleep"}
    /\ ~expired[t]
    /\ expired' = [expired EXCEPT ![t] = TRUE]
    /\ UNCHANGED <<cvVars, counters, waiterCount, pc, which, value>>

Timeout(t) ==
    /\ expired[t]
    /\ OnTimer(t)
    /\ UNCHANGED <<counters, waiterCount, pc, locals>>

Terminate(t) ==
    /\ RequestTerminate(t)
    /\ UNCHANGED <<counters, waiterCount, pc, locals>>

-----------------------------------------------------------------------------
\* Steps that take the light lock, which others may keep taking first.
LockStep(t) == ReserveLock(t) \/ ReserveWaitRelock(t)

\* Steps that take the scheduler lock.
SchedulerStep(t) ==
    \/ ReserveWaitRefused(t) \/ ReserveWaitUnlock(t)
    \/ ReleaseBroadcast(t)

Step(t) ==
    \/ ReserveTake(t) \/ ReserveFail(t) \/ ReserveWait(t)
    \/ ReserveWaitEnqueue(t)
    \/ ReleaseEnd(t)

Next ==
    \/ \E t \in Threads :
          \/ \E r \in Resources, v \in Amounts : Reserve(t, r, v)
          \/ LockStep(t) \/ SchedulerStep(t) \/ Step(t)
          \/ Release(t) \/ ReleaseHint(t) \/ ReleaseValue(t)
          \/ Expire(t) \/ Timeout(t)
    \/ \E t \in Terminable : Terminate(t)
    \/ \E r \in Resources, v \in Limits : SetLimitValue(r, v)

Spec == Init /\ [][Next]_vars

\* A thread in reserve() or broadcast() goes on, and gets the locks it asks for
\* although others may take them first; time passes; the hardware timer fires
\* (one disjunct at most is enabled for a thread, so one condition serves for
\* all).  Nobody has to reserve or to release anything.
Fairness ==
    \A t \in Threads :
        /\ SF_vars(LockStep(t) \/ SchedulerStep(t) \/ Step(t) \/ Timeout(t))
        /\ WF_vars(Expire(t))

FairSpec == Spec /\ Fairness

-----------------------------------------------------------------------------
(* Properties *)

InReserve(t) == pc[t] \in {"reserve", "loop", "wait", "enqueue", "asleep"}

HoldsValue(t) == pc[t] \in {"holding", "exited", "broadcast_hint"}
\* What the threads of S hold of r, counted unit by unit.
Units(r, S) == {u \in Threads \X (1..MaxInt) :
                  u[1] \in S /\ which[u[1]] = r /\ u[2] <= value[u[1]]}
Sum(r, S) == Cardinality(Units(r, S))

\* The counters are what the clients hold: nothing leaks or is given back twice
\* when a reservation waits, times out, or is released in two steps, and the
\* debug_asserts of every method hold (0 <= hint <= current <= limit).
Accounting ==
    \A r \in Resources :
        /\ current[r] = Sum(r, {t \in Threads : HoldsValue(t)})
        /\ hint[r] = Sum(r, {t \in Threads : pc[t] = "holding"})
        /\ current[r] <= peak[r] /\ peak[r] <= limit[r]

\* What a termination in the middle of a broadcast breaks is checked up to the
\* first termination.
Undisturbed == \A t \in Threads : ~terminating[t]

\* WaitListAgrees, for as long as nobody is terminated: signals, timeouts and
\* deadlines that pass at any point leave exactly the sleeping threads in the list.
WaitListKept == Undisturbed => WaitListAgrees

\* No lost wake-up: unless somebody is about to broadcast, a thread sleeps in
\* reserve() only while its amount does not fit.  The release that makes room
\* may run when the sleeper has given up the lock and is not yet in the list.
\* (For limits that are not raised: set_limit_value does not broadcast.)
SleepersAreBlocked ==
    (Undisturbed /\ \A t \in Threads : ~Broadcasting(t)) =>
        \A t \in Threads : state[t] = "WAITING" =>
            current[which[t]] + value[t] > limit[which[t]]

\* Every reserve() returns: woken, timed out or refused, also when nobody ever
\* releases anything and when limits are lowered meanwhile (as long as nobody is
\* terminated, which may leave a sleeper behind for good).
ReserveReturns ==
    \A t \in Threads : InReserve(t) ~> ~InReserve(t) \/ ~Undisturbed
=============================================================================
