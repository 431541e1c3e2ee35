------------------------- MODULE KResourceLimit_proofs -------------------------
(***************************************************************************)
(* Proofs about KResourceLimit and the condition variable it waits on, for *)
(* any set of threads, resources, amounts and limits.                      *)
(***************************************************************************)
EXTENDS KResourceLimit, ListLemmas, FiniteSetTheorems, TLAPS

\* reserve() has counted the thread in m_waiter_count.
InWait(t) == pc[t] \in {"wait", "enqueue", "asleep"}

\* Where a thread holds the light lock and the scheduler lock.
LockHeld == \A t \in Threads : lock = t <=> pc[t] \in {"loop", "wait", "broadcast_hint", "broadcast"}

SchedulerLockHeld ==
    \A t \in Threads :
        /\ sched = t => pc[t] = "enqueue" \/ Broadcasting(t)
        /\ pc[t] = "enqueue" => sched = t

WaitersCounted == waiterCount = Cardinality({t \in Threads : InWait(t)})

\* Threads wait in one place, and broadcast_waiters' copy is the first entry of
\* the list for as long as it is used.
SleepersAreAsleep == \A t \in Threads : state[t] = "WAITING" => pc[t] = "asleep"

PickIsFirst ==
    waking # NoThread => /\ sched \in Threads /\ Broadcasting(sched)
                         /\ waitList # <<>> /\ waking = Head(waitList)

\* A thread that decided to wait, and is not asleep yet, or that sleeps.
Sleepy(t) == pc[t] \in {"wait", "enqueue"} \/ state[t] = "WAITING"
Blocked(t) == current[which[t]] + value[t] > limit[which[t]]

\* The amount of whoever decided to wait does not fit, unless a broadcast is on
\* its way.
SleepyAreBlocked ==
    (Undisturbed /\ \A t \in Threads : ~Broadcasting(t)) =>
        \A t \in Threads : Sleepy(t) => Blocked(t)

-----------------------------------------------------------------------------
(* Types *)

\* TypeOK without the bound of m_waiter_count, which WaitersCounted implies.
VarTypes ==
    /\ CVTypeOK
    /\ limit \in [Resources -> Int] /\ current \in [Resources -> Int]
    /\ hint \in [Resources -> Int] /\ peak \in [Resources -> Int]
    /\ waiterCount \in Int
    /\ pc \in [Threads -> PCs]
    /\ which \in [Threads -> Resources]
    /\ value \in [Threads -> Amounts \cup {0}]
    /\ expired \in [Threads -> BOOLEAN]

\* The amounts are integers that do not exceed i64::MAX.
LEMMA AmountTypes ==
    /\ MaxInt \in Nat
    /\ \A v \in Amounts \cup {0} : v \in Int /\ v >= 0 /\ v <= MaxInt
  BY RLAssumption

\* A cancelled wait leaves a list of threads, and every other entry in it.
LEMMA CancelWaitTypes ==
    ASSUME CVTypeOK, NEW t \in Threads, CancelWait(t)
    PROVE  /\ waitList' \in Seq(Threads)
           /\ state' \in [Threads -> {"RUNNABLE", "WAITING"}]
           /\ timer' \in [Threads -> BOOLEAN]
<1>1. PICK i \in DOMAIN waitList : waitList' = RemoveAt(waitList, i)
  BY DEF CancelWait
<1>2. waitList \in Seq(Threads) /\ i \in 1..Len(waitList)
  BY <1>1, LenProperties DEF CVTypeOK
<1>3. waitList' \in Seq(Threads)
  BY <1>1, <1>2, RemoveAtProperties
<1> QED
  BY <1>3 DEF CancelWait, EndWait, CVTypeOK

\* The condition variable's steps keep its types.
LEMMA BroadcastTypes ==
    ASSUME CVTypeOK, NEW t \in Threads, BroadcastBegin(t) \/ BroadcastPick(t) \/ BroadcastWake(t)
    PROVE  CVTypeOK'
<1>1. CASE BroadcastBegin(t)
  BY <1>1 DEF BroadcastBegin, CVTypeOK
<1>2. ASSUME waitList # <<>> PROVE Head(waitList) \in Threads /\ Tail(waitList) \in Seq(Threads)
  BY <1>2, HeadTailProperties DEF CVTypeOK
<1>3. CASE BroadcastPick(t)
  BY <1>2, <1>3 DEF BroadcastPick, CVTypeOK
<1>4. CASE BroadcastWake(t)
  BY <1>2, <1>4 DEF BroadcastWake, EndWait, CVTypeOK
<1> QED
  BY <1>1, <1>3, <1>4

\* Every step of KResourceLimit keeps the types of its variables.
LEMMA TypeStep == VarTypes /\ [Next]_vars => VarTypes'
<1> SUFFICES ASSUME VarTypes, [Next]_vars PROVE VarTypes'
  OBVIOUS
<1> USE DEF VarTypes
<1>1. ASSUME NEW t \in Threads, NEW r \in Resources, NEW v \in Amounts, Reserve(t, r, v)
      PROVE  VarTypes'
  BY <1>1 DEF Reserve, Goto, PCs, cvVars, counters, CVTypeOK
<1>2. ASSUME NEW t \in Threads, ReserveLock(t) PROVE VarTypes'
  BY <1>2 DEF ReserveLock, Goto, PCs, other, counters, locals, CVTypeOK
<1>3. ASSUME NEW t \in Threads, ReserveTake(t) PROVE VarTypes'
  <2> DEFINE r == which[t]
             new == WrapAdd(current[r], value[t])
  <2>1. r \in Resources /\ current[r] \in Int /\ value[t] \in Int /\ hint[r] \in Int /\ peak[r] \in Int
    BY AmountTypes
  <2>2. new \in Int
    BY <2>1, AmountTypes DEF WrapAdd
  <2>3. Max({peak[r], new}) \in Int
    <3>1. \E x \in {peak[r], new} : \A y \in {peak[r], new} : x >= y
      BY <2>1, <2>2
    <3> HIDE DEF new
    <3>2. Max({peak[r], new}) \in {peak[r], new}
      BY <3>1 DEF Max
    <3> QED
      BY <2>1, <2>2, <3>2
  <2> HIDE DEF new
  <2>4. /\ current' = [current EXCEPT ![r] = new]
        /\ hint' = [hint EXCEPT ![r] = hint[r] + value[t]]
        /\ peak' = [peak EXCEPT ![r] = Max({peak[r], new})]
        /\ lock' = NoThread /\ pc' = [pc EXCEPT ![t] = "holding"]
        /\ UNCHANGED <<other, limit, waiterCount, locals>>
    BY <1>3 DEF ReserveTake, Goto, new
  <2>5. /\ current' \in [Resources -> Int] /\ hint' \in [Resources -> Int]
        /\ peak' \in [Resources -> Int] /\ limit' \in [Resources -> Int]
    BY <2>1, <2>2, <2>3, <2>4
  <2>6. pc' \in [Threads -> PCs]
    BY <2>4 DEF PCs
  <2>7. CVTypeOK'
    BY <2>4 DEF other, CVTypeOK
  <2> QED
    BY <2>4, <2>5, <2>6, <2>7 DEF locals
<1>4. ASSUME NEW t \in Threads, ReserveFail(t) PROVE VarTypes'
  BY <1>4 DEF ReserveFail, Goto, PCs, other, counters, locals, CVTypeOK
<1>5. ASSUME NEW t \in Threads, ReserveWait(t) PROVE VarTypes'
  <2>1. /\ waiterCount' = waiterCount + 1 /\ pc' = [pc EXCEPT ![t] = "wait"]
        /\ UNCHANGED <<cvVars, counters, locals>>
    BY <1>5 DEF ReserveWait, Goto
  <2>2. pc' \in [Threads -> PCs] /\ waiterCount' \in Int
    BY <2>1 DEF PCs
  <2>3. CVTypeOK'
    BY <2>1 DEF cvVars, CVTypeOK
  <2> QED
    BY <2>1, <2>2, <2>3 DEF counters, locals
<1>6. ASSUME NEW t \in Threads, ReserveWaitRefused(t) PROVE VarTypes'
  BY <1>6 DEF ReserveWaitRefused, WaitRefused, Waited, Goto, PCs, cvVars, counters, locals, CVTypeOK
<1>7. ASSUME NEW t \in Threads, ReserveWaitUnlock(t) PROVE VarTypes'
  BY <1>7 DEF ReserveWaitUnlock, WaitUnlock, Goto, PCs, counters, locals, CVTypeOK
<1>8. ASSUME NEW t \in Threads, ReserveWaitEnqueue(t) PROVE VarTypes'
  <2>1. Append(waitList, t) \in Seq(Threads)
    BY AppendProperties DEF CVTypeOK
  <2> QED
    BY <1>8, <2>1 DEF ReserveWaitEnqueue, WaitEnqueue, Goto, PCs, counters, locals, CVTypeOK
<1>9. ASSUME NEW t \in Threads, ReserveWaitRelock(t) PROVE VarTypes'
  BY <1>9 DEF ReserveWaitRelock, WaitRelock, Waited, Goto, PCs, counters, locals, CVTypeOK
<1>10. ASSUME NEW t \in Threads, NEW v \in Amounts \cup {0}, NEW h \in Amounts \cup {0},
              NEW b \in PCs, NEW l \in PCs, ReleaseWithHint(t, v, h, b, l)
       PROVE  VarTypes'
  <2>1. which[t] \in Resources /\ v \in Int /\ h \in Int
    BY AmountTypes
  <2> QED
    <3>1. current' \in [Resources -> Int] /\ hint' \in [Resources -> Int]
      BY <1>10, <2>1 DEF ReleaseWithHint
    <3>2. pc' \in [Threads -> PCs] /\ lock' \in Threads \cup {NoThread}
      BY <1>10 DEF ReleaseWithHint, Goto, CVTypeOK
    <3> QED
      BY <1>10, <3>1, <3>2 DEF ReleaseWithHint, other, locals, CVTypeOK
<1>11. ASSUME NEW t \in Threads, Release(t) \/ ReleaseHint(t) \/ ReleaseValue(t) PROVE VarTypes'
  <2>1. value[t] \in Amounts \cup {0} /\ 0 \in Amounts \cup {0}
        /\ {"idle", "exited", "broadcast", "broadcast_hint"} \subseteq PCs
    BY DEF PCs
  <2> QED
    BY <1>10, <1>11, <2>1 DEF Release, ReleaseHint, ReleaseValue
<1>12. ASSUME NEW t \in Threads, ReleaseBroadcast(t) PROVE VarTypes'
  BY <1>12, BroadcastTypes DEF ReleaseBroadcast, counters, locals
<1>13. ASSUME NEW t \in Threads, ReleaseEnd(t) PROVE VarTypes'
  BY <1>13 DEF ReleaseEnd, BroadcastEnd, Goto, PCs, counters, locals, CVTypeOK
<1>14. ASSUME NEW r \in Resources, NEW v \in Limits, SetLimitValue(r, v) PROVE VarTypes'
  <2>1. v \in Int
    BY RLAssumption
  <2> QED
    BY <1>14, <2>1 DEF SetLimitValue, cvVars, locals, CVTypeOK
<1>15. ASSUME NEW t \in Threads, Expire(t) PROVE VarTypes'
  BY <1>15 DEF Expire, cvVars, counters, CVTypeOK
<1>16. ASSUME NEW t \in Threads, Timeout(t) PROVE VarTypes'
  BY <1>16, CancelWaitTypes DEF Timeout, OnTimer, counters, locals, CVTypeOK
<1>17. ASSUME NEW t \in Terminable, Terminate(t) PROVE VarTypes'
  <2>1. t \in Threads
    BY RLAssumption
  <2> QED
    BY <1>17, <2>1, CancelWaitTypes DEF Terminate, RequestTerminate, counters, locals, CVTypeOK
<1>18. CASE UNCHANGED vars
  BY <1>18 DEF vars, cvVars, counters, locals, CVTypeOK
<1> QED
  BY <1>1, <1>2, <1>3, <1>4, <1>5, <1>6, <1>7, <1>8, <1>9, <1>11, <1>12, <1>13, <1>14, <1>15,
     <1>16, <1>17, <1>18 DEF Next, LockStep, SchedulerStep, Step

-----------------------------------------------------------------------------
(* Locks and the waiter count *)

Control ==
    /\ VarTypes
    /\ LockHeld
    /\ SchedulerLockHeld
    /\ SleepersAreAsleep
    /\ WaitersCounted

\* Which thread a step moves, from where to where.
LEMMA ReleaseMoves ==
    ASSUME NEW t \in Threads, Release(t) \/ ReleaseHint(t) \/ ReleaseValue(t)
    PROVE  /\ pc[t] \in {"holding", "exited"} /\ lock = NoThread
           /\ UNCHANGED <<other, waiterCount, locals, limit, peak>>
           /\ \/ /\ lock' = t /\ waiterCount # 0
                 /\ \E l \in {"broadcast", "broadcast_hint"} : pc' = [pc EXCEPT ![t] = l]
              \/ /\ lock' = lock /\ waiterCount = 0
                 /\ \E l \in {"idle", "exited"} : pc' = [pc EXCEPT ![t] = l]
  BY DEF Release, ReleaseHint, ReleaseValue, ReleaseWithHint, LockFree, HasWaiters, Goto

\* A cancelled wait was a wait.
LEMMA CancelWaitMoves ==
    ASSUME VarTypes, NEW t \in Threads, CancelWait(t)
    PROVE  state[t] = "WAITING" /\ state' = [state EXCEPT ![t] = "RUNNABLE"]
  BY DEF CancelWait, EndWait

\* The locks are held exactly where the code holds them.
LEMMA LocksStep ==
    ASSUME Control, [Next]_vars
    PROVE  LockHeld' /\ SchedulerLockHeld'
<1> USE CVThreads DEF LockHeld, SchedulerLockHeld, Broadcasting, Goto, VarTypes, CVTypeOK, Control
<1>1. ASSUME NEW t \in Threads, NEW r \in Resources, NEW v \in Amounts, Reserve(t, r, v)
      PROVE  LockHeld' /\ SchedulerLockHeld'
  BY <1>1 DEF Reserve, cvVars
<1>2. ASSUME NEW t \in Threads, ReserveLock(t) \/ ReserveFail(t)
      PROVE  LockHeld' /\ SchedulerLockHeld'
  <2>1. CASE ReserveLock(t)
    <3>1. /\ pc[t] = "reserve" /\ lock = NoThread /\ sched' = sched
          /\ \/ lock' = lock /\ pc' = [pc EXCEPT ![t] = "idle"]
             \/ lock' = t /\ pc' = [pc EXCEPT ![t] = "loop"]
      BY <2>1 DEF ReserveLock, LockFree, other
    <3>2. LockHeld'
      <4>1. CASE lock' = lock /\ pc' = [pc EXCEPT ![t] = "idle"]
        BY <3>1, <4>1
      <4>2. CASE lock' = t /\ pc' = [pc EXCEPT ![t] = "loop"]
        BY <3>1, <4>2
      <4> QED
        BY <3>1, <4>1, <4>2
    <3>3. SchedulerLockHeld'
      BY <3>1
    <3> QED
      BY <3>2, <3>3
  <2>2. CASE ReserveFail(t)
    BY <2>2 DEF ReserveFail, other
  <2> QED
    BY <1>2, <2>1, <2>2
<1>3. ASSUME NEW t \in Threads, ReserveTake(t) PROVE LockHeld' /\ SchedulerLockHeld'
  <2>1. pc[t] = "loop" /\ lock' = NoThread /\ pc' = [pc EXCEPT ![t] = "holding"] /\ UNCHANGED other
    BY <1>3 DEF ReserveTake
  <2> QED
    BY <2>1 DEF other
<1>4. ASSUME NEW t \in Threads, ReserveWait(t) PROVE LockHeld' /\ SchedulerLockHeld'
  BY <1>4 DEF ReserveWait, cvVars
<1>5. ASSUME NEW t \in Threads, ReserveWaitRefused(t) \/ ReserveWaitRelock(t)
      PROVE  LockHeld' /\ SchedulerLockHeld'
  <2>1. CASE ReserveWaitRefused(t)
    BY <2>1 DEF ReserveWaitRefused, WaitRefused, Waited, cvVars
  <2>2. CASE ReserveWaitRelock(t)
    BY <2>2 DEF ReserveWaitRelock, WaitRelock, Waited
  <2> QED
    BY <1>5, <2>1, <2>2
<1>6. ASSUME NEW t \in Threads, ReserveWaitUnlock(t) \/ ReserveWaitEnqueue(t)
      PROVE  LockHeld' /\ SchedulerLockHeld'
  <2>1. CASE ReserveWaitUnlock(t)
    BY <2>1 DEF ReserveWaitUnlock, WaitUnlock
  <2>2. CASE ReserveWaitEnqueue(t)
    BY <2>2 DEF ReserveWaitEnqueue, WaitEnqueue
  <2> QED
    BY <1>6, <2>1, <2>2
<1>7. ASSUME NEW t \in Threads, Release(t) \/ ReleaseHint(t) \/ ReleaseValue(t)
      PROVE  LockHeld' /\ SchedulerLockHeld'
  <2>1. /\ pc[t] \in {"holding", "exited"} /\ lock = NoThread /\ sched' = sched
        /\ \E l \in PCs : /\ pc' = [pc EXCEPT ![t] = l]
                         /\ \/ lock' = t /\ l \in {"broadcast", "broadcast_hint"}
                            \/ lock' = lock /\ l \in {"idle", "exited"}
    BY <1>7, ReleaseMoves DEF other, PCs
  <2>2. LockHeld'
    <3>1. \A u \in Threads : u # t => pc'[u] = pc[u] /\ lock # u
      BY <2>1
    <3>2. \/ pc'[t] \in {"broadcast", "broadcast_hint"} /\ lock' = t
          \/ pc'[t] \in {"idle", "exited"} /\ lock' = NoThread
      BY <2>1
    <3> QED
      BY <2>1, <3>1, <3>2
  <2>3. SchedulerLockHeld'
    BY <2>1
  <2> QED
    BY <2>2, <2>3
<1>8. ASSUME NEW t \in Threads, ReleaseBroadcast(t) PROVE LockHeld' /\ SchedulerLockHeld'
  <2>1. /\ pc[t] \in {"broadcast", "broadcast_hint"} /\ UNCHANGED <<lock, pc>>
        /\ sched' = t /\ sched \in {NoThread, t}
    BY <1>8 DEF ReleaseBroadcast, BroadcastBegin, BroadcastPick, BroadcastWake
  <2> QED
    BY <2>1
<1>9. ASSUME NEW t \in Threads, ReleaseEnd(t) PROVE LockHeld' /\ SchedulerLockHeld'
  BY <1>9 DEF ReleaseEnd, BroadcastEnd
<1>10. ASSUME UNCHANGED <<lock, sched, pc>> PROVE LockHeld' /\ SchedulerLockHeld'
  BY <1>10
<1>11. ASSUME \/ \E t \in Threads : Expire(t) \/ Timeout(t)
              \/ \E t \in Terminable : Terminate(t)
              \/ \E r \in Resources, v \in Limits : SetLimitValue(r, v)
              \/ UNCHANGED vars
       PROVE  LockHeld' /\ SchedulerLockHeld'
  BY <1>10, <1>11 DEF Expire, Timeout, OnTimer, Terminate, RequestTerminate, SetLimitValue, vars, cvVars
<1> QED
  BY <1>1, <1>2, <1>3, <1>4, <1>5, <1>6, <1>7, <1>8, <1>9, <1>11
     DEF Next, LockStep, SchedulerStep, Step

\* Only a thread that has left wait()'s first half waits.
LEMMA SleepersStep ==
    ASSUME Control, [Next]_vars
    PROVE  SleepersAreAsleep'
<1> USE DEF SleepersAreAsleep, Goto, VarTypes, CVTypeOK, Control
<1>1. ASSUME NEW t \in Threads, state' = state, pc[t] # "asleep" \/ state[t] = "RUNNABLE",
             \A u \in Threads : u # t => pc'[u] = pc[u]
      PROVE  SleepersAreAsleep'
  BY <1>1
<1>2. ASSUME NEW t \in Threads, NEW r \in Resources, NEW v \in Amounts, Reserve(t, r, v)
      PROVE  SleepersAreAsleep'
  BY <1>1, <1>2 DEF Reserve, cvVars
<1>3. ASSUME NEW t \in Threads, LockStep(t) PROVE SleepersAreAsleep'
  BY <1>1, <1>3 DEF LockStep, ReserveLock, ReserveWaitRelock, WaitRelock, Waited, other
<1>4. ASSUME NEW t \in Threads, ReserveWaitRefused(t) \/ ReserveWaitUnlock(t)
      PROVE  SleepersAreAsleep'
  BY <1>1, <1>4 DEF ReserveWaitRefused, WaitRefused, ReserveWaitUnlock, WaitUnlock, Waited, cvVars
<1>5. ASSUME NEW t \in Threads, ReleaseBroadcast(t) PROVE SleepersAreAsleep'
  BY <1>5 DEF ReleaseBroadcast, BroadcastBegin, BroadcastPick, BroadcastWake, EndWait
<1>6. ASSUME NEW t \in Threads, ReserveTake(t) PROVE SleepersAreAsleep'
  <2>1. pc[t] = "loop" /\ pc' = [pc EXCEPT ![t] = "holding"] /\ UNCHANGED other
    BY <1>6 DEF ReserveTake
  <2> QED
    BY <1>1, <2>1 DEF other
<1>7. ASSUME NEW t \in Threads, ReserveFail(t) \/ ReserveWait(t) PROVE SleepersAreAsleep'
  BY <1>1, <1>7 DEF ReserveFail, ReserveWait, other, cvVars
<1>8. ASSUME NEW t \in Threads, ReserveWaitEnqueue(t) PROVE SleepersAreAsleep'
  BY <1>8 DEF ReserveWaitEnqueue, WaitEnqueue
<1>9. ASSUME NEW t \in Threads, ReleaseEnd(t) PROVE SleepersAreAsleep'
  BY <1>1, <1>9 DEF ReleaseEnd, BroadcastEnd, Broadcasting
<1>10. ASSUME NEW t \in Threads, Release(t) \/ ReleaseHint(t) \/ ReleaseValue(t)
       PROVE  SleepersAreAsleep'
  BY <1>1, <1>10, ReleaseMoves DEF other
<1>11. ASSUME pc' = pc, \A t \in Threads : state'[t] = "WAITING" => state[t] = "WAITING"
       PROVE  SleepersAreAsleep'
  BY <1>11
<1>12. ASSUME NEW t \in Threads, CancelWait(t), pc' = pc PROVE SleepersAreAsleep'
  BY <1>11, <1>12, CancelWaitMoves
<1>13. ASSUME \/ \E t \in Threads : Expire(t) \/ Timeout(t)
              \/ \E t \in Terminable : Terminate(t)
              \/ \E r \in Resources, v \in Limits : SetLimitValue(r, v)
              \/ UNCHANGED vars
       PROVE  SleepersAreAsleep'
  BY <1>11, <1>12, <1>13, RLAssumption
     DEF Expire, Timeout, OnTimer, Terminate, RequestTerminate, SetLimitValue, vars, cvVars
<1> QED
  BY <1>2, <1>3, <1>4, <1>5, <1>6, <1>7, <1>8, <1>9, <1>10, <1>13 DEF Next, SchedulerStep, Step

\* m_waiter_count goes up by one for a thread that begins to wait and down by one
\* for a thread whose wait() has returned.
LEMMA WaiterCountStep ==
    ASSUME Control, [Next]_vars
    PROVE  WaitersCounted'
<1> DEFINE W == {t \in Threads : InWait(t)}
<1> USE DEF Goto, VarTypes, Control
<1>0. IsFiniteSet(W) /\ Cardinality(W) \in Nat /\ waiterCount = Cardinality(W)
  BY CVThreads, FS_Subset, FS_CardinalityType DEF WaitersCounted
<1>1. ASSUME NEW t \in Threads, ~InWait(t), \A u \in Threads : u # t => pc'[u] = pc[u],
             pc'[t] \notin {"wait", "enqueue", "asleep"}, waiterCount' = waiterCount
      PROVE  WaitersCounted'
  <2>1. {u \in Threads : InWait(u)}' = W
    BY <1>1 DEF InWait
  <2> QED
    BY <1>0, <1>1, <2>1 DEF WaitersCounted
<1>2. ASSUME NEW t \in Threads, InWait(t), \A u \in Threads : u # t => pc'[u] = pc[u],
             pc'[t] \in {"wait", "enqueue", "asleep"}, waiterCount' = waiterCount
      PROVE  WaitersCounted'
  <2>1. {u \in Threads : InWait(u)}' = W
    BY <1>2 DEF InWait
  <2> QED
    BY <1>0, <1>2, <2>1 DEF WaitersCounted
<1>3. ASSUME NEW t \in Threads, ReserveWait(t) PROVE WaitersCounted'
  <2>1. pc[t] = "loop" /\ pc' = [pc EXCEPT ![t] = "wait"] /\ waiterCount' = waiterCount + 1
    BY <1>3 DEF ReserveWait
  <2>2. {u \in Threads : InWait(u)}' = W \cup {t} /\ t \notin W
    BY <2>1 DEF InWait
  <2>3. Cardinality(W \cup {t}) = Cardinality(W) + 1
    BY <1>0, <2>2, FS_AddElement
  <2> QED
    BY <1>0, <2>1, <2>2, <2>3 DEF WaitersCounted
<1>4. ASSUME NEW t \in Threads, InWait(t), Waited(t) PROVE WaitersCounted'
  <2>1. pc' = [pc EXCEPT ![t] = "loop"] /\ waiterCount' = waiterCount - 1
    BY <1>4 DEF Waited
  <2>2. {u \in Threads : InWait(u)}' = W \ {t} /\ t \in W
    BY <1>4, <2>1 DEF InWait
  <2>3. Cardinality(W \ {t}) = Cardinality(W) - 1
    BY <1>0, <2>2, FS_RemoveElement
  <2> QED
    BY <1>0, <2>1, <2>2, <2>3 DEF WaitersCounted
<1>5. ASSUME NEW t \in Threads, ReserveWaitRefused(t) \/ ReserveWaitRelock(t) PROVE WaitersCounted'
  BY <1>4, <1>5 DEF ReserveWaitRefused, ReserveWaitRelock, InWait
<1>6. ASSUME NEW t \in Threads, ReserveWaitUnlock(t) \/ ReserveWaitEnqueue(t) PROVE WaitersCounted'
  BY <1>2, <1>6 DEF ReserveWaitUnlock, ReserveWaitEnqueue, InWait
<1>7. ASSUME NEW t \in Threads, NEW r \in Resources, NEW v \in Amounts, Reserve(t, r, v)
      PROVE  WaitersCounted'
  BY <1>1, <1>7 DEF Reserve, InWait
<1>8. ASSUME NEW t \in Threads, ReserveLock(t) \/ ReserveFail(t) PROVE WaitersCounted'
  BY <1>1, <1>8 DEF ReserveLock, ReserveFail, InWait
<1>9. ASSUME NEW t \in Threads, ReserveTake(t) PROVE WaitersCounted'
  <2>1. pc[t] = "loop" /\ pc' = [pc EXCEPT ![t] = "holding"] /\ waiterCount' = waiterCount
    BY <1>9 DEF ReserveTake
  <2> QED
    BY <1>1, <2>1 DEF InWait
<1>10. ASSUME NEW t \in Threads, Release(t) \/ ReleaseHint(t) \/ ReleaseValue(t) PROVE WaitersCounted'
  <2>1. /\ pc[t] \in {"holding", "exited"} /\ waiterCount' = waiterCount
        /\ \E l \in {"broadcast", "broadcast_hint", "idle", "exited"} : pc' = [pc EXCEPT ![t] = l]
    BY <1>10, ReleaseMoves
  <2> QED
    BY <1>1, <2>1 DEF InWait
<1>11. ASSUME NEW t \in Threads, ReleaseEnd(t) PROVE WaitersCounted'
  BY <1>1, <1>11 DEF ReleaseEnd, Broadcasting, InWait
<1>12. ASSUME UNCHANGED <<pc, waiterCount>> PROVE WaitersCounted'
  <2>1. {u \in Threads : InWait(u)}' = W
    BY <1>12 DEF InWait
  <2> QED
    BY <1>0, <1>12, <2>1 DEF WaitersCounted
<1>13. ASSUME \/ \E t \in Threads : ReleaseBroadcast(t) \/ Expire(t) \/ Timeout(t)
              \/ \E t \in Terminable : Terminate(t)
              \/ \E r \in Resources, v \in Limits : SetLimitValue(r, v)
              \/ UNCHANGED vars
       PROVE  WaitersCounted'
  BY <1>12, <1>13 DEF ReleaseBroadcast, Expire, Timeout, Terminate, SetLimitValue, vars
<1> QED
  BY <1>3, <1>5, <1>6, <1>7, <1>8, <1>9, <1>10, <1>11, <1>13 DEF Next, LockStep, SchedulerStep, Step

\* Every step preserves Control.
LEMMA ControlStep == Control /\ [Next]_vars => Control'
  BY TypeStep, LocksStep, SleepersStep, WaiterCountStep DEF Control

\* Control holds in every behaviour, terminations included.
LEMMA ControlInvariant == Spec => []Control
<1>1. ASSUME Init PROVE Control
  <2>1. VarTypes
    BY <1>1, RLAssumption DEF Init, CVInit, VarTypes, CVTypeOK, PCs
  <2>2. LockHeld /\ SchedulerLockHeld /\ SleepersAreAsleep
    BY <1>1, CVThreads DEF Init, CVInit, LockHeld, SchedulerLockHeld, SleepersAreAsleep, Broadcasting
  <2>3. WaitersCounted
    <3>1. {t \in Threads : InWait(t)} = {}
      BY <1>1 DEF Init, InWait
    <3> QED
      BY <1>1, <3>1, FS_EmptySet DEF Init, WaitersCounted
  <2> QED
    BY <2>1, <2>2, <2>3 DEF Control
<1> QED
  BY <1>1, ControlStep, PTL DEF Spec

\* The variables of KResourceLimit keep their types, and m_waiter_count never goes
\* below 0 or above the number of threads, whatever expires or is terminated.
THEOREM TypeCorrect == Spec => []TypeOK
<1>1. ASSUME Control PROVE TypeOK
  <2> DEFINE W == {t \in Threads : InWait(t)}
  <2>1. Cardinality(W) \in Nat /\ Cardinality(W) <= Cardinality(Threads) /\ Cardinality(Threads) \in Nat
    BY CVThreads, FS_Subset, FS_CardinalityType
  <2>2. waiterCount \in 0..Cardinality(Threads)
    BY <1>1, <2>1 DEF Control, WaitersCounted
  <2> QED
    BY <1>1, <2>2 DEF Control, VarTypes, TypeOK
<1> QED
  BY <1>1, ControlInvariant, PTL

-----------------------------------------------------------------------------
(* The wait list, until a thread is terminated *)

ListInv ==
    /\ Control
    /\ Undisturbed => WaitListAgrees /\ PickIsFirst

\* A step that leaves the list and the sleepers alone, and lets nobody out of the
\* broadcast that has picked a waiter, keeps list and states in agreement.
LEMMA ListUndisturbed ==
    ASSUME ListInv, Undisturbed, UNCHANGED <<waitList, waking, state>>,
           waking = NoThread \/ (sched' = sched /\ (Broadcasting(sched) => Broadcasting(sched)'))
    PROVE  WaitListAgrees' /\ PickIsFirst'
  BY DEF ListInv, WaitListAgrees, PickIsFirst, Broadcasting

\* Only a broadcast holds a picked waiter: with the scheduler lock free, or held
\* by wait(), there is none.
LEMMA NobodyPicked ==
    ASSUME ListInv, Undisturbed
    PROVE  /\ sched = NoThread => waking = NoThread
           /\ \A t \in Threads : sched = t /\ ~Broadcasting(t) => waking = NoThread
  BY CVThreads DEF ListInv, PickIsFirst

\* A timeout takes its thread, and nobody else, off the list.
LEMMA ListOfCancel ==
    ASSUME ListInv, Undisturbed, NEW t \in Threads, CancelWait(t)
    PROVE  WaitListAgrees'
<1>1. PICK i \in DOMAIN waitList : waitList[i] = t /\ waitList' = RemoveAt(waitList, i)
  BY DEF CancelWait, IsPosition
<1>2. waitList \in Seq(Threads) /\ i \in 1..Len(waitList) /\ NoDuplicates(waitList)
  BY <1>1, LenProperties DEF ListInv, WaitListAgrees, NoDuplicates, Control, VarTypes, CVTypeOK
<1>3. /\ NoDuplicates(waitList')
      /\ \A e : Contains(waitList', e) <=> Contains(waitList, e) /\ e # t
  BY <1>1, <1>2, RemoveAtMembers
<1>4. state' = [state EXCEPT ![t] = "RUNNABLE"] /\ state \in [Threads -> {"RUNNABLE", "WAITING"}]
  BY DEF CancelWait, EndWait, ListInv, Control, VarTypes, CVTypeOK
<1> QED
  BY <1>3, <1>4 DEF WaitListAgrees, NoDuplicates, ListInv

\* wait() appends a thread that is not in the list.
LEMMA ListOfEnqueue ==
    ASSUME ListInv, Undisturbed, NEW t \in Threads, ReserveWaitEnqueue(t)
    PROVE  WaitListAgrees' /\ PickIsFirst'
<1>1. pc[t] = "enqueue" /\ state[t] # "WAITING"
  BY DEF ReserveWaitEnqueue, ListInv, Control, SleepersAreAsleep
<1>2. sched = t /\ waking = NoThread /\ waking' = waking
  BY <1>1, NobodyPicked DEF ReserveWaitEnqueue, WaitEnqueue, Broadcasting
<1>3. ~Contains(waitList, t) /\ NoDuplicates(waitList) /\ waitList \in Seq(Threads)
  BY <1>1 DEF ListInv, WaitListAgrees, NoDuplicates, Control, VarTypes, CVTypeOK
<1>4. /\ NoDuplicates(Append(waitList, t))
      /\ \A e : Contains(Append(waitList, t), e) <=> Contains(waitList, e) \/ e = t
  BY <1>3, AppendMembers
<1>5. waitList' = Append(waitList, t) /\ state' = [state EXCEPT ![t] = "WAITING"]
  BY DEF ReserveWaitEnqueue, WaitEnqueue
<1>6. state \in [Threads -> {"RUNNABLE", "WAITING"}]
  BY DEF ListInv, Control, VarTypes, CVTypeOK
<1>7. WaitListAgrees'
  BY <1>4, <1>5, <1>6 DEF WaitListAgrees, NoDuplicates, ListInv
<1> QED
  BY <1>2, <1>7 DEF PickIsFirst

\* The entry that broadcast_waiters drops is the one whose wait it has ended.
LEMMA ListOfWake ==
    ASSUME ListInv, Undisturbed, NEW t \in Threads, ReleaseBroadcast(t)
    PROVE  WaitListAgrees' /\ PickIsFirst'
<1>1. CASE BroadcastBegin(t)
  BY <1>1, ListUndisturbed, NobodyPicked DEF BroadcastBegin
<1>2. CASE BroadcastPick(t)
  <2>1. /\ UNCHANGED <<waitList, state, sched, pc>> /\ sched = t /\ Broadcasting(t)
        /\ waitList # <<>> /\ waking' = Head(waitList)
    BY <1>2 DEF BroadcastPick, ReleaseBroadcast
  <2> QED
    BY <2>1 DEF ListInv, WaitListAgrees, PickIsFirst, Broadcasting
<1>3. CASE BroadcastWake(t)
  <2>1. /\ waitList # <<>> /\ waking = Head(waitList)
        /\ waitList' = Tail(waitList) /\ waking' = NoThread
        /\ state' = [state EXCEPT ![waking] = "RUNNABLE"]
    BY <1>3 DEF BroadcastWake, EndWait, ListInv, PickIsFirst
  <2>2. waitList \in Seq(Threads) /\ state \in [Threads -> {"RUNNABLE", "WAITING"}]
    BY DEF ListInv, Control, VarTypes, CVTypeOK
  <2>3. NoDuplicates(waitList)
    BY DEF ListInv, WaitListAgrees, NoDuplicates
  <2>4. /\ Head(waitList) \in Threads /\ NoDuplicates(Tail(waitList))
        /\ \A e : Contains(Tail(waitList), e) <=> Contains(waitList, e) /\ e # Head(waitList)
    BY <2>1, <2>2, <2>3, TailMembers
  <2>5. WaitListAgrees'
    BY <2>1, <2>2, <2>4 DEF WaitListAgrees, NoDuplicates, ListInv
  <2> QED
    BY <2>1, <2>5 DEF PickIsFirst
<1> QED
  BY <1>1, <1>2, <1>3 DEF ReleaseBroadcast

\* Every step preserves ListInv.
LEMMA ListStep == ListInv /\ [Next]_vars => ListInv'
<1> SUFFICES ASSUME ListInv, [Next]_vars, Undisturbed'
             PROVE  WaitListAgrees' /\ PickIsFirst'
  BY ControlStep DEF ListInv
<1>0. Undisturbed
  <2>1. ASSUME NEW t \in Terminable, Terminate(t) PROVE FALSE
    BY <2>1, RLAssumption DEF Terminate, RequestTerminate, Undisturbed, ListInv, Control, VarTypes, CVTypeOK
  <2>2. ASSUME NEW t \in Threads, SchedulerStep(t) \/ LockStep(t) \/ Step(t)
        PROVE  terminating' = terminating
    BY <2>2 DEF LockStep, SchedulerStep, Step, ReserveLock, ReserveTake, ReserveFail, ReserveWait,
       ReserveWaitRefused, WaitRefused, ReserveWaitUnlock, WaitUnlock, ReserveWaitEnqueue,
       WaitEnqueue, ReserveWaitRelock, WaitRelock, ReleaseBroadcast, BroadcastBegin, BroadcastPick,
       BroadcastWake, ReleaseEnd, BroadcastEnd, cvVars, other
  <2>3. ASSUME NEW t \in Threads, Release(t) \/ ReleaseHint(t) \/ ReleaseValue(t)
        PROVE  terminating' = terminating
    BY <2>3, ReleaseMoves DEF other
  <2>4. terminating' = terminating
    BY <2>1, <2>2, <2>3 DEF Next, vars, cvVars, Reserve, SetLimitValue, Expire, Timeout, OnTimer
  <2> QED
    BY <2>4 DEF Undisturbed
<1> DEFINE Goal == WaitListAgrees' /\ PickIsFirst'
<1> USE CVThreads DEF Goto
<1>1. ASSUME UNCHANGED <<waitList, waking, state, sched>>, NEW t \in Threads, ~Broadcasting(t),
             \A u \in Threads : u # t => pc'[u] = pc[u]
      PROVE  Goal
  BY <1>0, <1>1, ListUndisturbed DEF Broadcasting, ListInv, PickIsFirst
<1>2. ASSUME UNCHANGED <<waitList, waking, state, sched, pc>> PROVE Goal
  BY <1>0, <1>2, ListUndisturbed DEF Broadcasting
<1>3. pc \in [Threads -> PCs]
  BY DEF ListInv, Control, VarTypes
<1>4. ASSUME NEW t \in Threads, NEW r \in Resources, NEW v \in Amounts, Reserve(t, r, v) PROVE Goal
  BY <1>1, <1>3, <1>4 DEF Reserve, cvVars, Broadcasting
<1>5. ASSUME NEW t \in Threads, ReserveLock(t) \/ ReserveFail(t) \/ ReserveWait(t) PROVE Goal
  BY <1>1, <1>3, <1>5 DEF ReserveLock, ReserveFail, ReserveWait, cvVars, other, Broadcasting
<1>6. ASSUME NEW t \in Threads, ReserveTake(t) PROVE Goal
  <2>1. pc[t] = "loop" /\ pc' = [pc EXCEPT ![t] = "holding"] /\ UNCHANGED other
    BY <1>6 DEF ReserveTake
  <2> QED
    BY <1>1, <1>3, <2>1 DEF other, Broadcasting
<1>7. ASSUME NEW t \in Threads, ReserveWaitRefused(t) \/ ReserveWaitRelock(t) PROVE Goal
  BY <1>1, <1>3, <1>7 DEF ReserveWaitRefused, WaitRefused, ReserveWaitRelock, WaitRelock, Waited,
     cvVars, Broadcasting
<1>8. ASSUME NEW t \in Threads, ReserveWaitUnlock(t) PROVE Goal
  BY <1>0, <1>8, ListUndisturbed, NobodyPicked DEF ReserveWaitUnlock, WaitUnlock
<1>9. ASSUME NEW t \in Threads, ReserveWaitEnqueue(t) PROVE Goal
  BY <1>0, <1>9, ListOfEnqueue
<1>10. ASSUME NEW t \in Threads, Release(t) \/ ReleaseHint(t) \/ ReleaseValue(t) PROVE Goal
  <2>1. /\ pc[t] \in {"holding", "exited"} /\ UNCHANGED other
        /\ \E l \in PCs : pc' = [pc EXCEPT ![t] = l]
    BY <1>10, ReleaseMoves DEF PCs
  <2> QED
    BY <1>1, <1>3, <2>1 DEF other, Broadcasting
<1>11. ASSUME NEW t \in Threads, ReleaseBroadcast(t) PROVE Goal
  BY <1>0, <1>11, ListOfWake
<1>12. ASSUME NEW t \in Threads, ReleaseEnd(t) PROVE Goal
  BY <1>0, <1>12, ListUndisturbed DEF ReleaseEnd, BroadcastEnd
<1>13. ASSUME NEW t \in Threads, Timeout(t) PROVE Goal
  <2>1. sched = NoThread /\ waking' = waking /\ CancelWait(t)
    BY <1>13 DEF Timeout, OnTimer
  <2>2. waking' = NoThread
    BY <1>0, <2>1, NobodyPicked
  <2> QED
    BY <1>0, <2>1, <2>2, ListOfCancel DEF PickIsFirst
<1>14. ASSUME NEW t \in Terminable, Terminate(t) PROVE FALSE
  BY <1>14, RLAssumption DEF Terminate, RequestTerminate, Undisturbed, ListInv, Control, VarTypes, CVTypeOK
<1>15. ASSUME \/ \E t \in Threads : Expire(t)
              \/ \E r \in Resources, v \in Limits : SetLimitValue(r, v)
              \/ UNCHANGED vars
       PROVE  Goal
  BY <1>2, <1>15 DEF Expire, SetLimitValue, vars, cvVars
<1> QED
  BY <1>4, <1>5, <1>6, <1>7, <1>8, <1>9, <1>10, <1>11, <1>12, <1>13, <1>14, <1>15
     DEF Next, LockStep, SchedulerStep, Step

\* ListInv holds in every behaviour.
LEMMA ListInvariant == Spec => []ListInv
<1>1. ASSUME Init PROVE WaitListAgrees /\ PickIsFirst
  BY <1>1 DEF Init, CVInit, WaitListAgrees, PickIsFirst, Contains
<1>2. Spec => []Control
  BY ControlInvariant
<1>3. Init /\ Control => ListInv
  BY <1>1 DEF ListInv
<1> QED
  BY <1>2, <1>3, ListStep, PTL DEF Spec

\* wait(), broadcast() and the timeouts of any number of threads leave exactly the
\* waiting threads in m_wait_list, each once, as long as nobody is terminated.
THEOREM WaitListKeptHolds == Spec => []WaitListKept
<1>1. ListInv => WaitListKept
  BY DEF ListInv, WaitListKept
<1> QED
  BY <1>1, ListInvariant, PTL

-----------------------------------------------------------------------------
(* No lost wake-up *)

LimitsNotRaised == \A r \in Resources : limit'[r] <= limit[r]

\* A reserve() that waits found that its amount does not fit: the test with
\* wrapping_add is the test without it, once Overflows is excluded.
LEMMA WaitIsBlocked ==
    ASSUME VarTypes, NEW t \in Threads, ~Overflows(t), ~Fits(t)
    PROVE  Blocked(t)
<1>1. current[which[t]] \in Int /\ limit[which[t]] \in Int
  BY DEF VarTypes
<1>2. value[t] \in Int /\ value[t] <= MaxInt /\ MaxInt \in Nat
  BY AmountTypes DEF VarTypes
<1> QED
  BY <1>1, <1>2 DEF Overflows, Fits, WrapAdd, Blocked

\* Nobody sleeps, or is about to, when a broadcast has emptied the list.
LEMMA BroadcastLeavesNoSleeper ==
    ASSUME ListInv, Undisturbed, NEW t \in Threads, ReleaseEnd(t)
    PROVE  \A u \in Threads : ~Sleepy(u)
<1>1. Broadcasting(t) /\ sched = t /\ waitList = <<>>
  BY DEF ReleaseEnd, BroadcastEnd
<1>2. \A u \in Threads : ~Contains(waitList, u)
  BY <1>1 DEF Contains
<1>3. \A u \in Threads : state[u] # "WAITING"
  BY <1>2 DEF ListInv, WaitListAgrees
<1>4. \A u \in Threads : pc[u] # "enqueue"
  BY <1>1 DEF ListInv, Control, SchedulerLockHeld, Broadcasting
<1>5. \A u \in Threads : pc[u] # "wait"
  BY <1>1 DEF ListInv, Control, LockHeld, Broadcasting
<1> QED
  BY <1>3, <1>4, <1>5 DEF Sleepy

\* Nobody sleeps, or is about to, when a release finds m_waiter_count = 0.
LEMMA NoWaiterNoSleeper ==
    ASSUME Control, waiterCount = 0
    PROVE  \A u \in Threads : ~Sleepy(u)
<1>1. {u \in Threads : InWait(u)} = {}
  <2>1. IsFiniteSet({u \in Threads : InWait(u)})
    BY CVThreads, FS_Subset
  <2> QED
    BY <2>1, FS_EmptySet DEF Control, WaitersCounted
<1> QED
  BY <1>1 DEF Control, SleepersAreAsleep, Sleepy, InWait

\* Every step that raises no limit keeps the sleepers blocked.
LEMMA BlockedStep ==
    ASSUME ListInv, ListInv', SleepyAreBlocked, [Next]_vars, [LimitsNotRaised]_vars
    PROVE  SleepyAreBlocked'
<1> SUFFICES ASSUME Undisturbed', \A t \in Threads : ~Broadcasting(t)', NEW s \in Threads, Sleepy(s)'
             PROVE  Blocked(s)'
  BY DEF SleepyAreBlocked
<1> USE DEF Goto
<1>0. /\ pc \in [Threads -> PCs] /\ VarTypes /\ VarTypes' /\ Control
      /\ state \in [Threads -> {"RUNNABLE", "WAITING"}]
  BY DEF ListInv, Control, VarTypes, CVTypeOK
<1>u. ASSUME terminating' = terminating PROVE Undisturbed
  BY <1>u DEF Undisturbed
<1>1. ASSUME Undisturbed, \A t \in Threads : ~Broadcasting(t), Sleepy(s),
             which'[s] = which[s], value'[s] = value[s],
             current'[which[s]] >= current[which[s]], limit'[which[s]] <= limit[which[s]]
      PROVE  Blocked(s)'
  <2>1. Blocked(s)
    BY <1>1 DEF SleepyAreBlocked
  <2>2. /\ which[s] \in Resources /\ value[s] \in Int
        /\ current[which[s]] \in Int /\ current'[which[s]] \in Int
        /\ limit[which[s]] \in Int /\ limit'[which[s]] \in Int
    BY <1>0, AmountTypes DEF VarTypes
  <2> QED
    BY <1>1, <2>1, <2>2 DEF Blocked
<1>2. ASSUME Undisturbed, UNCHANGED <<current, limit, state>>, NEW t \in Threads, ~Broadcasting(t),
             \A u \in Threads : u # t => pc'[u] = pc[u] /\ which'[u] = which[u] /\ value'[u] = value[u],
             Sleepy(t)' => Sleepy(t) /\ which'[t] = which[t] /\ value'[t] = value[t]
      PROVE  Blocked(s)'
  <2>1. \A u \in Threads : ~Broadcasting(u)
    BY <1>2 DEF Broadcasting
  <2>2. Sleepy(s) /\ which'[s] = which[s] /\ value'[s] = value[s]
    BY <1>2 DEF Sleepy
  <2>3. /\ which[s] \in Resources /\ current[which[s]] \in Int /\ limit[which[s]] \in Int
    BY <1>0 DEF VarTypes
  <2> QED
    BY <1>1, <1>2, <2>1, <2>2, <2>3
<1>3. ASSUME NEW t \in Threads, NEW r \in Resources, NEW v \in Amounts, Reserve(t, r, v)
      PROVE  Blocked(s)'
  <2>1. /\ Undisturbed /\ UNCHANGED <<current, limit, state>> /\ pc[t] = "idle" /\ pc'[t] = "reserve"
        /\ \A u \in Threads : u # t => pc'[u] = pc[u] /\ which'[u] = which[u] /\ value'[u] = value[u]
    BY <1>0, <1>u, <1>3 DEF Reserve, cvVars, counters, VarTypes
  <2>2. ~Broadcasting(t) /\ ~Sleepy(t)'
    BY <1>0, <2>1 DEF Broadcasting, Sleepy, Control, SleepersAreAsleep
  <2> QED
    BY <1>2, <2>1, <2>2
<1>4. ASSUME NEW t \in Threads, ReserveLock(t) \/ ReserveFail(t) PROVE Blocked(s)'
  <2>1. /\ Undisturbed /\ UNCHANGED <<current, limit, state, which, value>>
        /\ pc[t] \in {"reserve", "loop"} /\ pc'[t] \in {"idle", "loop"}
        /\ \A u \in Threads : u # t => pc'[u] = pc[u]
    BY <1>0, <1>u, <1>4 DEF ReserveLock, ReserveFail, other, counters, locals
  <2>2. ~Broadcasting(t) /\ ~Sleepy(t)'
    BY <1>0, <2>1 DEF Broadcasting, Sleepy, Control, SleepersAreAsleep
  <2> QED
    BY <1>2, <2>1, <2>2
<1>5. ASSUME NEW t \in Threads, ReserveTake(t) PROVE Blocked(s)'
  <2> DEFINE r == which[t]
  <2>1. /\ Undisturbed /\ UNCHANGED <<limit, state, which, value>> /\ pc[t] = "loop"
        /\ pc' = [pc EXCEPT ![t] = "holding"] /\ ~Overflows(t)
        /\ current' = [current EXCEPT ![r] = WrapAdd(current[r], value[t])]
    BY <1>u, <1>5 DEF ReserveTake, other, locals
  <2>2. s # t /\ Sleepy(s)
    BY <1>0, <2>1 DEF Sleepy, Control, SleepersAreAsleep
  <2>3. \A u \in Threads : ~Broadcasting(u)
    BY <1>0, <2>1 DEF Broadcasting
  <2>4. r \in Resources /\ which[s] \in Resources
        /\ current[r] \in Int /\ current[which[s]] \in Int /\ limit[which[s]] \in Int
        /\ value[t] \in Int /\ MaxInt \in Nat
    BY <1>0, AmountTypes DEF VarTypes
  <2>5. WrapAdd(current[r], value[t]) >= current[r]
    BY <2>1, <2>4 DEF Overflows, WrapAdd
  <2>6. current'[which[s]] >= current[which[s]]
    BY <1>0, <2>1, <2>4, <2>5 DEF VarTypes
  <2> QED
    BY <1>1, <2>1, <2>2, <2>3, <2>4, <2>6
<1>6. ASSUME NEW t \in Threads, ReserveWait(t) PROVE Blocked(s)'
  <2>1. /\ Undisturbed /\ UNCHANGED <<current, limit, state, which, value>>
        /\ pc[t] = "loop" /\ pc' = [pc EXCEPT ![t] = "wait"] /\ ~Overflows(t) /\ ~Fits(t)
    BY <1>u, <1>6 DEF ReserveWait, cvVars, counters, locals
  <2>2. Blocked(t)
    BY <1>0, <2>1, WaitIsBlocked
  <2>3. \A u \in Threads : ~Broadcasting(u)
    BY <1>0, <2>1 DEF Broadcasting
  <2>4. s # t => Blocked(s)
    BY <1>0, <2>1, <2>3 DEF SleepyAreBlocked, Sleepy
  <2> QED
    BY <2>1, <2>2, <2>4 DEF Blocked
<1>7. ASSUME NEW t \in Threads, ReserveWaitRefused(t) \/ ReserveWaitRelock(t) PROVE Blocked(s)'
  <2>1. /\ Undisturbed /\ UNCHANGED <<current, limit, state, which, value>>
        /\ pc[t] \in {"wait", "asleep"} /\ pc'[t] = "loop" /\ (pc[t] = "asleep" => state[t] = "RUNNABLE")
        /\ \A u \in Threads : u # t => pc'[u] = pc[u]
    BY <1>0, <1>u, <1>7 DEF ReserveWaitRefused, WaitRefused, ReserveWaitRelock, WaitRelock, Waited, cvVars,
       counters, locals
  <2>2. ~Broadcasting(t) /\ ~Sleepy(t)'
    BY <1>0, <2>1 DEF Broadcasting, Sleepy, Control, SleepersAreAsleep
  <2> QED
    BY <1>2, <2>1, <2>2
<1>8. ASSUME NEW t \in Threads, ReserveWaitUnlock(t) PROVE Blocked(s)'
  <2>1. /\ Undisturbed /\ UNCHANGED <<current, limit, state, which, value>>
        /\ pc[t] = "wait" /\ \A u \in Threads : u # t => pc'[u] = pc[u]
    BY <1>0, <1>u, <1>8 DEF ReserveWaitUnlock, WaitUnlock, counters, locals
  <2>2. ~Broadcasting(t) /\ Sleepy(t)
    BY <2>1 DEF Broadcasting, Sleepy
  <2> QED
    BY <1>2, <2>1, <2>2
<1>9. ASSUME NEW t \in Threads, ReserveWaitEnqueue(t) PROVE Blocked(s)'
  <2>1. /\ Undisturbed /\ UNCHANGED <<current, limit, which, value>> /\ pc[t] = "enqueue"
        /\ \A u \in Threads : u # t => pc'[u] = pc[u] /\ state'[u] = state[u]
    BY <1>0, <1>u, <1>9 DEF ReserveWaitEnqueue, WaitEnqueue, counters, locals
  <2>2. Sleepy(s) /\ \A u \in Threads : ~Broadcasting(u)
    BY <2>1 DEF Broadcasting, Sleepy
  <2>3. current[which[s]] \in Int /\ limit[which[s]] \in Int
    BY <1>0 DEF VarTypes
  <2> QED
    BY <1>1, <2>1, <2>2, <2>3
<1>10. ASSUME NEW t \in Threads, Release(t) \/ ReleaseHint(t) \/ ReleaseValue(t) PROVE Blocked(s)'
  <2>1. waiterCount = 0 /\ state' = state /\ \E l \in {"idle", "exited"} : pc' = [pc EXCEPT ![t] = l]
    BY <1>0, <1>10, ReleaseMoves DEF Broadcasting, other
  <2>2. \A u \in Threads : ~Sleepy(u)
    BY <1>0, <2>1, NoWaiterNoSleeper
  <2> QED
    BY <1>0, <2>1, <2>2 DEF Sleepy
<1>11. ASSUME NEW t \in Threads, ReleaseBroadcast(t) PROVE FALSE
  BY <1>11 DEF ReleaseBroadcast, Broadcasting
<1>12. ASSUME NEW t \in Threads, ReleaseEnd(t) PROVE FALSE
  <2>1. /\ Undisturbed /\ state' = state /\ pc' = [pc EXCEPT ![t] = pc'[t]]
        /\ pc'[t] \in {"idle", "exited"}
    BY <1>0, <1>u, <1>12 DEF ReleaseEnd, BroadcastEnd
  <2>2. \A u \in Threads : ~Sleepy(u)
    BY <1>12, <2>1, BroadcastLeavesNoSleeper
  <2> QED
    BY <1>0, <2>1, <2>2 DEF Sleepy
<1>13. ASSUME NEW r \in Resources, NEW v \in Limits, SetLimitValue(r, v) PROVE Blocked(s)'
  <2>1. Undisturbed /\ UNCHANGED <<current, state, pc, which, value>>
    BY <1>u, <1>13 DEF SetLimitValue, cvVars, locals
  <2>2. Sleepy(s) /\ \A u \in Threads : ~Broadcasting(u)
    BY <2>1 DEF Broadcasting, Sleepy
  <2>3. which[s] \in Resources /\ current[which[s]] \in Int /\ limit[which[s]] \in Int
    BY <1>0 DEF VarTypes
  <2>4. limit'[which[s]] <= limit[which[s]]
    BY <2>3 DEF LimitsNotRaised, vars, counters
  <2> QED
    BY <1>1, <2>1, <2>2, <2>3, <2>4
<1>14. ASSUME UNCHANGED <<current, limit, pc, which, value, terminating>>,
              \A t \in Threads : state'[t] = "WAITING" => state[t] = "WAITING"
       PROVE  Blocked(s)'
  <2>1. Undisturbed /\ Sleepy(s) /\ \A u \in Threads : ~Broadcasting(u)
    BY <1>u, <1>14 DEF Broadcasting, Sleepy
  <2>2. current[which[s]] \in Int /\ limit[which[s]] \in Int
    BY <1>0 DEF VarTypes
  <2> QED
    BY <1>1, <1>14, <2>1, <2>2
<1>15. ASSUME NEW t \in Threads, Timeout(t) PROVE Blocked(s)'
  BY <1>0, <1>14, <1>15, CancelWaitMoves DEF Timeout, OnTimer, counters, locals
<1>16. ASSUME NEW t \in Terminable, Terminate(t) PROVE FALSE
  BY <1>16, RLAssumption DEF Terminate, RequestTerminate, Undisturbed, ListInv, Control, VarTypes, CVTypeOK
<1>17. ASSUME (\E t \in Threads : Expire(t)) \/ UNCHANGED vars PROVE Blocked(s)'
  BY <1>14, <1>17 DEF Expire, vars, cvVars, counters, locals
<1> QED
  BY <1>3, <1>4, <1>5, <1>6, <1>7, <1>8, <1>9, <1>10, <1>11, <1>12, <1>13, <1>15, <1>16, <1>17
     DEF Next, LockStep, SchedulerStep, Step

\* No wake-up of reserve() is lost, for any number of threads and of resources:
\* in every behaviour in which no limit is raised, and until a thread is
\* terminated, whoever sleeps while no broadcast is on its way does not fit.
THEOREM SleepersAreBlockedHolds ==
    Spec /\ [][LimitsNotRaised]_vars => []SleepersAreBlocked
<1>1. Init => SleepyAreBlocked
  BY DEF Init, CVInit, SleepyAreBlocked, Sleepy
<1>2. ListInv /\ SleepyAreBlocked => SleepersAreBlocked
  BY DEF SleepersAreBlocked, SleepyAreBlocked, Sleepy, Blocked
<1>3. ListInv /\ ListInv' /\ SleepyAreBlocked /\ [Next]_vars /\ [LimitsNotRaised]_vars
        => SleepyAreBlocked'
  BY BlockedStep
<1> QED
  BY <1>1, <1>2, <1>3, ListInvariant, PTL DEF Spec

-----------------------------------------------------------------------------
(* The accounts, terminations included *)

\* Sum, for a given resource and amount of each thread.
Count(w, v, r, S) ==
    Cardinality({u \in Threads \X (1..MaxInt) : u[1] \in S /\ w[u[1]] = r /\ u[2] <= v[u[1]]})

\* A thread that is not in S adds its amount to what S holds of its resource.
LEMMA CountAdd ==
    ASSUME NEW w, NEW v, NEW r, NEW S, NEW t \in Threads, t \notin S, v[t] \in 0..MaxInt
    PROVE  /\ Count(w, v, r, S) \in Nat
           /\ Count(w, v, r, S \cup {t}) = Count(w, v, r, S) + IF w[t] = r THEN v[t] ELSE 0
<1> DEFINE All == Threads \X (1..MaxInt)
           U(T) == {u \in All : u[1] \in T /\ w[u[1]] = r /\ u[2] <= v[u[1]]}
           B == {t} \X (1..v[t])
<1>1. MaxInt \in Nat /\ v[t] \in Int /\ v[t] >= 0 /\ v[t] <= MaxInt
  BY AmountTypes
<1>2. IsFiniteSet(1..MaxInt) /\ IsFiniteSet(1..v[t]) /\ Cardinality(1..v[t]) = v[t]
  <2>1. IsFiniteSet(1..v[t]) /\ Cardinality(1..v[t]) = IF 1 > v[t] THEN 0 ELSE v[t] - 1 + 1
    <3>1. \A n \in Int : IsFiniteSet(1..n) /\ Cardinality(1..n) = IF 1 > n THEN 0 ELSE n - 1 + 1
      BY FS_Interval
    <3> QED
      BY <1>1, <3>1
  <2>2. IsFiniteSet(1..MaxInt)
    BY <1>1, FS_Interval
  <2>3. (IF 1 > v[t] THEN 0 ELSE v[t] - 1 + 1) = v[t]
    BY <1>1
  <2> QED
    BY <2>1, <2>2, <2>3
<1>3. IsFiniteSet(All)
  BY <1>2, CVThreads, FS_Product
<1>4. IsFiniteSet(U(S)) /\ Cardinality(U(S)) \in Nat
  <2>1. U(S) \subseteq All
    OBVIOUS
  <2> HIDE DEF U, All
  <2> QED
    BY <1>3, <2>1, FS_Subset, FS_CardinalityType
<1>5. CASE w[t] # r
  <2>1. U(S \cup {t}) = U(S)
    BY <1>5
  <2> HIDE DEF U
  <2>2. Cardinality(U(S \cup {t})) = Cardinality(U(S)) + 0
    BY <1>4, <2>1
  <2> QED
    BY <1>4, <1>5, <2>2 DEF Count, U
<1>6. CASE w[t] = r
  <2>1. U(S \cup {t}) = U(S) \cup B
    <3>1. \A u \in B : u \in All /\ u[1] = t /\ u[2] <= v[t]
      BY <1>1
    <3>2. \A u \in All : u[1] = t /\ u[2] <= v[t] => u \in B
      BY <1>1
    <3>3. \A u : u \in U(S \cup {t}) <=> u \in U(S) \/ (u \in All /\ u[1] = t /\ u[2] <= v[t])
      BY <1>6
    <3> QED
      BY <3>1, <3>2, <3>3
  <2>2. U(S) \cap B = {}
    OBVIOUS
  <2>3. IsFiniteSet({t}) /\ Cardinality({t}) = 1
    BY FS_Singleton
  <2>4. IsFiniteSet(B) /\ Cardinality(B) = v[t]
    <3>1. IsFiniteSet(B) /\ Cardinality(B) = Cardinality({t}) * Cardinality(1..v[t])
      BY <1>2, <2>3, FS_Product
    <3> HIDE DEF B
    <3> QED
      BY <1>1, <1>2, <2>3, <3>1
  <2> HIDE DEF U, B
  <2>5. Cardinality(U(S) \cap B) = 0
    BY <2>2, FS_EmptySet
  <2>6. Cardinality(U(S) \cup B) = Cardinality(U(S)) + Cardinality(B) - Cardinality(U(S) \cap B)
    BY <1>4, <2>4, FS_Union
  <2>7. Cardinality(U(S \cup {t})) = Cardinality(U(S)) + v[t]
    <3>1. Cardinality(U(S)) + v[t] - 0 = Cardinality(U(S)) + v[t]
      BY <1>1, <1>4
    <3> QED
      BY <2>1, <2>4, <2>5, <2>6, <3>1
  <2> QED
    BY <1>4, <1>6, <2>7 DEF Count, U
<1> QED
  BY <1>5, <1>6

\* What S holds depends on the threads of S alone.
LEMMA CountSame ==
    ASSUME NEW w, NEW v, NEW x, NEW y, NEW r, NEW S,
           \A u \in S : w[u] = x[u] /\ v[u] = y[u]
    PROVE  Count(w, v, r, S) = Count(x, y, r, S)
<1>1. {u \in Threads \X (1..MaxInt) : u[1] \in S /\ w[u[1]] = r /\ u[2] <= v[u[1]]}
        = {u \in Threads \X (1..MaxInt) : u[1] \in S /\ x[u[1]] = r /\ u[2] <= y[u[1]]}
  OBVIOUS
<1> QED
  BY <1>1 DEF Count

Holders == {t \in Threads : HoldsValue(t)}
Hinters == {t \in Threads : pc[t] = "holding"}

\* Accounting, with Count for Sum.
LEMMA AccountingByCount ==
    Accounting <=> \A r \in Resources :
                      /\ current[r] = Count(which, value, r, Holders)
                      /\ hint[r] = Count(which, value, r, Hinters)
                      /\ current[r] <= peak[r] /\ peak[r] <= limit[r]
  BY DEF Accounting, Sum, Units, Count, Holders, Hinters

\* A reservation that is taken, or given back in one step or in two, changes the
\* counters by what it changes of the holdings; nothing else changes either.
LEMMA AccountingStep ==
    ASSUME Control, Accounting, [Next]_vars
    PROVE  Accounting'
<1> DEFINE Acc == \A r \in Resources : /\ current[r] = Count(which, value, r, Holders)
                                       /\ hint[r] = Count(which, value, r, Hinters)
           Bounds == \A r \in Resources : current[r] <= peak[r] /\ peak[r] <= limit[r]
<1> USE DEF Goto
<1>0. /\ pc \in [Threads -> PCs] /\ which \in [Threads -> Resources]
      /\ value \in [Threads -> Amounts \cup {0}] /\ VarTypes
      /\ current \in [Resources -> Int] /\ hint \in [Resources -> Int]
      /\ peak \in [Resources -> Int] /\ limit \in [Resources -> Int]
      /\ \A t \in Threads : value[t] \in 0..MaxInt
  BY AmountTypes DEF Control, VarTypes
<1>a. Acc /\ Bounds
  BY AccountingByCount
<1>b. Acc' /\ Bounds' => Accounting'
  BY AccountingByCount DEF Accounting, Sum, Units, Count, Holders, Hinters
<1> HIDE DEF Acc, Bounds
\* The counters and the holdings stay as they are.
<1>1. ASSUME UNCHANGED <<current, hint>>, Holders' = Holders, Hinters' = Hinters,
             \A t \in Holders : which'[t] = which[t] /\ value'[t] = value[t]
      PROVE  Acc'
  <2>1. Hinters \subseteq Holders
    BY DEF Hinters, Holders, HoldsValue
  <2>2. \A r : /\ Count(which', value', r, Holders) = Count(which, value, r, Holders)
               /\ Count(which', value', r, Hinters) = Count(which, value, r, Hinters)
    BY <1>1, <2>1, CountSame
  <2> QED
    BY <1>a, <1>1, <2>2 DEF Acc
<1>2. ASSUME UNCHANGED <<current, peak, limit>> PROVE Bounds'
  BY <1>a, <1>2 DEF Bounds
<1>3. ASSUME NEW t \in Threads, pc[t] \notin {"holding", "exited", "broadcast_hint"},
             pc'[t] \notin {"holding", "exited", "broadcast_hint"},
             \A u \in Threads : u # t => pc'[u] = pc[u] /\ which'[u] = which[u] /\ value'[u] = value[u],
             UNCHANGED <<current, hint, peak, limit>>
      PROVE  Accounting'
  <2>1. Holders' = Holders /\ Hinters' = Hinters /\ t \notin Holders
    BY <1>3 DEF Holders, Hinters, HoldsValue
  <2> QED
    BY <1>b, <1>1, <1>2, <1>3, <2>1 DEF Holders
<1>4. ASSUME NEW t \in Threads, NEW r \in Resources, NEW v \in Amounts, Reserve(t, r, v)
      PROVE  Accounting'
  BY <1>0, <1>3, <1>4 DEF Reserve, counters
<1>5. ASSUME NEW t \in Threads, LockStep(t) \/ ReserveFail(t) PROVE Accounting'
  BY <1>0, <1>3, <1>5 DEF LockStep, ReserveLock, ReserveWaitRelock, Waited, ReserveFail, counters, locals
<1>6. ASSUME NEW t \in Threads, ReserveWait(t) \/ ReserveWaitRefused(t) PROVE Accounting'
  BY <1>0, <1>3, <1>6 DEF ReserveWait, ReserveWaitRefused, Waited, counters, locals
<1>7. ASSUME NEW t \in Threads, ReserveWaitUnlock(t) \/ ReserveWaitEnqueue(t) PROVE Accounting'
  BY <1>0, <1>3, <1>7 DEF ReserveWaitUnlock, ReserveWaitEnqueue, counters, locals
<1>8. ASSUME NEW t \in Threads, ReserveTake(t) PROVE Accounting'
  <2> DEFINE r == which[t]
  <2>1. /\ pc[t] = "loop" /\ pc' = [pc EXCEPT ![t] = "holding"] /\ ~Overflows(t) /\ Fits(t)
        /\ current' = [current EXCEPT ![r] = WrapAdd(current[r], value[t])]
        /\ hint' = [hint EXCEPT ![r] = hint[r] + value[t]]
        /\ peak' = [peak EXCEPT ![r] = Max({peak[r], WrapAdd(current[r], value[t])})]
        /\ UNCHANGED <<limit, which, value>>
    BY <1>8 DEF ReserveTake, locals
  <2>2. /\ r \in Resources /\ current[r] \in Int /\ hint[r] \in Int /\ peak[r] \in Int
        /\ limit[r] \in Int /\ value[t] \in Int /\ value[t] \in 0..MaxInt /\ MaxInt \in Nat
    BY <1>0, AmountTypes
  <2>3. WrapAdd(current[r], value[t]) = current[r] + value[t]
    BY <2>1, <2>2 DEF Overflows, WrapAdd
  <2>4. /\ Holders' = Holders \cup {t} /\ t \notin Holders
        /\ Hinters' = Hinters \cup {t} /\ t \notin Hinters
    BY <1>0, <2>1 DEF Holders, Hinters, HoldsValue
  <2>5. Acc'
    <3>1. \A q : /\ Count(which, value, q, Holders \cup {t})
                      = Count(which, value, q, Holders) + IF which[t] = q THEN value[t] ELSE 0
                 /\ Count(which, value, q, Hinters \cup {t})
                      = Count(which, value, q, Hinters) + IF which[t] = q THEN value[t] ELSE 0
      BY <2>2, <2>4, CountAdd
    <3>2. \A q \in Resources : /\ current'[q] = current[q] + IF r = q THEN value[t] ELSE 0
                               /\ hint'[q] = hint[q] + IF r = q THEN value[t] ELSE 0
      BY <1>0, <2>1, <2>2, <2>3
    <3>3. \A q \in Resources : /\ current[q] = Count(which, value, q, Holders)
                               /\ hint[q] = Count(which, value, q, Hinters)
      BY <1>a DEF Acc
    <3>4. ASSUME NEW q \in Resources
          PROVE  /\ current'[q] = Count(which, value, q, Holders \cup {t})
                 /\ hint'[q] = Count(which, value, q, Hinters \cup {t})
      <4> DEFINE x == IF which[t] = q THEN value[t] ELSE 0
      <4>1. current'[q] = current[q] + x /\ hint'[q] = hint[q] + x
        BY <3>2
      <4>2. /\ Count(which, value, q, Holders \cup {t}) = Count(which, value, q, Holders) + x
            /\ Count(which, value, q, Hinters \cup {t}) = Count(which, value, q, Hinters) + x
        BY <3>1
      <4> HIDE DEF x
      <4> QED
        BY <3>3, <4>1, <4>2
    <3> QED
      BY <2>1, <2>4, <3>4 DEF Acc
  <2>6. Bounds'
    <3> DEFINE new == current[r] + value[t]
               top == Max({peak[r], new})
    <3>1. \E x \in {peak[r], new} : \A y \in {peak[r], new} : x >= y
      BY <2>2
    <3>2. top \in {peak[r], new} /\ top >= peak[r] /\ top >= new
      BY <3>1 DEF Max
    <3>3. new <= limit[r] /\ peak[r] <= limit[r]
      BY <1>a, <2>1, <2>2, <2>3 DEF Fits, Bounds
    <3> HIDE DEF top
    <3>4. current'[r] = new /\ peak'[r] = top
      BY <1>0, <2>1, <2>2, <2>3 DEF top
    <3>5. \A q \in Resources : q # r => current'[q] = current[q] /\ peak'[q] = peak[q]
      BY <1>0, <2>1
    <3> QED
      BY <1>a, <2>1, <3>2, <3>3, <3>4, <3>5 DEF Bounds
  <2> QED
    BY <1>b, <2>5, <2>6
\* Taking t off the holders takes its amount off their sum.
<1>9. ASSUME NEW t \in Threads, NEW S, t \in S, NEW q
      PROVE  Count(which, value, q, S \ {t})
               = Count(which, value, q, S) - IF which[t] = q THEN value[t] ELSE 0
  <2>1. (S \ {t}) \cup {t} = S /\ t \notin S \ {t} /\ value[t] \in 0..MaxInt
    BY <1>0, <1>9
  <2>2. /\ Count(which, value, q, S \ {t}) \in Nat
        /\ Count(which, value, q, (S \ {t}) \cup {t})
             = Count(which, value, q, S \ {t}) + IF which[t] = q THEN value[t] ELSE 0
    BY <2>1, CountAdd
  <2>3. (IF which[t] = q THEN value[t] ELSE 0) \in Int
    BY <1>0
  <2> QED
    BY <2>1, <2>2, <2>3
<1>10. ASSUME NEW t \in Threads, NEW v \in {0, value[t]}, NEW h \in {0, value[t]}, NEW b, NEW l,
              ReleaseWithHint(t, v, h, b, l),
              \/ v = 0 /\ Holders' = Holders
              \/ v = value[t] /\ t \in Holders /\ Holders' = Holders \ {t},
              \/ h = 0 /\ Hinters' = Hinters
              \/ h = value[t] /\ t \in Hinters /\ Hinters' = Hinters \ {t}
       PROVE  Accounting'
  <2> DEFINE r == which[t]
  <2>1. /\ current' = [current EXCEPT ![r] = @ - v] /\ hint' = [hint EXCEPT ![r] = @ - h]
        /\ UNCHANGED <<limit, peak, which, value>>
    BY <1>10 DEF ReleaseWithHint, locals
  <2>2. r \in Resources /\ v \in Int /\ h \in Int /\ v >= 0
    BY <1>0
  <2>3. \A q \in Resources : /\ current'[q] = current[q] - IF r = q THEN v ELSE 0
                             /\ hint'[q] = hint[q] - IF r = q THEN h ELSE 0
    BY <1>0, <2>1, <2>2
  <2>4. \A q \in Resources : current'[q] = Count(which, value, q, Holders')
    <3>1. CASE v = 0 /\ Holders' = Holders
      BY <1>0, <1>a, <1>10, <2>3, <3>1 DEF Acc
    <3>2. CASE v = value[t] /\ t \in Holders /\ Holders' = Holders \ {t}
      BY <1>a, <1>9, <1>10, <2>3, <3>2 DEF Acc
    <3> QED
      BY <1>10, <3>1, <3>2
  <2>5. \A q \in Resources : hint'[q] = Count(which, value, q, Hinters')
    <3>1. CASE h = 0 /\ Hinters' = Hinters
      BY <1>0, <1>a, <1>10, <2>3, <3>1 DEF Acc
    <3>2. CASE h = value[t] /\ t \in Hinters /\ Hinters' = Hinters \ {t}
      BY <1>a, <1>9, <1>10, <2>3, <3>2 DEF Acc
    <3> QED
      BY <1>10, <3>1, <3>2
  <2>6. Bounds'
    <3>1. \A q \in Resources : current'[q] <= current[q]
      BY <1>0, <2>2, <2>3
    <3>2. current' \in [Resources -> Int]
      BY <1>0, <2>1, <2>2
    <3> QED
      BY <1>0, <1>a, <2>1, <3>1, <3>2 DEF Bounds
  <2> QED
    BY <1>b, <2>1, <2>4, <2>5, <2>6 DEF Acc
<1>11. ASSUME NEW t \in Threads, Release(t) \/ ReleaseHint(t) \/ ReleaseValue(t) PROVE Accounting'
  <2>1. CASE Release(t)
    <3>1. /\ ReleaseWithHint(t, value[t], value[t], "broadcast", "idle") /\ pc[t] = "holding"
          /\ \E l \in {"broadcast", "idle"} : pc' = [pc EXCEPT ![t] = l]
      BY <2>1 DEF Release, ReleaseWithHint
    <3>2. /\ t \in Holders /\ Holders' = Holders \ {t}
          /\ t \in Hinters /\ Hinters' = Hinters \ {t}
      BY <1>0, <3>1 DEF Holders, Hinters, HoldsValue
    <3> QED
      BY <1>10, <3>1, <3>2
  <2>2. CASE ReleaseHint(t)
    <3>1. /\ ReleaseWithHint(t, 0, value[t], "broadcast_hint", "exited") /\ pc[t] = "holding"
          /\ \E l \in {"broadcast_hint", "exited"} : pc' = [pc EXCEPT ![t] = l]
      BY <2>2 DEF ReleaseHint, ReleaseWithHint
    <3>2. /\ Holders' = Holders
          /\ t \in Hinters /\ Hinters' = Hinters \ {t}
      BY <1>0, <3>1 DEF Holders, Hinters, HoldsValue
    <3> QED
      BY <1>10, <3>1, <3>2
  <2>3. CASE ReleaseValue(t)
    <3>1. /\ ReleaseWithHint(t, value[t], 0, "broadcast", "idle") /\ pc[t] = "exited"
          /\ \E l \in {"broadcast", "idle"} : pc' = [pc EXCEPT ![t] = l]
      BY <2>3 DEF ReleaseValue, ReleaseWithHint
    <3>2. /\ t \in Holders /\ Holders' = Holders \ {t}
          /\ Hinters' = Hinters
      BY <1>0, <3>1 DEF Holders, Hinters, HoldsValue
    <3> QED
      BY <1>10, <3>1, <3>2
  <2> QED
    BY <1>11, <2>1, <2>2, <2>3
<1>12. ASSUME NEW t \in Threads, ReleaseEnd(t) PROVE Accounting'
  <2>1. /\ pc[t] \in {"broadcast", "broadcast_hint"}
        /\ pc' = [pc EXCEPT ![t] = IF pc[t] = "broadcast" THEN "idle" ELSE "exited"]
        /\ UNCHANGED <<current, hint, peak, limit, which, value>>
    BY <1>12 DEF ReleaseEnd, Broadcasting, counters, locals
  <2>2. Holders' = Holders /\ Hinters' = Hinters
    BY <1>0, <2>1 DEF Holders, Hinters, HoldsValue
  <2> QED
    BY <1>b, <1>1, <1>2, <2>1, <2>2
<1>13. ASSUME NEW r \in Resources, NEW v \in Limits, SetLimitValue(r, v) PROVE Accounting'
  <2>1. /\ current[r] <= v /\ limit' = [limit EXCEPT ![r] = v]
        /\ peak' = [peak EXCEPT ![r] = current[r]] /\ UNCHANGED <<current, hint, pc, which, value>>
    BY <1>13 DEF SetLimitValue, locals
  <2>2. Acc'
    BY <1>1, <2>1 DEF Holders, Hinters, HoldsValue
  <2>3. Bounds'
    <3>1. \A q \in Resources : /\ current'[q] = current[q]
                               /\ peak'[q] = IF q = r THEN current[r] ELSE peak[q]
                               /\ limit'[q] = IF q = r THEN v ELSE limit[q]
      BY <1>0, <2>1
    <3> QED
      BY <1>0, <1>a, <2>1, <3>1 DEF Bounds
  <2> QED
    BY <1>b, <2>2, <2>3
<1>14. ASSUME UNCHANGED <<counters, pc, which, value>> PROVE Accounting'
  BY <1>b, <1>1, <1>2, <1>14 DEF counters, Holders, Hinters, HoldsValue
<1>15. ASSUME \/ \E t \in Threads : ReleaseBroadcast(t) \/ Expire(t) \/ Timeout(t)
              \/ \E t \in Terminable : Terminate(t)
              \/ UNCHANGED vars
       PROVE  Accounting'
  BY <1>14, <1>15 DEF ReleaseBroadcast, Expire, Timeout, Terminate, vars, locals
<1> QED
  BY <1>4, <1>5, <1>6, <1>7, <1>8, <1>11, <1>12, <1>13, <1>15 DEF Next, SchedulerStep, Step

\* The counters of every resource are the sum of what the clients hold of it, and
\* current <= peak <= limit, in every behaviour with any number of clients, with
\* waits, timeouts, two-step releases, terminations and new limits.
THEOREM AccountingHolds == Spec => []Accounting
<1>1. ASSUME Init PROVE Accounting
  <2>1. Holders = {} /\ Hinters = {}
    BY <1>1 DEF Init, Holders, Hinters, HoldsValue
  <2>2. \A r : Count(which, value, r, {}) = 0
    <3>1. \A r : {u \in Threads \X (1..MaxInt) : u[1] \in {} /\ which[u[1]] = r /\ u[2] <= value[u[1]]} = {}
      OBVIOUS
    <3> QED
      BY <3>1, FS_EmptySet DEF Count
  <2>3. \A r \in Resources : current[r] = 0 /\ hint[r] = 0 /\ peak[r] = 0 /\ 0 <= limit[r]
    BY <1>1, RLAssumption DEF Init
  <2> QED
    BY <2>1, <2>2, <2>3, AccountingByCount
<1>2. Control /\ Accounting /\ [Next]_vars => Accounting'
  BY AccountingStep
<1> QED
  BY <1>1, <1>2, ControlInvariant, PTL DEF Spec
=============================================================================
