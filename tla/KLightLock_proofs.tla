--------------------------- MODULE KLightLock_proofs ---------------------------
(***************************************************************************)
(* Proofs about KLightLock for any set of guests and hosts.                *)
(***************************************************************************)
EXTENDS KLightLock, FiniteSetTheorems, TLAPS

\* What a thread may hold the lock by: it is past lock(), or it was handed the
\* lock while parked and has not run yet.
Entitled(t) ==
    \/ InCriticalSection(t)
    \/ t \in Guests /\ pc[t] = "parked" /\ state[t] = "RUNNABLE"

\* lock_slow_path is never called with an owner of 0.
SeenIsThread == \A t \in Threads : pc[t] = "lock_slow" => seen[t] # NoThread

\* The scheduler lock is held exactly in the two sections modelled in two steps,
\* which hosts never enter.
SchedulerLockHeld ==
    /\ \A g \in Guests : sched = g <=> pc[g] \in {"enqueue", "store"}
    /\ \A h \in Hosts : pc[h] \notin {"enqueue", "store", "parked"}

\* Nobody moves the tag to another owner while a slow path relies on it.
TagIsStable ==
    \A g \in Guests :
        /\ pc[g] = "enqueue" => tag = SeenTag(g) /\ seen[g] \in Guests
        /\ pc[g] = "store" => tag.owner = g /\ next.owner \notin Hosts

\* Whoever may hold the lock is the owner the effective tag names.
EntitledIsOwner == \A t \in Threads : Entitled(t) => EffectiveTag.owner = t

\* Guests in a held-lock list are parked; only the effective owner has a list,
\* and its tag has the flag; a parked guest is in a list.
WaitersAreParked ==
    \A o \in Guests : \A w \in waiters[o] : pc[w] = "parked" /\ state[w] = "WAITING"

OwnerIsFlagged ==
    \A o \in Guests : waiters[o] # {} => EffectiveTag.owner = o /\ EffectiveTag.waiters = TRUE

ParkedIsListed ==
    \A g \in Guests :
        pc[g] = "parked" /\ state[g] = "WAITING" => \E o \in Guests : g \in waiters[o]

LockInv ==
    /\ TypeOK
    /\ SeenIsThread
    /\ SchedulerLockHeld
    /\ TagIsStable
    /\ EntitledIsOwner
    /\ WaitersAreParked
    /\ OwnerIsFlagged
    /\ ParkedIsListed

-----------------------------------------------------------------------------
\* The number of waiters a guest is credited with is a number.
LEMMA WaitersFinite ==
    ASSUME NEW W \in SUBSET Guests
    PROVE  IsFiniteSet(W) /\ Cardinality(W) \in Nat
  BY ThreadsAssumption, FS_Subset, FS_CardinalityType

\* Every owner, with the flag or without it, makes a tag.
LEMMA TagTypes ==
    /\ Free \in Tags
    /\ \A o \in Threads, b \in BOOLEAN : [owner |-> o, waiters |-> b] \in Tags
    /\ \A v \in Tags : v # Free => v.owner \in Threads
  BY DEF Tags, Free

\* Every step of KLightLock keeps the types of its variables.
LEMMA TypeStep == TypeOK /\ [Next]_vars => TypeOK'
<1> SUFFICES ASSUME TypeOK, [Next]_vars PROVE TypeOK'
  OBVIOUS
<1> USE ThreadsAssumption
<1>1. ASSUME NEW t \in Threads, Lock(t) PROVE TypeOK'
  BY <1>1 DEF TypeOK, Tags, PCs, Threads, Free, Goto, threadVars, suspendVars, Lock
<1>2. ASSUME NEW t \in Threads, LockExchange(t) PROVE TypeOK'
  <2>1. tag # Free => tag.owner \in Threads
    BY TagTypes DEF TypeOK
  <2>2. tag' \in Tags
    <3>1. /\ [owner |-> t, waiters |-> FALSE] \in Tags
          /\ tag # Free => [owner |-> tag.owner, waiters |-> TRUE] \in Tags
      BY <2>1, TagTypes
    <3> QED
      BY <1>2, <3>1 DEF LockExchange
  <2>3. pc' \in [Threads -> PCs]
    BY <1>2 DEF TypeOK, LockExchange, PCs, Goto
  <2>4. seen' \in [Threads -> Threads \cup {NoThread}]
    BY <1>2, <2>1 DEF TypeOK, LockExchange
  <2> QED
    BY <1>2, <2>2, <2>3, <2>4 DEF TypeOK, LockExchange, threadVars, suspendVars
<1>3. ASSUME NEW t \in Threads, LockHostSlowPath(t) PROVE TypeOK'
  BY <1>3 DEF TypeOK, Tags, PCs, Threads, Free, Goto, threadVars, suspendVars, LockHostSlowPath
<1>4. ASSUME NEW t \in Threads, HostWaitCheck(t) PROVE TypeOK'
  BY <1>4 DEF TypeOK, Tags, PCs, Threads, Free, Goto, threadVars, suspendVars, HostWaitCheck
<1>5. ASSUME NEW t \in Threads, HostWaitSleep(t) PROVE TypeOK'
  BY <1>5 DEF TypeOK, Tags, PCs, Threads, Free, Goto, threadVars, suspendVars, HostWaitSleep
<1>6. ASSUME NEW t \in Threads, Unlock(t) PROVE TypeOK'
  <2>1. tag' \in Tags
    BY <1>6, TagTypes DEF TypeOK, Unlock
  <2>2. pc' \in [Threads -> PCs]
    BY <1>6 DEF TypeOK, Unlock, PCs, Goto
  <2> QED
    BY <1>6, <2>1, <2>2 DEF TypeOK, Unlock, threadVars, suspendVars
<1>7. ASSUME NEW t \in Threads, UnlockHostStore(t) PROVE TypeOK'
  BY <1>7 DEF TypeOK, Tags, PCs, Threads, Free, Goto, threadVars, suspendVars, UnlockHostStore
<1>8. ASSUME NEW t \in Threads, UnlockHostNotify(t) PROVE TypeOK'
  <2>1. tag' \in Tags
    BY <1>8 DEF TypeOK, UnlockHostNotify, Tags, Free
  <2>2. pc' \in [Threads -> PCs]
    BY <1>8 DEF TypeOK, UnlockHostNotify, PCs, Goto
  <2> QED
    BY <1>8, <2>1, <2>2 DEF TypeOK, UnlockHostNotify, threadVars, suspendVars
<1>9. ASSUME NEW t \in Guests, LockSlowPathWait(t) PROVE TypeOK'
  <2>1. kwaiters' \in [Guests -> Int]
    <3>1. kwaiters' = [g \in Guests |-> IF g = seen[t] THEN kwaiters[g] + 1 ELSE kwaiters[g]]
      BY <1>9 DEF TypeOK, LockSlowPathWait, AddWaiter
    <3>2. \A g \in Guests : kwaiters[g] + 1 \in Int /\ kwaiters[g] \in Int
      BY DEF TypeOK
    <3> QED
      BY <3>1, <3>2
  <2>2. waiters' \in [Guests -> SUBSET Guests]
    BY <1>9 DEF TypeOK, LockSlowPathWait, AddWaiter
  <2>3. stopped' \in [Guests -> BOOLEAN] /\ state' \in [Guests -> {"RUNNABLE", "WAITING"}]
    BY <1>9 DEF TypeOK, LockSlowPathWait, AddWaiter
  <2>4. pc' \in [Threads -> PCs]
    BY <1>9 DEF TypeOK, LockSlowPathWait, AddWaiter, PCs, Goto
  <2>5. lockOwner' \in [Guests -> Threads \cup {NoThread}]
    BY <1>9 DEF TypeOK, LockSlowPathWait, AddWaiter, Threads
  <2> QED
    BY <1>9, <2>1, <2>2, <2>3, <2>4, <2>5 DEF TypeOK, LockSlowPathWait, AddWaiter
<1>10. ASSUME NEW t \in Guests, LockResume(t) PROVE TypeOK'
  BY <1>10 DEF TypeOK, Tags, PCs, Threads, Free, Goto, threadVars, suspendVars, LockResume
<1>11. ASSUME NEW t \in Guests, UnlockStore(t) PROVE TypeOK'
  BY <1>11 DEF TypeOK, Tags, PCs, Threads, Free, Goto, threadVars, suspendVars, UnlockStore
<1>12. ASSUME NEW t \in Guests, LockSlowPath(t) PROVE TypeOK'
  BY <1>12 DEF TypeOK, Tags, PCs, Threads, Free, Goto, threadVars, suspendVars, LockSlowPath
<1>13. ASSUME NEW t \in Guests, UnlockSlowPathAlone(t) PROVE TypeOK'
  BY <1>13 DEF TypeOK, Tags, PCs, Threads, Free, Goto, threadVars, suspendVars, UnlockSlowPathAlone, TrySuspend
<1>14. ASSUME NEW t \in Guests, NEW u \in Guests, UnlockSlowPathTransfer(t, u) PROVE TypeOK'
  <2> DEFINE rest == waiters[t] \ {u}
  <2>1. Cardinality(waiters[t]) \in Nat /\ Cardinality(rest) \in Nat
    BY WaitersFinite DEF TypeOK
  <2>2. kwaiters' \in [Guests -> Int] /\ waiters' \in [Guests -> SUBSET Guests]
    BY <1>14, <2>1 DEF TypeOK, UnlockSlowPathTransfer, RemoveWaiterByKey
  <2>3. lockOwner' \in [Guests -> Threads \cup {NoThread}] /\ state' \in [Guests -> {"RUNNABLE", "WAITING"}]
    BY <1>14 DEF TypeOK, UnlockSlowPathTransfer, RemoveWaiterByKey, Retarget, Threads
  <2>4. stopped' \in [Guests -> BOOLEAN]
    BY <1>14 DEF TypeOK, UnlockSlowPathTransfer, RemoveWaiterByKey, TrySuspend
  <2>5. next' \in Tags
    BY <1>14 DEF UnlockSlowPathTransfer, RemoveWaiterByKey, TransferTag, Tags, Threads
  <2>6. pc' \in [Threads -> PCs]
    BY <1>14 DEF TypeOK, UnlockSlowPathTransfer, RemoveWaiterByKey, PCs, Threads, Goto
  <2> QED
    BY <1>14, <2>2, <2>3, <2>4, <2>5, <2>6 DEF TypeOK, UnlockSlowPathTransfer, RemoveWaiterByKey
<1>15. ASSUME NEW g \in Suspendable, NEW type \in SuspendTypes, RequestSuspend(g, type) PROVE TypeOK'
  BY <1>15 DEF TypeOK, Tags, PCs, Threads, Free, Goto, threadVars, suspendVars, RequestSuspend
<1>16. ASSUME NEW g \in Suspendable, NEW type \in SuspendTypes, Resume(g, type) PROVE TypeOK'
  BY <1>16 DEF TypeOK, Tags, PCs, Threads, Free, Goto, threadVars, suspendVars, Resume
<1>17. ASSUME NEW g \in Terminable, RequestTerminate(g) PROVE TypeOK'
  BY <1>17 DEF TypeOK, Tags, PCs, Threads, Free, Goto, threadVars, suspendVars, RequestTerminate, CancelLightLockWait
<1>18. CASE UNCHANGED vars
  BY <1>18 DEF TypeOK, vars, threadVars, suspendVars
<1> QED
  BY <1>1, <1>2, <1>3, <1>4, <1>5, <1>6, <1>7, <1>8, <1>9, <1>10, <1>11, <1>12, <1>13, <1>14, <1>15, <1>16, <1>17, <1>18 DEF Next, Step, GuestStep, SchedulerStep

\* The variables of KLightLock keep their types in every behaviour.
THEOREM TypeCorrect == Spec => []TypeOK
<1>1. Init => TypeOK
  BY ThreadsAssumption DEF Init, TypeOK, Tags, PCs, Threads, Free
<1> QED
  BY <1>1, TypeStep, PTL DEF Spec

-----------------------------------------------------------------------------
\* One step of KLightLock, without termination, preserves the invariant.
LEMMA LockStep ==
    ASSUME Terminable = {}, LockInv, [Next]_vars
    PROVE  LockInv'
<1> USE ThreadsAssumption
<1>0. TypeOK'
  BY TypeStep DEF LockInv
<1>1. ASSUME NEW t \in Threads, Lock(t) PROVE LockInv'
  <2>1. SeenIsThread'
    BY <1>0, <1>1 DEF TypeOK, LockInv, Threads, SeenIsThread, Free, Lock, Goto, threadVars, suspendVars
  <2>2. SchedulerLockHeld'
    BY <1>0, <1>1 DEF TypeOK, LockInv, Threads, SchedulerLockHeld, TagIsStable, Lock, Goto, threadVars, suspendVars
  <2>3. TagIsStable'
    BY <1>0, <1>1 DEF TypeOK, LockInv, Threads, TagIsStable, SchedulerLockHeld, SeenTag, SeenIsThread, EntitledIsOwner, Entitled, InCriticalSection, EffectiveTag, HandingOver, Free, Lock, Goto, threadVars, suspendVars
  <2>4. EntitledIsOwner'
    BY <1>0, <1>1 DEF TypeOK, LockInv, Threads, EntitledIsOwner, Entitled, InCriticalSection, EffectiveTag, HandingOver, SchedulerLockHeld, TagIsStable, Free, Lock, Goto, threadVars, suspendVars
  <2>5. WaitersAreParked'
    BY <1>0, <1>1 DEF TypeOK, LockInv, Threads, WaitersAreParked, SchedulerLockHeld, Lock, Goto, threadVars, suspendVars
  <2>6. OwnerIsFlagged'
    BY <1>0, <1>1 DEF TypeOK, LockInv, Threads, OwnerIsFlagged, WaitersAreParked, EntitledIsOwner, Entitled, InCriticalSection, EffectiveTag, HandingOver, SchedulerLockHeld, TagIsStable, SeenTag, Free, Lock, Goto, threadVars, suspendVars
  <2>7. ParkedIsListed'
    BY <1>0, <1>1 DEF TypeOK, LockInv, Threads, ParkedIsListed, SchedulerLockHeld, Lock, Goto, threadVars, suspendVars
  <2> QED
    BY <1>0, <2>1, <2>2, <2>3, <2>4, <2>5, <2>6, <2>7 DEF LockInv
<1>2. ASSUME NEW t \in Threads, LockExchange(t) PROVE LockInv'
  <2>1. SeenIsThread'
    BY <1>2, TagTypes DEF TypeOK, LockInv, Threads, SeenIsThread, LockExchange, Goto
  <2>2. SchedulerLockHeld'
    BY <1>0, <1>2 DEF TypeOK, LockInv, Threads, SchedulerLockHeld, TagIsStable, LockExchange, Goto, threadVars, suspendVars
  <2>3. TagIsStable'
    BY <1>0, <1>2 DEF TypeOK, LockInv, Threads, TagIsStable, SchedulerLockHeld, SeenTag, SeenIsThread, EntitledIsOwner, Entitled, InCriticalSection, EffectiveTag, HandingOver, Free, LockExchange, Goto, threadVars, suspendVars
  <2>4. EntitledIsOwner'
    BY <1>0, <1>2 DEF TypeOK, LockInv, Threads, EntitledIsOwner, Entitled, InCriticalSection, EffectiveTag, HandingOver, SchedulerLockHeld, TagIsStable, Free, LockExchange, Goto, threadVars, suspendVars
  <2>5. WaitersAreParked'
    BY <1>0, <1>2 DEF TypeOK, LockInv, Threads, WaitersAreParked, SchedulerLockHeld, LockExchange, Goto, threadVars, suspendVars
  <2>6. OwnerIsFlagged'
    BY <1>0, <1>2 DEF TypeOK, LockInv, Threads, OwnerIsFlagged, WaitersAreParked, EntitledIsOwner, Entitled, InCriticalSection, EffectiveTag, HandingOver, SchedulerLockHeld, TagIsStable, SeenTag, Free, LockExchange, Goto, threadVars, suspendVars
  <2>7. ParkedIsListed'
    BY <1>0, <1>2 DEF TypeOK, LockInv, Threads, ParkedIsListed, SchedulerLockHeld, LockExchange, Goto, threadVars, suspendVars
  <2> QED
    BY <1>0, <2>1, <2>2, <2>3, <2>4, <2>5, <2>6, <2>7 DEF LockInv
<1>3. ASSUME NEW t \in Threads, LockHostSlowPath(t) PROVE LockInv'
  <2>1. SeenIsThread'
    BY <1>0, <1>3 DEF TypeOK, LockInv, Threads, SeenIsThread, Free, LockHostSlowPath, Goto, threadVars, suspendVars, SeenTag
  <2>2. SchedulerLockHeld'
    BY <1>0, <1>3 DEF TypeOK, LockInv, Threads, SchedulerLockHeld, TagIsStable, LockHostSlowPath, Goto, threadVars, suspendVars, SeenTag
  <2>3. TagIsStable'
    BY <1>0, <1>3 DEF TypeOK, LockInv, Threads, TagIsStable, SchedulerLockHeld, SeenTag, SeenIsThread, EntitledIsOwner, Entitled, InCriticalSection, EffectiveTag, HandingOver, Free, LockHostSlowPath, Goto, threadVars, suspendVars
  <2>4. EntitledIsOwner'
    BY <1>0, <1>3 DEF TypeOK, LockInv, Threads, EntitledIsOwner, Entitled, InCriticalSection, EffectiveTag, HandingOver, SchedulerLockHeld, TagIsStable, Free, LockHostSlowPath, Goto, threadVars, suspendVars, SeenTag
  <2>5. WaitersAreParked'
    BY <1>0, <1>3 DEF TypeOK, LockInv, Threads, WaitersAreParked, SchedulerLockHeld, LockHostSlowPath, Goto, threadVars, suspendVars, SeenTag
  <2>6. OwnerIsFlagged'
    BY <1>0, <1>3 DEF TypeOK, LockInv, Threads, OwnerIsFlagged, WaitersAreParked, EntitledIsOwner, Entitled, InCriticalSection, EffectiveTag, HandingOver, SchedulerLockHeld, TagIsStable, SeenTag, Free, LockHostSlowPath, Goto, threadVars, suspendVars
  <2>7. ParkedIsListed'
    BY <1>0, <1>3 DEF TypeOK, LockInv, Threads, ParkedIsListed, SchedulerLockHeld, LockHostSlowPath, Goto, threadVars, suspendVars, SeenTag
  <2> QED
    BY <1>0, <2>1, <2>2, <2>3, <2>4, <2>5, <2>6, <2>7 DEF LockInv
<1>4. ASSUME NEW t \in Threads, HostWaitCheck(t) PROVE LockInv'
  <2>1. SeenIsThread'
    BY <1>0, <1>4 DEF TypeOK, LockInv, Threads, SeenIsThread, Free, HostWaitCheck, Goto, threadVars, suspendVars
  <2>2. SchedulerLockHeld'
    BY <1>0, <1>4 DEF TypeOK, LockInv, Threads, SchedulerLockHeld, TagIsStable, HostWaitCheck, Goto, threadVars, suspendVars
  <2>3. TagIsStable'
    BY <1>0, <1>4 DEF TypeOK, LockInv, Threads, TagIsStable, SchedulerLockHeld, SeenTag, SeenIsThread, EntitledIsOwner, Entitled, InCriticalSection, EffectiveTag, HandingOver, Free, HostWaitCheck, Goto, threadVars, suspendVars
  <2>4. EntitledIsOwner'
    BY <1>0, <1>4 DEF TypeOK, LockInv, Threads, EntitledIsOwner, Entitled, InCriticalSection, EffectiveTag, HandingOver, SchedulerLockHeld, TagIsStable, Free, HostWaitCheck, Goto, threadVars, suspendVars
  <2>5. WaitersAreParked'
    BY <1>0, <1>4 DEF TypeOK, LockInv, Threads, WaitersAreParked, SchedulerLockHeld, HostWaitCheck, Goto, threadVars, suspendVars
  <2>6. OwnerIsFlagged'
    BY <1>0, <1>4 DEF TypeOK, LockInv, Threads, OwnerIsFlagged, WaitersAreParked, EntitledIsOwner, Entitled, InCriticalSection, EffectiveTag, HandingOver, SchedulerLockHeld, TagIsStable, SeenTag, Free, HostWaitCheck, Goto, threadVars, suspendVars
  <2>7. ParkedIsListed'
    BY <1>0, <1>4 DEF TypeOK, LockInv, Threads, ParkedIsListed, SchedulerLockHeld, HostWaitCheck, Goto, threadVars, suspendVars
  <2> QED
    BY <1>0, <2>1, <2>2, <2>3, <2>4, <2>5, <2>6, <2>7 DEF LockInv
<1>5. ASSUME NEW t \in Threads, HostWaitSleep(t) PROVE LockInv'
  <2>1. SeenIsThread'
    BY <1>0, <1>5 DEF TypeOK, LockInv, Threads, SeenIsThread, Free, HostWaitSleep, Goto, threadVars, suspendVars
  <2>2. SchedulerLockHeld'
    BY <1>0, <1>5 DEF TypeOK, LockInv, Threads, SchedulerLockHeld, TagIsStable, HostWaitSleep, Goto, threadVars, suspendVars
  <2>3. TagIsStable'
    BY <1>0, <1>5 DEF TypeOK, LockInv, Threads, TagIsStable, SchedulerLockHeld, SeenTag, SeenIsThread, EntitledIsOwner, Entitled, InCriticalSection, EffectiveTag, HandingOver, Free, HostWaitSleep, Goto, threadVars, suspendVars
  <2>4. EntitledIsOwner'
    BY <1>0, <1>5 DEF TypeOK, LockInv, Threads, EntitledIsOwner, Entitled, InCriticalSection, EffectiveTag, HandingOver, SchedulerLockHeld, TagIsStable, Free, HostWaitSleep, Goto, threadVars, suspendVars
  <2>5. WaitersAreParked'
    BY <1>0, <1>5 DEF TypeOK, LockInv, Threads, WaitersAreParked, SchedulerLockHeld, HostWaitSleep, Goto, threadVars, suspendVars
  <2>6. OwnerIsFlagged'
    BY <1>0, <1>5 DEF TypeOK, LockInv, Threads, OwnerIsFlagged, WaitersAreParked, EntitledIsOwner, Entitled, InCriticalSection, EffectiveTag, HandingOver, SchedulerLockHeld, TagIsStable, SeenTag, Free, HostWaitSleep, Goto, threadVars, suspendVars
  <2>7. ParkedIsListed'
    BY <1>0, <1>5 DEF TypeOK, LockInv, Threads, ParkedIsListed, SchedulerLockHeld, HostWaitSleep, Goto, threadVars, suspendVars
  <2> QED
    BY <1>0, <2>1, <2>2, <2>3, <2>4, <2>5, <2>6, <2>7 DEF LockInv
<1>6. ASSUME NEW t \in Threads, Unlock(t) PROVE LockInv'
  <2>1. SeenIsThread'
    BY <1>0, <1>6 DEF TypeOK, LockInv, Threads, SeenIsThread, Free, Unlock, Goto, threadVars, suspendVars
  <2>2. SchedulerLockHeld'
    BY <1>0, <1>6 DEF TypeOK, LockInv, Threads, SchedulerLockHeld, TagIsStable, Unlock, Goto, threadVars, suspendVars
  <2>3. TagIsStable'
    BY <1>0, <1>6 DEF TypeOK, LockInv, Threads, TagIsStable, SchedulerLockHeld, SeenTag, SeenIsThread, EntitledIsOwner, Entitled, InCriticalSection, EffectiveTag, HandingOver, Free, Unlock, Goto, threadVars, suspendVars
  <2>4. EntitledIsOwner'
    BY <1>0, <1>6 DEF TypeOK, LockInv, Threads, EntitledIsOwner, Entitled, InCriticalSection, EffectiveTag, HandingOver, SchedulerLockHeld, TagIsStable, Free, Unlock, Goto, threadVars, suspendVars
  <2>5. WaitersAreParked'
    BY <1>0, <1>6 DEF TypeOK, LockInv, Threads, WaitersAreParked, SchedulerLockHeld, Unlock, Goto, threadVars, suspendVars
  <2>6. OwnerIsFlagged'
    BY <1>0, <1>6 DEF TypeOK, LockInv, Threads, OwnerIsFlagged, WaitersAreParked, EntitledIsOwner, Entitled, InCriticalSection, EffectiveTag, HandingOver, SchedulerLockHeld, TagIsStable, SeenTag, Free, Unlock, Goto, threadVars, suspendVars
  <2>7. ParkedIsListed'
    BY <1>0, <1>6 DEF TypeOK, LockInv, Threads, ParkedIsListed, SchedulerLockHeld, Unlock, Goto, threadVars, suspendVars
  <2> QED
    BY <1>0, <2>1, <2>2, <2>3, <2>4, <2>5, <2>6, <2>7 DEF LockInv
<1>7. ASSUME NEW t \in Threads, UnlockHostStore(t) PROVE LockInv'
  <2>1. SeenIsThread'
    BY <1>0, <1>7 DEF TypeOK, LockInv, Threads, SeenIsThread, Free, UnlockHostStore, Goto, threadVars, suspendVars
  <2>2. SchedulerLockHeld'
    BY <1>0, <1>7 DEF TypeOK, LockInv, Threads, SchedulerLockHeld, TagIsStable, UnlockHostStore, Goto, threadVars, suspendVars
  <2>3. TagIsStable'
    BY <1>0, <1>7 DEF TypeOK, LockInv, Threads, TagIsStable, SchedulerLockHeld, SeenTag, SeenIsThread, EntitledIsOwner, Entitled, InCriticalSection, EffectiveTag, HandingOver, Free, UnlockHostStore, Goto, threadVars, suspendVars
  <2>4. EntitledIsOwner'
    BY <1>0, <1>7 DEF TypeOK, LockInv, Threads, EntitledIsOwner, Entitled, InCriticalSection, EffectiveTag, HandingOver, SchedulerLockHeld, TagIsStable, Free, UnlockHostStore, Goto, threadVars, suspendVars
  <2>5. WaitersAreParked'
    BY <1>0, <1>7 DEF TypeOK, LockInv, Threads, WaitersAreParked, SchedulerLockHeld, UnlockHostStore, Goto, threadVars, suspendVars
  <2>6. OwnerIsFlagged'
    BY <1>0, <1>7 DEF TypeOK, LockInv, Threads, OwnerIsFlagged, WaitersAreParked, EntitledIsOwner, Entitled, InCriticalSection, EffectiveTag, HandingOver, SchedulerLockHeld, TagIsStable, SeenTag, Free, UnlockHostStore, Goto, threadVars, suspendVars
  <2>7. ParkedIsListed'
    BY <1>0, <1>7 DEF TypeOK, LockInv, Threads, ParkedIsListed, SchedulerLockHeld, UnlockHostStore, Goto, threadVars, suspendVars
  <2> QED
    BY <1>0, <2>1, <2>2, <2>3, <2>4, <2>5, <2>6, <2>7 DEF LockInv
<1>8. ASSUME NEW t \in Threads, UnlockHostNotify(t) PROVE LockInv'
  <2>1. SeenIsThread'
    BY <1>0, <1>8 DEF TypeOK, LockInv, Threads, SeenIsThread, Free, UnlockHostNotify, Goto, threadVars, suspendVars
  <2>2. SchedulerLockHeld'
    BY <1>0, <1>8 DEF TypeOK, LockInv, Threads, SchedulerLockHeld, TagIsStable, UnlockHostNotify, Goto, threadVars, suspendVars
  <2>3. TagIsStable'
    BY <1>0, <1>8 DEF TypeOK, LockInv, Threads, TagIsStable, SchedulerLockHeld, SeenTag, SeenIsThread, EntitledIsOwner, Entitled, InCriticalSection, EffectiveTag, HandingOver, Free, UnlockHostNotify, Goto, threadVars, suspendVars
  <2>4. EntitledIsOwner'
    BY <1>0, <1>8 DEF TypeOK, LockInv, Threads, EntitledIsOwner, Entitled, InCriticalSection, EffectiveTag, HandingOver, SchedulerLockHeld, TagIsStable, Free, UnlockHostNotify, Goto, threadVars, suspendVars
  <2>5. WaitersAreParked'
    BY <1>0, <1>8 DEF TypeOK, LockInv, Threads, WaitersAreParked, SchedulerLockHeld, UnlockHostNotify, Goto, threadVars, suspendVars
  <2>6. OwnerIsFlagged'
    BY <1>0, <1>8 DEF TypeOK, LockInv, Threads, OwnerIsFlagged, WaitersAreParked, EntitledIsOwner, Entitled, InCriticalSection, EffectiveTag, HandingOver, SchedulerLockHeld, TagIsStable, SeenTag, Free, UnlockHostNotify, Goto, threadVars, suspendVars
  <2>7. ParkedIsListed'
    BY <1>0, <1>8 DEF TypeOK, LockInv, Threads, ParkedIsListed, SchedulerLockHeld, UnlockHostNotify, Goto, threadVars, suspendVars
  <2> QED
    BY <1>0, <2>1, <2>2, <2>3, <2>4, <2>5, <2>6, <2>7 DEF LockInv
<1>9. ASSUME NEW t \in Guests, LockSlowPathWait(t) PROVE LockInv'
  <2>1. SeenIsThread'
    BY <1>0, <1>9 DEF TypeOK, LockInv, Threads, SeenIsThread, Free, LockSlowPathWait, AddWaiter, Goto, threadVars, suspendVars
  <2>2. SchedulerLockHeld'
    BY <1>0, <1>9 DEF TypeOK, LockInv, Threads, SchedulerLockHeld, TagIsStable, LockSlowPathWait, AddWaiter, Goto, threadVars, suspendVars
  <2>3. TagIsStable'
    BY <1>0, <1>9 DEF TypeOK, LockInv, Threads, TagIsStable, SchedulerLockHeld, SeenTag, SeenIsThread, EntitledIsOwner, Entitled, InCriticalSection, EffectiveTag, HandingOver, Free, LockSlowPathWait, AddWaiter, Goto, threadVars, suspendVars
  <2>4. EntitledIsOwner'
    BY <1>0, <1>9 DEF TypeOK, LockInv, Threads, EntitledIsOwner, Entitled, InCriticalSection, EffectiveTag, HandingOver, SchedulerLockHeld, TagIsStable, Free, LockSlowPathWait, AddWaiter, Goto, threadVars, suspendVars
  <2>5. WaitersAreParked'
    BY <1>0, <1>9 DEF TypeOK, LockInv, Threads, WaitersAreParked, SchedulerLockHeld, LockSlowPathWait, AddWaiter, Goto, threadVars, suspendVars
  <2>6. OwnerIsFlagged'
    BY <1>0, <1>9 DEF TypeOK, LockInv, Threads, OwnerIsFlagged, WaitersAreParked, EntitledIsOwner, Entitled, InCriticalSection, EffectiveTag, HandingOver, SchedulerLockHeld, TagIsStable, SeenTag, Free, LockSlowPathWait, AddWaiter, Goto, threadVars, suspendVars
  <2>7. ParkedIsListed'
    BY <1>0, <1>9 DEF TypeOK, LockInv, Threads, ParkedIsListed, SchedulerLockHeld, LockSlowPathWait, AddWaiter, Goto, threadVars, suspendVars
  <2> QED
    BY <1>0, <2>1, <2>2, <2>3, <2>4, <2>5, <2>6, <2>7 DEF LockInv
<1>10. ASSUME NEW t \in Guests, LockResume(t) PROVE LockInv'
  <2>1. SeenIsThread'
    BY <1>0, <1>10 DEF TypeOK, LockInv, Threads, SeenIsThread, Free, LockResume, Goto, threadVars, suspendVars
  <2>2. SchedulerLockHeld'
    BY <1>0, <1>10 DEF TypeOK, LockInv, Threads, SchedulerLockHeld, TagIsStable, LockResume, Goto, threadVars, suspendVars
  <2>3. TagIsStable'
    BY <1>0, <1>10 DEF TypeOK, LockInv, Threads, TagIsStable, SchedulerLockHeld, SeenTag, SeenIsThread, EntitledIsOwner, Entitled, InCriticalSection, EffectiveTag, HandingOver, Free, LockResume, Goto, threadVars, suspendVars
  <2>4. EntitledIsOwner'
    BY <1>0, <1>10 DEF TypeOK, LockInv, Threads, EntitledIsOwner, Entitled, InCriticalSection, EffectiveTag, HandingOver, SchedulerLockHeld, TagIsStable, Free, LockResume, Goto, threadVars, suspendVars
  <2>5. WaitersAreParked'
    BY <1>0, <1>10 DEF TypeOK, LockInv, Threads, WaitersAreParked, SchedulerLockHeld, LockResume, Goto, threadVars, suspendVars
  <2>6. OwnerIsFlagged'
    BY <1>0, <1>10 DEF TypeOK, LockInv, Threads, OwnerIsFlagged, WaitersAreParked, EntitledIsOwner, Entitled, InCriticalSection, EffectiveTag, HandingOver, SchedulerLockHeld, TagIsStable, SeenTag, Free, LockResume, Goto, threadVars, suspendVars
  <2>7. ParkedIsListed'
    BY <1>0, <1>10 DEF TypeOK, LockInv, Threads, ParkedIsListed, SchedulerLockHeld, LockResume, Goto, threadVars, suspendVars
  <2> QED
    BY <1>0, <2>1, <2>2, <2>3, <2>4, <2>5, <2>6, <2>7 DEF LockInv
<1>11. ASSUME NEW t \in Guests, UnlockStore(t) PROVE LockInv'
  <2>1. SeenIsThread'
    BY <1>0, <1>11 DEF TypeOK, LockInv, Threads, SeenIsThread, Free, UnlockStore, Goto, threadVars, suspendVars
  <2>2. SchedulerLockHeld'
    BY <1>0, <1>11 DEF TypeOK, LockInv, Threads, SchedulerLockHeld, TagIsStable, UnlockStore, Goto, threadVars, suspendVars
  <2>3. TagIsStable'
    BY <1>0, <1>11 DEF TypeOK, LockInv, Threads, TagIsStable, SchedulerLockHeld, SeenTag, SeenIsThread, EntitledIsOwner, Entitled, InCriticalSection, EffectiveTag, HandingOver, Free, UnlockStore, Goto, threadVars, suspendVars
  <2>4. EntitledIsOwner'
    BY <1>0, <1>11 DEF TypeOK, LockInv, Threads, EntitledIsOwner, Entitled, InCriticalSection, EffectiveTag, HandingOver, SchedulerLockHeld, TagIsStable, Free, UnlockStore, Goto, threadVars, suspendVars
  <2>5. WaitersAreParked'
    BY <1>0, <1>11 DEF TypeOK, LockInv, Threads, WaitersAreParked, SchedulerLockHeld, UnlockStore, Goto, threadVars, suspendVars
  <2>6. OwnerIsFlagged'
    BY <1>0, <1>11 DEF TypeOK, LockInv, Threads, OwnerIsFlagged, WaitersAreParked, EntitledIsOwner, Entitled, InCriticalSection, EffectiveTag, HandingOver, SchedulerLockHeld, TagIsStable, SeenTag, Free, UnlockStore, Goto, threadVars, suspendVars
  <2>7. ParkedIsListed'
    BY <1>0, <1>11 DEF TypeOK, LockInv, Threads, ParkedIsListed, SchedulerLockHeld, UnlockStore, Goto, threadVars, suspendVars
  <2> QED
    BY <1>0, <2>1, <2>2, <2>3, <2>4, <2>5, <2>6, <2>7 DEF LockInv
<1>12. ASSUME NEW t \in Guests, LockSlowPath(t) PROVE LockInv'
  <2>1. SeenIsThread'
    BY <1>0, <1>12 DEF TypeOK, LockInv, Threads, SeenIsThread, Free, LockSlowPath, Goto, threadVars, suspendVars, SeenTag, UsesHostPath
  <2>2. SchedulerLockHeld'
    BY <1>0, <1>12 DEF TypeOK, LockInv, Threads, SchedulerLockHeld, TagIsStable, LockSlowPath, Goto, threadVars, suspendVars, SeenTag, UsesHostPath
  <2>3. TagIsStable'
    BY <1>0, <1>12 DEF TypeOK, LockInv, Threads, TagIsStable, SchedulerLockHeld, SeenTag, SeenIsThread, EntitledIsOwner, Entitled, InCriticalSection, EffectiveTag, HandingOver, Free, LockSlowPath, Goto, threadVars, suspendVars, UsesHostPath
  <2>4. EntitledIsOwner'
    BY <1>0, <1>12 DEF TypeOK, LockInv, Threads, EntitledIsOwner, Entitled, InCriticalSection, EffectiveTag, HandingOver, SchedulerLockHeld, TagIsStable, Free, LockSlowPath, Goto, threadVars, suspendVars, SeenTag, UsesHostPath
  <2>5. WaitersAreParked'
    BY <1>0, <1>12 DEF TypeOK, LockInv, Threads, WaitersAreParked, SchedulerLockHeld, LockSlowPath, Goto, threadVars, suspendVars, SeenTag, UsesHostPath
  <2>6. OwnerIsFlagged'
    BY <1>0, <1>12 DEF TypeOK, LockInv, Threads, OwnerIsFlagged, WaitersAreParked, EntitledIsOwner, Entitled, InCriticalSection, EffectiveTag, HandingOver, SchedulerLockHeld, TagIsStable, SeenTag, Free, LockSlowPath, Goto, threadVars, suspendVars, UsesHostPath
  <2>7. ParkedIsListed'
    BY <1>0, <1>12 DEF TypeOK, LockInv, Threads, ParkedIsListed, SchedulerLockHeld, LockSlowPath, Goto, threadVars, suspendVars, SeenTag, UsesHostPath
  <2> QED
    BY <1>0, <2>1, <2>2, <2>3, <2>4, <2>5, <2>6, <2>7 DEF LockInv
<1>13. ASSUME NEW t \in Guests, UnlockSlowPathAlone(t) PROVE LockInv'
  <2>1. SeenIsThread'
    BY <1>0, <1>13 DEF TypeOK, LockInv, Threads, SeenIsThread, Free, UnlockSlowPathAlone, Goto, threadVars, suspendVars
  <2>2. SchedulerLockHeld'
    BY <1>0, <1>13 DEF TypeOK, LockInv, Threads, SchedulerLockHeld, TagIsStable, UnlockSlowPathAlone, Goto, threadVars, suspendVars
  <2>3. TagIsStable'
    BY <1>0, <1>13 DEF TypeOK, LockInv, Threads, TagIsStable, SchedulerLockHeld, SeenTag, SeenIsThread, EntitledIsOwner, Entitled, InCriticalSection, EffectiveTag, HandingOver, Free, UnlockSlowPathAlone, Goto, threadVars, suspendVars
  <2>4. EntitledIsOwner'
    BY <1>0, <1>13 DEF TypeOK, LockInv, Threads, EntitledIsOwner, Entitled, InCriticalSection, EffectiveTag, HandingOver, SchedulerLockHeld, TagIsStable, Free, UnlockSlowPathAlone, Goto, threadVars, suspendVars
  <2>5. WaitersAreParked'
    BY <1>0, <1>13 DEF TypeOK, LockInv, Threads, WaitersAreParked, SchedulerLockHeld, UnlockSlowPathAlone, Goto, threadVars, suspendVars
  <2>6. OwnerIsFlagged'
    BY <1>0, <1>13 DEF TypeOK, LockInv, Threads, OwnerIsFlagged, WaitersAreParked, EntitledIsOwner, Entitled, InCriticalSection, EffectiveTag, HandingOver, SchedulerLockHeld, TagIsStable, SeenTag, Free, UnlockSlowPathAlone, Goto, threadVars, suspendVars
  <2>7. ParkedIsListed'
    BY <1>0, <1>13 DEF TypeOK, LockInv, Threads, ParkedIsListed, SchedulerLockHeld, UnlockSlowPathAlone, Goto, threadVars, suspendVars
  <2> QED
    BY <1>0, <2>1, <2>2, <2>3, <2>4, <2>5, <2>6, <2>7 DEF LockInv
<1>14. ASSUME NEW t \in Guests, NEW u \in Guests, UnlockSlowPathTransfer(t, u) PROVE LockInv'
  <2> DEFINE rest == waiters[t] \ {u}
  <2>a. t # u /\ u \in waiters[t] /\ sched = NoThread /\ sched' = t
    BY <1>14 DEF UnlockSlowPathTransfer, RemoveWaiterByKey, IsHighestPriority, LockInv, WaitersAreParked
  <2>b. tag.owner = t
    BY <1>14, <2>a DEF UnlockSlowPathTransfer, RemoveWaiterByKey, LockInv, EntitledIsOwner, Entitled, InCriticalSection, 
       EffectiveTag, HandingOver, Threads
  <2>c. \A o \in Guests : waiters'[o] = IF o = u THEN rest ELSE {}
    <3>1. \A o \in Guests : o # t => waiters[o] = {}
      BY <2>a, <2>b DEF LockInv, OwnerIsFlagged, EffectiveTag, HandingOver
    <3> QED
      BY <1>14, <2>a, <3>1 DEF UnlockSlowPathTransfer, RemoveWaiterByKey, LockInv, TypeOK
  <2>d. pc'[t] = "store" /\ \A w \in rest : w \in Guests /\ pc'[w] = pc[w] /\ state'[w] = state[w]
    BY <1>14, <2>a DEF UnlockSlowPathTransfer, RemoveWaiterByKey, LockInv, TypeOK, WaitersAreParked, Goto, Threads
  <2>e. EffectiveTag' = [owner |-> u, waiters |-> rest # {}]
    BY <1>14, <2>a, <2>d DEF UnlockSlowPathTransfer, RemoveWaiterByKey, TransferTag, EffectiveTag, HandingOver
  <2>1. SeenIsThread'
    BY <1>0, <1>14 DEF TypeOK, LockInv, Threads, SeenIsThread, Free, UnlockSlowPathTransfer, RemoveWaiterByKey, TransferTag, Goto, threadVars, suspendVars, IsHighestPriority
  <2>2. SchedulerLockHeld'
    BY <1>0, <1>14 DEF TypeOK, LockInv, Threads, SchedulerLockHeld, TagIsStable, UnlockSlowPathTransfer, RemoveWaiterByKey, TransferTag, Goto, threadVars, suspendVars, IsHighestPriority
  <2>3. TagIsStable'
    BY <1>0, <1>14 DEF TypeOK, LockInv, Threads, TagIsStable, SchedulerLockHeld, SeenTag, SeenIsThread, EntitledIsOwner, Entitled, InCriticalSection, EffectiveTag, HandingOver, Free, UnlockSlowPathTransfer, RemoveWaiterByKey, TransferTag, Goto, threadVars, suspendVars, IsHighestPriority
  <2>4. EntitledIsOwner'
    BY <1>0, <1>14 DEF TypeOK, LockInv, Threads, EntitledIsOwner, Entitled, InCriticalSection, EffectiveTag, HandingOver, SchedulerLockHeld, TagIsStable, Free, UnlockSlowPathTransfer, RemoveWaiterByKey, TransferTag, Goto, threadVars, suspendVars, IsHighestPriority
  <2>5. WaitersAreParked'
    BY <2>c, <2>d DEF LockInv, WaitersAreParked
  <2>6. OwnerIsFlagged'
    BY <2>c, <2>e DEF OwnerIsFlagged
  <2>7. ParkedIsListed'
    BY <1>0, <1>14 DEF TypeOK, LockInv, Threads, ParkedIsListed, SchedulerLockHeld, UnlockSlowPathTransfer, RemoveWaiterByKey, TransferTag, Goto, threadVars, suspendVars, IsHighestPriority
  <2> QED
    BY <1>0, <2>1, <2>2, <2>3, <2>4, <2>5, <2>6, <2>7 DEF LockInv
<1>15. ASSUME NEW g \in Suspendable, NEW type \in SuspendTypes, RequestSuspend(g, type) PROVE LockInv'
  <2>1. SeenIsThread'
    BY <1>0, <1>15 DEF TypeOK, LockInv, Threads, SeenIsThread, Free, RequestSuspend, Goto, threadVars, suspendVars
  <2>2. SchedulerLockHeld'
    BY <1>0, <1>15 DEF TypeOK, LockInv, Threads, SchedulerLockHeld, TagIsStable, RequestSuspend, Goto, threadVars, suspendVars
  <2>3. TagIsStable'
    BY <1>0, <1>15 DEF TypeOK, LockInv, Threads, TagIsStable, SchedulerLockHeld, SeenTag, SeenIsThread, EntitledIsOwner, Entitled, InCriticalSection, EffectiveTag, HandingOver, Free, RequestSuspend, Goto, threadVars, suspendVars
  <2>4. EntitledIsOwner'
    BY <1>0, <1>15 DEF TypeOK, LockInv, Threads, EntitledIsOwner, Entitled, InCriticalSection, EffectiveTag, HandingOver, SchedulerLockHeld, TagIsStable, Free, RequestSuspend, Goto, threadVars, suspendVars
  <2>5. WaitersAreParked'
    BY <1>0, <1>15 DEF TypeOK, LockInv, Threads, WaitersAreParked, SchedulerLockHeld, RequestSuspend, Goto, threadVars, suspendVars
  <2>6. OwnerIsFlagged'
    BY <1>0, <1>15 DEF TypeOK, LockInv, Threads, OwnerIsFlagged, WaitersAreParked, EntitledIsOwner, Entitled, InCriticalSection, EffectiveTag, HandingOver, SchedulerLockHeld, TagIsStable, SeenTag, Free, RequestSuspend, Goto, threadVars, suspendVars
  <2>7. ParkedIsListed'
    BY <1>0, <1>15 DEF TypeOK, LockInv, Threads, ParkedIsListed, SchedulerLockHeld, RequestSuspend, Goto, threadVars, suspendVars
  <2> QED
    BY <1>0, <2>1, <2>2, <2>3, <2>4, <2>5, <2>6, <2>7 DEF LockInv
<1>16. ASSUME NEW g \in Suspendable, NEW type \in SuspendTypes, Resume(g, type) PROVE LockInv'
  <2>1. SeenIsThread'
    BY <1>0, <1>16 DEF TypeOK, LockInv, Threads, SeenIsThread, Free, Resume, Goto, threadVars, suspendVars
  <2>2. SchedulerLockHeld'
    BY <1>0, <1>16 DEF TypeOK, LockInv, Threads, SchedulerLockHeld, TagIsStable, Resume, Goto, threadVars, suspendVars
  <2>3. TagIsStable'
    BY <1>0, <1>16 DEF TypeOK, LockInv, Threads, TagIsStable, SchedulerLockHeld, SeenTag, SeenIsThread, EntitledIsOwner, Entitled, InCriticalSection, EffectiveTag, HandingOver, Free, Resume, Goto, threadVars, suspendVars
  <2>4. EntitledIsOwner'
    BY <1>0, <1>16 DEF TypeOK, LockInv, Threads, EntitledIsOwner, Entitled, InCriticalSection, EffectiveTag, HandingOver, SchedulerLockHeld, TagIsStable, Free, Resume, Goto, threadVars, suspendVars
  <2>5. WaitersAreParked'
    BY <1>0, <1>16 DEF TypeOK, LockInv, Threads, WaitersAreParked, SchedulerLockHeld, Resume, Goto, threadVars, suspendVars
  <2>6. OwnerIsFlagged'
    BY <1>0, <1>16 DEF TypeOK, LockInv, Threads, OwnerIsFlagged, WaitersAreParked, EntitledIsOwner, Entitled, InCriticalSection, EffectiveTag, HandingOver, SchedulerLockHeld, TagIsStable, SeenTag, Free, Resume, Goto, threadVars, suspendVars
  <2>7. ParkedIsListed'
    BY <1>0, <1>16 DEF TypeOK, LockInv, Threads, ParkedIsListed, SchedulerLockHeld, Resume, Goto, threadVars, suspendVars
  <2> QED
    BY <1>0, <2>1, <2>2, <2>3, <2>4, <2>5, <2>6, <2>7 DEF LockInv
<1>17. CASE UNCHANGED vars
  BY <1>17 DEF vars, threadVars, suspendVars, LockInv, TypeOK, SeenIsThread, SchedulerLockHeld, 
     TagIsStable, EntitledIsOwner, WaitersAreParked, OwnerIsFlagged, ParkedIsListed, Entitled,
     InCriticalSection, EffectiveTag, HandingOver, SeenTag
<1> QED
  BY <1>0, <1>1, <1>2, <1>3, <1>4, <1>5, <1>6, <1>7, <1>8, <1>9, <1>10, <1>11, <1>12, <1>13, <1>14, <1>15, <1>16, <1>17 DEF Next, Step, GuestStep, SchedulerStep

-----------------------------------------------------------------------------
\* The invariant holds initially, and in every behaviour without termination.
LEMMA LockInvariant ==
    ASSUME Terminable = {}
    PROVE  Spec => []LockInv
<1>1. Init => LockInv
  BY ThreadsAssumption DEF Init, LockInv, TypeOK, Tags, PCs, Threads, Free, SeenIsThread,
     SchedulerLockHeld, TagIsStable, EntitledIsOwner, WaitersAreParked, OwnerIsFlagged,
     ParkedIsListed, Entitled, InCriticalSection, EffectiveTag, HandingOver, SeenTag
<1>2. LockInv /\ [Next]_vars => LockInv'
  BY LockStep
<1> QED
  BY <1>1, <1>2, PTL DEF Spec

\* lock()/unlock() exclude each other: as long as no waiter is terminated, no two
\* threads, guests or hosts in any number, are in the critical section together.
THEOREM MutualExclusionHolds ==
    ASSUME Terminable = {}
    PROVE  Spec => []MutualExclusion
<1>1. LockInv => MutualExclusion
  BY DEF LockInv, MutualExclusion, EntitledIsOwner, Entitled
<1> QED
  BY <1>1, LockInvariant, PTL

\* lock() returns to the thread the tag names, or is about to name.
THEOREM ResumesAsOwnerHolds ==
    ASSUME Terminable = {}
    PROVE  Spec => []ResumesAsOwner
<1>1. LockInv => ResumesAsOwner
  BY DEF LockInv, ResumesAsOwner, EntitledIsOwner, Entitled
<1> QED
  BY <1>1, LockInvariant, PTL

\* No wake-up is lost: whoever is parked is on the list of an owner that will
\* take the slow path of unlock().
THEOREM ParkedIsCoveredHolds ==
    ASSUME Terminable = {}
    PROVE  Spec => []ParkedIsCovered
<1>1. LockInv => ParkedIsCovered
  <2> SUFFICES ASSUME LockInv, NEW g \in Guests, pc[g] = "parked", state[g] = "WAITING"
               PROVE  \E o \in Guests : /\ g \in waiters[o]
                                        /\ EffectiveTag = [owner |-> o, waiters |-> TRUE]
    BY DEF ParkedIsCovered
  <2>1. PICK o \in Guests : g \in waiters[o]
    BY DEF LockInv, ParkedIsListed
  <2>2. EffectiveTag.owner = o /\ EffectiveTag.waiters = TRUE
    BY <2>1 DEF LockInv, OwnerIsFlagged
  <2>3. EffectiveTag \in Tags
    BY DEF LockInv, TypeOK, EffectiveTag
  <2>4. EffectiveTag = [owner |-> o, waiters |-> TRUE]
    <3>1. EffectiveTag # Free
      BY <2>2 DEF Free
    <3> QED
      BY <2>2, <2>3, <3>1 DEF Tags
  <2> QED
    BY <2>1, <2>4
<1> QED
  BY <1>1, LockInvariant, PTL

-----------------------------------------------------------------------------
(* The wait links, in behaviours that may terminate threads at any point.     *)

\* Who waits under the scheduler lock waits for a guest.
EnqueueKnowsOwner == \A g \in Guests : pc[g] = "enqueue" => seen[g] \in Guests

LinkInv ==
    /\ TypeOK
    /\ SeenIsThread
    /\ EnqueueKnowsOwner
    /\ WaitLinksAgree

\* A step that leaves the lists, the links, the counts and the states alone, and
\* moves no parked guest, keeps the wait links in agreement.
LEMMA LinksUndisturbed ==
    ASSUME TypeOK, WaitLinksAgree, UNCHANGED threadVars,
           \A g \in Guests : pc[g] = "parked" /\ state[g] = "WAITING" => pc'[g] = "parked"
    PROVE  WaitLinksAgree'
  BY DEF TypeOK, WaitLinksAgree, threadVars

\* add_waiter of a guest that is in no list adds one waiter and one link.
LEMMA LinksOfWait ==
    ASSUME LinkInv, NEW t \in Guests, LockSlowPathWait(t)
    PROVE  WaitLinksAgree'
<1> DEFINE o == seen[t]
<1>1. o \in Guests
  BY DEF LockSlowPathWait, LinkInv, EnqueueKnowsOwner
<1>2. \A p \in Guests : t \notin waiters[p]
  BY DEF LockSlowPathWait, LinkInv, WaitLinksAgree
<1>3. lockOwner[t] \notin Guests
  BY <1>2 DEF LinkInv, WaitLinksAgree
<1>4. \A p \in Guests : waiters'[p] = IF p = o THEN waiters[p] \cup {t} ELSE waiters[p]
  BY DEF LockSlowPathWait, AddWaiter, LinkInv, TypeOK
<1>5. \A g \in Guests : lockOwner'[g] = IF g = t THEN o ELSE lockOwner[g]
  BY DEF LockSlowPathWait, AddWaiter, LinkInv, TypeOK
<1>6. kwaiters' = [kwaiters EXCEPT ![o] = @ + 1]
  BY DEF LockSlowPathWait, AddWaiter
<1>7. \A g \in Guests : g # t => pc'[g] = pc[g] /\ state'[g] = state[g]
  BY DEF LockSlowPathWait, Goto, Threads, LinkInv, TypeOK
<1>8. pc'[t] = "parked" /\ state'[t] = "WAITING"
  BY DEF LockSlowPathWait, Goto, Threads, LinkInv, TypeOK
<1>9. ASSUME NEW p \in Guests
      PROVE  /\ waiters'[p] = {g \in Guests : lockOwner'[g] = p}
             /\ kwaiters'[p] = Cardinality(waiters'[p])
             /\ \A g \in waiters'[p] : pc'[g] = "parked" /\ state'[g] = "WAITING"
  <2>1. /\ waiters[p] = {g \in Guests : lockOwner[g] = p}
        /\ kwaiters[p] = Cardinality(waiters[p])
        /\ \A g \in waiters[p] : pc[g] = "parked" /\ state[g] = "WAITING"
    BY DEF LinkInv, WaitLinksAgree
  <2>2. waiters'[p] = {g \in Guests : lockOwner'[g] = p}
    <3>1. \A g \in Guests : lockOwner'[g] = p <=> lockOwner[g] = p \/ (g = t /\ p = o)
      BY <1>3, <1>5
    <3>2. \A g : g \in waiters'[p] <=> g \in waiters[p] \/ (g = t /\ p = o)
      BY <1>4
    <3> QED
      BY <2>1, <3>1, <3>2
  <2>3. kwaiters'[p] = Cardinality(waiters'[p])
    <3>1. IsFiniteSet(waiters[p])
      BY WaitersFinite DEF LinkInv, TypeOK
    <3>2. Cardinality(waiters[p] \cup {t}) = Cardinality(waiters[p]) + 1
      BY <1>2, <3>1, FS_AddElement
    <3>3. kwaiters'[p] = IF p = o THEN kwaiters[p] + 1 ELSE kwaiters[p]
      BY <1>1, <1>6 DEF LinkInv, TypeOK
    <3> QED
      BY <1>4, <2>1, <3>2, <3>3
  <2>4. \A g \in waiters'[p] : pc'[g] = "parked" /\ state'[g] = "WAITING"
    <3>1. \A g \in waiters'[p] : g = t \/ g \in waiters[p]
      BY <1>4
    <3>2. waiters[p] \subseteq Guests
      BY <2>1
    <3> QED
      BY <1>7, <1>8, <2>1, <3>1, <3>2
  <2> QED
    BY <2>2, <2>3, <2>4
<1> QED
  BY <1>9 DEF WaitLinksAgree

\* remove_waiter_by_key and the transfer move the rest of the list, with its
\* links and its count, from the unlocker t to the next owner n.
LEMMA LinksOfTransfer ==
    ASSUME LinkInv, NEW t \in Guests, NEW n \in Guests, UnlockSlowPathTransfer(t, n)
    PROVE  WaitLinksAgree'
<1> DEFINE rest == waiters[t] \ {n}
<1>1. n \in waiters[t] /\ pc[t] = "unlock_slow"
  BY DEF UnlockSlowPathTransfer, RemoveWaiterByKey, IsHighestPriority
<1>2. \A p \in Guests : /\ waiters[p] = {g \in Guests : lockOwner[g] = p}
                        /\ kwaiters[p] = Cardinality(waiters[p])
                        /\ \A g \in waiters[p] : pc[g] = "parked" /\ state[g] = "WAITING"
  BY DEF LinkInv, WaitLinksAgree
<1>3. n # t /\ lockOwner[n] = t /\ \A p \in Guests : t \notin waiters[p]
  BY <1>1, <1>2
<1>4. \A p \in Guests : waiters'[p] = IF p = t THEN {}
                                      ELSE IF p = n THEN waiters[n] \cup rest
                                      ELSE waiters[p]
  BY <1>3 DEF UnlockSlowPathTransfer, RemoveWaiterByKey, LinkInv, TypeOK
<1>5. \A g \in Guests : lockOwner'[g] = IF g \in rest THEN n
                                        ELSE IF g = n THEN NoThread
                                        ELSE lockOwner[g]
  BY DEF UnlockSlowPathTransfer, Retarget
<1>6. \A g \in Guests : g # n => state'[g] = state[g]
  BY DEF UnlockSlowPathTransfer, LinkInv, TypeOK
<1>7. \A g \in Guests : g # t => pc'[g] = pc[g]
  BY DEF UnlockSlowPathTransfer, Goto, LinkInv, TypeOK, Threads
<1>8. ASSUME NEW p \in Guests
      PROVE  waiters'[p] = {g \in Guests : lockOwner'[g] = p}
  BY <1>2, <1>3, <1>4, <1>5, ThreadsAssumption
<1>9. ASSUME NEW p \in Guests
      PROVE  kwaiters'[p] = Cardinality(waiters'[p])
  <2>1. /\ IsFiniteSet(waiters[t]) /\ Cardinality(waiters[t]) \in Nat
        /\ IsFiniteSet(waiters[n]) /\ Cardinality(waiters[n]) \in Nat
        /\ IsFiniteSet(rest) /\ Cardinality(rest) \in Nat
    BY WaitersFinite DEF LinkInv, TypeOK
  <2>2. kwaiters'[p] = IF p = t THEN kwaiters[t] - Cardinality(waiters[t])
                       ELSE IF p = n THEN kwaiters[n] + Cardinality(rest)
                       ELSE kwaiters[p]
    BY <1>3 DEF UnlockSlowPathTransfer, RemoveWaiterByKey, LinkInv, TypeOK
  <2>3. CASE p = t
    <3>1. kwaiters'[p] = 0
      BY <1>2, <2>1, <2>2, <2>3
    <3> QED
      BY <1>4, <2>3, <3>1, FS_EmptySet
  <2>4. CASE p = n
    <3>1. waiters[n] \cap rest = {}
      BY <1>2, <1>3
    <3>2. Cardinality(waiters[n] \cup rest) = Cardinality(waiters[n]) + Cardinality(rest)
      <4>1. Cardinality(waiters[n] \cap rest) = 0
        BY <3>1, FS_EmptySet
      <4>2. Cardinality(waiters[n] \cup rest)
              = Cardinality(waiters[n]) + Cardinality(rest) - Cardinality(waiters[n] \cap rest)
        BY <2>1, FS_Union
      <4> QED
        BY <2>1, <4>1, <4>2
    <3> QED
      BY <1>2, <1>3, <1>4, <2>2, <2>4, <3>2
  <2>5. CASE p # t /\ p # n
    BY <1>2, <1>4, <2>2, <2>5
  <2> QED
    BY <2>3, <2>4, <2>5
<1>10. ASSUME NEW p \in Guests, NEW g \in waiters'[p]
       PROVE  pc'[g] = "parked" /\ state'[g] = "WAITING"
  <2>1. g \in Guests /\ g # n /\ g # t /\ \E q \in Guests : g \in waiters[q]
    BY <1>2, <1>3, <1>4 DEF LinkInv, TypeOK
  <2> QED
    BY <1>2, <1>6, <1>7, <2>1
<1> QED
  BY <1>8, <1>9, <1>10 DEF WaitLinksAgree

\* cancel_light_lock_wait takes a terminated waiter, and nobody else, off the
\* list its link names.
LEMMA LinksOfTerminate ==
    ASSUME LinkInv, NEW g \in Guests, RequestTerminate(g)
    PROVE  WaitLinksAgree'
<1>1. CASE state[g] = "RUNNABLE"
  <2>1. UNCHANGED <<threadVars, pc>>
    BY <1>1 DEF RequestTerminate
  <2> QED
    BY <2>1, LinksUndisturbed DEF LinkInv
<1>2. CASE state[g] = "WAITING"
  <2>1. /\ waiters' = [waiters EXCEPT ![lockOwner[g]] = @ \ {g}]
        /\ kwaiters' = [kwaiters EXCEPT ![lockOwner[g]] = @ - 1]
        /\ lockOwner' = [lockOwner EXCEPT ![g] = NoThread]
        /\ state' = [state EXCEPT ![g] = "RUNNABLE"]
        /\ pc' = pc
    BY <1>2 DEF RequestTerminate, CancelLightLockWait
  <2>2. ASSUME NEW p \in Guests
        PROVE  /\ waiters'[p] = {h \in Guests : lockOwner'[h] = p}
               /\ kwaiters'[p] = Cardinality(waiters'[p])
               /\ \A h \in waiters'[p] : pc'[h] = "parked" /\ state'[h] = "WAITING"
    <3>1. /\ waiters[p] = {h \in Guests : lockOwner[h] = p}
          /\ kwaiters[p] = Cardinality(waiters[p])
          /\ \A h \in waiters[p] : pc[h] = "parked" /\ state[h] = "WAITING"
      BY DEF LinkInv, WaitLinksAgree
    <3>2. waiters'[p] = waiters[p] \ {g}
      BY <2>1, <3>1 DEF LinkInv, TypeOK
    <3>3. waiters'[p] = {h \in Guests : lockOwner'[h] = p}
      BY <2>1, <3>1, <3>2, ThreadsAssumption DEF LinkInv, TypeOK
    <3>4. kwaiters'[p] = Cardinality(waiters'[p])
      <4>1. IsFiniteSet(waiters[p]) /\ Cardinality(waiters[p]) \in Nat
        BY WaitersFinite DEF LinkInv, TypeOK
      <4>2. CASE g \in waiters[p]
        <5>1. Cardinality(waiters[p] \ {g}) = Cardinality(waiters[p]) - 1
          BY <4>1, <4>2, FS_RemoveElement
        <5>2. kwaiters'[p] = kwaiters[p] - 1
          BY <2>1, <3>1, <4>2 DEF LinkInv, TypeOK
        <5> QED
          BY <3>1, <3>2, <5>1, <5>2
      <4>3. CASE g \notin waiters[p]
        <5>1. waiters[p] \ {g} = waiters[p] /\ kwaiters'[p] = kwaiters[p]
          BY <2>1, <3>1, <4>3 DEF LinkInv, TypeOK
        <5> QED
          BY <3>1, <3>2, <5>1
      <4> QED
        BY <4>2, <4>3
    <3>5. \A h \in waiters'[p] : pc'[h] = "parked" /\ state'[h] = "WAITING"
      BY <2>1, <3>1, <3>2 DEF LinkInv, TypeOK
    <3> QED
      BY <3>3, <3>4, <3>5
  <2> QED
    BY <2>2 DEF WaitLinksAgree
<1> QED
  BY <1>1, <1>2 DEF LinkInv, TypeOK

\* Every step of KLightLock, terminations included, preserves LinkInv.
LEMMA LinkStep == LinkInv /\ [Next]_vars => LinkInv'
<1> SUFFICES ASSUME LinkInv, [Next]_vars PROVE LinkInv'
  OBVIOUS
<1> USE ThreadsAssumption
<1>0. TypeOK' /\ TypeOK /\ SeenIsThread /\ EnqueueKnowsOwner /\ WaitLinksAgree
  BY TypeStep DEF LinkInv
<1>1. SeenIsThread'
  <2>1. ASSUME NEW t \in Threads, LockExchange(t) PROVE SeenIsThread'
    <3>1. tag # Free => tag.owner \in Threads
      BY <1>0, TagTypes DEF TypeOK
    <3> QED
      BY <1>0, <2>1, <3>1 DEF SeenIsThread, LockExchange, Goto, TypeOK, Threads
  <2>2. ASSUME seen' = seen, \A t \in Threads : pc'[t] = "lock_slow" => pc[t] = "lock_slow"
        PROVE  SeenIsThread'
    BY <1>0, <2>2 DEF SeenIsThread
  <2>3. ASSUME NEW t \in Threads, UnlockHostNotify(t) PROVE SeenIsThread'
    BY <2>2, <2>3 DEF UnlockHostNotify
  <2>4. ASSUME NEW t \in Threads, Lock(t) \/ (Step(t) /\ ~LockExchange(t) /\ ~UnlockHostNotify(t))
        PROVE  SeenIsThread'
    BY <1>0, <2>2, <2>4 DEF Lock, Step, GuestStep, LockHostSlowPath, HostWaitCheck, HostWaitSleep,
       Unlock, UnlockHostStore, LockSlowPathWait, LockResume, UnlockStore, Goto, TypeOK, Threads
  <2>5. ASSUME NEW g \in Guests, SchedulerStep(g) PROVE SeenIsThread'
    BY <1>0, <2>2, <2>5 DEF SchedulerStep, LockSlowPath, UnlockSlowPathAlone,
       UnlockSlowPathTransfer, Goto, TypeOK, Threads
  <2>6. ASSUME UNCHANGED <<pc, seen>> PROVE SeenIsThread'
    BY <2>2, <2>6
  <2> QED
    BY <2>1, <2>3, <2>4, <2>5, <2>6 DEF Next, vars, RequestSuspend, Resume, RequestTerminate
<1>2. EnqueueKnowsOwner'
  <2>1. ASSUME NEW g \in Guests, LockSlowPath(g) PROVE EnqueueKnowsOwner'
    BY <1>0, <2>1 DEF EnqueueKnowsOwner, SeenIsThread, LockSlowPath, UsesHostPath, Goto, TypeOK, Threads
  <2>2. ASSUME NEW t \in Threads, LockExchange(t) PROVE EnqueueKnowsOwner'
    BY <1>0, <2>2 DEF EnqueueKnowsOwner, LockExchange, Goto, TypeOK, Threads
  <2>3. ASSUME seen' = seen, \A g \in Guests : pc'[g] = "enqueue" => pc[g] = "enqueue"
        PROVE  EnqueueKnowsOwner'
    BY <1>0, <2>3 DEF EnqueueKnowsOwner
  <2>4. ASSUME NEW t \in Threads, UnlockHostNotify(t) PROVE EnqueueKnowsOwner'
    BY <2>3, <2>4 DEF UnlockHostNotify, Threads
  <2>5. ASSUME NEW t \in Threads, Lock(t) \/ (Step(t) /\ ~LockExchange(t) /\ ~UnlockHostNotify(t))
        PROVE  EnqueueKnowsOwner'
    BY <1>0, <2>3, <2>5 DEF Lock, Step, GuestStep, LockHostSlowPath, HostWaitCheck, HostWaitSleep,
       Unlock, UnlockHostStore, LockSlowPathWait, LockResume, UnlockStore, Goto, TypeOK, Threads
  <2>6. ASSUME NEW g \in Guests, SchedulerStep(g), ~LockSlowPath(g) PROVE EnqueueKnowsOwner'
    BY <1>0, <2>3, <2>6 DEF SchedulerStep, UnlockSlowPathAlone, UnlockSlowPathTransfer, Goto,
       TypeOK, Threads
  <2>7. ASSUME UNCHANGED <<pc, seen>> PROVE EnqueueKnowsOwner'
    BY <2>3, <2>7
  <2> QED
    BY <2>1, <2>2, <2>4, <2>5, <2>6, <2>7 DEF Next, vars, RequestSuspend, Resume, RequestTerminate
<1>3. WaitLinksAgree'
  <2>1. ASSUME NEW t \in Guests, LockSlowPathWait(t) PROVE WaitLinksAgree'
    BY <2>1, LinksOfWait
  <2>2. ASSUME NEW t \in Guests, NEW n \in Guests, UnlockSlowPathTransfer(t, n) PROVE WaitLinksAgree'
    BY <2>2, LinksOfTransfer
  <2>3. ASSUME NEW g \in Guests, RequestTerminate(g) PROVE WaitLinksAgree'
    BY <2>3, LinksOfTerminate
  <2>4. ASSUME UNCHANGED threadVars,
               \A g \in Guests : pc[g] = "parked" /\ state[g] = "WAITING" => pc'[g] = "parked"
        PROVE  WaitLinksAgree'
    BY <1>0, <2>4, LinksUndisturbed
  <2>5. ASSUME NEW t \in Threads, UnlockHostNotify(t) PROVE WaitLinksAgree'
    BY <1>0, <2>4, <2>5 DEF UnlockHostNotify, Threads
  <2>6. ASSUME NEW t \in Threads, Lock(t) \/ LockExchange(t) \/ LockHostSlowPath(t)
                 \/ HostWaitCheck(t) \/ HostWaitSleep(t) \/ Unlock(t) \/ UnlockHostStore(t)
        PROVE  WaitLinksAgree'
    BY <1>0, <2>4, <2>6 DEF Lock, LockExchange, LockHostSlowPath, HostWaitCheck, HostWaitSleep,
       Unlock, UnlockHostStore, Goto, TypeOK, Threads
  <2>7. ASSUME NEW g \in Guests, LockResume(g) \/ UnlockStore(g) \/ LockSlowPath(g)
        PROVE  WaitLinksAgree'
    BY <1>0, <2>4, <2>7 DEF LockResume, UnlockStore, LockSlowPath, Goto, TypeOK, Threads
  <2>8. ASSUME NEW g \in Guests, UnlockSlowPathAlone(g) PROVE WaitLinksAgree'
    BY <1>0, <2>4, <2>8 DEF UnlockSlowPathAlone, threadVars, Goto, TypeOK, Threads
  <2>9. ASSUME UNCHANGED <<threadVars, pc>> PROVE WaitLinksAgree'
    BY <2>4, <2>9
  <2> QED
    BY <2>1, <2>2, <2>3, <2>5, <2>6, <2>7, <2>8, <2>9
       DEF Next, Step, GuestStep, SchedulerStep, vars, RequestSuspend, Resume
<1> QED
  BY <1>0, <1>1, <1>2, <1>3 DEF LinkInv

\* LinkInv holds in every behaviour, whoever is terminated.
LEMMA LinkInvariant == Spec => []LinkInv
<1>1. Init => LinkInv
  <2>1. ASSUME Init PROVE TypeOK
    BY <2>1, ThreadsAssumption DEF Init, TypeOK, Tags, PCs, Threads, Free
  <2>2. ASSUME Init PROVE SeenIsThread /\ EnqueueKnowsOwner
    BY <2>2 DEF Init, SeenIsThread, EnqueueKnowsOwner, Threads
  <2>3. ASSUME Init PROVE WaitLinksAgree
    BY <2>3, FS_EmptySet, ThreadsAssumption DEF Init, WaitLinksAgree
  <2> QED
    BY <2>1, <2>2, <2>3 DEF LinkInv
<1> QED
  BY <1>1, LinkStep, PTL DEF Spec

\* add_waiter, remove_waiter_by_key and cancel_light_lock_wait keep the owner's
\* held-lock list, the waiters' links, num_kernel_waiters and the waiters' states
\* in agreement, for any number of threads and also when they are terminated.
THEOREM WaitLinksAgreeHolds == Spec => []WaitLinksAgree
<1>1. LinkInv => WaitLinksAgree
  BY DEF LinkInv
<1> QED
  BY <1>1, LinkInvariant, PTL

\* try_suspend's early return works for any number of threads and of reasons: a
\* guest with kernel waiters is stopped by nothing but the resume() of one of
\* several suspensions.
THEOREM SuspendDefersToWaitersHolds == Spec => SuspendDefersToWaiters
<1> DEFINE Deferred == \A o \in Guests : ~stopped[o] /\ stopped'[o] /\ waiters'[o] # {} =>
                           request'[o] # {} /\ request'[o] # request[o]
                                            /\ request'[o] \subseteq request[o]
<1>1. LinkInv /\ LinkInv' /\ [Next]_vars => [Deferred]_vars
  <2> SUFFICES ASSUME LinkInv, LinkInv', Next, NEW o \in Guests,
                      ~stopped[o], stopped'[o], waiters'[o] # {}
               PROVE  request'[o] # {} /\ request'[o] # request[o]
                                       /\ request'[o] \subseteq request[o]
    OBVIOUS
  <2> USE ThreadsAssumption
  <2>0. TypeOK /\ stopped'[o] # stopped[o]
    BY DEF LinkInv, TypeOK
  <2>1. kwaiters'[o] \in Nat /\ kwaiters'[o] > 0
    <3>1. kwaiters'[o] = Cardinality(waiters'[o]) /\ waiters'[o] \in SUBSET Guests
      BY DEF LinkInv, WaitLinksAgree
    <3>2. IsFiniteSet(waiters'[o]) /\ Cardinality(waiters'[o]) \in Nat
      BY <3>1, WaitersFinite
    <3>3. Cardinality(waiters'[o]) # 0
      BY <3>2, FS_EmptySet
    <3> QED
      BY <3>1, <3>2, <3>3
  <2>2. ASSUME NEW t \in Threads, Lock(t) \/ Step(t) PROVE FALSE
    <3>1. ASSUME NEW s \in Guests, LockSlowPathWait(s) PROVE FALSE
      BY <2>0, <3>1 DEF LockSlowPathWait, TypeOK
    <3> QED
      BY <2>0, <2>2, <3>1 DEF Lock, Step, GuestStep, LockExchange, LockHostSlowPath, HostWaitCheck,
         HostWaitSleep, Unlock, UnlockHostStore, UnlockHostNotify, LockResume, UnlockStore, suspendVars
  <2>3. ASSUME NEW t \in Guests, LockSlowPath(t) \/ UnlockSlowPathAlone(t) PROVE FALSE
    BY <2>0, <2>1, <2>3 DEF LockSlowPath, UnlockSlowPathAlone, TrySuspend, suspendVars, TypeOK
  <2>4. ASSUME NEW t \in Guests, NEW n \in Guests, UnlockSlowPathTransfer(t, n) PROVE FALSE
    <3>1. stopped' = [stopped EXCEPT
                        ![n] = @ /\ ~(request[n] # {} /\ kwaiters'[n] > 0),
                        ![t] = @ \/ TrySuspend(request[t], kwaiters'[t])]
      BY <2>4 DEF UnlockSlowPathTransfer
    <3>2. o = t /\ TrySuspend(request[t], kwaiters'[t])
      BY <2>0, <3>1 DEF TypeOK
    <3> QED
      BY <2>1, <3>2 DEF TrySuspend
  <2>5. ASSUME NEW g \in Suspendable, NEW type \in SuspendTypes, RequestSuspend(g, type) PROVE FALSE
    BY <2>0, <2>1, <2>5 DEF RequestSuspend, TrySuspend, threadVars, TypeOK
  <2>6. ASSUME NEW g \in Terminable, RequestTerminate(g) PROVE FALSE
    BY <2>0, <2>6 DEF RequestTerminate, TypeOK
  <2>7. ASSUME NEW g \in Suspendable, NEW type \in SuspendTypes, Resume(g, type)
        PROVE  request'[o] # {} /\ request'[o] # request[o] /\ request'[o] \subseteq request[o]
    <3>1. o = g /\ request[g] # {type} /\ type \in request[g] /\ request'[g] = request[g] \ {type}
      BY <2>0, <2>7 DEF Resume, TypeOK
    <3> QED
      BY <3>1
  <2> QED
    BY <2>2, <2>3, <2>4, <2>5, <2>6, <2>7 DEF Next, SchedulerStep
<1> QED
  BY <1>1, LinkInvariant, PTL DEF Spec, SuspendDefersToWaiters

=============================================================================
