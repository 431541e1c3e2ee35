--------------------------- MODULE TimedWaits_proofs ---------------------------
(***************************************************************************)
(* Proofs about the waits of guest threads that the hardware timer can     *)
(* end, for any number of threads, words, events and priorities, any       *)
(* timeouts and any horizon.                                               *)
(*                                                                         *)
(* The invariant is the agreement of what a thread waits on with every     *)
(* place its wait left something in: the tree of the address, the lists of *)
(* the objects, the timer, cancellable.  An action ends waits or begins    *)
(* one, and EndWaits and BeginsWait show that it does so in all of these   *)
(* places.  What every operation of the timer itself preserves comes       *)
(* first.                                                                  *)
(*                                                                         *)
(* TimerInv has five parts.  The tree holds one task for each thread that  *)
(* has a task time, ordered by time; m_next_task is its first; the wakeup  *)
(* time is no later than any task; while the timer is on, an event is      *)
(* scheduled for the wakeup time or earlier or the callback is about to    *)
(* look; and no more events are outstanding than the callback and the      *)
(* wakeup time account for.                                                *)
(***************************************************************************)
EXTENDS TimedWaits, ListLemmas, FiniteSetTheorems

-----------------------------------------------------------------------------
(* The hardware timer *)

Tasks == [time : 1..TimeMax, thread : Threads]

TimerTypeOK ==
    /\ now \in 0..Horizon
    /\ events \in [1..Horizon -> Nat]
    /\ firing \in BOOLEAN
    /\ taskTime \in [Threads -> 0..TimeMax]
    /\ wakeup \in 1..TimeMax

\* The threads that have a task.
Armed(time) == {t \in Threads : time[t] > 0}

ByTime == {p \in Tasks \X Tasks : p[1].time <= p[2].time}

\* The tree holds the tasks of the threads P, in order.
Files(queue, time, P) ==
    /\ queue \in Seq(Tasks)
    /\ Range(queue) = {Task(time[t], t) : t \in P}
    /\ InOrder(queue, ByTime)

WakesInTime == \A k \in Range(taskTree) : k.time < TimeMax => wakeup <= k.time

EventComes == wakeup < TimeMax => firing \/ \E i \in 1..wakeup : events[i] > 0

\* The events of the timer that core timing holds, one by one.
Pending(queue) == UNION {{i} \X (1..queue[i]) : i \in 1..Horizon}

EventsBounded ==
    /\ IsFiniteSet(Pending(events))
    /\ Cardinality(Pending(events)) <=
         (IF firing THEN 0 ELSE 1) + (IF wakeup = TimeMax THEN 0 ELSE 1)

TimerInv ==
    /\ TimerTypeOK
    /\ Files(taskTree, taskTime, Armed(taskTime))
    /\ nextTask = First(taskTree)
    /\ WakesInTime
    /\ EventComes
    /\ EventsBounded

-----------------------------------------------------------------------------
LEMMA TimeMaxType == TimeMax \in Nat /\ TimeMax > Horizon /\ TimeMax > 1 /\ Horizon \in Nat
BY TimerAssumption DEF TimeMax

\* The first task of a tree is in it, and is the earliest.
LEMMA FirstIsEarliest ==
    ASSUME NEW time, NEW P, NEW queue, Files(queue, time, P)
    PROVE  /\ queue = <<>> => First(queue) = NoTask /\ Range(queue) = {}
           /\ queue # <<>> => /\ First(queue) = Head(queue)
                              /\ First(queue) \in Tasks
                              /\ First(queue) \in Range(queue)
                              /\ \A k \in Range(queue) : First(queue).time <= k.time
<1>1. queue \in Seq(Tasks) /\ Len(queue) \in Nat /\ DOMAIN queue = 1..Len(queue)
  BY LenProperties DEF Files
<1>2. ASSUME queue = <<>> PROVE First(queue) = NoTask /\ Range(queue) = {}
  BY <1>2 DEF First, Range
<1>3. ASSUME queue # <<>>
      PROVE  /\ First(queue) = Head(queue) /\ First(queue) \in Tasks
             /\ First(queue) \in Range(queue)
             /\ \A k \in Range(queue) : First(queue).time <= k.time
  <2>1. Len(queue) # 0 /\ 1 \in DOMAIN queue /\ Head(queue) = queue[1]
    BY <1>1, <1>3, EmptySeq
  <2>2. First(queue) = queue[1] /\ queue[1] \in Tasks
    BY <1>1, <1>3, <2>1, ElementOfSeq DEF First
  <2>3. ASSUME NEW j \in DOMAIN queue PROVE queue[1].time <= queue[j].time
    <3>1. CASE j = 1
      BY <2>2, <3>1, TimeMaxType DEF Tasks
    <3>2. CASE j # 1
      <4>1. 1 < j
        BY <1>1, <3>2
      <4>2. <<queue[1], queue[j]>> \in ByTime
        BY <2>1, <4>1 DEF Files, InOrder
      <4> QED
        BY <4>2 DEF ByTime
    <3> QED
      BY <3>1, <3>2
  <2> QED
    BY <2>1, <2>2, <2>3 DEF Range, First
<1> QED
  BY <1>2, <1>3

LEMMA TreeHoldsTasks ==
    ASSUME NEW time, NEW P, NEW queue, Files(queue, time, P)
    PROVE  \A k \in Range(queue) : k \in Tasks
<1>1. queue \in Seq(Tasks) /\ DOMAIN queue = 1..Len(queue)
  BY LenProperties DEF Files
<1> QED
  BY <1>1, ElementOfSeq DEF Range

\* remove_task_from_tree, for the threads gone: their tasks leave the tree, the
\* others stay in order, and what NextAfter takes for the next task is the first.
LEMMA WithoutFiles ==
    ASSUME taskTime \in [Threads -> 0..TimeMax], NEW P \in SUBSET Threads,
           NEW gone \in SUBSET Threads, NEW queue, Files(queue, taskTime, P)
    PROVE  /\ Files(Without(queue, gone), taskTime, P \ gone)
           /\ NextAfter(Without(queue, gone), First(queue), gone) = First(Without(queue, gone))
<1> DEFINE S == {k \in Range(queue) : ~(k.thread \in gone /\ k.time = taskTime[k.thread])}
           left == Without(queue, gone)
<1>1. /\ left \in Seq(Tasks)
      /\ Range(left) = Range(queue) \cap S
      /\ InOrder(left, ByTime)
      /\ queue # <<>> /\ Head(queue) \in S => left # <<>> /\ Head(left) = Head(queue)
  BY KeptProperties DEF Without, Files
<1>2. \A t \in P : Task(taskTime[t], t).thread = t /\ Task(taskTime[t], t).time = taskTime[t]
  BY DEF Task
<1>3. Range(queue) \cap S = {Task(taskTime[t], t) : t \in P \ gone}
  BY <1>2 DEF Files
<1>4. Files(left, taskTime, P \ gone)
  BY <1>1, <1>3 DEF Files
<1>5. NextAfter(left, First(queue), gone) = First(left)
  <2>1. CASE queue = <<>>
    <3>1. Range(left) = {}
      BY <1>1, <2>1 DEF Range
    <3>2. left = <<>>
      BY <1>4, <3>1, FirstIsEarliest
    <3>3. NoTask.thread \notin gone
      BY TimerAssumption DEF NoTask, Task
    <3> QED
      BY <2>1, <3>2, <3>3 DEF NextAfter, First
  <2>2. CASE queue # <<>> /\ Head(queue).thread \in gone
    BY <2>2 DEF NextAfter, First
  <2>3. CASE queue # <<>> /\ Head(queue).thread \notin gone
    <3>1. Head(queue) \in S
      BY <2>3, FirstIsEarliest
    <3> QED
      BY <1>1, <2>3, <3>1 DEF NextAfter, First
  <2> QED
    BY <2>1, <2>2, <2>3
<1> QED
  BY <1>4, <1>5

\* The tree depends on the times of its own threads only.
LEMMA SameTimes ==
    ASSUME NEW queue, NEW P, NEW time, NEW other, \A t \in P : time[t] = other[t],
           Files(queue, time, P)
    PROVE  Files(queue, other, P)
BY DEF Files

\* What cancel_task_by_id leaves of the tree and of the next task.
LEMMA CancelFiles ==
    ASSUME TimerInv, NEW gone \in SUBSET Threads, CancelTasks(gone)
    PROVE  /\ taskTime' \in [Threads -> 0..TimeMax]
           /\ Armed(taskTime') = Armed(taskTime) \ gone
           /\ Files(taskTree', taskTime', Armed(taskTime'))
           /\ nextTask' = First(taskTree')
           /\ Range(taskTree') \subseteq Range(taskTree)
<1> DEFINE had == {t \in gone : taskTime[t] > 0}
           left == Without(taskTree, had)
<1>1. /\ taskTree' = left
      /\ nextTask' = NextAfter(left, nextTask, had)
      /\ taskTime' = [t \in Threads |-> IF t \in gone THEN 0 ELSE taskTime[t]]
  BY DEF CancelTasks
<1>2. taskTime \in [Threads -> 0..TimeMax] /\ TimeMax \in Nat
  BY TimeMaxType DEF TimerInv, TimerTypeOK
<1>3. taskTime' \in [Threads -> 0..TimeMax]
  BY <1>1, <1>2
<1>4. Armed(taskTime') = Armed(taskTime) \ gone /\ Armed(taskTime) \ had = Armed(taskTime) \ gone
  BY <1>1, <1>2 DEF Armed
<1>5. had \in SUBSET Threads /\ Armed(taskTime) \in SUBSET Threads
  BY DEF Armed
<1> HIDE DEF had, left
<1>6. /\ Files(Without(taskTree, had), taskTime, Armed(taskTime) \ had)
      /\ NextAfter(Without(taskTree, had), First(taskTree), had) = First(Without(taskTree, had))
  BY <1>2, <1>5, WithoutFiles DEF TimerInv
<1>7. \A t \in Armed(taskTime) \ had : taskTime[t] = taskTime'[t]
  BY <1>1, <1>4 DEF Armed
<1>8. Files(taskTree', taskTime', Armed(taskTime'))
  BY <1>1, <1>4, <1>6, <1>7, SameTimes DEF left
<1>9. Range(taskTree') \subseteq Range(taskTree)
  <2>1. Range(taskTree') = {Task(taskTime[t], t) : t \in Armed(taskTime) \ had}
    BY <1>1, <1>6 DEF Files, left
  <2>2. Range(taskTree) = {Task(taskTime[t], t) : t \in Armed(taskTime)}
    BY DEF TimerInv, Files
  <2> QED
    BY <2>1, <2>2
<1> QED
  BY <1>1, <1>3, <1>4, <1>6, <1>8, <1>9 DEF TimerInv, left

\* What register_absolute_task_by_id leaves: the task of t replaces one it had.
LEMMA RegisterFiles ==
    ASSUME TimerInv, NEW t \in Threads, NEW time \in 1..TimeMax,
           RegisterAbsoluteTask(t, time)
    PROVE  /\ taskTime' = [taskTime EXCEPT ![t] = time]
           /\ taskTime' \in [Threads -> 0..TimeMax]
           /\ Files(taskTree', taskTime', Armed(taskTime'))
           /\ nextTask' = First(taskTree')
           /\ Range(taskTree') \subseteq Range(taskTree) \cup {Task(time, t)}
<1> DEFINE old == Without(taskTree, {t})
           next == NextAfter(old, nextTask, {t})
           isFirst == next = NoTask \/ next.time > time
           S == {k \in Range(old) : k.time <= time}
           x == Task(time, t)
<1>1. /\ taskTime' = [taskTime EXCEPT ![t] = time]
      /\ taskTree' = PutAfter(old, S, x)
      /\ nextTask' = IF isFirst THEN x ELSE next
  BY DEF RegisterAbsoluteTask
<1>2. taskTime \in [Threads -> 0..TimeMax] /\ TimeMax \in Nat
  BY TimeMaxType DEF TimerInv, TimerTypeOK
<1>3. taskTime' \in [Threads -> 0..TimeMax]
  BY <1>1, <1>2
<1>4. Armed(taskTime') = (Armed(taskTime) \ {t}) \cup {t}
  BY <1>1, <1>2 DEF Armed
<1>5. {t} \in SUBSET Threads /\ Armed(taskTime) \in SUBSET Threads
  BY DEF Armed
<1>6. /\ Files(old, taskTime, Armed(taskTime) \ {t})
      /\ next = First(old)
  <2> HIDE DEF old, next
  <2> QED
    BY <1>2, <1>5, WithoutFiles DEF TimerInv, old, next
<1>7. x \in Tasks /\ x.time = time /\ x.thread = t
  BY DEF Task, Tasks
<1>8. old \in Seq(Tasks)
  BY <1>6 DEF Files
<1>9. \A k \in Range(old) : k \in Tasks /\ k.time \in Nat
  <2>1. Len(old) \in Nat /\ DOMAIN old = 1..Len(old)
    BY <1>8, LenProperties
  <2>2. \A k \in Range(old) : k \in Tasks
    BY <1>8, <2>1, ElementOfSeq DEF Range
  <2> QED
    BY <2>2, TimeMaxType DEF Tasks
<1> HIDE DEF old, next, x
<1>10. /\ taskTree' \in Seq(Tasks)
       /\ Range(taskTree') = Range(old) \cup {x}
       /\ taskTree' # <<>>
       /\ old # <<>> /\ Head(old) \in S => Head(taskTree') = Head(old)
       /\ Range(old) \cap S = {} => Head(taskTree') = x
  BY <1>1, <1>7, <1>8, PutAfterProperties
<1>11. InOrder(taskTree', ByTime)
  <2>1. \A v \in Range(old) \cap S : <<v, x>> \in ByTime
    BY <1>7, <1>9 DEF ByTime
  <2>2. \A w \in Range(old) \ S : <<x, w>> \in ByTime
    BY <1>7, <1>9 DEF ByTime
  <2>3. \A v \in Range(old) \cap S, w \in Range(old) \ S : <<v, w>> \in ByTime
    BY <1>9 DEF ByTime
  <2>4. InOrder(old, ByTime)
    BY <1>6 DEF Files
  <2> HIDE DEF S
  <2> QED
    BY <1>1, <1>7, <1>8, <2>1, <2>2, <2>3, <2>4, PutAfterProperties
<1>12. Range(taskTree') = {Task(taskTime'[u], u) : u \in Armed(taskTime')}
  <2>1. Range(old) = {Task(taskTime[u], u) : u \in Armed(taskTime) \ {t}}
    BY <1>6 DEF Files
  <2>2. \A u \in Armed(taskTime) \ {t} : taskTime'[u] = taskTime[u]
    BY <1>1, <1>2 DEF Armed
  <2>3. taskTime'[t] = time
    BY <1>1, <1>2
  <2> QED
    BY <1>4, <1>10, <2>1, <2>2, <2>3 DEF x
<1>13. Files(taskTree', taskTime', Armed(taskTime'))
  BY <1>10, <1>11, <1>12 DEF Files
<1>14. nextTask' = First(taskTree')
  <2>1. First(taskTree') = Head(taskTree')
    BY <1>10 DEF First
  <2>2. CASE isFirst
    <3>1. Range(old) \cap S = {}
      <4>1. CASE old = <<>>
        BY <1>6, <4>1, FirstIsEarliest
      <4>2. CASE old # <<>>
        <5>1. next \in Tasks /\ \A k \in Range(old) : next.time <= k.time
          BY <1>6, <4>2, FirstIsEarliest
        <5>2. next # NoTask
          BY <5>1, TimerAssumption DEF NoTask, Task, Tasks
        <5>3. next.time > time /\ next.time \in Nat
          BY <2>2, <5>1, <5>2, TimeMaxType DEF Tasks
        <5>4. \A k \in Range(old) : ~(k.time <= time)
          BY <1>9, <5>1, <5>3
        <5> QED
          BY <5>4
      <4> QED
        BY <4>1, <4>2
    <3> QED
      BY <1>1, <1>10, <2>1, <2>2, <3>1
  <2>3. CASE ~isFirst
    <3>1. old # <<>>
      BY <1>6, <2>3, FirstIsEarliest
    <3>2. next = Head(old) /\ next \in Range(old) /\ next \in Tasks
      BY <1>6, <3>1, FirstIsEarliest
    <3>3. next \in S
      BY <1>9, <2>3, <3>2
    <3> QED
      BY <1>1, <1>10, <2>1, <2>3, <3>1, <3>2, <3>3
  <2> QED
    BY <2>2, <2>3
<1>15. Range(taskTree') \subseteq Range(taskTree) \cup {x}
  <2>1. Range(old) = {Task(taskTime[u], u) : u \in Armed(taskTime) \ {t}}
    BY <1>6 DEF Files
  <2>2. Range(taskTree) = {Task(taskTime[u], u) : u \in Armed(taskTime)}
    BY DEF TimerInv, Files
  <2> QED
    BY <1>10, <2>1, <2>2
<1> QED
  BY <1>1, <1>3, <1>13, <1>14, <1>15 DEF x

-----------------------------------------------------------------------------
LEMMA PendingMembers ==
    ASSUME NEW queue \in [1..Horizon -> Nat]
    PROVE  /\ \A i, n : <<i, n>> \in Pending(queue) <=> i \in 1..Horizon /\ n \in 1..queue[i]
           /\ \A p \in Pending(queue) : p = <<p[1], p[2]>>
BY DEF Pending

\* One more event at time i is one more pending event, one fewer is one fewer.
LEMMA PendingAdded ==
    ASSUME NEW queue \in [1..Horizon -> Nat], NEW i \in 1..Horizon
    PROVE  LET new == [queue EXCEPT ![i] = @ + 1]
           IN /\ new \in [1..Horizon -> Nat]
              /\ <<i, queue[i] + 1>> \notin Pending(queue)
              /\ Pending(new) = Pending(queue) \cup {<<i, queue[i] + 1>>}
<1> DEFINE new == [queue EXCEPT ![i] = @ + 1]
<1>1. queue[i] \in Nat /\ Horizon \in Nat
  BY TimeMaxType
<1>2. new \in [1..Horizon -> Nat] /\ new[i] = queue[i] + 1
  BY <1>1
<1>3. \A j \in 1..Horizon : j # i => new[j] = queue[j]
  OBVIOUS
<1> HIDE DEF new
<1>4. \A n : n \in 1..(queue[i] + 1) <=> n \in 1..queue[i] \/ n = queue[i] + 1
  BY <1>1
<1>5. <<i, queue[i] + 1>> \notin Pending(queue)
  BY <1>1, PendingMembers
<1>6. \A p : p \in Pending(new) <=> p \in Pending(queue) \/ p = <<i, queue[i] + 1>>
  <2>1. ASSUME NEW j, NEW n
        PROVE  <<j, n>> \in Pending(new) <=>
                 <<j, n>> \in Pending(queue) \/ (j = i /\ n = queue[i] + 1)
    <3>1. CASE j = i
      BY <1>2, <1>4, <3>1, PendingMembers
    <3>2. CASE j # i
      BY <1>2, <1>3, <3>2, PendingMembers
    <3> QED
      BY <3>1, <3>2
  <2>2. \A p \in Pending(new) \cup Pending(queue) : p = <<p[1], p[2]>>
    BY <1>2, PendingMembers
  <2> QED
    BY <2>1, <2>2
<1>7. Pending(new) = Pending(queue) \cup {<<i, queue[i] + 1>>}
  BY <1>6
<1> QED
  BY <1>2, <1>5, <1>7 DEF new

LEMMA PendingRemoved ==
    ASSUME NEW queue \in [1..Horizon -> Nat], NEW i \in 1..Horizon, queue[i] > 0
    PROVE  LET new == [queue EXCEPT ![i] = @ - 1]
           IN /\ new \in [1..Horizon -> Nat]
              /\ <<i, queue[i]>> \in Pending(queue)
              /\ Pending(new) = Pending(queue) \ {<<i, queue[i]>>}
<1> DEFINE new == [queue EXCEPT ![i] = @ - 1]
<1>1. queue[i] \in Nat /\ Horizon \in Nat
  BY TimeMaxType
<1>2. new[i] = queue[i] - 1 /\ new[i] \in Nat
  BY <1>1
<1>3. \A j \in 1..Horizon : j # i => new[j] = queue[j]
  OBVIOUS
<1>4. new \in [1..Horizon -> Nat]
  BY <1>1
<1> HIDE DEF new
<1>5. <<i, queue[i]>> \in Pending(queue)
  BY <1>1, PendingMembers
<1>6. new[i] + 1 = queue[i] /\ new = [new EXCEPT ![i] = new[i]]
  BY <1>1, <1>2, <1>4
<1>7. \A n : n \in 1..queue[i] <=> n \in 1..new[i] \/ n = queue[i]
  BY <1>1, <1>2
<1>8. queue[i] \notin 1..new[i]
  BY <1>1, <1>2
<1>9. \A p : p \in Pending(new) <=> p \in Pending(queue) /\ p # <<i, queue[i]>>
  <2>1. ASSUME NEW j, NEW n
        PROVE  <<j, n>> \in Pending(new) <=>
                 <<j, n>> \in Pending(queue) /\ ~(j = i /\ n = queue[i])
    <3>1. CASE j = i
      BY <1>4, <1>7, <1>8, <3>1, PendingMembers
    <3>2. CASE j # i
      BY <1>3, <1>4, <3>2, PendingMembers
    <3> QED
      BY <3>1, <3>2
  <2>2. \A p \in Pending(new) \cup Pending(queue) : p = <<p[1], p[2]>>
    BY <1>4, PendingMembers
  <2> QED
    BY <2>1, <2>2
<1>10. Pending(new) = Pending(queue) \ {<<i, queue[i]>>}
  BY <1>9
<1> QED
  BY <1>4, <1>5, <1>10 DEF new

LEMMA ThreeElements ==
    ASSUME NEW a, NEW b, NEW c, a # b, a # c, b # c
    PROVE  Cardinality({a, b, c}) = 3
<1>1. IsFiniteSet({a}) /\ Cardinality({a}) = 1
  BY FS_Singleton
<1>2. IsFiniteSet({a} \cup {b}) /\ Cardinality({a} \cup {b}) = 1 + 1
  BY <1>1, FS_AddElement
<1>3. c \notin {a} \cup {b}
  OBVIOUS
<1> DEFINE ab == {a} \cup {b}
<1>4. IsFiniteSet(ab) /\ Cardinality(ab) = 2 /\ c \notin ab
  BY <1>2, <1>3
<1> HIDE DEF ab
<1>5. Cardinality(ab \cup {c}) = 2 + 1
  BY <1>4, FS_AddElement
<1>6. {a, b, c} = ab \cup {c}
  BY DEF ab
<1> QED
  BY <1>5, <1>6

\* No more than two events of the same time.
LEMMA PendingAtMost ==
    ASSUME NEW queue \in [1..Horizon -> Nat], NEW i \in 1..Horizon,
           IsFiniteSet(Pending(queue)), Cardinality(Pending(queue)) <= 2
    PROVE  queue[i] \in 0..2
<1>1. queue[i] \in Nat
  OBVIOUS
<1> SUFFICES ASSUME queue[i] > 2 PROVE FALSE
  <2>1. queue[i] > 2 \/ queue[i] \in 0..2
    BY <1>1
  <2> QED
    BY <2>1
<1> DEFINE three == {<<i, 1>>, <<i, 2>>, <<i, 3>>}
<1>2. three \subseteq Pending(queue)
  <2>1. 1 \in 1..queue[i] /\ 2 \in 1..queue[i] /\ 3 \in 1..queue[i]
    BY <1>1
  <2>2. <<i, 1>> \in Pending(queue) /\ <<i, 2>> \in Pending(queue) /\ <<i, 3>> \in Pending(queue)
    BY <2>1, PendingMembers
  <2> QED
    BY <2>2
<1>3. Cardinality(three) = 3
  <2>1. <<i, 1>> # <<i, 2>> /\ <<i, 1>> # <<i, 3>> /\ <<i, 2>> # <<i, 3>>
    OBVIOUS
  <2> QED
    BY <2>1, ThreeElements
<1>4. Cardinality(three) <= Cardinality(Pending(queue))
  BY <1>2, FS_Subset
<1>5. Cardinality(Pending(queue)) \in Nat
  BY FS_CardinalityType
<1> QED
  BY <1>3, <1>4, <1>5

\* schedule_event adds one event, at a time the clock can reach, or none.
LEMMA Schedules ==
    ASSUME NEW queue \in [1..Horizon -> Nat], IsFiniteSet(Pending(queue)), NEW time \in 1..TimeMax
    PROVE  LET new == ScheduleEvent(queue, time)
               size == Cardinality(Pending(queue))
           IN /\ new \in [1..Horizon -> Nat]
              /\ IsFiniteSet(Pending(new))
              /\ time = TimeMax => new = queue
              /\ time < TimeMax => new[time] > 0
              /\ size \in Nat
              /\ Cardinality(Pending(new)) = IF time = TimeMax THEN size ELSE size + 1
<1>1. time \in Nat /\ (time > Horizon <=> time = TimeMax) /\ (time # TimeMax <=> time < TimeMax)
  BY TimerAssumption DEF TimeMax
<1>2. Cardinality(Pending(queue)) \in Nat
  BY FS_CardinalityType
<1>3. CASE time = TimeMax
  BY <1>1, <1>2, <1>3 DEF ScheduleEvent
<1>4. CASE time # TimeMax
  <2>1. time \in 1..Horizon /\ queue[time] \in Nat
    BY <1>1, <1>4, TimeMaxType
  <2> DEFINE new == [queue EXCEPT ![time] = @ + 1]
  <2>2. ScheduleEvent(queue, time) = new
    BY <1>1, <1>4 DEF ScheduleEvent
  <2>3. new[time] > 0
    BY <2>1
  <2>4. /\ new \in [1..Horizon -> Nat]
        /\ <<time, queue[time] + 1>> \notin Pending(queue)
        /\ Pending(new) = Pending(queue) \cup {<<time, queue[time] + 1>>}
    BY <2>1, PendingAdded
  <2>5. IsFiniteSet(Pending(new)) /\ Cardinality(Pending(new)) = Cardinality(Pending(queue)) + 1
    <3> HIDE DEF new
    <3>1. /\ IsFiniteSet(Pending(queue) \cup {<<time, queue[time] + 1>>})
          /\ Cardinality(Pending(queue) \cup {<<time, queue[time] + 1>>}) =
               Cardinality(Pending(queue)) + 1
      BY <2>4, FS_AddElement
    <3> QED
      BY <2>4, <3>1
  <2> HIDE DEF new
  <2> QED
    BY <1>1, <1>2, <1>4, <2>2, <2>3, <2>4, <2>5
<1> QED
  BY <1>3, <1>4

\* unschedule_event leaves none.
LEMMA Unscheduled ==
    /\ UnscheduleEvent \in [1..Horizon -> Nat]
    /\ IsFiniteSet(Pending(UnscheduleEvent))
    /\ Cardinality(Pending(UnscheduleEvent)) = 0
<1>1. UnscheduleEvent \in [1..Horizon -> Nat] /\ \A i \in 1..Horizon : UnscheduleEvent[i] = 0
  BY DEF UnscheduleEvent
<1>2. Pending(UnscheduleEvent) = {}
  <2> SUFFICES ASSUME NEW p \in Pending(UnscheduleEvent) PROVE FALSE
    OBVIOUS
  <2>1. PICK i, n : i \in 1..Horizon /\ n \in 1..UnscheduleEvent[i]
    <3>1. p = <<p[1], p[2]>>
      BY <1>1, PendingMembers
    <3>2. \A i, n : <<i, n>> \in Pending(UnscheduleEvent) =>
                      i \in 1..Horizon /\ n \in 1..UnscheduleEvent[i]
      BY <1>1, PendingMembers
    <3> QED
      BY <3>1, <3>2
  <2>2. n \in 1..0
    BY <1>1, <2>1
  <2> QED
    BY <2>2
<1> QED
  BY <1>1, <1>2, FS_EmptySet

-----------------------------------------------------------------------------
LEMMA InitTimer == TimerInit => TimerInv
<1> SUFFICES ASSUME TimerInit PROVE TimerInv
  OBVIOUS
<1>1. TimerTypeOK
  <2>1. 0 \in 0..Horizon /\ 0 \in 0..TimeMax /\ TimeMax \in 1..TimeMax
    BY TimeMaxType
  <2>2. events \in [1..Horizon -> Nat] /\ taskTime \in [Threads -> 0..TimeMax]
    BY <2>1 DEF TimerInit
  <2> QED
    BY <2>1, <2>2 DEF TimerInit, TimerTypeOK
<1>2. Armed(taskTime) = {} /\ Range(taskTree) = {} /\ taskTree \in Seq(Tasks)
  BY TimeMaxType DEF TimerInit, Armed, Range
<1>3. Files(taskTree, taskTime, Armed(taskTime))
  BY <1>2 DEF TimerInit, Files, InOrder
<1>4. nextTask = First(taskTree)
  BY DEF TimerInit, First
<1>5. WakesInTime /\ EventComes
  BY <1>2, TimeMaxType DEF TimerInit, WakesInTime, EventComes
<1>6. EventsBounded
  BY Unscheduled, TimeMaxType DEF TimerInit, EventsBounded, UnscheduleEvent
<1> QED
  BY <1>1, <1>3, <1>4, <1>5, <1>6 DEF TimerInv

LEMMA StutterTimer == TimerInv /\ UNCHANGED timerVars => TimerInv'
BY DEF TimerInv, TimerTypeOK, WakesInTime, EventComes, EventsBounded, timerVars

LEMMA TickTimer == TimerInv /\ Tick => TimerInv'
<1> SUFFICES ASSUME TimerInv, Tick PROVE TimerInv'
  OBVIOUS
<1>1. now' \in 0..Horizon
  BY TimeMaxType DEF TimerInv, TimerTypeOK, Tick
<1> QED
  BY <1>1 DEF TimerInv, TimerTypeOK, WakesInTime, EventComes, EventsBounded, Tick

\* The event that is taken off the queue becomes the callback.
LEMMA AdvanceTimer == TimerInv /\ Advance => TimerInv'
<1> SUFFICES ASSUME TimerInv, Advance PROVE TimerInv'
  OBVIOUS
<1>1. PICK i \in 1..now : events[i] > 0 /\ events' = [events EXCEPT ![i] = @ - 1]
  BY DEF Advance
<1>2. /\ ~firing /\ firing' = TRUE
      /\ UNCHANGED <<now, taskTree, nextTask, taskTime, wakeup>>
  BY DEF Advance
<1>3. i \in 1..Horizon /\ events \in [1..Horizon -> Nat]
  BY TimeMaxType DEF TimerInv, TimerTypeOK
<1>4. /\ events' \in [1..Horizon -> Nat]
      /\ <<i, events[i]>> \in Pending(events)
      /\ Pending(events') = Pending(events) \ {<<i, events[i]>>}
  BY <1>1, <1>3, PendingRemoved
<1>5. TimerTypeOK'
  BY <1>2, <1>4 DEF TimerInv, TimerTypeOK
<1>6. IsFiniteSet(Pending(events)) /\ Cardinality(Pending(events)) \in Nat
  BY FS_CardinalityType DEF TimerInv, EventsBounded
<1>7. /\ IsFiniteSet(Pending(events'))
      /\ Cardinality(Pending(events')) = Cardinality(Pending(events)) - 1
  BY <1>4, <1>6, FS_RemoveElement
<1>8. EventsBounded'
  BY <1>2, <1>6, <1>7 DEF TimerInv, EventsBounded
<1> QED
  BY <1>2, <1>5, <1>8 DEF TimerInv, WakesInTime, EventComes

LEMMA CancelTimer ==
    ASSUME TimerInv, NEW gone \in SUBSET Threads, CancelTasks(gone),
           UNCHANGED <<now, events, firing, wakeup>>
    PROVE  TimerInv'
<1>1. /\ taskTime' \in [Threads -> 0..TimeMax]
      /\ Files(taskTree', taskTime', Armed(taskTime'))
      /\ nextTask' = First(taskTree')
      /\ Range(taskTree') \subseteq Range(taskTree)
  BY CancelFiles
<1>2. WakesInTime'
  BY <1>1 DEF TimerInv, WakesInTime
<1> QED
  BY <1>1, <1>2 DEF TimerInv, TimerTypeOK, EventComes, EventsBounded

\* A task that is later than the next one schedules nothing: the wakeup time is
\* early enough for it.
LEMMA RegisterTimer ==
    ASSUME TimerInv, NEW t \in Threads, NEW time \in 1..TimeMax,
           RegisterAbsoluteTask(t, time)
    PROVE  TimerInv'
<1> DEFINE old == Without(taskTree, {t})
           next == NextAfter(old, nextTask, {t})
           isFirst == next = NoTask \/ next.time > time
<1>1. /\ taskTime' \in [Threads -> 0..TimeMax]
      /\ Files(taskTree', taskTime', Armed(taskTime'))
      /\ nextTask' = First(taskTree')
      /\ Range(taskTree') \subseteq Range(taskTree) \cup {Task(time, t)}
  BY RegisterFiles
<1>2. /\ IF Arms(time, isFirst) THEN EnableInterrupt(time) ELSE UNCHANGED <<wakeup, events>>
      /\ UNCHANGED <<now, firing>>
  BY DEF RegisterAbsoluteTask
<1>3. /\ Files(old, taskTime, Armed(taskTime) \ {t})
      /\ next = First(old)
  <2>1. {t} \in SUBSET Threads /\ Armed(taskTime) \in SUBSET Threads
    BY DEF Armed
  <2> HIDE DEF old, next
  <2> QED
    BY <2>1, WithoutFiles DEF TimerInv, TimerTypeOK, old, next
<1> HIDE DEF old, next
<1>4. /\ wakeup \in 1..TimeMax /\ events \in [1..Horizon -> Nat] /\ TimeMax \in Nat
      /\ firing \in BOOLEAN /\ Horizon \in Nat
  BY TimeMaxType DEF TimerInv, TimerTypeOK
<1>5. Task(time, t).time = time
  BY DEF Task
<1>6. CASE Arms(time, isFirst)
  <2> DEFINE before == IF wakeup = TimeMax THEN events ELSE UnscheduleEvent
  <2>1. wakeup' = time /\ events' = ScheduleEvent(before, time) /\ firing' = firing /\ now' = now
    BY <1>2, <1>6 DEF EnableInterrupt
  <2>2. /\ before \in [1..Horizon -> Nat]
        /\ IsFiniteSet(Pending(before))
        /\ Cardinality(Pending(before)) <= IF firing THEN 0 ELSE 1
    <3>1. CASE wakeup = TimeMax
      BY <1>4, <3>1 DEF TimerInv, EventsBounded
    <3>2. CASE wakeup # TimeMax
      BY <1>4, <3>2, Unscheduled
    <3> QED
      BY <3>1, <3>2
  <2> HIDE DEF before
  <2>3. /\ events' \in [1..Horizon -> Nat]
        /\ IsFiniteSet(Pending(events'))
        /\ time < TimeMax => events'[time] > 0
        /\ Cardinality(Pending(before)) \in Nat
        /\ Cardinality(Pending(events')) =
             IF time = TimeMax THEN Cardinality(Pending(before))
             ELSE Cardinality(Pending(before)) + 1
    BY <2>1, <2>2, Schedules
  <2>4. TimerTypeOK'
    BY <1>1, <1>4, <2>1, <2>3 DEF TimerInv, TimerTypeOK
  <2>5. WakesInTime'
    <3> SUFFICES ASSUME NEW k \in Range(taskTree'), k.time < TimeMax
                 PROVE  time <= k.time
      BY <2>1 DEF WakesInTime
    <3>1. CASE k = Task(time, t)
      BY <1>4, <1>5, <3>1
    <3>2. CASE k \in Range(taskTree)
      <4>1. wakeup <= k.time /\ k.time \in Nat
        <5>1. k \in Tasks
          BY <3>2, TreeHoldsTasks DEF TimerInv
        <5> QED
          BY <3>2, <5>1 DEF TimerInv, WakesInTime, Tasks
      <4>2. time <= wakeup
        BY <1>6 DEF Arms
      <4> QED
        BY <1>4, <4>1, <4>2
    <3> QED
      BY <1>1, <3>1, <3>2
  <2>6. EventComes'
    BY <1>4, <2>1, <2>3 DEF EventComes
  <2>7. EventsBounded'
    BY <1>4, <2>1, <2>2, <2>3 DEF EventsBounded
  <2> QED
    BY <1>1, <2>4, <2>5, <2>6, <2>7 DEF TimerInv
<1>7. CASE ~Arms(time, isFirst)
  <2>1. UNCHANGED <<wakeup, events, now, firing>>
    BY <1>2, <1>7
  <2>2. WakesInTime'
    <3> SUFFICES ASSUME NEW k \in Range(taskTree'), k.time < TimeMax
                 PROVE  wakeup <= k.time
      BY <2>1 DEF WakesInTime
    <3>1. CASE k \in Range(taskTree)
      BY <3>1 DEF TimerInv, WakesInTime
    <3>2. CASE k = Task(time, t)
      <4>1. CASE isFirst
        BY <1>4, <1>5, <1>7, <3>2, <4>1 DEF Arms
      <4>2. CASE ~isFirst
        <5>1. next \in Tasks /\ next \in Range(old) /\ next.time <= time
          <6>1. next # NoTask /\ ~(next.time > time)
            BY <4>2
          <6>2. old # <<>>
            BY <1>3, <6>1, FirstIsEarliest
          <6>3. next \in Tasks /\ next \in Range(old)
            BY <1>3, <6>2, FirstIsEarliest
          <6> QED
            BY <1>4, <6>1, <6>3 DEF Tasks
        <5>2. next \in Range(taskTree)
          <6>1. Range(old) = {Task(taskTime[u], u) : u \in Armed(taskTime) \ {t}}
            BY <1>3 DEF Files
          <6>2. Range(taskTree) = {Task(taskTime[u], u) : u \in Armed(taskTime)}
            BY DEF TimerInv, Files
          <6> QED
            BY <5>1, <6>1, <6>2
        <5>3. next.time \in Nat
          BY <1>4, <5>1 DEF Tasks
        <5>4. next.time < TimeMax
          BY <1>4, <1>5, <3>2, <5>1, <5>3
        <5>5. wakeup <= next.time
          BY <5>2, <5>4 DEF TimerInv, WakesInTime
        <5> QED
          BY <1>4, <1>5, <3>2, <5>1, <5>3, <5>5
      <4> QED
        BY <4>1, <4>2
    <3> QED
      BY <1>1, <3>1, <3>2
  <2> QED
    BY <1>1, <2>1, <2>2 DEF TimerInv, TimerTypeOK, EventComes, EventsBounded
<1> QED
  BY <1>6, <1>7

-----------------------------------------------------------------------------
\* F is the function that DoInterruptTaskImpl defines by recursion, up to n.
IsLoop(n, F) ==
    F = [i \in 0..n |-> IF i = 0 THEN {} ELSE F[i - 1] \cup DueAfter(F[i - 1])]

\* The loop of do_interrupt_task_impl has a result after every number of turns.
LEMMA LoopUnfolds ==
    ASSUME Len(taskTree) \in Nat
    PROVE  \E F : IsLoop(Len(taskTree), F) /\ DoInterruptTaskImpl = F[Len(taskTree)]
<1> DEFINE N == Len(taskTree)
           T == {n \in 0..N : \E F : IsLoop(n, F)}
<1>1. 0 \in T
  <2> DEFINE F == [i \in 0..0 |-> {}]
  <2>1. IsLoop(0, F)
    BY DEF IsLoop
  <2> QED
    BY <2>1
<1>2. ASSUME NEW n \in 0..(N - 1), n \in T PROVE n + 1 \in T
  <2>1. PICK G : IsLoop(n, G)
    BY <1>2
  <2> DEFINE last == G[n] \cup DueAfter(G[n])
             F == [i \in 0..(n + 1) |-> IF i = n + 1 THEN last ELSE G[i]]
  <2>2. \A i \in 0..n : F[i] = G[i]
    OBVIOUS
  <2>3. F[n + 1] = last
    OBVIOUS
  <2>4. F = [i \in 0..(n + 1) |-> F[i]]
    OBVIOUS
  <2>5. F[n] = G[n]
    BY <2>2
  <2> HIDE DEF F
  <2>6. ASSUME NEW i \in 0..(n + 1)
        PROVE  F[i] = IF i = 0 THEN {} ELSE F[i - 1] \cup DueAfter(F[i - 1])
    <3>1. CASE i = n + 1
      <4>1. i # 0 /\ i - 1 = n
        BY <3>1
      <4> QED
        BY <2>3, <2>5, <3>1, <4>1
    <3>2. CASE i \in 0..n
      <4>1. G[i] = IF i = 0 THEN {} ELSE G[i - 1] \cup DueAfter(G[i - 1])
        BY <2>1, <3>2 DEF IsLoop
      <4>2. CASE i = 0
        BY <2>2, <3>2, <4>1, <4>2
      <4>3. CASE i # 0
        <5>1. F[i - 1] = G[i - 1]
          BY <2>2, <3>2, <4>3
        <5> QED
          BY <2>2, <3>2, <4>1, <4>3, <5>1
      <4> QED
        BY <4>2, <4>3
    <3> QED
      BY <3>1, <3>2
  <2>7. F = [i \in 0..(n + 1) |-> IF i = 0 THEN {} ELSE F[i - 1] \cup DueAfter(F[i - 1])]
    BY <2>4, <2>6
  <2>8. IsLoop(n + 1, F)
    BY <2>7 DEF IsLoop
  <2> QED
    BY <2>8
<1> HIDE DEF T
<1>3. N \in T
  <2>1. \A n \in 0..(N - 1) : n \in T => n + 1 \in T
    BY <1>2
  <2>2. 0..N \subseteq T
    BY <1>1, <2>1, UpTo
  <2> QED
    BY <2>2
<1> DEFINE F == CHOOSE F : IsLoop(N, F)
<1>4. IsLoop(N, F)
  BY <1>3 DEF T
<1>5. DoInterruptTaskImpl = F[N]
  BY DEF DoInterruptTaskImpl, IsLoop
<1> QED
  BY <1>4, <1>5

\* The callback fires tasks that are due, and the task it finds next is the first
\* of those it leaves.
LEMMA LoopFires ==
    ASSUME TimerInv
    PROVE  /\ DoInterruptTaskImpl \in SUBSET Armed(taskTime)
           /\ \A t \in DoInterruptTaskImpl : taskTime[t] <= now
           /\ NextWithout(DoInterruptTaskImpl) = First(Without(taskTree, DoInterruptTaskImpl))
<1> DEFINE Due == {t \in Armed(taskTime) : taskTime[t] <= now}
<1>1. Len(taskTree) \in Nat
  BY LenProperties DEF TimerInv, Files
<1>2. \A fired \in SUBSET Due :
        /\ NextWithout(fired) = First(Without(taskTree, fired))
        /\ Files(Without(taskTree, fired), taskTime, Armed(taskTime) \ fired)
  <2> SUFFICES ASSUME NEW fired \in SUBSET Due
               PROVE  /\ NextWithout(fired) = First(Without(taskTree, fired))
                      /\ Files(Without(taskTree, fired), taskTime, Armed(taskTime) \ fired)
    OBVIOUS
  <2>1. fired \in SUBSET Threads /\ Armed(taskTime) \in SUBSET Threads
    BY DEF Armed
  <2>2. /\ Files(Without(taskTree, fired), taskTime, Armed(taskTime) \ fired)
        /\ NextAfter(Without(taskTree, fired), First(taskTree), fired)
             = First(Without(taskTree, fired))
    BY <2>1, WithoutFiles DEF TimerInv, TimerTypeOK
  <2>3. fired = {} => NextAfter(Without(taskTree, fired), First(taskTree), fired) = First(taskTree)
    BY DEF NextAfter
  <2> QED
    BY <2>2, <2>3 DEF NextWithout, TimerInv
<1>3. \A fired \in SUBSET Due : fired \cup DueAfter(fired) \in SUBSET Due
  <2> SUFFICES ASSUME NEW fired \in SUBSET Due, NEW t \in DueAfter(fired)
               PROVE  t \in Due
    OBVIOUS
  <2> DEFINE next == NextWithout(fired)
             left == Without(taskTree, fired)
  <2>1. next # NoTask /\ next.time <= now /\ t = next.thread
    BY DEF DueAfter
  <2>2. next = First(left) /\ Files(left, taskTime, Armed(taskTime) \ fired)
    BY <1>2
  <2> HIDE DEF next, left
  <2>3. next \in Range(left)
    BY <2>1, <2>2, FirstIsEarliest
  <2>4. PICK u \in Armed(taskTime) \ fired : next = Task(taskTime[u], u)
    BY <2>2, <2>3 DEF Files
  <2> QED
    BY <2>1, <2>4 DEF Task
<1>4. PICK F : IsLoop(Len(taskTree), F) /\ DoInterruptTaskImpl = F[Len(taskTree)]
  BY <1>1, LoopUnfolds
<1>5. \A i \in 0..Len(taskTree) :
        F[i] = IF i = 0 THEN {} ELSE F[i - 1] \cup DueAfter(F[i - 1])
  BY <1>4 DEF IsLoop
<1> DEFINE T == {n \in 0..Len(taskTree) : F[n] \in SUBSET Due}
<1> HIDE DEF Due
<1>6. 0 \in T
  <2>1. 0 \in 0..Len(taskTree)
    BY <1>1
  <2>2. F[0] = {}
    BY <1>5, <2>1
  <2> QED
    BY <2>1, <2>2
<1>7. ASSUME NEW n \in 0..(Len(taskTree) - 1), n \in T PROVE n + 1 \in T
  <2>1. n + 1 \in 0..Len(taskTree) /\ n + 1 # 0 /\ (n + 1) - 1 = n
    BY <1>1
  <2>2. F[n + 1] = F[n] \cup DueAfter(F[n])
    BY <1>5, <2>1
  <2> QED
    BY <1>3, <1>7, <2>1, <2>2
<1>8. Len(taskTree) \in T
  <2> HIDE DEF T
  <2>1. \A n \in 0..(Len(taskTree) - 1) : n \in T => n + 1 \in T
    BY <1>7
  <2>2. 0..Len(taskTree) \subseteq T
    BY <1>1, <1>6, <2>1, UpTo
  <2> QED
    BY <1>1, <2>2
<1>9. DoInterruptTaskImpl \in SUBSET Due
  BY <1>4, <1>8
<1> QED
  <2>1. DoInterruptTaskImpl \in SUBSET Armed(taskTime) /\ \A t \in DoInterruptTaskImpl : taskTime[t] <= now
    BY <1>9 DEF Due
  <2>2. NextWithout(DoInterruptTaskImpl) = First(Without(taskTree, DoInterruptTaskImpl))
    BY <1>2, <1>9
  <2> QED
    BY <2>1, <2>2

\* The threads that do_task takes off the tree lose their task times.
LEMMA ExpireFiles ==
    ASSUME TimerInv, NEW fired, fired = DoInterruptTaskImpl, TimerExpires(fired)
    PROVE  /\ fired \in SUBSET Armed(taskTime)
           /\ \A t \in fired : taskTime[t] <= now
           /\ taskTime' = [t \in Threads |-> IF t \in fired THEN 0 ELSE taskTime[t]]
           /\ taskTime' \in [Threads -> 0..TimeMax]
           /\ Files(taskTree', taskTime', Armed(taskTime'))
           /\ nextTask' = First(taskTree')
<1>1. /\ fired \in SUBSET Armed(taskTime)
      /\ \A t \in fired : taskTime[t] <= now
      /\ NextWithout(fired) = First(Without(taskTree, fired))
  BY LoopFires
<1>2. /\ taskTree' = Without(taskTree, fired)
      /\ nextTask' = NextWithout(fired)
      /\ taskTime' = [t \in Threads |-> IF t \in fired THEN 0 ELSE taskTime[t]]
  BY DEF TimerExpires
<1>3. taskTime \in [Threads -> 0..TimeMax] /\ TimeMax \in Nat
  BY TimeMaxType DEF TimerInv, TimerTypeOK
<1>4. taskTime' \in [Threads -> 0..TimeMax]
  BY <1>2, <1>3
<1>5. fired \in SUBSET Threads /\ Armed(taskTime) \in SUBSET Threads
  BY <1>1 DEF Armed
<1>6. Files(Without(taskTree, fired), taskTime, Armed(taskTime) \ fired)
  BY <1>3, <1>5, WithoutFiles DEF TimerInv
<1>7. Armed(taskTime') = Armed(taskTime) \ fired
  BY <1>2, <1>3 DEF Armed
<1>8. \A t \in Armed(taskTime) \ fired : taskTime[t] = taskTime'[t]
  BY <1>2 DEF Armed
<1>9. Files(taskTree', taskTime', Armed(taskTime'))
  BY <1>2, <1>6, <1>7, <1>8, SameTimes
<1> QED
  BY <1>1, <1>2, <1>4, <1>9

\* do_task schedules an event for the first of the tasks that are left, or turns
\* the timer off.  The event it adds takes the place of the callback.
LEMMA ExpireTimer ==
    ASSUME TimerInv, firing, firing' = FALSE, now' = now, TimerExpires(DoInterruptTaskImpl)
    PROVE  TimerInv'
<1> DEFINE next == NextWithout(DoInterruptTaskImpl)
<1>1. /\ taskTime' \in [Threads -> 0..TimeMax]
      /\ Files(taskTree', taskTime', Armed(taskTime'))
      /\ nextTask' = First(taskTree')
  BY ExpireFiles
<1>2. /\ wakeup # TimeMax
      /\ nextTask' = next
      /\ wakeup' = IF Rearms(next) THEN next.time ELSE TimeMax
      /\ events' = IF Rearms(next) THEN ScheduleEvent(events, next.time) ELSE events
  BY DEF TimerExpires
<1>3. \/ taskTree' = <<>> /\ next = NoTask /\ Range(taskTree') = {}
      \/ next \in Tasks /\ \A k \in Range(taskTree') : next.time <= k.time
  BY <1>1, <1>2, FirstIsEarliest
<1> HIDE DEF next
<1>4. /\ events \in [1..Horizon -> Nat] /\ TimeMax \in Nat /\ TimeMax > 1
      /\ IsFiniteSet(Pending(events)) /\ Cardinality(Pending(events)) \in Nat
      /\ Cardinality(Pending(events)) <= 1
  BY TimeMaxType, FS_CardinalityType, <1>2 DEF TimerInv, TimerTypeOK, EventsBounded
<1>5. CASE next = NoTask /\ Range(taskTree') = {}
  <2>1. ~Rearms(next)
    <3>1. NoTask.time = 0
      BY DEF NoTask, Task
    <3>2. next.time = 0
      BY <1>5, <3>1
    <3> QED
      BY <3>2 DEF Rearms
  <2>2. wakeup' = TimeMax /\ events' = events
    BY <1>2, <2>1
  <2>3. TimerTypeOK'
    <3>1. firing' \in BOOLEAN /\ now' \in 0..Horizon
      BY DEF TimerInv, TimerTypeOK
    <3>2. wakeup' \in 1..TimeMax /\ events' \in [1..Horizon -> Nat]
      BY <1>4, <2>2
    <3> QED
      BY <1>1, <3>1, <3>2 DEF TimerTypeOK
  <2>4. WakesInTime' /\ EventComes'
    BY <1>4, <1>5, <2>2 DEF WakesInTime, EventComes
  <2>5. EventsBounded'
    BY <1>4, <2>2 DEF EventsBounded
  <2> QED
    BY <1>1, <2>3, <2>4, <2>5 DEF TimerInv
<1>6. CASE next \in Tasks /\ \A k \in Range(taskTree') : next.time <= k.time
  <2>1. next.time \in 1..TimeMax /\ Rearms(next)
    BY <1>4, <1>6 DEF Tasks, Rearms
  <2>2. wakeup' = next.time /\ events' = ScheduleEvent(events, next.time)
    BY <1>2, <2>1
  <2>3. /\ events' \in [1..Horizon -> Nat]
        /\ IsFiniteSet(Pending(events'))
        /\ next.time < TimeMax => events'[next.time] > 0
        /\ Cardinality(Pending(events')) =
             IF next.time = TimeMax THEN Cardinality(Pending(events))
             ELSE Cardinality(Pending(events)) + 1
    BY <1>4, <2>1, <2>2, Schedules
  <2>4. TimerTypeOK'
    BY <1>1, <2>1, <2>2, <2>3 DEF TimerInv, TimerTypeOK
  <2>5. WakesInTime'
    BY <1>6, <2>2 DEF WakesInTime
  <2>6. EventComes'
    BY <1>4, <2>1, <2>2, <2>3 DEF EventComes
  <2>7. EventsBounded'
    BY <1>4, <2>1, <2>2, <2>3 DEF EventsBounded
  <2> QED
    BY <1>1, <2>4, <2>5, <2>6, <2>7 DEF TimerInv
<1> QED
  BY <1>3, <1>5, <1>6

LEMMA OffTimer ==
    ASSUME TimerInv, firing, firing' = FALSE, now' = now, TimerIsOff
    PROVE  TimerInv'
<1>1. wakeup = TimeMax /\ UNCHANGED <<taskTree, nextTask, taskTime, wakeup, events>>
  BY DEF TimerIsOff, taskVars
<1>2. EventsBounded'
  <2>1. Cardinality(Pending(events)) \in Nat /\ Cardinality(Pending(events)) <= 0
    BY <1>1, FS_CardinalityType DEF TimerInv, EventsBounded
  <2> QED
    BY <1>1, <2>1 DEF TimerInv, EventsBounded
<1>3. EventComes'
  BY <1>1, TimeMaxType DEF EventComes
<1> QED
  BY <1>1, <1>2, <1>3 DEF TimerInv, TimerTypeOK, WakesInTime

-----------------------------------------------------------------------------
(* The waits *)

WaitersType == [prio : Int, thread : Threads]

\* The order of a tree: by priority, and each thread once.
ByPrio == {p \in WaitersType \X WaitersType :
             p[1].prio <= p[2].prio /\ p[1].thread # p[2].thread}

StateTypeOK ==
    /\ word \in [Addresses -> Words]
    /\ tree \in [Addresses -> Seq(WaitersType)]
    /\ signaled \subseteq Events
    /\ lists \in [Events -> SUBSET [thread : Threads, at : Nat]]
    /\ pc \in [Threads -> {"idle", "called", "waiting", "exited"}]
    /\ since \in [Threads -> 0..Horizon]
    /\ outcome \in [Threads -> [result : Results, index : Nat]]
    /\ {terminating, cancelled} \subseteq SUBSET Threads

WaitOK(t) ==
    /\ wait[t].deadline \in -1..TimeMax
    /\ wait[t].prio \in Int
    /\ wait[t].on.kind \in IF Waiting(t) THEN {"Address", "Sync", "Sleep"} ELSE {"none"}
    /\ AtAddress(t) => wait[t].on.addr \in Addresses
    /\ AtObjects(t) => wait[t].on.objs \in Seq(Events)

WaitsTyped ==
    /\ wait = [t \in Threads |-> wait[t]]
    /\ \A t \in Threads : WaitOK(t)

Sleepers(a) == {t \in Threads : AtAddress(t) /\ wait[t].on.addr = a}

\* Each tree holds its waiters, under the priority they were filed under.
TreesAgree ==
    \A a \in Addresses :
        /\ Range(tree[a]) = {Waiter(wait[t].prio, t) : t \in Sleepers(a)}
        /\ InOrder(tree[a], ByPrio)

NodesOf(t, e) == {Node(t, i) : i \in {j \in DOMAIN wait[t].on.objs : wait[t].on.objs[j] = e}}

\* Each list holds the nodes of the waits that name its object.
ListsAgree ==
    \A e \in Events : lists[e] = UNION {NodesOf(t, e) : t \in {u \in Threads : AtObjects(u)}}

\* The timer has the deadlines of the waits.
TasksAgree ==
    \A t \in Threads :
        taskTime[t] = IF Waiting(t) /\ wait[t].deadline > 0 THEN wait[t].deadline ELSE 0

\* A wait can be cancelled exactly while it is for objects.
CancellableAgrees == cancellable = {t \in Threads : AtObjects(t)}

WaitsAgree ==
    /\ StateTypeOK
    /\ WaitsTyped
    /\ TreesAgree
    /\ ListsAgree
    /\ TasksAgree
    /\ CancellableAgrees

Inv == TimerInv /\ WaitsAgree

-----------------------------------------------------------------------------
\* Wrapping brings a number into the range of a word, and leaves words alone.
LEMMA Wraps ==
    ASSUME NEW v \in Int
    PROVE  Wrap(v) \in Words /\ (v \in Words => Wrap(v) = v)
<1>1. Half \in Nat /\ 2 * Half \in Nat /\ 2 * Half > 0
  BY ArbiterAssumption
<1>2. (v + Half) % (2 * Half) \in 0..(2 * Half - 1)
  BY <1>1
<1>3. Wrap(v) \in Words
  BY <1>1, <1>2 DEF Wrap, Words
<1>4. ASSUME v \in Words PROVE Wrap(v) = v
  <2>1. v + Half \in 0..(2 * Half - 1)
    BY <1>1, <1>4 DEF Words
  <2>2. (v + Half) % (2 * Half) = v + Half
    BY <1>1, <2>1
  <2> QED
    BY <1>1, <2>2 DEF Wrap
<1> QED
  BY <1>3, <1>4

\* first_signaled_waitable_index finds a signalled object if there is one.
LEMMA FirstIndexFinds ==
    ASSUME NEW objs \in Seq(Events), NEW set
    PROVE  /\ FirstIndex(objs, set) \in Nat
           /\ FirstIndex(objs, set) = 0 <=> \A i \in DOMAIN objs : objs[i] \notin set
           /\ FirstIndex(objs, set) # 0 =>
                /\ FirstIndex(objs, set) \in DOMAIN objs
                /\ objs[FirstIndex(objs, set)] \in set
<1> DEFINE S == {i \in DOMAIN objs : objs[i] \in set}
<1>1. DOMAIN objs = 1..Len(objs) /\ Len(objs) \in Nat
  BY LenProperties
<1>2. CASE S = {}
  BY <1>1, <1>2 DEF FirstIndex
<1>3. CASE S # {}
  <2>1. PICK m \in S : \A k \in S : m <= k
    <3>1. S \in SUBSET Nat
      BY <1>1
    <3> HIDE DEF S
    <3> QED
      BY <1>3, <3>1, LeastNumber
  <2>2. \A j \in 1..(m - 1) : j \in DOMAIN objs /\ ~(m <= j)
    BY <1>1
  <2>3. \E i \in DOMAIN objs : objs[i] \in set /\ \A j \in 1..(i - 1) : objs[j] \notin set
    BY <2>1, <2>2
  <2>4. /\ FirstIndex(objs, set) \in DOMAIN objs
        /\ objs[FirstIndex(objs, set)] \in set
    BY <1>3, <2>3 DEF FirstIndex
  <2> QED
    BY <1>1, <2>4
<1> QED
  BY <1>2, <1>3

\* A thread that waits has the state of a wait, and one that does not has none.
LEMMA WaitKinds ==
    ASSUME WaitsAgree, NEW t \in Threads
    PROVE  /\ AtAddress(t) => Waiting(t) /\ ~AtObjects(t) /\ wait[t].on.addr \in Addresses
           /\ AtObjects(t) => Waiting(t) /\ ~AtAddress(t) /\ wait[t].on.objs \in Seq(Events)
           /\ wait[t].deadline \in Int /\ wait[t].deadline <= TimeMax /\ wait[t].prio \in Int
BY DEF WaitsAgree, WaitsTyped, WaitOK, AtAddress, AtObjects, Waiting

\* erase_by_thread_id takes the threads gone out of every tree, and no other.
LEMMA ErasedTrees ==
    ASSUME WaitsAgree, NEW gone \in SUBSET Threads, NEW a \in Addresses
    PROVE  /\ Erased(gone) \in [Addresses -> Seq(WaitersType)]
           /\ Range(Erased(gone)[a]) = {Waiter(wait[t].prio, t) : t \in Sleepers(a) \ gone}
           /\ InOrder(Erased(gone)[a], ByPrio)
<1>1. ASSUME NEW b \in Addresses
      PROVE  /\ Erased(gone)[b] \in Seq(WaitersType)
             /\ Range(Erased(gone)[b]) =
                  Range(tree[b]) \cap {w \in Range(tree[b]) : w.thread \notin gone}
             /\ InOrder(tree[b], ByPrio) => InOrder(Erased(gone)[b], ByPrio)
  <2>1. tree[b] \in Seq(WaitersType)
    BY DEF WaitsAgree, StateTypeOK
  <2>2. Erased(gone)[b] = Kept(tree[b], {w \in Range(tree[b]) : w.thread \notin gone})
    BY DEF Erased
  <2> QED
    BY <2>1, <2>2, KeptProperties
<1>2. Erased(gone) \in [Addresses -> Seq(WaitersType)]
  BY <1>1 DEF Erased
<1>3. Range(tree[a]) = {Waiter(wait[t].prio, t) : t \in Sleepers(a)} /\ InOrder(tree[a], ByPrio)
  BY DEF WaitsAgree, TreesAgree
<1>4. \A t \in Sleepers(a) : Waiter(wait[t].prio, t).thread = t
  BY DEF Waiter
<1> QED
  BY <1>1, <1>2, <1>3, <1>4

\* insert files a thread under its priority, after those that are as good.
LEMMA InsertedTrees ==
    ASSUME WaitsAgree, NEW a \in Addresses, NEW t \in Threads, NEW prio \in Int, ~AtAddress(t)
    PROVE  /\ Inserted(a, prio, t) \in [Addresses -> Seq(WaitersType)]
           /\ \A b \in Addresses : b # a => Inserted(a, prio, t)[b] = tree[b]
           /\ Range(Inserted(a, prio, t)[a]) = Range(tree[a]) \cup {Waiter(prio, t)}
           /\ InOrder(Inserted(a, prio, t)[a], ByPrio)
<1> DEFINE q == tree[a]
           S == {w \in Range(q) : w.prio <= prio}
           x == Waiter(prio, t)
           new == PutAfter(q, S, x)
<1>1. tree \in [Addresses -> Seq(WaitersType)] /\ q \in Seq(WaitersType)
  BY DEF WaitsAgree, StateTypeOK
<1>2. x \in WaitersType /\ x.prio = prio /\ x.thread = t
  BY DEF Waiter, WaitersType
<1>3. Inserted(a, prio, t) = [tree EXCEPT ![a] = new]
  BY DEF Inserted
<1>4. Range(q) = {Waiter(wait[u].prio, u) : u \in Sleepers(a)} /\ InOrder(q, ByPrio)
  BY DEF WaitsAgree, TreesAgree
<1>5. \A w \in Range(q) : w \in WaitersType /\ w.thread # t /\ w.prio \in Int
  <2> SUFFICES ASSUME NEW u \in Sleepers(a)
               PROVE  LET w == Waiter(wait[u].prio, u)
                      IN w \in WaitersType /\ w.thread # t /\ w.prio \in Int
    BY <1>4
  <2>1. u # t /\ u \in Threads /\ wait[u].prio \in Int
    BY WaitKinds DEF Sleepers
  <2> QED
    BY <2>1 DEF Waiter, WaitersType
<1>6. \A v \in Range(q), w \in Range(q) : v.thread = w.thread => v = w
  BY <1>4 DEF Waiter
<1> HIDE DEF x
<1>7. new \in Seq(WaitersType) /\ Range(new) = Range(q) \cup {x}
  <2> HIDE DEF q, S
  <2> QED
    BY <1>1, <1>2, PutAfterProperties
<1>8. InOrder(new, ByPrio)
  <2>1. \A v \in Range(q) \cap S : <<v, x>> \in ByPrio
    BY <1>2, <1>5 DEF ByPrio
  <2>2. \A w \in Range(q) \ S : <<x, w>> \in ByPrio
    BY <1>2, <1>5 DEF ByPrio
  <2>3. \A v \in Range(q) \cap S, w \in Range(q) \ S : <<v, w>> \in ByPrio
    <3> SUFFICES ASSUME NEW v \in Range(q) \cap S, NEW w \in Range(q) \ S
                 PROVE  <<v, w>> \in ByPrio
      OBVIOUS
    <3>1. v.prio <= prio /\ ~(w.prio <= prio) /\ v # w
      OBVIOUS
    <3>2. v.thread # w.thread
      BY <1>6, <3>1
    <3>3. v \in WaitersType /\ w \in WaitersType /\ v.prio <= w.prio
      BY <1>5, <3>1
    <3> QED
      BY <3>2, <3>3 DEF ByPrio
  <2> HIDE DEF q, S
  <2> QED
    BY <1>1, <1>2, <1>4, <2>1, <2>2, <2>3, PutAfterProperties
<1> HIDE DEF new
<1> QED
  BY <1>1, <1>3, <1>7, <1>8 DEF x

-----------------------------------------------------------------------------
\* base_end_wait and cancel_wait: the waits of the threads gone are taken out of
\* all the places they are in.  A wait for objects is in no tree, and a wait on an
\* address in no list.
LEMMA EndWaits ==
    ASSUME Inv, NEW gone \in SUBSET {t \in Threads : Waiting(t)},
           NEW res \in Results, NEW synced \in [Threads -> Nat], Ends(gone, res, synced),
           tree' = Erased(gone) \/ (tree' = tree /\ \A t \in gone : ~AtAddress(t)),
           lists' = Unlinked(gone) \/ (lists' = lists /\ \A t \in gone : ~AtObjects(t)),
           cancellable' = cancellable \ gone,
           taskTime' = [t \in Threads |-> IF t \in gone THEN 0 ELSE taskTime[t]],
           word' \in [Addresses -> Words], signaled' \subseteq Events,
           {terminating', cancelled'} \subseteq SUBSET Threads
    PROVE  WaitsAgree'
<1>1. /\ pc' = [t \in Threads |-> IF t \in gone THEN "idle" ELSE pc[t]]
      /\ wait' = [t \in Threads |-> IF t \in gone THEN NoWait ELSE wait[t]]
      /\ since' = since
      /\ outcome' = [t \in Threads |->
                       IF t \in gone THEN Outcome(res, synced[t]) ELSE Outcome("none", 0)]
  BY DEF Ends
<1>2. \A t \in Threads :
        /\ t \in gone => wait'[t] = NoWait /\ pc'[t] = "idle"
        /\ t \notin gone => wait'[t] = wait[t] /\ pc'[t] = pc[t]
  BY <1>1
<1>3. \A t \in Threads :
        /\ Waiting(t)' <=> Waiting(t) /\ t \notin gone
        /\ AtAddress(t)' <=> AtAddress(t) /\ t \notin gone
        /\ AtObjects(t)' <=> AtObjects(t) /\ t \notin gone
  BY <1>2 DEF Waiting, AtAddress, AtObjects, NoWait
<1>4. WaitsTyped'
  <2>1. wait' = [t \in Threads |-> wait'[t]]
    BY <1>1
  <2>2. ASSUME NEW t \in Threads PROVE WaitOK(t)'
    <3>1. CASE t \in gone
      BY <1>2, <1>3, <3>1, TimeMaxType DEF WaitOK, NoWait
    <3>2. CASE t \notin gone
      <4>1. WaitOK(t)
        BY DEF Inv, WaitsAgree, WaitsTyped
      <4> QED
        BY <1>2, <1>3, <3>2, <4>1 DEF WaitOK
    <3> QED
      BY <3>1, <3>2
  <2> QED
    BY <2>1, <2>2 DEF WaitsTyped
<1>5. tree' \in [Addresses -> Seq(WaitersType)] /\ TreesAgree'
  <2>1. WaitsAgree /\ gone \in SUBSET Threads
    BY DEF Inv
  <2>2. \A a \in Addresses : Sleepers(a)' = Sleepers(a) \ gone
    BY <1>2, <1>3 DEF Sleepers
  <2>3. \A a \in Addresses : \A t \in Sleepers(a) \ gone : wait'[t].prio = wait[t].prio
    BY <1>2 DEF Sleepers
  <2>4. CASE tree' = Erased(gone)
    <3>1. \A a \in Addresses :
            /\ tree' \in [Addresses -> Seq(WaitersType)]
            /\ Range(tree'[a]) = {Waiter(wait[t].prio, t) : t \in Sleepers(a) \ gone}
            /\ InOrder(tree'[a], ByPrio)
      BY <2>1, <2>4, ErasedTrees
    <3>2. tree' \in [Addresses -> Seq(WaitersType)]
      <4>1. CASE Addresses = {}
        BY <2>4, <4>1 DEF Erased
      <4> QED
        BY <3>1, <4>1
    <3> QED
      BY <2>2, <2>3, <3>1, <3>2 DEF TreesAgree
  <2>5. CASE tree' = tree /\ \A t \in gone : ~AtAddress(t)
    <3>1. \A a \in Addresses : Sleepers(a) \ gone = Sleepers(a)
      BY <2>5 DEF Sleepers
    <3> QED
      BY <2>1, <2>2, <2>3, <2>5, <3>1 DEF WaitsAgree, StateTypeOK, TreesAgree
  <2> QED
    BY <2>4, <2>5
<1>6. lists' \in [Events -> SUBSET [thread : Threads, at : Nat]] /\ ListsAgree'
  <2>1. /\ lists \in [Events -> SUBSET [thread : Threads, at : Nat]]
        /\ ListsAgree
    BY DEF Inv, WaitsAgree, StateTypeOK
  <2>2. \A t \in Threads \ gone : \A e \in Events : NodesOf(t, e)' = NodesOf(t, e)
    BY <1>2 DEF NodesOf
  <2>3. ASSUME NEW e \in Events
        PROVE  UNION {NodesOf(t, e)' : t \in {u \in Threads : AtObjects(u)'}} =
                 UNION {NodesOf(t, e) : t \in {u \in Threads : AtObjects(u) /\ u \notin gone}}
    BY <1>3, <2>2
  <2>4. CASE lists' = Unlinked(gone)
    <3>1. ASSUME NEW e \in Events
          PROVE  lists'[e] = UNION {NodesOf(t, e) : t \in {u \in Threads : AtObjects(u) /\ u \notin gone}}
      <4>1. lists'[e] = {n \in lists[e] : n.thread \notin gone}
        BY <2>4 DEF Unlinked
      <4>2. lists[e] = UNION {NodesOf(t, e) : t \in {u \in Threads : AtObjects(u)}}
        BY <2>1 DEF ListsAgree
      <4>3. \A t \in Threads : \A n \in NodesOf(t, e) : n.thread = t
        BY DEF NodesOf, Node
      <4> QED
        BY <4>1, <4>2, <4>3
    <3>2. lists' \in [Events -> SUBSET [thread : Threads, at : Nat]]
      BY <2>1, <2>4 DEF Unlinked
    <3> QED
      BY <2>3, <3>1, <3>2 DEF ListsAgree
  <2>5. CASE lists' = lists /\ \A t \in gone : ~AtObjects(t)
    <3>1. {u \in Threads : AtObjects(u) /\ u \notin gone} = {u \in Threads : AtObjects(u)}
      BY <2>5
    <3> QED
      BY <2>1, <2>3, <2>5, <3>1 DEF ListsAgree
  <2> QED
    BY <2>4, <2>5
<1>7. TasksAgree'
  <2>1. \A t \in Threads : taskTime'[t] = IF t \in gone THEN 0 ELSE taskTime[t]
    OBVIOUS
  <2> QED
    BY <1>2, <1>3, <2>1 DEF Inv, WaitsAgree, TasksAgree
<1>8. CancellableAgrees'
  BY <1>3 DEF Inv, WaitsAgree, CancellableAgrees
<1>9. StateTypeOK'
  <2>1. pc' \in [Threads -> {"idle", "called", "waiting", "exited"}]
    BY <1>1 DEF Inv, WaitsAgree, StateTypeOK
  <2>2. since' \in [Threads -> 0..Horizon]
    BY <1>1 DEF Inv, WaitsAgree, StateTypeOK
  <2>3. outcome' \in [Threads -> [result : Results, index : Nat]]
    BY <1>1 DEF Outcome, Results
  <2> QED
    BY <1>5, <1>6, <2>1, <2>2, <2>3 DEF StateTypeOK
<1> QED
  BY <1>4, <1>5, <1>6, <1>7, <1>8, <1>9 DEF WaitsAgree

\* A step that begins and ends no wait.
LEMMA SameWaits ==
    ASSUME WaitsAgree, UNCHANGED <<tree, lists, wait, cancellable, taskTime>>,
           \A t \in Threads : Waiting(t)' <=> Waiting(t),
           word' \in [Addresses -> Words], signaled' \subseteq Events,
           pc' \in [Threads -> {"idle", "called", "waiting", "exited"}],
           since' \in [Threads -> 0..Horizon],
           outcome' \in [Threads -> [result : Results, index : Nat]],
           {terminating', cancelled'} \subseteq SUBSET Threads
    PROVE  WaitsAgree'
<1>1. StateTypeOK'
  BY DEF WaitsAgree, StateTypeOK
<1>2. WaitsTyped'
  <2>1. ASSUME NEW t \in Threads PROVE WaitOK(t)'
    <3>1. WaitOK(t) /\ (Waiting(t)' <=> Waiting(t))
      BY DEF WaitsAgree, WaitsTyped
    <3>2. (AtAddress(t)' <=> AtAddress(t)) /\ (AtObjects(t)' <=> AtObjects(t))
      BY DEF AtAddress, AtObjects
    <3> QED
      BY <3>1, <3>2 DEF WaitOK
  <2> QED
    BY <2>1 DEF WaitsAgree, WaitsTyped
<1>3. TreesAgree'
  <2>1. \A t \in Threads : AtAddress(t)' <=> AtAddress(t)
    BY DEF AtAddress
  <2>2. ASSUME NEW a \in Addresses PROVE Sleepers(a)' = Sleepers(a)
    <3>1. \A t \in Threads : wait'[t] = wait[t]
      OBVIOUS
    <3> QED
      BY <2>1, <3>1, Zenon DEF Sleepers
  <2> QED
    BY <2>2 DEF WaitsAgree, TreesAgree
<1>4. ListsAgree'
  <2>1. \A t \in Threads, e \in Events : NodesOf(t, e)' = NodesOf(t, e)
    BY DEF NodesOf
  <2>2. {t \in Threads : AtObjects(t)'} = {t \in Threads : AtObjects(t)}
    BY DEF AtObjects
  <2> QED
    BY <2>1, <2>2 DEF WaitsAgree, ListsAgree
<1>5. TasksAgree' /\ CancellableAgrees'
  BY DEF WaitsAgree, TasksAgree, CancellableAgrees, AtObjects
<1> QED
  BY <1>1, <1>2, <1>3, <1>4, <1>5 DEF WaitsAgree

\* begin_wait: the thread, which had nothing anywhere, is put into the tree of its
\* address or the lists of its objects, and the timer gets its deadline.
LEMMA BeginsWait ==
    ASSUME Inv, NEW t \in Threads, pc[t] = "called",
           NEW on, NEW timeout \in Nat \cup {-1}, timeout # 0, NEW prio \in Int,
           on.kind \in {"Address", "Sync", "Sleep"},
           on.kind = "Address" => on.addr \in Addresses,
           on.kind = "Sync" => on.objs \in Seq(Events),
           BeginWait(t, on, timeout, prio),
           tree' = IF on.kind = "Address" THEN Inserted(on.addr, prio, t) ELSE tree,
           lists' = IF on.kind = "Sync" THEN Linked(t, on.objs) ELSE lists,
           cancellable' = IF on.kind = "Sync" THEN cancellable \cup {t} ELSE cancellable,
           word' \in [Addresses -> Words], signaled' = signaled
    PROVE  Inv'
<1> DEFINE deadline == Deadline(t, timeout)
<1>1. /\ pc' = [pc EXCEPT ![t] = "waiting"]
      /\ since' = [since EXCEPT ![t] = 0]
      /\ wait' = [wait EXCEPT ![t] = [on |-> on, deadline |-> deadline, prio |-> prio]]
      /\ Drop(t, deadline)
      /\ outcome' = NoOutcome
      /\ UNCHANGED <<terminating, cancelled>>
  BY DEF BeginWait, Quiet
<1>2. WaitsAgree /\ TimerInv /\ StateTypeOK /\ WaitsTyped
  BY DEF Inv, WaitsAgree
<1>3. deadline \in (1..TimeMax) \cup {-1}
  <2>1. since[t] \in 0..Horizon
    BY <1>2 DEF StateTypeOK
  <2> QED
    BY <2>1, TimeMaxType DEF Deadline
<1> HIDE DEF deadline
<1>4. ~Waiting(t) /\ ~AtAddress(t) /\ ~AtObjects(t)
  BY <1>2, WaitKinds DEF Waiting
<1>5. taskTime \in [Threads -> 0..TimeMax] /\ taskTime[t] = 0
  BY <1>2, <1>4 DEF WaitsAgree, TasksAgree, TimerInv, TimerTypeOK
<1>6. /\ TimerInv'
      /\ taskTime' = [taskTime EXCEPT ![t] = IF deadline > 0 THEN deadline ELSE 0]
  <2>1. CASE deadline > 0
    <3>1. deadline \in 1..TimeMax /\ RegisterAbsoluteTask(t, deadline)
      BY <1>1, <1>3, <2>1 DEF Drop
    <3> QED
      BY <1>2, <2>1, <3>1, RegisterTimer, RegisterFiles
  <2>2. CASE ~(deadline > 0)
    <3>1. UNCHANGED timerVars
      BY <1>1, <2>2 DEF Drop
    <3>2. taskTime' = taskTime
      BY <3>1 DEF timerVars
    <3> QED
      BY <1>2, <1>5, <2>2, <3>1, <3>2, StutterTimer
  <2> QED
    BY <2>1, <2>2
<1>7. /\ pc \in [Threads -> {"idle", "called", "waiting", "exited"}]
      /\ wait = [u \in Threads |-> wait[u]]
  BY <1>2 DEF StateTypeOK, WaitsTyped
<1>8. /\ \A u \in Threads \ {t} : wait'[u] = wait[u] /\ pc'[u] = pc[u]
      /\ pc'[t] = "waiting"
      /\ wait'[t].on = on /\ wait'[t].deadline = deadline /\ wait'[t].prio = prio
  BY <1>1, <1>7
<1>9. /\ Waiting(t)'
      /\ AtAddress(t)' <=> on.kind = "Address"
      /\ AtObjects(t)' <=> on.kind = "Sync"
      /\ \A u \in Threads \ {t} : /\ Waiting(u)' <=> Waiting(u)
                                  /\ AtAddress(u)' <=> AtAddress(u)
                                  /\ AtObjects(u)' <=> AtObjects(u)
  BY <1>8 DEF Waiting, AtAddress, AtObjects
<1>10. WaitsTyped'
  <2>1. wait' = [u \in Threads |-> wait'[u]]
    BY <1>1, <1>7
  <2>2. WaitOK(t)'
    BY <1>3, <1>8, <1>9, TimeMaxType DEF WaitOK
  <2>3. ASSUME NEW u \in Threads \ {t} PROVE WaitOK(u)'
    <3>1. WaitOK(u)
      BY <1>2 DEF WaitsTyped
    <3> QED
      BY <1>8, <1>9, <3>1 DEF WaitOK
  <2> QED
    BY <2>1, <2>2, <2>3 DEF WaitsTyped
<1>11. tree' \in [Addresses -> Seq(WaitersType)] /\ TreesAgree'
  <2>1. /\ tree \in [Addresses -> Seq(WaitersType)]
        /\ \A a \in Addresses : /\ Range(tree[a]) = {Waiter(wait[u].prio, u) : u \in Sleepers(a)}
                                /\ InOrder(tree[a], ByPrio)
    BY <1>2 DEF WaitsAgree, StateTypeOK, TreesAgree
  <2>2. \A a \in Addresses : \A u \in Sleepers(a) : u # t /\ wait'[u].prio = wait[u].prio
    BY <1>4, <1>8 DEF Sleepers
  <2>3. \A a \in Addresses :
          /\ on.kind = "Address" /\ on.addr = a => Sleepers(a)' = Sleepers(a) \cup {t}
          /\ ~(on.kind = "Address" /\ on.addr = a) => Sleepers(a)' = Sleepers(a)
    BY <1>4, <1>8, <1>9 DEF Sleepers
  <2>4. ASSUME NEW a \in Addresses, ~(on.kind = "Address" /\ on.addr = a), tree'[a] = tree[a]
        PROVE  /\ Range(tree'[a]) = {Waiter(wait'[u].prio, u) : u \in Sleepers(a)'}
               /\ InOrder(tree'[a], ByPrio)
    BY <2>1, <2>2, <2>3, <2>4
  <2>5. CASE on.kind = "Address"
    <3>1. /\ tree' \in [Addresses -> Seq(WaitersType)]
          /\ \A b \in Addresses : b # on.addr => tree'[b] = tree[b]
          /\ Range(tree'[on.addr]) = Range(tree[on.addr]) \cup {Waiter(prio, t)}
          /\ InOrder(tree'[on.addr], ByPrio)
      BY <1>2, <1>4, <2>5, InsertedTrees
    <3>2. Range(tree'[on.addr]) = {Waiter(wait'[u].prio, u) : u \in Sleepers(on.addr)'}
      <4>1. Range(tree[on.addr]) = {Waiter(wait'[u].prio, u) : u \in Sleepers(on.addr)}
        BY <2>1, <2>2, <2>5
      <4>2. Sleepers(on.addr)' = Sleepers(on.addr) \cup {t}
        BY <2>3, <2>5
      <4>3. Waiter(prio, t) = Waiter(wait'[t].prio, t)
        BY <1>8
      <4> QED
        BY <3>1, <4>1, <4>2, <4>3
    <3> QED
      BY <2>4, <3>1, <3>2 DEF TreesAgree
  <2>6. CASE on.kind # "Address"
    BY <2>1, <2>4, <2>6 DEF TreesAgree
  <2> QED
    BY <2>5, <2>6
<1>12. lists' \in [Events -> SUBSET [thread : Threads, at : Nat]] /\ ListsAgree'
  <2>1. /\ lists \in [Events -> SUBSET [thread : Threads, at : Nat]]
        /\ \A e \in Events : lists[e] = UNION {NodesOf(u, e) : u \in {v \in Threads : AtObjects(v)}}
    BY <1>2 DEF WaitsAgree, StateTypeOK, ListsAgree
  <2>2. \A u \in Threads \ {t} : \A e \in Events : NodesOf(u, e)' = NodesOf(u, e)
    BY <1>8 DEF NodesOf
  <2>3. CASE on.kind = "Sync"
    <3>1. DOMAIN on.objs = 1..Len(on.objs) /\ Len(on.objs) \in Nat
      BY <2>3, LenProperties
    <3>2. \A e \in Events : NodesOf(t, e)' = {Node(t, i) : i \in {j \in DOMAIN on.objs : on.objs[j] = e}}
      BY <1>8 DEF NodesOf
    <3>3. \A e \in Events : lists'[e] = lists[e] \cup NodesOf(t, e)'
      BY <2>3, <3>2 DEF Linked
    <3>4. {v \in Threads : AtObjects(v)'} = {v \in Threads : AtObjects(v)} \cup {t}
      BY <1>9, <2>3
    <3>5. ASSUME NEW e \in Events
          PROVE  UNION {NodesOf(u, e)' : u \in {v \in Threads : AtObjects(v)'}} =
                   (UNION {NodesOf(u, e) : u \in {v \in Threads : AtObjects(v)}}) \cup NodesOf(t, e)'
      <4>1. UNION {NodesOf(u, e)' : u \in {v \in Threads : AtObjects(v)'}} =
              (UNION {NodesOf(u, e)' : u \in {v \in Threads : AtObjects(v)}}) \cup NodesOf(t, e)'
        BY <3>4
      <4>2. \A u \in {v \in Threads : AtObjects(v)} : NodesOf(u, e)' = NodesOf(u, e)
        BY <1>4, <2>2
      <4>3. {NodesOf(u, e)' : u \in {v \in Threads : AtObjects(v)}} =
              {NodesOf(u, e) : u \in {v \in Threads : AtObjects(v)}}
        BY <4>2
      <4> QED
        BY <4>1, <4>3
    <3>6. \A e \in Events : NodesOf(t, e)' \subseteq [thread : Threads, at : Nat]
      BY <3>1, <3>2 DEF Node
    <3>7. lists' \in [Events -> SUBSET [thread : Threads, at : Nat]]
      <4>1. lists' = [e \in Events |-> lists[e] \cup NodesOf(t, e)']
        BY <2>3, <3>2 DEF Linked
      <4> QED
        BY <2>1, <3>6, <4>1
    <3> QED
      BY <2>1, <3>3, <3>5, <3>7 DEF ListsAgree
  <2>4. CASE on.kind # "Sync"
    <3>1. {v \in Threads : AtObjects(v)'} = {v \in Threads : AtObjects(v)}
      BY <1>4, <1>9, <2>4
    <3>2. \A e \in Events :
            UNION {NodesOf(u, e)' : u \in {v \in Threads : AtObjects(v)'}} =
              UNION {NodesOf(u, e) : u \in {v \in Threads : AtObjects(v)}}
      BY <1>4, <2>2, <3>1
    <3> QED
      BY <2>1, <2>4, <3>2 DEF ListsAgree
  <2> QED
    BY <2>3, <2>4
<1>13. TasksAgree'
  <2>1. ASSUME NEW u \in Threads \ {t}
        PROVE  taskTime'[u] = IF Waiting(u)' /\ wait'[u].deadline > 0 THEN wait'[u].deadline ELSE 0
    BY <1>2, <1>6, <1>8, <1>9 DEF WaitsAgree, TasksAgree
  <2>2. taskTime'[t] = IF deadline > 0 THEN deadline ELSE 0
    BY <1>5, <1>6
  <2> QED
    BY <1>8, <1>9, <2>1, <2>2 DEF TasksAgree
<1>14. CancellableAgrees'
  BY <1>2, <1>4, <1>9 DEF WaitsAgree, CancellableAgrees
<1>15. StateTypeOK'
  <2>1. pc' \in [Threads -> {"idle", "called", "waiting", "exited"}]
    BY <1>1, <1>7
  <2>2. since' \in [Threads -> 0..Horizon]
    BY <1>1, <1>2, TimeMaxType DEF StateTypeOK
  <2>3. outcome' \in [Threads -> [result : Results, index : Nat]]
    BY <1>1 DEF NoOutcome, Outcome, Results
  <2> QED
    BY <1>1, <1>2, <1>11, <1>12, <2>1, <2>2, <2>3 DEF StateTypeOK
<1> QED
  BY <1>6, <1>10, <1>11, <1>12, <1>13, <1>14, <1>15 DEF Inv, WaitsAgree

\* The waits that cancel_task_by_id is called for end in the timer too.
LEMMA WakesWaits ==
    ASSUME Inv, NEW gone \in SUBSET {t \in Threads : Waiting(t)},
           NEW res \in Results, NEW synced \in [Threads -> Nat], Ends(gone, res, synced),
           tree' = Erased(gone) \/ (tree' = tree /\ \A t \in gone : ~AtAddress(t)),
           lists' = Unlinked(gone) \/ (lists' = lists /\ \A t \in gone : ~AtObjects(t)),
           cancellable' = cancellable \ gone,
           CancelTasks(gone), UNCHANGED <<now, events, firing, wakeup>>,
           word' \in [Addresses -> Words], signaled' \subseteq Events,
           {terminating', cancelled'} \subseteq SUBSET Threads
    PROVE  Inv'
<1>1. TimerInv'
  BY CancelTimer DEF Inv
<1>2. taskTime' = [t \in Threads |-> IF t \in gone THEN 0 ELSE taskTime[t]]
  BY DEF CancelTasks
<1>3. WaitsAgree'
  BY <1>2, EndWaits
<1> QED
  BY <1>1, <1>3 DEF Inv

\* The threads in the tree of an address sleep there, and are in no list.
LEMMA SignalledSleep ==
    ASSUME WaitsAgree, NEW a \in Addresses, NEW count
    PROVE  /\ Signalled(a, count) \in SUBSET {t \in Threads : Waiting(t)}
           /\ \A t \in Signalled(a, count) : t \in Sleepers(a) /\ ~AtObjects(t)
           /\ cancellable \ Signalled(a, count) = cancellable
<1>1. Range(tree[a]) = {Waiter(wait[t].prio, t) : t \in Sleepers(a)}
  BY DEF WaitsAgree, TreesAgree
<1>2. \A i \in DOMAIN tree[a] : tree[a][i].thread \in Sleepers(a)
  BY <1>1 DEF Range, Waiter
<1>3. \A t \in Signalled(a, count) : t \in Sleepers(a)
  BY <1>2 DEF Signalled
<1>4. \A t \in Sleepers(a) : t \in Threads /\ Waiting(t) /\ ~AtObjects(t)
  BY WaitKinds DEF Sleepers
<1> QED
  BY <1>3, <1>4 DEF WaitsAgree, CancellableAgrees

\* The threads in the list of an event wait for it, and are in no tree.
LEMMA SnapshotSleep ==
    ASSUME WaitsAgree, NEW e \in Events
    PROVE  /\ Snapshot(e) \in SUBSET {t \in Threads : Waiting(t)}
           /\ Snapshot(e) = {t \in Threads : AtObjects(t) /\ e \in Range(wait[t].on.objs)}
           /\ \A t \in Snapshot(e) : ~AtAddress(t)
<1>1. lists[e] = UNION {NodesOf(t, e) : t \in {u \in Threads : AtObjects(u)}}
  BY DEF WaitsAgree, ListsAgree
<1>2. \A t \in Threads : \A n \in NodesOf(t, e) : n.thread = t /\ e \in Range(wait[t].on.objs)
  BY DEF NodesOf, Node, Range
<1>3. ASSUME NEW t \in Threads, e \in Range(wait[t].on.objs)
      PROVE  \E n \in NodesOf(t, e) : n.thread = t
  <2>1. PICK i \in DOMAIN wait[t].on.objs : wait[t].on.objs[i] = e
    BY <1>3 DEF Range
  <2>2. Node(t, i) \in NodesOf(t, e) /\ Node(t, i).thread = t
    BY <2>1 DEF NodesOf, Node
  <2> QED
    BY <2>2
<1>4. Snapshot(e) = {t \in Threads : AtObjects(t) /\ e \in Range(wait[t].on.objs)}
  <2>1. \A t \in Snapshot(e) : t \in Threads /\ AtObjects(t) /\ e \in Range(wait[t].on.objs)
    BY <1>1, <1>2 DEF Snapshot
  <2>2. \A t \in Threads : AtObjects(t) /\ e \in Range(wait[t].on.objs) => t \in Snapshot(e)
    BY <1>1, <1>3 DEF Snapshot
  <2> QED
    BY <2>1, <2>2
<1>5. \A t \in Threads : AtObjects(t) => Waiting(t) /\ ~AtAddress(t)
  BY WaitKinds
<1> QED
  BY <1>4, <1>5

\* The index a thread of the list of e wakes with is that of a handle to e.
LEMMA SyncedIndex ==
    ASSUME WaitsAgree, NEW e \in Events, NEW t \in Snapshot(e)
    PROVE  /\ FirstIndex(wait[t].on.objs, {e}) \in Nat
           /\ wait[t].on.objs[FirstIndex(wait[t].on.objs, {e})] = e
<1>1. t \in Threads /\ AtObjects(t) /\ e \in Range(wait[t].on.objs)
  BY SnapshotSleep
<1>2. wait[t].on.objs \in Seq(Events)
  BY <1>1, WaitKinds
<1>3. \E i \in DOMAIN wait[t].on.objs : wait[t].on.objs[i] \in {e}
  BY <1>1 DEF Range
<1> QED
  BY <1>2, <1>3, FirstIndexFinds

\* Storing to a word keeps the words.
LEMMA StoresWord ==
    ASSUME WaitsAgree, NEW a \in Addresses, NEW v \in Int
    PROVE  [word EXCEPT ![a] = Wrap(v)] \in [Addresses -> Words]
BY Wraps DEF WaitsAgree, StateTypeOK

LEMMA NewValueWraps ==
    ASSUME NEW a \in Addresses, NEW v \in Words, NEW count \in Int
    PROVE  \E n \in Int : NewValue(a, v, count) = Wrap(n)
<1>1. v \in Int /\ v + 1 \in Int /\ v - 1 \in Int /\ v - 2 \in Int
  BY ArbiterAssumption DEF Words
<1>2. Wrap(v) = v
  BY <1>1, Wraps
<1> QED
  BY <1>1, <1>2 DEF NewValue

-----------------------------------------------------------------------------
\* What the calls of a thread do.
LEMMA CallsInv ==
    ASSUME Inv, NEW t \in Threads
    PROVE  /\ Call(t) \/ TerminationRequested(t) => Inv'
           /\ \A r \in Requests, d \in Timeouts :
                /\ \A p \in Priorities : WaitForAddress(t, r, d, p) => Inv'
                /\ WaitOnObjects(t, r, d) \/ Sleep(t, r, d) => Inv'
<1>1. WaitsAgree /\ StateTypeOK /\ TimerInv
  BY DEF Inv, WaitsAgree
<1>2. ASSUME NEW r \in Requests, NEW d \in Timeouts
      PROVE  /\ r.kind \in AddressKinds \cup {"Sync", "Sleep"}
             /\ r.kind \in AddressKinds => r.addr \in Addresses
             /\ r.kind = "Sync" => r.objs \in Seq(Events)
             /\ d \in Nat \cup {-1}
             /\ Priorities \subseteq Int
  BY WaitsAssumption
<1>3. ASSUME NEW res \in Results, NEW i \in Nat, pc[t] = "called", Returns(t, res, i),
             word' \in [Addresses -> Words], cancelled' \subseteq Threads
      PROVE  Inv'
  <2>1. /\ pc' = [pc EXCEPT ![t] = "idle"]
        /\ since' = [since EXCEPT ![t] = 0]
        /\ outcome' = [NoOutcome EXCEPT ![t] = Outcome(res, i)]
        /\ UNCHANGED timerVars
        /\ UNCHANGED <<taskTime, tree, signaled, lists, wait, terminating, cancellable>>
    BY <1>3 DEF Returns, timerVars, syncVars
  <2>2. /\ pc' \in [Threads -> {"idle", "called", "waiting", "exited"}]
        /\ \A u \in Threads : Waiting(u)' <=> Waiting(u)
    BY <1>1, <1>3, <2>1 DEF StateTypeOK, Waiting
  <2>3. since' \in [Threads -> 0..Horizon]
    BY <1>1, <2>1, TimeMaxType DEF StateTypeOK
  <2>4. outcome' \in [Threads -> [result : Results, index : Nat]]
    BY <2>1 DEF NoOutcome, Outcome, Results
  <2>5. TimerInv'
    BY <1>1, <2>1, StutterTimer
  <2>6. WaitsAgree'
    BY <1>1, <1>3, <2>1, <2>2, <2>3, <2>4, SameWaits DEF StateTypeOK
  <2> QED
    BY <2>5, <2>6 DEF Inv
<1>4. ASSUME Call(t) PROVE Inv'
  <2>1. /\ pc[t] = "idle"
        /\ pc' = [pc EXCEPT ![t] = "called"]
        /\ since' = [since EXCEPT ![t] = now]
        /\ outcome' = NoOutcome
        /\ UNCHANGED timerVars
        /\ UNCHANGED <<taskTime, word, tree, signaled, lists, wait, terminating, cancelled, cancellable>>
    BY <1>4 DEF Call, Quiet, timerVars, arbiterVars, syncVars
  <2>2. /\ pc' \in [Threads -> {"idle", "called", "waiting", "exited"}]
        /\ \A u \in Threads : Waiting(u)' <=> Waiting(u)
    BY <1>1, <2>1 DEF StateTypeOK, Waiting
  <2>3. since' \in [Threads -> 0..Horizon]
    BY <1>1, <2>1 DEF StateTypeOK, TimerInv, TimerTypeOK
  <2>4. outcome' \in [Threads -> [result : Results, index : Nat]]
    BY <2>1 DEF NoOutcome, Outcome, Results
  <2>5. TimerInv'
    BY <1>1, <2>1, StutterTimer
  <2>6. WaitsAgree'
    BY <1>1, <2>1, <2>2, <2>3, <2>4, SameWaits DEF StateTypeOK
  <2> QED
    BY <2>5, <2>6 DEF Inv
<1>5. ASSUME TerminationRequested(t) PROVE Inv'
  <2>1. /\ pc[t] = "called" /\ Returns(t, "terminated", 0)
        /\ word' = word /\ cancelled' = cancelled
    BY <1>5 DEF TerminationRequested
  <2>2. "terminated" \in Results /\ 0 \in Nat
    BY DEF Results
  <2> QED
    BY <1>1, <1>3, <2>1, <2>2 DEF StateTypeOK
<1>6. ASSUME NEW r \in Requests, NEW d \in Timeouts, NEW p \in Priorities,
             WaitForAddress(t, r, d, p)
      PROVE  Inv'
  <2>1. pc[t] = "called" /\ r.kind \in AddressKinds /\ r.addr \in Addresses /\ p \in Int
    BY <1>2, <1>6 DEF WaitForAddress, Starts
  <2>2. word' \in [Addresses -> Words]
    <3>1. word[r.addr] - 1 \in Int
      BY <1>1, <2>1, ArbiterAssumption DEF StateTypeOK, Words
    <3>2. [word EXCEPT ![r.addr] = Wrap(word[r.addr] - 1)] \in [Addresses -> Words]
      BY <1>1, <2>1, <3>1, StoresWord
    <3>3. word' = word \/ word' = [word EXCEPT ![r.addr] = Wrap(word[r.addr] - 1)]
      BY <1>6 DEF WaitForAddress, DecrementIfLessThan
    <3> QED
      BY <1>1, <3>2, <3>3 DEF StateTypeOK
  <2>3. ASSUME NEW res \in {"state", "timeout"}, Returns(t, res, 0), cancelled' = cancelled
        PROVE  Inv'
    <3>1. res \in Results /\ 0 \in Nat
      BY DEF Results
    <3> QED
      BY <1>1, <1>3, <2>1, <2>2, <2>3, <3>1 DEF StateTypeOK
  <2>4. ASSUME d # 0, tree' = Inserted(r.addr, p, t),
               BeginWait(t, [kind |-> "Address", addr |-> r.addr], d, p),
               UNCHANGED <<syncVars, cancellable>>
        PROVE  Inv'
    <3>1. lists' = lists /\ signaled' = signaled /\ cancellable' = cancellable
      BY <2>4 DEF syncVars
    <3> DEFINE on == [kind |-> "Address", addr |-> r.addr]
    <3>2. on.kind = "Address" /\ on.addr = r.addr /\ BeginWait(t, on, d, p)
      BY <2>4
    <3> HIDE DEF on
    <3> QED
      BY <1>2, <2>1, <2>2, <2>4, <3>1, <3>2, BeginsWait
  <2> QED
    BY <1>6, <2>3, <2>4 DEF WaitForAddress
<1>7. ASSUME NEW r \in Requests, NEW d \in Timeouts, WaitOnObjects(t, r, d) PROVE Inv'
  <2>1. /\ pc[t] = "called" /\ r.kind = "Sync" /\ r.objs \in Seq(Events)
        /\ word' \in [Addresses -> Words]
    BY <1>1, <1>2, <1>7 DEF WaitOnObjects, Starts, StateTypeOK
  <2>2. FirstIndex(r.objs, signaled) \in Nat
    BY <2>1, FirstIndexFinds
  <2>3. ASSUME NEW res \in {"success", "timeout", "cancelled"}, NEW i \in Nat,
               Returns(t, res, i), cancelled' \subseteq cancelled
        PROVE  Inv'
    <3>1. res \in Results /\ cancelled' \subseteq Threads
      BY <1>1, <2>3 DEF Results, StateTypeOK
    <3> QED
      BY <1>3, <2>1, <2>3, <3>1
  <2>4. ASSUME d # 0, lists' = Linked(t, r.objs), cancellable' = cancellable \cup {t},
               BeginWait(t, r, d, 0), UNCHANGED <<tree, signaled>>
        PROVE  Inv'
    BY <1>2, <2>1, <2>4, BeginsWait
  <2> QED
    BY <1>7, <2>2, <2>3, <2>4 DEF WaitOnObjects
<1>8. ASSUME NEW r \in Requests, NEW d \in Timeouts, Sleep(t, r, d) PROVE Inv'
  <2>1. /\ pc[t] = "called" /\ r.kind = "Sleep" /\ d # 0 /\ BeginWait(t, r, d, 0)
        /\ tree' = tree /\ lists' = lists /\ cancellable' = cancellable
        /\ word' = word /\ signaled' = signaled
    BY <1>8 DEF Sleep, Starts, arbiterVars, syncVars
  <2>2. word' \in [Addresses -> Words]
    BY <1>1, <2>1 DEF StateTypeOK
  <2> QED
    BY <1>2, <2>1, <2>2, BeginsWait
<1> QED
  BY <1>4, <1>5, <1>6, <1>7, <1>8

\* Steps that leave the timer and every wait alone.
LEMMA QuietInv ==
    ASSUME Inv, Quiet, UNCHANGED <<tree, lists, since, wait, cancellable>>,
           \A t \in Threads : Waiting(t)' <=> Waiting(t),
           pc' \in [Threads -> {"idle", "called", "waiting", "exited"}],
           word' \in [Addresses -> Words], signaled' \subseteq Events,
           {terminating', cancelled'} \subseteq SUBSET Threads,
           taskTime' = taskTime, TimerInv'
    PROVE  Inv'
<1>1. WaitsAgree /\ StateTypeOK
  BY DEF Inv, WaitsAgree
<1>2. outcome' \in [Threads -> [result : Results, index : Nat]]
  BY DEF Quiet, NoOutcome, Outcome, Results
<1>3. WaitsAgree'
  BY <1>1, <1>2, SameWaits DEF StateTypeOK
<1> QED
  BY <1>3 DEF Inv

LEMMA NoIndexType == NoIndex \in [Threads -> Nat]
BY DEF NoIndex

\* What others do to the waits on an address.
LEMMA WordsInv ==
    ASSUME Inv, NEW a \in Addresses, Word(a)
    PROVE  Inv'
<1>1. WaitsAgree /\ StateTypeOK /\ TimerInv
  BY DEF Inv, WaitsAgree
<1>2. /\ \A v \in Words : v \in Int /\ v + 1 \in Int
      /\ Counts \subseteq Int
  BY ArbiterAssumption, WaitsAssumption DEF Words
<1>3. ASSUME NEW n, WakeAtAddress(Signalled(a, n)), word' \in [Addresses -> Words],
             UNCHANGED <<now, events, firing, wakeup, syncVars, terminating, cancelled, cancellable>>
      PROVE  Inv'
  <2> DEFINE gone == Signalled(a, n)
  <2>1. /\ gone \in SUBSET {t \in Threads : Waiting(t)}
        /\ \A t \in gone : ~AtObjects(t)
        /\ cancellable \ gone = cancellable
    BY <1>1, SignalledSleep
  <2>2. /\ tree' = Erased(gone) /\ Ends(gone, "success", NoIndex) /\ CancelTasks(gone)
        /\ lists' = lists /\ signaled' = signaled
    BY <1>3 DEF WakeAtAddress, syncVars
  <2>3. "success" \in Results
    BY DEF Results
  <2> HIDE DEF gone
  <2> QED
    BY <1>1, <1>3, <2>1, <2>2, <2>3, NoIndexType, WakesWaits DEF StateTypeOK
<1>4. ASSUME NEW v \in Words, Store(a, v) PROVE Inv'
  <2>1. /\ word' = [word EXCEPT ![a] = v] /\ Quiet
        /\ UNCHANGED timerVars
        /\ UNCHANGED <<taskTime, tree, signaled, lists>>
        /\ UNCHANGED <<pc, since, wait, terminating, cancelled, cancellable>>
    BY <1>4 DEF Store, timerVars, syncVars, threadVars
  <2>2. word' \in [Addresses -> Words]
    BY <1>1, <2>1 DEF StateTypeOK
  <2>3. TimerInv'
    BY <1>1, <2>1, StutterTimer
  <2>4. \A t \in Threads : Waiting(t)' <=> Waiting(t)
    BY <2>1 DEF Waiting
  <2> QED
    BY <1>1, <2>1, <2>2, <2>3, <2>4, QuietInv DEF StateTypeOK
<1>5. ASSUME NEW n \in Counts, Signal(a, n) PROVE Inv'
  BY <1>1, <1>3, <1>5 DEF Signal, StateTypeOK
<1>6. ASSUME NEW v \in Words, NEW n \in Counts,
             SignalAndIncrementIfEqual(a, v, n)
      PROVE  Inv'
  <2>1. word' \in [Addresses -> Words]
    BY <1>1, <1>2, <1>6, StoresWord DEF SignalAndIncrementIfEqual
  <2> QED
    BY <1>3, <1>6, <2>1 DEF SignalAndIncrementIfEqual
<1>7. ASSUME NEW v \in Words, NEW n \in Counts,
             SignalAndModifyByWaitingCountIfEqual(a, v, n)
      PROVE  Inv'
  <2>1. word' = [word EXCEPT ![a] = NewValue(a, v, n)]
    BY <1>7 DEF SignalAndModifyByWaitingCountIfEqual
  <2>2. PICK m \in Int : NewValue(a, v, n) = Wrap(m)
    BY <1>2, NewValueWraps
  <2>3. word' \in [Addresses -> Words]
    BY <1>1, <2>1, <2>2, StoresWord
  <2> QED
    BY <1>3, <1>7, <2>3 DEF SignalAndModifyByWaitingCountIfEqual
<1> QED
  BY <1>4, <1>5, <1>6, <1>7 DEF Word

\* What others do to the waits for objects.
LEMMA EventsInv ==
    ASSUME Inv, NEW e \in Signals
    PROVE  /\ SignalEvent(e) => Inv'
           /\ ResetEvent(e) => Inv'
<1>1. WaitsAgree /\ StateTypeOK /\ TimerInv /\ e \in Events
  BY WaitsAssumption DEF Inv, WaitsAgree
<1>2. ASSUME SignalEvent(e) PROVE Inv'
  <2> DEFINE gone == Snapshot(e)
             synced == [t \in Threads |->
                          IF t \in gone THEN FirstIndex(wait[t].on.objs, {e}) ELSE 0]
  <2>1. /\ gone \in SUBSET {t \in Threads : Waiting(t)}
        /\ \A t \in gone : ~AtAddress(t)
    BY <1>1, SnapshotSleep
  <2>2. synced \in [Threads -> Nat]
    BY <1>1, SyncedIndex
  <2>3. /\ signaled' = signaled \cup {e}
        /\ lists' = Unlinked(gone)
        /\ Ends(gone, "success", synced)
        /\ cancellable' = cancellable \ gone
        /\ CancelTasks(gone)
        /\ UNCHANGED <<now, events, firing, wakeup>>
        /\ UNCHANGED <<word, tree, terminating, cancelled>>
    BY <1>2 DEF SignalEvent, arbiterVars
  <2>4. "success" \in Results
    BY DEF Results
  <2>5. word' \in [Addresses -> Words] /\ signaled' \subseteq Events
    BY <1>1, <2>3 DEF StateTypeOK
  <2>6. {terminating', cancelled'} \subseteq SUBSET Threads
    BY <1>1, <2>3 DEF StateTypeOK
  <2> HIDE DEF gone, synced
  <2> QED
    BY <2>1, <2>2, <2>3, <2>4, <2>5, <2>6, WakesWaits
<1>3. ASSUME ResetEvent(e) PROVE Inv'
  <2>1. /\ signaled' = signaled \ {e} /\ Quiet
        /\ UNCHANGED timerVars
        /\ UNCHANGED <<taskTime, word, tree, lists>>
        /\ UNCHANGED <<pc, since, wait, terminating, cancelled, cancellable>>
    BY <1>3 DEF ResetEvent, timerVars, arbiterVars, threadVars
  <2>2. TimerInv'
    BY <1>1, <2>1, StutterTimer
  <2>3. \A t \in Threads : Waiting(t)' <=> Waiting(t)
    BY <2>1 DEF Waiting
  <2> QED
    BY <1>1, <2>1, <2>2, <2>3, QuietInv DEF StateTypeOK
<1> QED
  BY <1>2, <1>3

\* A thread whose task has expired waits, so that do_task ends its wait.
LEMMA FiredWait ==
    ASSUME Inv, NEW fired, fired = DoInterruptTaskImpl, TimerExpires(fired)
    PROVE  /\ fired = {t \in fired : Waiting(t)}
           /\ fired \in SUBSET {t \in Threads : Waiting(t)}
           /\ \A t \in fired : 0 < wait[t].deadline /\ wait[t].deadline <= now
<1>1. fired \in SUBSET Armed(taskTime) /\ \A t \in fired : taskTime[t] <= now
  BY ExpireFiles DEF Inv
<1>2. \A t \in fired : t \in Threads /\ taskTime[t] > 0
  BY <1>1 DEF Armed
<1>3. \A t \in fired : Waiting(t) /\ wait[t].deadline = taskTime[t]
  BY <1>2 DEF Inv, WaitsAgree, TasksAgree
<1> QED
  BY <1>1, <1>2, <1>3

LEMMA DoTaskInv == Inv /\ DoTask => Inv'
<1> SUFFICES ASSUME Inv, DoTask PROVE Inv'
  OBVIOUS
<1>1. WaitsAgree /\ StateTypeOK /\ TimerInv
  BY DEF Inv, WaitsAgree
<1>2. firing /\ firing' = FALSE /\ UNCHANGED <<now, word, signaled, terminating, cancelled>>
  BY DEF DoTask
<1>3. CASE \E fired \in {DoInterruptTaskImpl} :
             LET gone == {t \in fired : Waiting(t)} IN
             TimerExpires(fired) /\ CancelCallbacks(gone) /\ Ends(gone, "timeout", NoIndex)
  <2>1. PICK fired : /\ fired = DoInterruptTaskImpl
                     /\ TimerExpires(fired)
                     /\ CancelCallbacks({t \in fired : Waiting(t)})
                     /\ Ends({t \in fired : Waiting(t)}, "timeout", NoIndex)
    BY <1>3
  <2>2. /\ fired = {t \in fired : Waiting(t)}
        /\ fired \in SUBSET {t \in Threads : Waiting(t)}
    BY <2>1, FiredWait
  <2>3. CancelCallbacks(fired) /\ Ends(fired, "timeout", NoIndex)
    BY <2>1, <2>2
  <2>4. TimerInv'
    BY <1>1, <1>2, <2>1, ExpireTimer
  <2>5. taskTime' = [t \in Threads |-> IF t \in fired THEN 0 ELSE taskTime[t]]
    BY <2>1 DEF TimerExpires
  <2>6. tree' = Erased(fired) /\ lists' = Unlinked(fired) /\ cancellable' = cancellable \ fired
    BY <2>3 DEF CancelCallbacks
  <2>7. "timeout" \in Results
    BY DEF Results
  <2>8. /\ word' \in [Addresses -> Words] /\ signaled' \subseteq Events
        /\ {terminating', cancelled'} \subseteq SUBSET Threads
    BY <1>1, <1>2 DEF StateTypeOK
  <2>9. WaitsAgree'
    BY <2>2, <2>3, <2>5, <2>6, <2>7, <2>8, NoIndexType, EndWaits
  <2> QED
    BY <2>4, <2>9 DEF Inv
<1>4. CASE TimerIsOff /\ Quiet /\ UNCHANGED <<tree, lists, pc, since, wait, cancellable>>
  <2>1. TimerInv' /\ taskTime' = taskTime
    BY <1>1, <1>2, <1>4, OffTimer DEF TimerIsOff, taskVars
  <2>2. \A t \in Threads : Waiting(t)' <=> Waiting(t)
    BY <1>4 DEF Waiting
  <2> QED
    BY <1>1, <1>2, <1>4, <2>1, <2>2, QuietInv DEF StateTypeOK
<1> QED
  BY <1>3, <1>4 DEF DoTask

\* A wait that is cancelled, by CancelSynchronization or a termination.
LEMMA CancelInv ==
    ASSUME Inv, NEW t \in Threads
    PROVE  /\ CancelSynchronization(t) => Inv'
           /\ RequestTerminate(t) => Inv'
           /\ Exit(t) => Inv'
<1>1. WaitsAgree /\ StateTypeOK /\ TimerInv
  BY DEF Inv, WaitsAgree
<1>2. ASSUME NEW res \in Results, Waiting(t), CancelCallbacks({t}), Ends({t}, res, NoIndex),
             CancelTasks({t}), UNCHANGED <<now, events, firing, wakeup>>,
             UNCHANGED <<word, signaled>>, {terminating', cancelled'} \subseteq SUBSET Threads
      PROVE  Inv'
  <2>1. {t} \in SUBSET {u \in Threads : Waiting(u)}
    BY <1>2
  <2>2. tree' = Erased({t}) /\ lists' = Unlinked({t}) /\ cancellable' = cancellable \ {t}
    BY <1>2 DEF CancelCallbacks
  <2>3. word' \in [Addresses -> Words] /\ signaled' \subseteq Events
    BY <1>1, <1>2 DEF StateTypeOK
  <2> QED
    BY <1>2, <2>1, <2>2, <2>3, NoIndexType, WakesWaits
<1>3. ASSUME Quiet, UNCHANGED <<timerVars, tree, lists, pc, since, wait, cancellable>>,
             UNCHANGED <<word, signaled>>, {terminating', cancelled'} \subseteq SUBSET Threads
      PROVE  Inv'
  <2>1. TimerInv' /\ taskTime' = taskTime
    BY <1>1, <1>3, StutterTimer DEF timerVars
  <2>2. \A u \in Threads : Waiting(u)' <=> Waiting(u)
    BY <1>3 DEF Waiting
  <2> QED
    BY <1>1, <1>3, <2>1, <2>2, QuietInv DEF StateTypeOK
<1>4. ASSUME CancelSynchronization(t) PROVE Inv'
  <2>1. /\ {terminating', cancelled'} \subseteq SUBSET Threads
        /\ UNCHANGED <<word, signaled>>
    BY <1>1, <1>4 DEF CancelSynchronization, StateTypeOK
  <2>2. "cancelled" \in Results
    BY DEF Results
  <2>3. CASE Waiting(t) /\ t \in cancellable
    BY <1>2, <1>4, <2>1, <2>2, <2>3 DEF CancelSynchronization
  <2>4. CASE ~(Waiting(t) /\ t \in cancellable)
    BY <1>3, <1>4, <2>1, <2>4 DEF CancelSynchronization
  <2> QED
    BY <2>3, <2>4
<1>5. ASSUME RequestTerminate(t) PROVE Inv'
  <2>1. /\ {terminating', cancelled'} \subseteq SUBSET Threads
        /\ UNCHANGED <<word, signaled>>
    BY <1>1, <1>5 DEF RequestTerminate, StateTypeOK
  <2>2. "terminated" \in Results
    BY DEF Results
  <2>3. CASE Waiting(t)
    BY <1>2, <1>5, <2>1, <2>2, <2>3 DEF RequestTerminate
  <2>4. CASE ~Waiting(t)
    BY <1>3, <1>5, <2>1, <2>4 DEF RequestTerminate
  <2> QED
    BY <2>3, <2>4
<1>6. ASSUME Exit(t) PROVE Inv'
  <2>1. /\ pc[t] = "idle" /\ pc' = [pc EXCEPT ![t] = "exited"] /\ Quiet
        /\ UNCHANGED timerVars
        /\ UNCHANGED <<taskTime, word, tree, signaled, lists>>
        /\ UNCHANGED <<since, wait, terminating, cancelled, cancellable>>
    BY <1>6 DEF Exit, timerVars, arbiterVars, syncVars
  <2>2. TimerInv'
    BY <1>1, <2>1, StutterTimer
  <2>3. /\ pc' \in [Threads -> {"idle", "called", "waiting", "exited"}]
        /\ \A u \in Threads : Waiting(u)' <=> Waiting(u)
    BY <1>1, <2>1 DEF StateTypeOK, Waiting
  <2> QED
    BY <1>1, <2>1, <2>2, <2>3, QuietInv DEF StateTypeOK
<1> QED
  BY <1>4, <1>5, <1>6

\* The clock and the timing thread.
LEMMA TimeInv == Inv /\ (Clock \/ TimingThread) => Inv'
<1> SUFFICES ASSUME Inv, Clock \/ TimingThread PROVE Inv'
  OBVIOUS
<1>1. WaitsAgree /\ StateTypeOK /\ TimerInv
  BY DEF Inv, WaitsAgree
<1>2. /\ Quiet
      /\ Tick \/ Advance
      /\ UNCHANGED <<word, tree, signaled, lists>>
      /\ UNCHANGED <<pc, since, wait, terminating, cancelled, cancellable>>
  BY DEF Clock, TimingThread, arbiterVars, syncVars, threadVars
<1>3. TimerInv'
  BY <1>1, <1>2, TickTimer, AdvanceTimer
<1>4. taskTime' = taskTime
  BY <1>2 DEF Tick, Advance
<1>5. \A t \in Threads : Waiting(t)' <=> Waiting(t)
  BY <1>2 DEF Waiting
<1> QED
  BY <1>1, <1>2, <1>3, <1>4, <1>5, QuietInv DEF StateTypeOK

LEMMA InitInv == Init => Inv
<1> SUFFICES ASSUME Init PROVE Inv
  OBVIOUS
<1>1. /\ TimerInit
      /\ word \in [Addresses -> {0}]
      /\ tree = [a \in Addresses |-> <<>>]
      /\ signaled = {}
      /\ lists = [e \in Events |-> {}]
      /\ pc = [t \in Threads |-> "idle"]
      /\ since = [t \in Threads |-> 0]
      /\ wait = [t \in Threads |-> NoWait]
      /\ outcome = NoOutcome
      /\ terminating = {} /\ cancelled = {} /\ cancellable = {}
  BY DEF Init, ArbiterInit, SyncInit
<1>2. TimerInv
  BY <1>1, InitTimer
<1>3. \A t \in Threads : ~Waiting(t) /\ ~AtAddress(t) /\ ~AtObjects(t)
  BY <1>1 DEF Waiting, AtAddress, AtObjects, NoWait
<1>4. StateTypeOK
  <2>1. 0 \in Words /\ 0 \in 0..Horizon
    BY ArbiterAssumption, TimeMaxType DEF Words
  <2>2. outcome \in [Threads -> [result : Results, index : Nat]]
    BY <1>1 DEF NoOutcome, Outcome, Results
  <2> QED
    BY <1>1, <2>1, <2>2 DEF StateTypeOK
<1>5. WaitsTyped
  <2>1. \A t \in Threads : WaitOK(t)
    BY <1>1, <1>3, TimeMaxType DEF WaitOK, NoWait
  <2> QED
    BY <1>1, <2>1 DEF WaitsTyped
<1>6. TreesAgree
  <2>1. \A a \in Addresses : tree[a] = <<>> /\ Sleepers(a) = {}
    BY <1>1, <1>3 DEF Sleepers
  <2>2. Range(<<>>) = {} /\ InOrder(<<>>, ByPrio)
    BY DEF Range, InOrder
  <2> QED
    BY <2>1, <2>2 DEF TreesAgree
<1>7. ListsAgree /\ CancellableAgrees
  BY <1>1, <1>3 DEF ListsAgree, CancellableAgrees
<1>8. TasksAgree
  BY <1>1, <1>3 DEF TasksAgree, TimerInit
<1> QED
  BY <1>2, <1>4, <1>5, <1>6, <1>7, <1>8 DEF Inv, WaitsAgree

LEMMA NextInv == Inv /\ [Next]_vars => Inv'
<1> SUFFICES ASSUME Inv, [Next]_vars PROVE Inv'
  OBVIOUS
<1>1. ASSUME NEW t \in Threads, Thread(t) PROVE Inv'
  <2>1. CASE \E r \in Requests, d \in Timeouts :
               \/ \E p \in Priorities : WaitForAddress(t, r, d, p)
               \/ WaitOnObjects(t, r, d)
               \/ Sleep(t, r, d)
    BY <2>1, CallsInv
  <2>2. CASE Call(t) \/ TerminationRequested(t)
    BY <2>2, CallsInv
  <2>3. CASE CancelSynchronization(t) \/ RequestTerminate(t) \/ Exit(t)
    BY <2>3, CancelInv
  <2> QED
    BY <1>1, <2>1, <2>2, <2>3 DEF Thread
<1>2. ASSUME NEW a \in Addresses, Word(a) PROVE Inv'
  BY <1>2, WordsInv
<1>3. ASSUME NEW e \in Signals, SignalEvent(e) \/ ResetEvent(e) PROVE Inv'
  BY <1>3, EventsInv
<1>4. CASE UNCHANGED vars
  <2>1. UNCHANGED timerVars /\ UNCHANGED <<taskTime, word, tree, signaled, lists, outcome>>
        /\ UNCHANGED <<pc, since, wait, terminating, cancelled, cancellable>>
    BY <1>4 DEF vars, timerVars, arbiterVars, syncVars, threadVars
  <2>2. WaitsAgree /\ StateTypeOK /\ TimerInv'
    BY <2>1, StutterTimer DEF Inv, WaitsAgree
  <2>3. \A t \in Threads : Waiting(t)' <=> Waiting(t)
    BY <2>1 DEF Waiting
  <2>4. WaitsAgree'
    BY <2>1, <2>2, <2>3, SameWaits DEF StateTypeOK
  <2> QED
    BY <2>2, <2>4 DEF Inv
<1> QED
  BY <1>1, <1>2, <1>3, <1>4, TimeInv, DoTaskInv DEF Next

LEMMA Inductive == Spec => []Inv
<1> QED
  BY InitInv, NextInv, PTL DEF Spec

-----------------------------------------------------------------------------
\* A thread is at one place of one tree.
LEMMA TreePlaces ==
    ASSUME WaitsAgree, NEW a \in Addresses
    PROVE  /\ Len(tree[a]) \in Nat /\ DOMAIN tree[a] = 1..Len(tree[a])
           /\ WaitersOf(a) = Sleepers(a)
           /\ \A i \in DOMAIN tree[a] : /\ tree[a][i].thread \in Sleepers(a)
                                        /\ tree[a][i].prio = wait[tree[a][i].thread].prio
           /\ \A i, j \in DOMAIN tree[a] :
                /\ i < j => /\ tree[a][i].thread # tree[a][j].thread
                            /\ tree[a][i].prio <= tree[a][j].prio
                /\ tree[a][i].thread = tree[a][j].thread => i = j
<1>1. tree[a] \in Seq(WaitersType)
  BY DEF WaitsAgree, StateTypeOK
<1>2. Len(tree[a]) \in Nat /\ DOMAIN tree[a] = 1..Len(tree[a])
  BY <1>1, LenProperties
<1>3. Range(tree[a]) = {Waiter(wait[t].prio, t) : t \in Sleepers(a)} /\ InOrder(tree[a], ByPrio)
  BY DEF WaitsAgree, TreesAgree
<1>4. \A i \in DOMAIN tree[a] : /\ tree[a][i].thread \in Sleepers(a)
                                /\ tree[a][i].prio = wait[tree[a][i].thread].prio
  BY <1>3 DEF Range, Waiter
<1>5. \A t \in Sleepers(a) : \E i \in DOMAIN tree[a] : tree[a][i].thread = t
  <2> SUFFICES ASSUME NEW t \in Sleepers(a)
               PROVE  \E i \in DOMAIN tree[a] : tree[a][i].thread = t
    OBVIOUS
  <2>1. PICK i \in DOMAIN tree[a] : tree[a][i] = Waiter(wait[t].prio, t)
    BY <1>3 DEF Range
  <2> QED
    BY <2>1 DEF Waiter
<1>6. WaitersOf(a) = Sleepers(a)
  BY <1>4, <1>5 DEF WaitersOf
<1>7. \A i, j \in DOMAIN tree[a] : i < j => <<tree[a][i], tree[a][j]>> \in ByPrio
  BY <1>3 DEF InOrder
<1>8. \A i, j \in DOMAIN tree[a] :
        i < j => /\ tree[a][i].thread # tree[a][j].thread
                 /\ tree[a][i].prio <= tree[a][j].prio
  BY <1>7 DEF ByPrio
<1>9. \A i, j \in DOMAIN tree[a] : i < j \/ j < i \/ i = j
  BY <1>2
<1> QED
  BY <1>2, <1>4, <1>6, <1>8, <1>9

LEMMA InvTypes == Inv => TypeOK
<1> SUFFICES ASSUME Inv PROVE TypeOK
  OBVIOUS
<1>1. WaitsAgree /\ StateTypeOK /\ TimerInv /\ TimerTypeOK
  BY DEF Inv, WaitsAgree, TimerInv
<1>2. events \in [1..Horizon -> 0..2]
  <2>1. IsFiniteSet(Pending(events)) /\ Cardinality(Pending(events)) <= 2
    <3>1. Cardinality(Pending(events)) \in Nat
      BY <1>1, FS_CardinalityType DEF TimerInv, EventsBounded
    <3> QED
      BY <1>1, <3>1 DEF TimerInv, EventsBounded
  <2>2. \A i \in 1..Horizon : events[i] \in 0..2
    BY <1>1, <2>1, PendingAtMost DEF TimerTypeOK
  <2> QED
    BY <1>1, <2>2 DEF TimerTypeOK
<1>3. \A a \in Addresses : WaitersOf(a) \subseteq Threads
  BY <1>1, TreePlaces DEF Sleepers
<1>4. \A e \in Events : Snapshot(e) \subseteq Threads
  BY <1>1, SnapshotSleep
<1>5. cancellable \subseteq Threads
  BY <1>1 DEF WaitsAgree, CancellableAgrees
<1> QED
  BY <1>1, <1>2, <1>3, <1>4, <1>5 DEF TypeOK, StateTypeOK, TimerTypeOK

LEMMA InvAgrees == Inv => QueuesAgree
<1> SUFFICES ASSUME Inv PROVE QueuesAgree
  OBVIOUS
<1>1. WaitsAgree /\ TimerInv
  BY DEF Inv
<1>2. ASSUME NEW a \in Addresses
      PROVE  /\ IsInjective([i \in DOMAIN tree[a] |-> tree[a][i].thread])
             /\ WaitersOf(a) = {t \in Threads : AtAddress(t) /\ wait[t].on.addr = a}
  BY <1>1, TreePlaces DEF IsInjective, Sleepers
<1>3. ASSUME NEW e \in Events
      PROVE  lists[e] =
               UNION {{Node(t, i) : i \in {j \in DOMAIN wait[t].on.objs :
                                              wait[t].on.objs[j] = e}} :
                       t \in {u \in Threads : AtObjects(u)}}
  BY <1>1 DEF WaitsAgree, ListsAgree, NodesOf
<1>4. {<<taskTree[k].time, taskTree[k].thread>> : k \in DOMAIN taskTree} =
        {<<taskTime[t], t>> : t \in {u \in Threads : taskTime[u] > 0}}
  <2>1. Range(taskTree) = {Task(taskTime[t], t) : t \in Armed(taskTime)}
    BY <1>1 DEF TimerInv, Files
  <2>2. ASSUME NEW k \in DOMAIN taskTree
        PROVE  \E t \in Armed(taskTime) : taskTree[k].time = taskTime[t] /\ taskTree[k].thread = t
    BY <2>1 DEF Range, Task
  <2>3. ASSUME NEW t \in Armed(taskTime)
        PROVE  \E k \in DOMAIN taskTree : taskTree[k].time = taskTime[t] /\ taskTree[k].thread = t
    <3>1. PICK k \in DOMAIN taskTree : taskTree[k] = Task(taskTime[t], t)
      BY <2>1 DEF Range
    <3> QED
      BY <3>1 DEF Task
  <2> QED
    BY <2>2, <2>3 DEF Armed
<1> QED
  BY <1>1, <1>2, <1>3, <1>4 DEF QueuesAgree, WaitsAgree, TasksAgree, CancellableAgrees

LEMMA InvCovers == Inv => TimerCovers
<1> SUFFICES ASSUME Inv PROVE TimerCovers
  OBVIOUS
<1>1. TimerInv /\ nextTask = First(taskTree) /\ WakesInTime /\ EventComes
  BY DEF Inv, TimerInv
<1>2. ASSUME NEW k \in DOMAIN taskTree, taskTree[k].time < TimeMax
      PROVE  /\ wakeup <= taskTree[k].time
             /\ firing \/ \E i \in 1..taskTree[k].time : events[i] > 0
  <2>1. taskTree[k] \in Range(taskTree)
    BY DEF Range
  <2>2. taskTree[k].time \in 1..TimeMax /\ wakeup \in 1..TimeMax
    BY <1>1, <2>1, TreeHoldsTasks DEF TimerInv, TimerTypeOK, Tasks
  <2>3. wakeup <= taskTree[k].time
    BY <1>1, <1>2, <2>1 DEF WakesInTime
  <2>4. wakeup < TimeMax /\ 1..wakeup \subseteq 1..taskTree[k].time
    BY <1>2, <2>2, <2>3, TimeMaxType
  <2> QED
    BY <1>1, <2>3, <2>4 DEF EventComes
<1> QED
  BY <1>1, <1>2 DEF TimerCovers

-----------------------------------------------------------------------------
\* Every step ends no wait and wakes nobody with success, or is a signal of a
\* word or an event, or ends the waits of some threads for another reason.
NoneEnds ==
    \A t \in Threads : Waiting(t) => pc'[t] = "waiting" /\ outcome'[t].result = "none"

EndsOtherwise(gone) ==
    /\ gone \subseteq Threads
    /\ \/ /\ Ends(gone, "timeout", NoIndex)
          /\ \A t \in gone : 0 < wait[t].deadline /\ wait[t].deadline <= now
       \/ Ends(gone, "cancelled", NoIndex) /\ \A t \in gone : AtObjects(t)
       \/ Ends(gone, "terminated", NoIndex) /\ gone \subseteq terminating'

StepKind ==
    \/ NoneEnds
    \/ \E a \in Addresses, n \in Counts : WakeAtAddress(Signalled(a, n))
    \/ \E e \in Signals : SignalEvent(e)
    \/ \E gone \in SUBSET Threads : EndsOtherwise(gone)

LEMMA StepKinds == Inv /\ Next => StepKind
<1> SUFFICES ASSUME Inv, Next PROVE StepKind
  OBVIOUS
<1>1. /\ pc \in [Threads -> {"idle", "called", "waiting", "exited"}]
      /\ cancellable = {t \in Threads : AtObjects(t)}
  BY DEF Inv, WaitsAgree, StateTypeOK, CancellableAgrees
<1>2. ASSUME Quiet, pc' = pc PROVE NoneEnds
  BY <1>2 DEF NoneEnds, Quiet, NoOutcome, Outcome, Waiting
<1>3. ASSUME NEW t \in Threads, pc[t] # "waiting",
             NEW v, pc' = [pc EXCEPT ![t] = v],
             NEW res, NEW i, \/ outcome' = NoOutcome
                             \/ outcome' = [NoOutcome EXCEPT ![t] = Outcome(res, i)]
      PROVE  NoneEnds
  <2> SUFFICES ASSUME NEW u \in Threads, Waiting(u)
               PROVE  pc'[u] = "waiting" /\ outcome'[u].result = "none"
    BY DEF NoneEnds
  <2>1. u # t
    BY <1>3 DEF Waiting
  <2>2. outcome'[u] = Outcome("none", 0)
    BY <1>3, <2>1 DEF NoOutcome
  <2> QED
    BY <1>1, <1>3, <2>1, <2>2 DEF Waiting, Outcome
<1>4. ASSUME NEW t \in Threads, Thread(t) PROVE StepKind
  <2>1. CASE Call(t) \/ Exit(t)
    BY <1>3, <2>1 DEF Call, Exit, Quiet, StepKind
  <2>2. ASSUME pc[t] = "called", NEW res, NEW i, Returns(t, res, i) PROVE StepKind
    BY <1>3, <2>2 DEF Returns, StepKind
  <2>3. ASSUME pc[t] = "called", NEW on, NEW d, NEW p, BeginWait(t, on, d, p) PROVE StepKind
    BY <1>3, <2>3 DEF BeginWait, Quiet, StepKind
  <2>4. CASE TerminationRequested(t)
    BY <2>2, <2>4 DEF TerminationRequested
  <2>5. ASSUME NEW r \in Requests, NEW d \in Timeouts, NEW p \in Priorities,
               WaitForAddress(t, r, d, p)
        PROVE  StepKind
    BY <2>2, <2>3, <2>5 DEF WaitForAddress, Starts
  <2>6. ASSUME NEW r \in Requests, NEW d \in Timeouts, WaitOnObjects(t, r, d) PROVE StepKind
    BY <2>2, <2>3, <2>6 DEF WaitOnObjects, Starts
  <2>7. ASSUME NEW r \in Requests, NEW d \in Timeouts, Sleep(t, r, d) PROVE StepKind
    BY <2>3, <2>7 DEF Sleep, Starts
  <2>8. CASE CancelSynchronization(t)
    <3>1. CASE Waiting(t) /\ t \in cancellable
      <4>1. Ends({t}, "cancelled", NoIndex) /\ AtObjects(t)
        BY <1>1, <2>8, <3>1 DEF CancelSynchronization
      <4>2. EndsOtherwise({t})
        BY <4>1 DEF EndsOtherwise
      <4> QED
        BY <4>2 DEF StepKind
    <3>2. CASE ~(Waiting(t) /\ t \in cancellable)
      BY <1>2, <2>8, <3>2 DEF CancelSynchronization, StepKind
    <3> QED
      BY <3>1, <3>2
  <2>9. CASE RequestTerminate(t)
    <3>1. CASE Waiting(t)
      <4>1. Ends({t}, "terminated", NoIndex) /\ t \in terminating'
        BY <2>9, <3>1 DEF RequestTerminate
      <4>2. EndsOtherwise({t})
        BY <4>1 DEF EndsOtherwise
      <4> QED
        BY <4>2 DEF StepKind
    <3>2. CASE ~Waiting(t)
      BY <1>2, <2>9, <3>2 DEF RequestTerminate, StepKind
    <3> QED
      BY <3>1, <3>2
  <2> QED
    BY <1>4, <2>1, <2>4, <2>5, <2>6, <2>7, <2>8, <2>9 DEF Thread
<1>5. ASSUME NEW a \in Addresses, Word(a) PROVE StepKind
  <2>1. ASSUME NEW v \in Words, Store(a, v) PROVE StepKind
    BY <1>2, <2>1 DEF Store, threadVars, StepKind
  <2>2. ASSUME NEW n \in Counts, WakeAtAddress(Signalled(a, n)) PROVE StepKind
    BY <2>2 DEF StepKind
  <2> QED
    BY <1>5, <2>1, <2>2 DEF Word, Signal, SignalAndIncrementIfEqual,
       SignalAndModifyByWaitingCountIfEqual
<1>6. ASSUME NEW e \in Signals, SignalEvent(e) \/ ResetEvent(e) PROVE StepKind
  BY <1>2, <1>6 DEF ResetEvent, threadVars, StepKind
<1>7. CASE Clock \/ TimingThread
  BY <1>2, <1>7 DEF Clock, TimingThread, threadVars, StepKind
<1>8. CASE DoTask
  <2>1. ASSUME NEW fired, fired = DoInterruptTaskImpl, TimerExpires(fired),
               Ends({t \in fired : Waiting(t)}, "timeout", NoIndex)
        PROVE  StepKind
    <3>1. /\ fired = {t \in fired : Waiting(t)}
          /\ fired \in SUBSET Threads
          /\ \A t \in fired : 0 < wait[t].deadline /\ wait[t].deadline <= now
      BY <2>1, FiredWait
    <3>2. EndsOtherwise(fired)
      BY <2>1, <3>1 DEF EndsOtherwise
    <3> QED
      BY <3>1, <3>2 DEF StepKind
  <2>2. CASE Quiet /\ pc' = pc
    BY <1>2, <2>2 DEF StepKind
  <2> QED
    BY <1>8, <2>1, <2>2 DEF DoTask
<1> QED
  BY <1>4, <1>5, <1>6, <1>7, <1>8 DEF Next

\* The waits that end in such a step are those of gone.
LEMMA EndsMeans ==
    ASSUME NEW gone, NEW res, NEW synced, Ends(gone, res, synced), NEW t \in Threads
    PROVE  /\ t \in gone => pc'[t] = "idle" /\ outcome'[t].result = res
                                            /\ outcome'[t].index = synced[t]
           /\ t \notin gone => pc'[t] = pc[t] /\ outcome'[t].result = "none"
BY DEF Ends, Outcome

\* A wait ends for the reason it returns.
EndsRight(t) ==
    \/ outcome'[t].result = "timeout" /\ 0 < wait[t].deadline /\ wait[t].deadline <= now
    \/ outcome'[t].result = "cancelled" /\ AtObjects(t)
    \/ outcome'[t].result = "terminated" /\ t \in terminating'
    \/ outcome'[t].result = "success" /\ AtAddress(t)
    \/ /\ outcome'[t].result = "success"
       /\ AtObjects(t)
       /\ wait[t].on.objs[outcome'[t].index] \in signaled' \ signaled

LEMMA StepsEndRight ==
    ASSUME Inv, Next, NEW t \in Threads, Waiting(t), pc'[t] # "waiting"
    PROVE  EndsRight(t)
<1>1. WaitsAgree /\ pc[t] = "waiting"
  BY DEF Inv, Waiting
<1>2. CASE NoneEnds
  BY <1>2 DEF NoneEnds
<1>3. ASSUME NEW a \in Addresses, NEW n \in Counts, WakeAtAddress(Signalled(a, n))
      PROVE  EndsRight(t)
  <2>1. Ends(Signalled(a, n), "success", NoIndex)
    BY <1>3 DEF WakeAtAddress
  <2>2. t \in Signalled(a, n) /\ outcome'[t].result = "success"
    BY <1>1, <2>1, EndsMeans
  <2>3. AtAddress(t)
    BY <1>1, <2>2, SignalledSleep DEF Sleepers
  <2> QED
    BY <2>2, <2>3 DEF EndsRight
<1>4. ASSUME NEW e \in Signals, SignalEvent(e) PROVE EndsRight(t)
  <2> DEFINE synced == [u \in Threads |->
                          IF u \in Snapshot(e) THEN FirstIndex(wait[u].on.objs, {e}) ELSE 0]
  <2>1. /\ e \in Events
        /\ e \notin signaled /\ signaled' = signaled \cup {e}
        /\ Ends(Snapshot(e), "success", synced)
    BY <1>4, WaitsAssumption DEF SignalEvent
  <2> HIDE DEF synced
  <2>2. /\ t \in Snapshot(e) /\ outcome'[t].result = "success"
        /\ outcome'[t].index = synced[t]
    BY <1>1, <2>1, EndsMeans
  <2>3. outcome'[t].index = FirstIndex(wait[t].on.objs, {e})
    BY <2>2 DEF synced
  <2>4. AtObjects(t) /\ wait[t].on.objs[FirstIndex(wait[t].on.objs, {e})] = e
    BY <1>1, <2>1, <2>2, SnapshotSleep, SyncedIndex
  <2>5. wait[t].on.objs[outcome'[t].index] = e
    BY <2>3, <2>4
  <2> QED
    BY <2>1, <2>2, <2>4, <2>5 DEF EndsRight
<1>5. ASSUME NEW gone \in SUBSET Threads, EndsOtherwise(gone) PROVE EndsRight(t)
  BY <1>1, <1>5, EndsMeans DEF EndsOtherwise, EndsRight
<1> QED
  BY <1>2, <1>3, <1>4, <1>5, StepKinds DEF StepKind

\* The waiters that a signal wakes are the first of the tree.
LEMMA SignalledFirst ==
    ASSUME WaitsAgree, NEW a \in Addresses, NEW n \in Int, NEW i \in DOMAIN tree[a]
    PROVE  tree[a][i].thread \in Signalled(a, n) <=> n <= 0 \/ i <= n
<1>1. \A j \in DOMAIN tree[a] : tree[a][i].thread = tree[a][j].thread => i = j
  BY TreePlaces
<1> QED
  BY <1>1 DEF Signalled

LEMMA StepsWakeInOrder ==
    ASSUME Inv, Next, NEW a \in Addresses
    PROVE  WakesInOrder(a)
<1> SUFFICES ASSUME NEW i \in DOMAIN tree[a], NEW j \in DOMAIN tree[a],
                    NEW t, t = tree[a][i].thread, NEW u, u = tree[a][j].thread,
                    outcome'[u].result = "success", pc'[u] # "waiting",
                    \/ wait[t].prio < wait[u].prio
                    \/ wait[t].prio = wait[u].prio /\ i < j
             PROVE  pc'[t] # "waiting"
  BY DEF WakesInOrder
<1>1. WaitsAgree
  BY DEF Inv
<1>2. t \in Sleepers(a) /\ u \in Sleepers(a)
  BY <1>1, TreePlaces
<1>3. /\ t \in Threads /\ u \in Threads
      /\ Waiting(u) /\ AtAddress(u) /\ ~AtObjects(u)
      /\ wait[t].prio \in Int /\ wait[u].prio \in Int
  BY <1>1, <1>2, WaitKinds DEF Sleepers
<1>4. i \in Nat /\ j \in Nat /\ i <= j
  <2>1. i \in Nat /\ j \in Nat
    BY <1>1, TreePlaces
  <2>2. j < i => tree[a][j].prio <= tree[a][i].prio
    BY <1>1, TreePlaces
  <2>3. tree[a][i].prio = wait[t].prio /\ tree[a][j].prio = wait[u].prio
    BY <1>1, TreePlaces
  <2> QED
    BY <1>3, <2>1, <2>2, <2>3
<1>5. CASE NoneEnds
  BY <1>3, <1>5 DEF NoneEnds
<1>6. ASSUME NEW b \in Addresses, NEW n \in Counts, WakeAtAddress(Signalled(b, n))
      PROVE  pc'[t] # "waiting"
  <2>1. Ends(Signalled(b, n), "success", NoIndex) /\ n \in Int
    BY <1>6, WaitsAssumption DEF WakeAtAddress
  <2>2. u \in Signalled(b, n)
    BY <1>3, <2>1, EndsMeans DEF Waiting
  <2>3. b = a
    <3>1. u \in Sleepers(b)
      BY <1>1, <2>2, SignalledSleep
    <3> QED
      BY <1>2, <3>1 DEF Sleepers
  <2>4. n <= 0 \/ j <= n
    BY <1>1, <2>1, <2>2, <2>3, SignalledFirst
  <2>5. t \in Signalled(b, n)
    <3>1. n <= 0 \/ i <= n
      BY <1>4, <2>1, <2>4
    <3> QED
      BY <1>1, <2>1, <2>3, <3>1, SignalledFirst
  <2> QED
    BY <1>3, <2>1, <2>5, EndsMeans
<1>7. ASSUME NEW e \in Signals, SignalEvent(e) PROVE FALSE
  <2>1. PICK synced : Ends(Snapshot(e), "success", synced)
    BY <1>7 DEF SignalEvent
  <2>2. u \in Snapshot(e)
    BY <1>3, <2>1, EndsMeans
  <2> QED
    BY <1>1, <1>3, <2>2, SnapshotSleep, WaitsAssumption
<1>8. ASSUME NEW gone \in SUBSET Threads, EndsOtherwise(gone) PROVE FALSE
  BY <1>3, <1>8, EndsMeans DEF EndsOtherwise
<1> QED
  BY <1>5, <1>6, <1>7, <1>8, StepKinds DEF StepKind

\* signal_and_modify_by_waiting_count_if_equal leaves value alone if and only if
\* it leaves a waiter behind.
LEMMA WordsTell ==
    ASSUME Inv, NEW a \in Addresses, NEW n \in Counts,
           SignalAndModifyByWaitingCountIfEqual(a, word[a], n)
    PROVE  WordTells(a, word[a], n)
<1>1. WaitsAgree /\ StateTypeOK /\ n \in Int
  BY WaitsAssumption DEF Inv, WaitsAgree
<1>2. word[a] \in Words /\ word[a] \in Int
  BY <1>1, ArbiterAssumption DEF StateTypeOK, Words
<1>3. /\ word' = [word EXCEPT ![a] = NewValue(a, word[a], n)]
      /\ tree' = Erased(Signalled(a, n))
  BY DEF SignalAndModifyByWaitingCountIfEqual, WakeAtAddress
<1>4. word'[a] = NewValue(a, word[a], n)
  BY <1>1, <1>3 DEF StateTypeOK
<1>5. /\ tree[a] \in Seq(WaitersType) /\ Len(tree[a]) \in Nat
      /\ DOMAIN tree[a] = 1..Len(tree[a])
  BY <1>1, LenProperties DEF StateTypeOK
<1>6. tree[a] = <<>> <=> Len(tree[a]) = 0
  BY <1>5, EmptySeq
<1>7. tree'[a] = <<>> <=> \A t \in Sleepers(a) : t \in Signalled(a, n)
  <2>1. Signalled(a, n) \in SUBSET Threads
    BY <1>1, SignalledSleep
  <2>2. /\ tree' \in [Addresses -> Seq(WaitersType)]
        /\ Range(tree'[a]) = {Waiter(wait[t].prio, t) : t \in Sleepers(a) \ Signalled(a, n)}
    BY <1>1, <1>3, <2>1, ErasedTrees
  <2>3. /\ tree'[a] \in Seq(WaitersType) /\ Len(tree'[a]) \in Nat
        /\ DOMAIN tree'[a] = 1..Len(tree'[a])
    BY <2>2, LenProperties
  <2>4. tree'[a] = <<>> <=> Range(tree'[a]) = {}
    <3>1. tree'[a] = <<>> => Range(tree'[a]) = {}
      BY DEF Range
    <3>2. tree'[a] # <<>> => 1 \in DOMAIN tree'[a]
      BY <2>3, EmptySeq
    <3> QED
      BY <3>1, <3>2 DEF Range
  <2> QED
    BY <2>2, <2>4
<1>8. (\A t \in Sleepers(a) : t \in Signalled(a, n)) <=> n <= 0 \/ Len(tree[a]) <= n
  <2>1. (\A t \in Sleepers(a) : t \in Signalled(a, n)) <=>
          \A i \in DOMAIN tree[a] : n <= 0 \/ i <= n
    <3>1. WaitersOf(a) = Sleepers(a)
      BY <1>1, TreePlaces
    <3>2. \A i \in DOMAIN tree[a] : tree[a][i].thread \in Signalled(a, n) <=> n <= 0 \/ i <= n
      BY <1>1, SignalledFirst
    <3> QED
      BY <3>1, <3>2 DEF WaitersOf
  <2> QED
    BY <1>1, <1>5, <2>1
<1>9. Wrap(word[a]) = word[a]
  BY <1>2, Wraps
<1>10. CASE tree[a] = <<>>
  BY <1>4, <1>10 DEF WordTells, NewValue
<1>11. CASE tree[a] # <<>> /\ n <= 0
  BY <1>4, <1>7, <1>8, <1>11 DEF WordTells, NewValue
<1>12. CASE tree[a] # <<>> /\ ~(n <= 0)
  <2>1. Len(tree[a]) - 1 < n <=> Len(tree[a]) <= n
    BY <1>1, <1>5
  <2> QED
    BY <1>4, <1>7, <1>8, <1>9, <1>12, <2>1 DEF WordTells, NewValue
<1> QED
  BY <1>10, <1>11, <1>12

\* A wait for objects begins only if none of them is signalled, and the signal of
\* an event ends every wait that has a handle to it.
LEMMA SleepersStep == Inv /\ SleepersUnsignaled /\ [Next]_vars => SleepersUnsignaled'
<1> SUFFICES ASSUME Inv, SleepersUnsignaled, [Next]_vars PROVE SleepersUnsignaled'
  OBVIOUS
<1>1. /\ WaitsAgree
      /\ wait = [t \in Threads |-> wait[t]]
  BY DEF Inv, WaitsAgree, WaitsTyped
<1>2. ASSUME NEW u \in Threads, AtObjects(u), wait'[u] = wait[u], signaled' \subseteq signaled
      PROVE  \A i \in DOMAIN wait'[u].on.objs : wait'[u].on.objs[i] \notin signaled'
  BY <1>2 DEF SleepersUnsignaled
<1>3. ASSUME wait' = wait, signaled' \subseteq signaled PROVE SleepersUnsignaled'
  BY <1>2, <1>3 DEF SleepersUnsignaled, AtObjects
<1>4. ASSUME NEW gone, NEW res, NEW synced, Ends(gone, res, synced), signaled' = signaled
      PROVE  SleepersUnsignaled'
  <2>1. \A u \in Threads : AtObjects(u)' => wait'[u] = wait[u] /\ AtObjects(u)
    BY <1>4 DEF Ends, AtObjects, NoWait
  <2> QED
    BY <1>2, <1>4, <2>1 DEF SleepersUnsignaled
<1>5. ASSUME NEW t \in Threads, NEW on, NEW d, NEW p, BeginWait(t, on, d, p), signaled' = signaled,
             on.kind = "Sync" => \A i \in DOMAIN on.objs : on.objs[i] \notin signaled
      PROVE  SleepersUnsignaled'
  <2>1. wait'[t].on = on /\ \A u \in Threads \ {t} : wait'[u] = wait[u]
    BY <1>1, <1>5 DEF BeginWait
  <2>2. \A u \in Threads \ {t} : AtObjects(u)' => AtObjects(u)
    BY <2>1 DEF AtObjects
  <2> QED
    BY <1>2, <1>5, <2>1, <2>2 DEF SleepersUnsignaled, AtObjects
<1>6. ASSUME NEW t \in Threads, Thread(t) PROVE SleepersUnsignaled'
  <2>1. CASE Call(t) \/ TerminationRequested(t) \/ Exit(t)
    BY <1>3, <2>1 DEF Call, TerminationRequested, Returns, Exit, syncVars
  <2>2. ASSUME NEW res, NEW i, Returns(t, res, i) PROVE SleepersUnsignaled'
    BY <1>3, <2>2 DEF Returns, syncVars
  <2>3. ASSUME NEW r \in Requests, NEW d \in Timeouts, NEW p \in Priorities,
               WaitForAddress(t, r, d, p)
        PROVE  SleepersUnsignaled'
    <3>1. ASSUME BeginWait(t, [kind |-> "Address", addr |-> r.addr], d, p), signaled' = signaled
          PROVE  SleepersUnsignaled'
      <4> DEFINE on == [kind |-> "Address", addr |-> r.addr]
      <4>1. on.kind # "Sync" /\ BeginWait(t, on, d, p)
        BY <3>1
      <4> HIDE DEF on
      <4> QED
        BY <1>5, <3>1, <4>1
    <3> QED
      BY <2>2, <2>3, <3>1 DEF WaitForAddress, syncVars
  <2>4. ASSUME NEW r \in Requests, NEW d \in Timeouts, WaitOnObjects(t, r, d)
        PROVE  SleepersUnsignaled'
    <3>1. r.objs \in Seq(Events)
      BY <2>4, WaitsAssumption DEF WaitOnObjects
    <3>2. FirstIndex(r.objs, signaled) = 0 => \A i \in DOMAIN r.objs : r.objs[i] \notin signaled
      BY <3>1, FirstIndexFinds
    <3> QED
      BY <1>5, <2>2, <2>4, <3>2 DEF WaitOnObjects
  <2>5. ASSUME NEW r \in Requests, NEW d \in Timeouts, Sleep(t, r, d) PROVE SleepersUnsignaled'
    BY <1>5, <2>5 DEF Sleep, syncVars
  <2>6. CASE CancelSynchronization(t) \/ RequestTerminate(t)
    BY <1>3, <1>4, <2>6 DEF CancelSynchronization, RequestTerminate
  <2> QED
    BY <1>6, <2>1, <2>3, <2>4, <2>5, <2>6 DEF Thread
<1>7. ASSUME NEW a \in Addresses, Word(a) PROVE SleepersUnsignaled'
  <2>1. CASE \E v \in Words : Store(a, v)
    BY <1>3, <2>1 DEF Store, syncVars, threadVars
  <2>2. ASSUME NEW n \in Counts, WakeAtAddress(Signalled(a, n)), UNCHANGED syncVars
        PROVE  SleepersUnsignaled'
    BY <1>4, <2>2 DEF WakeAtAddress, syncVars
  <2> QED
    BY <1>7, <2>1, <2>2 DEF Word, Signal, SignalAndIncrementIfEqual,
       SignalAndModifyByWaitingCountIfEqual, syncVars
<1>8. ASSUME NEW e \in Signals, SignalEvent(e) PROVE SleepersUnsignaled'
  <2>1. /\ signaled' = signaled \cup {e}
        /\ wait' = [t \in Threads |-> IF t \in Snapshot(e) THEN NoWait ELSE wait[t]]
    BY <1>8 DEF SignalEvent, Ends
  <2>2. Snapshot(e) = {t \in Threads : AtObjects(t) /\ e \in Range(wait[t].on.objs)}
    BY <1>1, SnapshotSleep, WaitsAssumption
  <2>3. ASSUME NEW u \in Threads, AtObjects(u)'
        PROVE  \A i \in DOMAIN wait'[u].on.objs : wait'[u].on.objs[i] \notin signaled'
    <3>1. u \notin Snapshot(e) /\ wait'[u] = wait[u] /\ AtObjects(u)
      BY <2>1, <2>3 DEF AtObjects, NoWait
    <3>2. \A i \in DOMAIN wait[u].on.objs : wait[u].on.objs[i] # e
      BY <2>2, <3>1 DEF Range
    <3>3. \A i \in DOMAIN wait[u].on.objs : wait[u].on.objs[i] \notin signaled
      BY <3>1 DEF SleepersUnsignaled
    <3> QED
      BY <2>1, <3>1, <3>2, <3>3
  <2> QED
    BY <2>3 DEF SleepersUnsignaled
<1>9. ASSUME NEW e \in Signals, ResetEvent(e) PROVE SleepersUnsignaled'
  BY <1>3, <1>9 DEF ResetEvent, threadVars
<1>10. CASE Clock \/ TimingThread
  BY <1>3, <1>10 DEF Clock, TimingThread, syncVars, threadVars
<1>11. CASE DoTask
  BY <1>3, <1>4, <1>11 DEF DoTask
<1>12. CASE UNCHANGED vars
  BY <1>3, <1>12 DEF vars, syncVars, threadVars
<1> QED
  BY <1>6, <1>7, <1>8, <1>9, <1>10, <1>11, <1>12 DEF Next

-----------------------------------------------------------------------------
\* The variables keep their types, and no more than two events of the timer are
\* outstanding for any time.
THEOREM TypeCorrect == Spec => []TypeOK
BY Inductive, InvTypes, PTL

\* Whatever signals, deadlines, cancellations and terminations compete for a wait,
\* the tree of its address, the lists of its objects, the timer and cancellable
\* agree with it.
THEOREM QueuesAgreeHolds == Spec => []QueuesAgree
BY Inductive, InvAgrees, PTL

\* The timer forgets no deadline, whatever is registered and cancelled.
THEOREM TimerCoversHolds == Spec => []TimerCovers
BY Inductive, InvCovers, PTL

\* wait_on_objects and signal never miss each other.
THEOREM SleepersUnsignaledHolds == Spec => []SleepersUnsignaled
<1>1. Init => SleepersUnsignaled
  BY DEF Init, SleepersUnsignaled, AtObjects, NoWait
<1> QED
  BY <1>1, Inductive, SleepersStep, PTL DEF Spec

\* Every wait ends for the reason it returns: do_task, wait_cancel, request_terminate
\* and the signals end the waits they are for and no others.
THEOREM WaitEndsRightHolds == Spec => WaitEndsRight
<1> DEFINE A == \A t \in Threads : Waiting(t) /\ pc'[t] # "waiting" =>
         \/ outcome'[t].result = "timeout" /\ 0 < wait[t].deadline /\ wait[t].deadline <= now
         \/ outcome'[t].result = "cancelled" /\ AtObjects(t)
         \/ outcome'[t].result = "terminated" /\ t \in terminating'
         \/ outcome'[t].result = "success" /\ AtAddress(t)
         \/ /\ outcome'[t].result = "success"
            /\ AtObjects(t)
            /\ wait[t].on.objs[outcome'[t].index] \in signaled' \ signaled
<1>1. Inv /\ [Next]_vars => [A]_vars
  BY StepsEndRight DEF EndsRight
<1> QED
  BY <1>1, Inductive, PTL DEF Spec, WaitEndsRight

\* Signals of the address arbiter wake the waiters of the best priority, the
\* oldest first, and store the value that tells whether any is left.
THEOREM SignalsAreExactHolds == Spec => SignalsAreExact
<1> DEFINE A == \A a \in Addresses :
         /\ WakesInOrder(a)
         /\ \A n \in Counts :
              SignalAndModifyByWaitingCountIfEqual(a, word[a], n) =>
                WordTells(a, word[a], n)
<1>1. Inv /\ [Next]_vars => [A]_vars
  BY StepsWakeInOrder, WordsTell
<1> QED
  BY <1>1, Inductive, PTL DEF Spec, SignalsAreExact
=============================================================================
