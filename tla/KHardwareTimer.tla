---------------------------- MODULE KHardwareTimer ----------------------------
(***************************************************************************)
(* The kernel's hardware timer (k_hardware_timer.rs and its base class)    *)
(* and the part of core timing it uses (core_timing.rs).  The timer keeps  *)
(* the deadlines of waiting threads in a tree and has one event of core    *)
(* timing scheduled for the earliest; the timing thread pops the event     *)
(* when it is due and calls do_task, which needs the scheduler lock.       *)
(*                                                                         *)
(* Cancelling a task leaves the event alone, and a task that is later than *)
(* the wakeup time schedules none: the timer relies on do_task to schedule *)
(* the next event.  Registering while the callback waits for the scheduler *)
(* lock leaves a second event behind.                                      *)
(*                                                                         *)
(* A definition named Mut... is a faulty variant of the one it precedes.   *)
(***************************************************************************)
EXTENDS Integers, Sequences, FiniteSets, ListFilter

CONSTANTS
    Threads,  \* threads that wait
    Horizon,  \* bound: the last tick of the clock
    None

ASSUME TimerAssumption ==
    /\ None \notin Threads
    /\ Horizon \in Nat \ {0}

\* i64::MAX: the wakeup time of a timer that is off, and a deadline no clock reaches.
TimeMax == Horizon + 1

VARIABLES
    now,       \* get_global_time_ns
    events,    \* how many events of the timer core timing has at each time
    firing,    \* the timing thread is in the callback and has no lock yet
    taskTree,  \* m_task_tree, in order of time and then of registration
    nextTask,  \* m_next_task
    taskTime,  \* timer_task_time of each thread
    wakeup     \* m_wakeup_time

timerVars == <<now, events, firing, taskTree, nextTask, taskTime, wakeup>>
taskVars == <<taskTree, nextTask, taskTime>>

Task(time, t) == [time |-> time, thread |-> t]
NoTask == Task(0, None)

TimerInit ==
    /\ now = 0
    /\ events = [i \in 1..Horizon |-> 0]
    /\ firing = FALSE
    /\ taskTree = <<>>
    /\ nextTask = NoTask
    /\ taskTime = [t \in Threads |-> 0]
    /\ wakeup = TimeMax

-----------------------------------------------------------------------------
\* Core timing.  An event at i64::MAX is never due and is not kept here.
ScheduleEvent(queue, time) ==
    IF time > Horizon THEN queue ELSE [queue EXCEPT ![time] = @ + 1]

UnscheduleEvent == [i \in 1..Horizon |-> 0]

Tick ==
    /\ now < Horizon
    /\ now' = now + 1
    /\ UNCHANGED <<events, firing, taskTree, nextTask, taskTime, wakeup>>

\* CoreTiming::advance takes the first event that is due and calls the callback,
\* without a lock.
Advance ==
    /\ ~firing
    /\ \E i \in 1..now :
         /\ events[i] > 0
         /\ \A j \in 1..(i - 1) : events[j] = 0
         /\ events' = [events EXCEPT ![i] = @ - 1]
    /\ firing' = TRUE
    /\ UNCHANGED <<now, taskTree, nextTask, taskTime, wakeup>>

-----------------------------------------------------------------------------
\* remove_task_from_tree: the first task is looked up again if it goes.
First(tree) == IF tree = <<>> THEN NoTask ELSE Head(tree)

NextAfter(tree, next, gone) == IF next.thread \in gone THEN First(tree) ELSE next

Without(tree, gone) ==
    Kept(tree, {k \in Range(tree) : ~(k.thread \in gone /\ k.time = taskTime[k.thread])})

\* cancel_task_by_id, for the threads of gone whose queue knows the timer.
\* A bug: a wait that ends early leaves its task behind.
MutCancelTasks(gone) == UNCHANGED taskVars
CancelTasks(gone) ==
    LET had == {t \in gone : taskTime[t] > 0}
        tree == Without(taskTree, had)
    IN /\ taskTree' = tree
       /\ nextTask' = NextAfter(tree, nextTask, had)
       /\ taskTime' = [t \in Threads |-> IF t \in gone THEN 0 ELSE taskTime[t]]

\* enable_interrupt_locked; disable_interrupt_locked comes first and leaves the
\* events of a timer that is off.
EnableInterrupt(time) ==
    /\ wakeup' = time
    /\ events' = ScheduleEvent(IF wakeup = TimeMax THEN events ELSE UnscheduleEvent, time)

\* register_absolute_task_by_id.
\* A bug: a timer that is on is left as it is.
MutArms(time, isFirst) == isFirst /\ wakeup = TimeMax
Arms(time, isFirst) == isFirst /\ time <= wakeup

RegisterAbsoluteTask(t, time) ==
    LET old == Without(taskTree, {t})
        next == NextAfter(old, nextTask, {t})
        isFirst == next = NoTask \/ next.time > time
    IN /\ taskTime' = [taskTime EXCEPT ![t] = time]
       /\ taskTree' = PutAfter(old, {k \in Range(old) : k.time <= time}, Task(time, t))
       /\ nextTask' = IF isFirst THEN Task(time, t) ELSE next
       /\ IF Arms(time, isFirst) THEN EnableInterrupt(time)
          ELSE UNCHANGED <<wakeup, events>>
       /\ UNCHANGED <<now, firing>>

\* KScopedSchedulerLockAndSleep::drop.
Drop(t, timeout) ==
    IF timeout > 0 THEN RegisterAbsoluteTask(t, timeout) ELSE UNCHANGED timerVars

-----------------------------------------------------------------------------
\* do_interrupt_task_impl: its loop takes the next task off the tree as long as it
\* is due.  fired are the threads whose tasks it has taken, Fired[n] those of n turns.
NextWithout(fired) == IF fired = {} THEN nextTask ELSE First(Without(taskTree, fired))

DueAfter(fired) ==
    LET next == NextWithout(fired)
    IN IF next # NoTask /\ next.time <= now THEN {next.thread} ELSE {}

DoInterruptTaskImpl ==
    LET Fired[n \in 0..Len(taskTree)] ==
          IF n = 0 THEN {} ELSE Fired[n - 1] \cup DueAfter(Fired[n - 1])
    IN Fired[Len(taskTree)]

\* do_task, as far as the timer goes.  Rearming does not unschedule.
\* A bug: the next time is compared with the wakeup time that has just passed.
MutRearms(next) == next.time > 0 /\ next.time <= wakeup
Rearms(next) == next.time > 0

TimerExpires(fired) ==
    LET next == NextWithout(fired) IN
    /\ wakeup # TimeMax
    /\ taskTree' = Without(taskTree, fired)
    /\ nextTask' = next
    /\ taskTime' = [t \in Threads |-> IF t \in fired THEN 0 ELSE taskTime[t]]
    /\ wakeup' = IF Rearms(next) THEN next.time ELSE TimeMax
    /\ events' = IF Rearms(next) THEN ScheduleEvent(events, next.time) ELSE events

\* The callback of an event that is left over finds the interrupt off.
TimerIsOff == wakeup = TimeMax /\ UNCHANGED <<taskVars, wakeup, events>>
=============================================================================
