# ruzu's emulated kernel: a TLA+ verification project

ruzu is an emulator of the Horizon operating system and its hardware, written in
Rust. Its emulated kernel (`src/src/core/src/hle/kernel`, called `kernel/` below)
is a reimplementation of a real kernel: guest threads run on several emulated
cores, each on a host thread, and block, wake, inherit priorities, time out and are
terminated under a scheduler lock. A mistake there shows up as a guest that hangs
once in a while. This project models the kernel's blocking primitives, the timer and the
tables they rest on, and the request path from a guest thread through a session to the
service that answers it; it model-checks them with TLC and proves the core with TLAPS.

Contents: [inventory](#inventory) ·
[modules and code](#modules-and-how-they-correspond-to-the-code) ·
[runs](#runs-and-what-they-show) · [bounds](#bounds) · [fairness](#fairness) ·
[proofs](#proofs) · [findings](#findings) · [limits](#what-is-abstracted-and-what-is-missing) ·
[plan](#plan)

To use it: `tlc -config MCKLightLock.cfg MCKLightLock` checks one run (PROJECT.json lists
module and configuration of each), `tlapm KLightLock_proofs.tla` checks the proofs.

## Inventory

### Kernel: the parts with concurrent state

| Component (file under `kernel/`) | State | Operations | Interacts with | What is hard | What makes it correct |
|---|---|---|---|---|---|
| **KLightLock** (`k_light_lock.rs`) | tag word: owner and waiters bit; per owner a list of waiters; `num_kernel_waiters` | `lock`, `unlock`, their slow paths, host fallback, cancellation | scheduler lock, KThread suspend/terminate | the tag is swapped without the scheduler lock while `unlock_slow_path` hands over | exclusion; a parked thread is always covered by a flagged tag; links and counters agree |
| **KLightConditionVariable** (`k_light_condition_variable.rs`) | list of waiters | `wait`, `broadcast`, timer and termination callbacks | KLightLock, scheduler lock, hardware timer | the lock is dropped before the list is joined; broadcast works on copies | no lost wake-up; list and thread states agree |
| **KResourceLimit** (`k_resource_limit.rs`) | limit, current, hint, peak per resource; waiter count | `reserve` with a deadline, `release` (two forms), `set_limit_value` | both above; threads and processes that exit | deadlines racing releases; hint and value given back by different functions; i64 arithmetic | counters are what clients hold; nobody sleeps on room that exists; `reserve` returns |
| **KHandleTable** (`k_handle_table.rs`) | entries that are a linear id or a free link; free head; counts; next linear id | `initialize`, `add`, `remove`, `reserve`, `unreserve`, `register`, `finalize` | `svc_port.rs`, KProcess | a free list in the words that hold ids; reservations across other calls and across process termination | free list and used entries partition the table; it is a map from handles to objects |
| **User mutexes and condition variables** (`k_condition_variable.rs`, `svc/svc_lock.rs`, `svc/svc_condition_variable.rs`) | guest words; waiters in the owner's trees; tree per condition variable | ArbitrateLock/Unlock, WaitProcessWideKeyAtomic, SignalProcessWideKey, timers | guest code, KThread | guest and kernel change the same word; a signalled waiter becomes a mutex waiter with its timer still armed | exclusion; no lost wake-up or signal; trees agree with threads |
| **Priority inheritance** (`k_thread.rs`) | base and inherited priority; lock infos held and waited for | `add_waiter`, `remove_waiter*`, `restore_priority`, `set_base_priority`, hand-over, `finalize` | mutexes, condition variables, light locks | keys in trees go stale when priorities change; walks along chains of owners | priority = best of own and waiters'; trees keyed by present priority |
| KThread life cycle (`k_thread.rs`) | state, suspend flags, termination flag | suspend, resume, terminate, exit, sleep, pinning, activity | everything that blocks | termination is requested without the scheduler lock | a wait ends once |
| KScheduler, KPriorityQueue, KSchedulerLock | per-core queues, highest thread, interrupt flags | select, rotate, yield, enable/disable | all above | lock recursion, migration, idle cores | every core runs its best thread |
| **KAddressArbiter** (`k_address_arbiter.rs`) | tree keyed by address and priority | wait if equal / less / decrement, three signals | guest words, timers | stale priority between read and insertion; a word that must tell whether threads wait | order of wake-ups; the word is right after a signal; entries last as long as waits |
| **KSynchronizationObject, events, KThreadQueue** | lists of nodes, one per handle of a wait; the queue of each waiting thread | wait on several objects, notify, cancel | sessions, processes, threads, the timer | notification walks a snapshot; several parties end one wait | nobody sleeps on a signalled object; a wait ends once, for the reason it reports |
| **KHardwareTimer** (with `core_timing.rs`) | sorted tasks, wakeup time, one event of core timing | register, cancel, callback | every timed wait | the callback is popped before it has the scheduler lock; most registrations schedule nothing | every deadline is covered by an event; no early or lost time-out |
| **Sessions and ports** (`k_server_session.rs`, `k_session.rs`, `k_client_session.rs`, `k_client_port.rs`) | request list and current request, states of both ends, session slots | connect, send, receive, reply, close on both sides | services, handles, process termination | close while a request is queued, current or being answered; methods without a lock | one answer per request; one slot per session, given back once |
| **ServerManager and MultiWait** (`service/server_manager.rs`, `service/os/multi_wait.rs`) | holders in two lists, registration and closure queues, wakeup and deferral events | select, accept, receive, dispatch, reply, defer, destroy | sessions, sm, host threads | notifications that miss a worker about to sleep; holders freed by another worker | no wake-up is lost; every session is watched or served once; no panic |
| KProcess, worker tasks | threads, registries, state | start, terminate, exit | all | termination while threads run | every resource is given back |
| Memory (`k_page_table_base.rs`, ...) | intervals of pages and attributes | map, unmap, query, reprotect | SVCs | large sequential structure | intervals partition the space |

### The rest of the program

The CPU manager and the rest of core timing (looping events, pausing); the display queue
(slots shared by a producer and a consumer); GPU synchronisation (syncpoints, fences,
the GPU thread); GPU engines, caches and renderers; `shader_recompiler` and
`rdynarmic` (compilers); `audio_core`; several hundred HLE services; file systems,
loaders and cryptography; `hid_core`, `input_common`; `network`, `web_service`; front
ends; `common`. PROJECT.json lists each with the reason why it is or is not modelled.

### Interaction

Blocking goes through three layers. The *scheduler lock* makes the bodies of most
kernel operations atomic with respect to each other, but not with respect to a tag
or a guest word that is swapped outside it. A *thread queue object* attached to a
waiting thread says what cancelling the wait must undo; the timer and
`request_terminate` call it. *Light locks* protect longer kernel sections and block.
`KResourceLimit` uses a light condition variable on top of a light lock; the user
primitives use the scheduler lock alone. A guest's request goes through one more pair of
parties: the session's queue in the kernel, and the workers of the service, host threads
that wait on all their sessions at once and are told of new and of closed sessions
through queues and an event. Two facts about the present code recur:
the guards of `KThread` and `KProcess` exclude nobody (`sync_cell.rs:165-172`), and
`KProcess::terminate_children` calls `request_terminate` without the scheduler lock
(`k_process.rs:2392`). PROJECT.json "hazards" lists, line by line, what can go wrong
because of all this, with the properties that watch it.

## Modules and how they correspond to the code

`PROJECT.json` "map" gives the source lines of each definition. A definition
`MutX` that stands before `X` is a faulty variant of `X`, a bug one could write in
that code; no specification uses it. Each shows that some property can fail.

### KLightLock

One thread's `lock()` is `Lock`, `LockExchange` (the CAS loop), then for guests
`LockSlowPath` (scheduler lock, re-check of the tag), `LockSlowPathWait` (enqueue on
the owner, WAITING, scheduler lock dropped) and `LockResume`. `unlock()` is `Unlock`
(the CAS), then `UnlockSlowPathTransfer` (the waiter with the best rank leaves the
list, the others are retargeted, it is made RUNNABLE) and, as a second step,
`UnlockStore` (the plain store of `next_tag`): other cores' CAS, and the new owner's
own steps, run between the two. Threads without a KThread go through
`LockHostSlowPath`, `HostWaitCheck`, `HostWaitSleep`, `UnlockHostStore` and
`UnlockHostNotify`. `RequestSuspend`, `Resume` and `RequestTerminate` are
KThread's operations as far as they touch a thread that holds or waits for the lock.
`sched` is the holder of the scheduler lock, `next` the tag about to be stored. Priorities are a fixed rank:
inheritance is modelled in PriorityInheritance.

### KLightConditionVariable, KResourceLimit

KLightConditionVariable has the list of waiters, `wait()` in two steps (the light
lock is released, then the list joined under the scheduler lock), the refusal for a
terminating thread, `broadcast_waiters` in two steps per waiter (end the wait of a
copy; remove index 0), the timer's callback and the cancellation by termination. It
has no specification of its own: KResourceLimit extends it and adds the counters, the
loop of `reserve()`, `release()` with value and hint together, the hint first
(`KThread::exit`) and the value later (`post_destroy`), and `set_limit_value`, which
checks only the current value and wakes nobody. Additions wrap at `MaxInt` as i64
does in a release build. The light lock is an exclusive lock here; that is what
KLightLock_proofs proves of it where no waiter is terminated, and what the first
finding says of terminated ones.

### KHandleTable, HandleMap

KHandleTable has the entry array, with one word per entry for the linear id and for
the free link, the packing of handles and all operations. `mine` is the handle a thread has
reserved while it runs ConnectToNamedPort or ConnectToPort. A reserved entry has its
linear id and no object. Process termination (`Finalize`) can come in between.
HandleMap is the abstract specification: a partial map from handles to objects and a
set of reserved handles, with no entries, links or ids; KHandleTable is shown to
implement it by reading the map through `is_valid_handle` and `get_object`.

### PriorityInheritance, KConditionVariable

PriorityInheritance holds operators on a record of the thread fields: the waiter
trees of each owner and mutex (`held`), the back pointer of each waiter (`ref`), the
trees of condition variables (`tree`), base and inherited priorities, and `panic`,
set when `remove_waiter_impl` does not find what it looks for. `AddWaiter`,
`RemoveWaiter`, `HandOver`, `SetBasePriority`, `CancelWait` and `RestorePriority` are
KThread's methods; the last walks along the chain of owners as a function of the
number of steps, each of which moves a thread to its new place in the tree it waits
in. KConditionVariable has the system calls as actions, timers, priority
changes, termination and finalization. Guests follow the protocol that the calls
expect of them: they take a free word and give up an unflagged one themselves, set
the wait bit before ArbitrateLock, and look again after it. This is external code,
modelled from how the kernel reads and writes the words.

A system call is one step, since its body runs under the scheduler lock; the guest's
steps before and after it are separate, so whatever another thread or the kernel does
to the word between a guest's exchange and its system call happens in the model.

### KHardwareTimer, KAddressArbiter, KSynchronizationObject, TimedWaits

The first three have the data of one component each and the operators on it; TimedWaits
composes them into the waits of guest threads and is the specification that is checked.

KHardwareTimer: `taskTree`, `nextTask` and `wakeup` are the timer's fields, `events` the
timer's events in core timing's queue. `Advance` is the timing thread popping an event
that is due; `firing` says that it is in the callback and has not got the scheduler lock
yet, and `DoTask` is the callback under the lock. `RegisterAbsoluteTask` schedules an event
only if the task is the first and not later than the wakeup time; `CancelTasks` leaves the
event; `TimerExpires` rearms without unscheduling. Two events can therefore be queued at
one time (never more: part of `TypeOK`), and a callback may find the timer off
(`TimerIsOff`). A deadline that does not fit in an i64 is `TimeMax`, which is also what an
idle timer has as its wakeup time.

KAddressArbiter: the words, the tree in the order in which it is walked (priority, then
insertion; the comment over `first_waiter_for_addr` speaks of thread ids), the value that
`SignalAndModifyByWaitingCountIfEqual` stores. Words wrap at `Half`. A waiter keeps the
place of the priority that its call read before it took the scheduler lock, since nothing
rearranges this tree when priorities change; `prio` is that priority, chosen freely.

KSynchronizationObject: signalled events, and the nodes in each event's list, one per handle; the
list is a set, since a signal notifies everybody in it in one step.

TimedWaits: a call is `Call` (the clock is read for the deadline) and, under the scheduler
lock, one of `WaitForAddress`, `WaitOnObjects`, `Sleep` with all their early returns. A
wait is ended by `Signal` and its two variants, `SignalEvent`, `DoTask`,
`CancelSynchronization` or `RequestTerminate`; each is the whole handler: the queue's
callback, the thread's state and result, the cancellation of the timer task. `outcome` holds
the result of the call that has just ended. Stores to the words and signals come from
outside the set of waiting threads.

### KServerSession, ServerManager

KServerSession has the sessions and what guest threads do to them: `Connect` (through a
named port, or through sm, which also queues a registration), `ResolveSession` and
`OnRequest` (SendSyncRequest, and SendAsyncRequestWithUserBuffer for the threads in
`Async`), the closing of a handle in four steps (`BeginClose`, `OnClientClosed`,
`NotifyManagerClosed`, `CloseClientEndpoint`), which is as many locks as the code takes one after
the other, and `Terminate` with the finalization of the handle table. A client names its
request, since a thread has one at a time.

ServerManager extends it with the workers. `wpc` is where a worker is in
`loop_process_impl_shared`: `Drain` (registrations, closures, relinked holders), the wait on all
holders in three steps (`WaitFinds`, or `WaitLinks` and `WaitSleeps`: the scheduler lock
is held in between, but `on_client_closed` notifies without it), `ConsumeWakeup` or `Select`, and
then `PrepareSession`, `AcceptSession` or `ClearDeferral`. A request is received, dispatched,
deferred or answered; the answer is two steps, under the session's lock and then
under the scheduler's, and the session is destroyed or linked again after that. `multi`
and `dlist` are MultiWait's list and the deferred list. A failed assertion sets
`panic`, after which no worker moves. `missed` is a history variable that no guard reads:
`AcceptSession` sets it when the session it took from the port is gone already, which is the
one case in which `on_port_event` does not link the port again. `HoldersAccounted` says that the
port is lost in no other way, however many sessions were accepted and ended before, and the
two liveness properties excuse no session before.

## Runs and what they show

| Run | Instance | Shows |
|---|---|---|
| light lock (`MCKLightLock.cfg`) | 3 guests, 1 host, one guest suspendable for two reasons | types; exclusion between guests and hosts; `lock()` returns to the owner; a parked thread is covered; an owner with waiters is stopped only by a `resume()` that leaves another request pending; no deadlock |
| light lock, liveness (`MCKLightLockLive.cfg`) | 3 guests, one suspendable and terminable | lists, back pointers and counts survive suspension and cancellation; a parked thread's owner reaches the hand-over, suspended or not; the best-ranked waiter gets in |
| light lock, terminated waiter (`MCKLightLockTermOwner.cfg`) | 2 guests | **violation**, first finding |
| resource limit (`MCKResourceLimit.cfg`) | 3 clients, one of them terminable, one resource, a limit that is lowered, sums that overflow | counters are exactly what clients hold, whatever is terminated when; up to the first termination list and states agree through time-outs and broadcasts, nobody sleeps although its amount fits, and every `reserve()` returns even if nobody releases |
| resource limit, lost waiter (`MCKResourceLimitTermWaiter.cfg`) | 3 clients | **violation**, second finding |
| handle table (`MCKHandleTable.cfg`) | 2 threads, 2 objects, up to 3 entries, 3 linear ids | free list and used entries partition the table; reservations survive; no early reuse of a handle; implements HandleMap |
| handle table, unreserve (`MCKHandleTableAssert.cfg`) | 2 threads, table of 4 | **violation**, third finding |
| condition variable (`MCKConditionVariable.cfg`) | 3 threads, 2 mutexes, 1 condition variable | exclusion; waiters are covered; signals are not lost; each waiter is in one tree under its present priority; priorities are exactly the inherited ones; mutexes go to the best waiter; no `expect` fails |
| condition variable, circle (`MCKConditionVariableCircle.cfg`) | the same, mutexes locked in any order | **violation**, fourth finding |
| timed waits (`MCTimedWaits.cfg`) | 2 threads, 1 word, a wait on three handles of two events, SleepThread, time-outs -1, 0 and 1, cancellation of one thread and termination of the other | entries in trees, lists and timer last exactly as long as waits; every deadline is covered by an event or a running callback and every such wait ends; no signal is missed; each wait ends for the reason it reports; arbiter signals wake in order and leave the right word |
| server manager (`MCServerManager.cfg`) | 1 worker, deferral, a synchronous and an asynchronous client, 2 sessions one after the other in one slot, termination | a waiting client's request is in exactly one place; a sleeping worker misses nothing; every session is watched or served once, and the port is until a session accepted from it is gone already; requests are answered and slots given back; the worker panics only in a wait, on a session registered again after its destruction |
| server manager, workers (`MCServerManagerWorkers.cfg`) | 2 workers | **violation**, fifth finding |

Deadlock is checked for the light lock, whose actors are kernel code that must go on. It is not
checked where it is legitimate to stop: guests may all exit or all wait, time ends at
the horizon, and a terminated process does nothing more.

## Bounds

- *Light lock*: three guests give an owner, the waiter that becomes owner and one that
  is retargeted, and a host adds the other path. `SuspendTypes` has two members
  where the difference between one and several matters.
- *Resource limit*: three clients are a broadcaster, the waiter it copies and the one it
  must not drop. `MaxInt` 3 with amounts 1 and 2 under a limit of 2 has sums that fit, that
  exceed the limit and that overflow. `Limits` only lowers.
- *Handle table*: `Span` 4 gives linear ids 1..3, so they wrap within a few additions;
  tables of two and three entries have free lists that can be permuted. `Sizes` 0 asks
  for the largest table and a size above `MaxTableSize` is refused. `recent` remembers
  the last `MaxLinearId` handles and is there for `NoEarlyReuse` only.
- *Condition variable*: three threads and two mutexes are the smallest instance with a
  chain of owners of length two, over which a priority change must travel.
  Priorities take the values of `Ascending` and those in `Priorities`; the terminating
  priority is better than all. `Counts` 0 is "signal all". `LockOrder` restricts guests to
  ascending addresses, so that no circle of owners arises; the circle run lifts it.

- *Timed waits*: `Horizon` 2 has room for a task that is first, one that is later and one past
  the end of time; the two threads wait at once on the same word, or on the events, with
  equal and different deadlines and filed priorities. `Half` 2 makes words -2..1, so that every
  operation that adds wraps. The events in `Signals` are signalled and reset by others;
  `<<e2, e1, e2>>` has an event twice and one that never fires. `Cancelled` and
  `Terminable` name one thread each. `Counts` 0 is "wake all".
- *Server manager*: with one slot (`MaxSessions` 1) the second session exists only after the
  first gave its slot back. `TerminateUpTo` 1 lets the process be terminated while its first
  session is in any state; object ids are not reused, so each member of `Sessions` is used
  once. The second worker is left to the violation run.

No counter grows without bound, except time, which `Horizon` ends; no run has a state
constraint. Symmetry is used in the lost-waiter run over clients only.

## Fairness

- *KLightLock*: weak fairness of each thread's next step inside a `lock()` or `unlock()` it has
  begun, as long as it can run (`CanRun`: not stopped by a suspension, or holding
  the scheduler lock, which is released before a core switches). Strong
  fairness for the steps that need the scheduler lock: it is a spin lock contended by
  a few cores whose sections are short, so a waiter finds it free again and again
  and gets it. Nothing obliges a thread to call `lock()` or a suspended one to be
  resumed.
- *KResourceLimit*: strong fairness of the steps inside `reserve()` and `broadcast()`, for the
  light lock and the scheduler lock are contended in the same way; weak fairness of
  time. Nobody has to release anything. `ReserveReturns` claims nothing after a
  termination: a terminating thread spins in `reserve()` with the lock
  until its deadline, and the second finding leaves a sleeper behind.

- *TimedWaits*: weak fairness of the clock, of the timing thread and of its callback. The first
  is real time; the timing thread is a host thread that waits for the next event or for an
  earlier one (`schedule_event` sets its event), and its callback needs only the scheduler
  lock. Nobody has to call, signal or cancel anything.
- *ServerManager*: weak fairness of every worker (a host thread with nothing else to do), of a
  system call that has begun, of the closing of a handle that has begun, also by the
  end of the process, and of `RegisterService`: sm's deferred requests wait for a service
  that comes up. Guests need not send, close or be terminated.

The other specifications state no fairness and no liveness is claimed of them.

## Proofs

Each proof module extends the module of its component. A theorem holds for every value of
the constants that meets the named assumptions of the modules, and these say no more than the
code needs: threads are finite in number, the null thread is not a thread, amounts and
limits fit their type, a session is none of the other objects a worker can wait for, and the
like. What one thread does next is always free: no proof assumes fairness. Where a theorem has
a hypothesis of its own, it is named below with the reason. ListLemmas has what several proofs need about lists: `Kept` is the
sublist of the entries in a set, `PutAfter` inserts in order, `Fresh` leaves out what is in a set or
was there before, a list that loses the entry at a position, the entries of a list as a set under
appending, joining and taking the first; and, by the principle of the least number, an induction
over positions. These operators are defined in ListFilter, and the models use them for the
lists and trees of the kernel that lose or gain entries in the middle.

### KLightLock_proofs

For any finite set of guests and any set of hosts, any ranks, any suspend types and any
suspensions:

- `TypeCorrect`: the type invariant, with termination as well;
- `MutualExclusionHolds`, `ResumesAsOwnerHolds`, `ParkedIsCoveredHolds`: the three safety
  properties of the light-lock run, if `Terminable = {}`. The hypothesis cannot be dropped: the
  first finding violates `ResumesAsOwner` without it;
- `WaitLinksAgreeHolds`, `SuspendDefersToWaitersHolds`: lists, back pointers and the counts of
  waiters agree, and a thread with waiters is stopped only by a `resume()` that leaves another
  request pending; both with suspensions and terminations at any point.

The assumptions are those of KLightLock: guests and hosts are disjoint, the null
thread is neither, and ranks are distinct (a thread id breaks ties of priority).

None of the properties is inductive. Exclusion follows from "whoever is entitled to
the critical section is the owner of the tag", but the tag lags behind during a hand-over:
the waiter is already runnable when `next_tag` has still to be stored, and others may
set the flag in the old tag meanwhile. `LockInv` therefore speaks of `EffectiveTag` (the
tag about to be stored, if a hand-over is under way) and has eight parts: the types; the owner seen by
`lock()` is a thread (`SeenIsThread`); whoever is between two steps under the scheduler lock
holds it (`SchedulerLockHeld`); while somebody enqueues under the scheduler lock, the
tag stays the flagged one it checked, since its owner cannot get past `unlock_slow_path`
(`TagIsStable`); whoever is in the critical section, or parked and already woken, is
the owner in the effective tag (`EntitledIsOwner`); listed waiters are parked and WAITING
(`WaitersAreParked`); a list that is not empty belongs to the effective owner, and its
tag is flagged (`OwnerIsFlagged`); whoever is parked and WAITING is listed
(`ParkedIsListed`). `LockStep` goes through the actions one by one and under
each through the parts it can disturb; the interesting cases are `LockSlowPathWait`, which needs
`TagIsStable`, and the pair `UnlockSlowPathTransfer` / `UnlockStore`. The wait links need a
smaller invariant (`LinkInv`), because they do not depend on who owns the tag.

### KResourceLimit_proofs

For any finite set of threads, any resources, limits and amounts, and terminations at any point:

- `TypeCorrect`, and `AccountingHolds`: the current value of each resource is exactly what
  threads hold of it, the hint what they have not announced the release of, and the peak bounds it;
- `WaitListKeptHolds`: until the first termination, the list of the condition variable holds exactly
  the sleeping threads;
- `SleepersAreBlockedHolds`: until then, nobody sleeps in `reserve()` whose amount fits, unless a broadcast
  is under way. Its hypothesis is `[][LimitsNotRaised]_vars`: no step raises a limit. It is
  needed, for `set_limit_value` wakes nobody, and it is about the behaviour and not about
  the constants, so limits that are lowered, at any time, are covered.

`Control` is the base of all: who holds the light lock and the scheduler lock follows from where
threads are, and the count of waiters is the number of threads inside `wait()`. `ListInv` adds that
a broadcast that has picked a waiter picked the first of the list, since nobody else changes the
list under the scheduler lock. Sleepers need the wider `SleepyAreBlocked`: also a thread that has
found its amount too large and has not joined the list yet is blocked, because whoever
makes room in between sees the count of waiters and broadcasts. The sums of the accounting are
numbers of units (pairs of a thread and an index up to its amount), so that adding and removing
one holder is a fact about finite sets.

### KHandleTable_proofs

For tables of any size up to `MaxTableSize`, any packing `Span`, any threads and objects:

- `TypeCorrect`, `FreeListSoundHolds`: the free list runs through exactly the entries that are not used, once each,
  and ends;
- `ReservationsHoldAlways`, `NoEarlyReuseHolds`: a reserved handle stays its thread's; among the
  last `MaxLinearId` handles issued no two are equal;
- `RefinesHandleMapHolds`: every behaviour, seen through `is_valid_handle` and `get_object`, is one
  of the map from handles to objects in HandleMap.

The conjuncts of `Inv` prove each other: `Opened` and `FilledEntries` (which entries have
a linear id and which a link in the shared word) are needed to see that an allocation does not
overwrite a used entry; `LinearIdsInOrder` says that the ids of the history are the ones before
`nextLinearId`, in order and wrapping, from which `NoEarlyReuse` follows. The encoding of a
handle and its decoding are arithmetic over an unknown `Span`, proved in lemmas of their own.

### TimedWaits_proofs

For any finite set of threads, any events, words, requests, time-outs, horizon and word width:

- `TypeCorrect`, with the bound of two events of the timer in core timing's queue;
- `QueuesAgreeHolds`: trees, lists, timer tasks and `cancellable` hold exactly the waits, each where it belongs;
- `TimerCoversHolds`: every deadline is covered by an event in time or a running callback;
- `SleepersUnsignaledHolds`: nobody sleeps on a signalled event;
- `WaitEndsRightHolds`: a wait ends only for the reason it reports;
- `SignalsAreExactHolds`: arbiter signals wake the first waiters in the order of the tree and store the value
  that tells how many were left.

The inductive invariant is `Inv == TimerInv /\ WaitsAgree`. `TimerInv` is the timer alone: its tree
is ordered by time and has the armed tasks (`Files`), `nextTask` is its first, the wakeup time is
not after any task in range (`WakesInTime`), and a wakeup time is backed by an event not later
than it or by a callback that is about to run (`EventComes`). Without the last two `TimerCovers` is not
inductive: `RegisterAbsoluteTask` and `CancelTasks` leave events in the queue that belong to no
task any more. `EventsBounded` counts them: at most one if the callback is not running, and one
more if the timer is on. The first part of the module shows that each operation of the timer keeps
it, the loop of the callback included; `WaitsAgree` adds what the waits have to do with it, and
the second part takes the actions one by one, mostly through three lemmas: what beginning a wait
does to all queues, what ending a set of waits does, and that steps which touch neither keep
everything.

### PriorityInheritance_proofs, KConditionVariable_proofs

For any finite set of threads, any mutexes, condition variables, priorities and counts, with time-outs,
priority changes, terminations and finalizations at any point, and always under the
hypothesis `LockOrder` (guests lock mutexes in the order of their addresses):

- `TypeCorrect`;
- `OneHolder`: two guests never hold one mutex;
- `CoveredWaits`: the owner of a mutex with waiters finds the wait bit in its word;
- `InheritedPriorities`: every living thread has exactly the priority it should inherit,
  however long the chain of owners;
- `AgreeingQueues`: the trees hold exactly the threads that wait in them, once, under their
  present priorities and in order;
- `NoSignalIsLost`: a condition variable with waiters has its word set;
- `LockInfoThere`: the `expect` of `remove_waiter_impl` never fails;
- `HighestIsNext`: each hand-over picks a waiter of the highest present priority (an action property).

The hypothesis is about guests, which the kernel cannot hold to it. It is needed: where threads
wait in a circle, `restore_priority` comes back to the thread it began with, between two updates of
it, and the fourth finding violates `LockInfoFound`; TLC finds `PriorityInherited` violated on the
same instance. Any protocol without circles of owners would do; ascending addresses are the
usual one, and the one of the run.

PriorityInheritance_proofs is about the methods of KThread on the record of thread fields. The
record is `Sound` if each tree of an owner has the keys of exactly its waiters (`HeldAgrees`), the
trees of the condition variables are ordered and have theirs (`TreesAgree`), the mutexes along
a chain of owners ascend (`Ascends`) and no `expect` has failed. No method keeps this from one step
to the next: `RemoveWaiter` takes a waiter out of a tree and leaves its back pointer until after
`restore_priority`, which walks through the trees meanwhile. `HeldAgrees` therefore
has a parameter, the set of threads detached in this way, and the walk is proved not to meet
them, since it ascends in addresses and they are below. For the same reason no thread is
visited twice, and the walk ends within as many rounds as the function of PriorityInheritance
counts. `Settled` says that one thread has its proper priority; of the walk it is proved
that it unsettles no thread but the one at which it goes on, and of every method which threads
it leaves settled.

`KInv`, the inductive invariant, says that the record is sound, that every living thread is settled,
and that every thread `Fits`: what it waits for, owns and is about to do agrees with the words.
The properties of the run do not say, for example, that the word of a
mutex with a waiter names that waiter's owner with the bit set, or that a word may name a
guest which does not take itself to hold the mutex only while that guest is about to take it or
to give it up, or has exited. A system call is
a composition of methods, and so is its proof; the loop of `signal` has a lemma that
carries what every round keeps to the end, with the number of rounds bounded by the waiters there
are.

### ServerManager_proofs

For any finite set of client threads, any sessions, routes, number of slots and termination of the
client process at any point. For any number of workers:

- `TypesHold`, with the bound of the slots of the port;
- `RequestsAreAccounted`: a waiting thread has exactly one request, in one place, and a thread that
  does not wait has none;
- `NoWakeupIsLost`: a sleeping worker misses nothing (`SleeperMissesNothing`).

With the hypothesis `Workers = {w}`:

- `HoldersAreAccounted`: every registered session is linked, served or deferred, once; the deferral
  event is linked or handled; so is the port, until `on_port_event` accepts a session that is
  gone already (`missed`);
- `OneWorkerDoesNotPanic`: the only panic is that of a wait while a registered session has no
  server end, as described under Observations;
- `OneWorkerHolderIsLive`: a selected session is still registered when its holder is looked at. This is
  the property that a second worker violates.

The hypothesis is that of every service but bsdsocket, which starts two more threads. It cannot be dropped:
with a second worker TLC finds `NoPanic` violated as well as `SelectedHolderIsLive`, and
`HoldersAccounted` with a second worker and a second slot: one worker still serves a session that the
other has destroyed and then takes from the port and registers once more.

There are four invariants, each built on those before it:

- `TypeInv` has the types, that a worker which serves has a session to serve, and that a
  client which is inside a system call has a session too.
- `RequestInv` says that the lists, the current requests and the replies under way are disjoint
  (`OnePlace`) and that exactly the waiting clients are in one of them (`PlacesFollowCalls`); only
  terminated threads leave requests behind. What makes it inductive is `ClientInv`, about
  the client side alone: a session that is being closed has no handle any more, and a thread
  that uses a session has its handle open or is being terminated. Hence the closing of a
  client end drops no request that somebody waits for. The cardinality of `Places` in the property
  follows from disjointness.
- `SleepInv` follows a wake-up. One worker at a time waits (`SelectorInv`). The wakeup holder is
  always in the list that is waited on, and every session the server knows of reports its
  closing (`WatchInv`). From the look at the holders until the sleep nothing is signalled
  (`QuietInv`): the scheduler lock keeps all others out between the two, but
  for `on_client_closed`, which runs without it and then signals the wakeup event through the
  bridge to the manager; this is the exception in the property. And whoever leaves a
  registration, a closure or a holder to the selector signals the wakeup event, or still has
  that step before it, or nobody is selecting (`WorkInv`): the event is cleared only by the
  worker that goes on to drain the queues.
- `OneInv(w)` says for each holder where it is: in one of the two lists, as the choice of the
  worker, served, retried or deferred, and never in two of these (`ListsApart`, `HolderPlaces`,
  `EventPlaces`); and that a session has a current request exactly while the worker owes its answer,
  is signalled from its selection to its receipt, and that a reply finds its request
  (`ServiceInv`). `NoPanic` is its last part: what a wait panics on is linked, and therefore
  registered (`HolderPlaces`). It rests on the fact that with one worker the place of that worker
  determines what is served.

`TypesStep`, `RequestsStep`, `SleepStep` and `OneStep` go through the 31 actions each. What the actions
share has lemmas of its own, stated on the sets of entries of the lists: what a notification does
to the workers (`Notified`, `WentTo`), what the destruction of some sessions does
(`Destroyed`, `DestroyDoes`), the drain of the queues (`DrainDoes`), acceptance from the port
(`AcceptDoes`) and the choice of the next session to retry (`NextJobIs`).

### What the proofs do not reach

- Liveness and fairness: `TimedWaitsEnd`, `ReserveReturns`, `RequestIsAnswered`,
  `SlotIsReleased` and the two liveness properties of the light lock are checked by TLC only.
- `HoldersAccounted`, `NoPanic` and `SelectedHolderIsLive` with several workers, where they are
  false; nothing weaker is claimed of them there.
- Circles of owners, which only the violation run has: KConditionVariable without `LockOrder`.
- The provers have no rule of induction over data. What `Kept` and the loops compute is therefore
  proved with sets and the least number that would be a counterexample, and definitions are
  written so that this can be done.

## Findings

1. **A terminated waiter returns from `lock()` without the lock** (`k_light_lock.rs:136`).
   `request_terminate` cancels the wait of a parked thread; `lock_slow_path` returns true
   whatever ended the wait, against its comment.
2. **A broadcast can drop a waiter it did not wake** (`k_light_condition_variable.rs:148`).
   It ends the wait of a copy of the first waiter and then removes the first; a
   termination in between, which runs without the scheduler lock, has already removed
   it.
3. **`unreserve()` after process termination asserts** (`k_handle_table.rs:128`, reached from
   310). `finalize` sets the count to 0 while a thread on another core is between
   `reserve()` and `register()`.
4. **A time-out in a circle of owners panics** (`k_thread.rs:1373`). `cancel_wait` clears the
   back pointer after the removal whose `restore_priority` may come back to the same
   waiter. It takes a guest deadlock, a timed wait, and a lowered base priority.
5. **A worker uses the holder of a session that another worker has destroyed**
   (`service/server_manager.rs:1275`). A closing client wakes the worker that waits on its
   session and then queues the session for destruction; a second worker drains that queue
   between the first one's selection and its look at the holder.

Observations without a property of their own, or which a property names as its exception:

- Raising a limit (`set_limit_value`) wakes nobody, so `SleepersAreBlocked` is checked with limits
  that are lowered only.
- `on_port_event` returns without linking the port again when the session it accepts is
  gone already (`server_manager.rs:1706`): a session that came through sm was registered
  through the queue, used and closed before the port was looked at. Nobody
  accepts sessions of that port afterwards; those on which a synchronous request is sent
  are registered by it. No line of the code promises otherwise. From that step on (`missed`)
  `HoldersAccounted` is silent about the port, and `RequestIsAnswered` and `SlotIsReleased`
  about sessions that only the port would have told of.
- A session that the server destroyed while its client end was still open, and which the port
  still lists, is registered again, without its parent; the next wait panics
  (`multi_wait.rs:163`, the expect "MultiWait holder must own a native kernel synchronization
  object"). One client, one session and one worker are enough: a session connects through sm and
  is registered through the queue before the port is looked at; its client closes it; the server
  drains the closure and destroys its end before the client end is closed; `on_port_event` still
  finds the session (lines 1716-1745) and registers it once more. `NoPanic` allows a panic in
  exactly this state, a registered session without its server end, and no other.
- A request sent after the server end was destroyed is queued and never answered
  (`k_server_session.rs:2213`), and a thread whose handle a sibling closes during its
  request is forgotten; the model's guests do neither.
- The address arbiter does not follow priority changes (`k_address_arbiter.rs:455`), so the
  order `SignalsAreExact` speaks of is that of the priorities read by the calls.

## What is abstracted and what is missing

- Guest memory is always mapped; results for inaccessible addresses do not occur.
- Each system call in KConditionVariable is atomic, `request_terminate` included. The
  latter is not, for the reason given under Interaction: the race is shown on
  the light condition variable and not repeated here.
- Method calls of the handle table are atomic, although the guard of the process takes no
  lock; two cores inside `add()` at once are a hazard without a property.
- KResourceLimit takes the light lock as exclusive also with termination.
- `TakeReply` waits for a worker that is about to sleep (`SchedulerFree`), although
  `clear_current_request_and_notify` takes no scheduler lock. The session it signals is served
  and therefore in no list that is waited on. TLC finds `SleeperMissesNothing` without the guard
  too, with one worker and with two workers and two slots; the proof for any number of workers
  would need the placement of holders that is stated for one worker only.
- The host path of the light lock is modelled for safety only: a guest's `unlock()` never
  notifies the native condition variable, and hosts rely on the next notification.
- In KConditionVariable and KResourceLimit timers fire at any time while a timed wait lasts; the
  timer with its task list and events is in TimedWaits.
- Of the objects a thread can wait for, TimedWaits has readable events only; sessions and
  ports are waited for in ServerManager, threads and processes nowhere.
- Core timing is modelled for the one event of the hardware timer: looping events, pausing and
  the single-core mode, in which guests advance it, are not.
- Start-up and shutdown of a service, LLE servers (`svcReplyAndReceive`), domains, light
  sessions and the translation of messages are not modelled; a handler is one step.
- The kernel's page tables, the recompilers, the GPU, audio, file systems and the HLE services
  themselves are data transformations or host I/O of a size that has no small model; they
  are most of the repository's lines, and PROJECT.json gives the reason for each.
- Which thread a core runs is left to chance everywhere.
- Logging, formatting, tracing and the getters are left out.

## Plan

Next modules, in order of what the kernel depends on most:

1. **KScheduler and KPriorityQueue**: selection over cores, affinity, yield, the scheduler lock
   with recursion; abstract specification: the set of runnable threads and the best per core.
2. Waits on threads and processes in TimedWaits, with KProcess's termination.
3. **BufferQueue** (display slots), **syncpoints and fences** (32-bit wrap), the rest of
   **core_timing** (unscheduling against a running callback).

Every invariant and action property of a passing run is now a theorem. Those of the next modules are to
follow in the same way; of the present ones, what `HoldersAccounted` becomes for several workers
(each holder in at most one place, or destroyed) is the statement to look for once the code
settles the fifth finding and the second registration.
