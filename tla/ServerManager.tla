---------------------------- MODULE ServerManager -----------------------------
(***************************************************************************)
(* The server side of a service (service/server_manager.rs, os/multi_wait  *)
(* .rs): workers select a signalled holder, accept sessions, receive       *)
(* requests, run the handler and reply; a handler may defer its request    *)
(* until the deferral event, as sm does for services that do not exist     *)
(* yet.  Sessions are registered and destroyed through two queues and the  *)
(* wakeup event, so that nobody needs the lock of the manager from         *)
(* outside.                                                                *)
(*                                                                         *)
(* A step is what one thread does under the lock of the manager, of a      *)
(* session or of the scheduler.  The handler runs without any.             *)
(***************************************************************************)
EXTENDS KServerSession, ListFilter

CONSTANT Defers  \* whether the service defers requests, as sm does (manage_deferral)

ASSUME DefersAssumption == Defers \in BOOLEAN

VARIABLES
    sessions,   \* registered sessions (ServerManager::sessions)
    dlist,      \* holders of m_deferred_list
    selector,   \* the worker that holds selection_mutex
    deferral,   \* deferral_event is signalled
    available,  \* the service that guests ask sm for is registered
    deferred,   \* deferred_sessions
    context,    \* sessions with a stored request context
    todo,       \* deferred sessions each worker has yet to retry
    job,        \* the session each worker serves
    service,    \* service_result of its handler: "ok" or "closed"
    taken,      \* the client of the reply it is sending
    result,     \* reply_result
    panic,      \* why a worker panicked, "none" if none did
    missed      \* history: on_port_event has found the session it accepted gone

queueVars == <<sessions, dlist, selector, missed>>
deferVars == <<deferral, available, deferred, context>>
jobVars == <<todo, job, service, taken, result>>
vars == <<sessionVars, managerVars, backlog, clientVars, waitVars,
          queueVars, deferVars, jobVars, panic>>

TypeOK ==
    /\ state \in [Sessions -> States]
    /\ ends \in [Sessions -> SUBSET {"client", "server"}]
    /\ {live, manager, queued, hooked, handles, ended, pendingClose, sessions, context}
          \subseteq SUBSET Sessions
    /\ \A s \in Sessions : Range(list[s]) \subseteq Clients
    /\ Cardinality(live) <= MaxSessions
    /\ current \in [Sessions -> Clients \cup {None}]
    /\ orphan \in [Sessions -> BOOLEAN]
    /\ clientClosed \in [Sessions -> BOOLEAN]
    /\ Range(backlog) \cup Range(pendingReg) \cup Range(deferred) \subseteq Sessions
    /\ call \in [Clients -> [at : {"idle", "resolved", "waiting", "closing", "exited"},
                             sess : Sessions \cup {None}, msg : {"get", "close"}]]
    /\ closing \in [Sessions -> {"open", "notify", "bridge", "endpoint", "closed"}]
    /\ wpc \in [Workers -> WorkerPlaces]
    /\ sel \in [Workers -> Holders]
    /\ Range(multi) \cup Range(dlist) \subseteq Holders
    /\ selector \in Workers \cup {None}
    /\ missed \in BOOLEAN
    /\ panic \in {"none", "wait", "holder", "receive", "reply"}
    /\ \A w \in Workers : Range(todo[w]) \cup {job[w]} \subseteq Sessions \cup {None}

Init ==
    /\ state = [s \in Sessions |-> "Invalid"]
    /\ ends = [s \in Sessions |-> {}]
    /\ list = [s \in Sessions |-> <<>>]
    /\ current = [s \in Sessions |-> None]
    /\ orphan = [s \in Sessions |-> FALSE]
    /\ clientClosed = [s \in Sessions |-> FALSE]
    /\ live = {}
    /\ manager = {}
    /\ queued = {}
    /\ hooked = {}
    /\ handles = {}
    /\ ended = {}
    /\ pendingClose = {}
    /\ sessions = {}
    /\ context = {}
    /\ backlog = <<>>
    /\ pendingReg = <<>>
    /\ deferred = <<>>
    /\ call = [c \in Clients |-> Idle]
    /\ closing = [s \in Sessions |-> "open"]
    /\ dying = FALSE
    /\ wpc = [w \in Workers |-> "top"]
    /\ sel = [w \in Workers |-> "wakeup"]
    /\ multi = <<"wakeup">>
    /\ dlist = IF Defers THEN <<"deferral", "port">> ELSE <<"port">>
    /\ wakeup = FALSE
    /\ selector = None
    /\ deferral = FALSE
    /\ available = ~Defers
    /\ todo = [w \in Workers |-> <<>>]
    /\ job = [w \in Workers |-> None]
    /\ service = [w \in Workers |-> "ok"]
    /\ taken = [w \in Workers |-> None]
    /\ result = [w \in Workers |-> "ok"]
    /\ panic = "none"
    /\ missed = FALSE

Without(q, S) == Kept(q, Range(q) \ S)
At(w, place) == wpc[w] = place /\ panic = "none"
Panics(cond, why) == panic' = IF cond THEN why ELSE panic

\* The worker goes on at place p; another one may be asleep on holder h, which is
\* signalled if cond holds.
GoesTo(w, p, cond, h) ==
    LET pcs == [wpc EXCEPT ![w] = p] IN
    /\ wpc' = IF cond THEN WokenPc(pcs, h) ELSE pcs
    /\ sel' = [(IF cond THEN WokenSel(pcs, h) ELSE sel) EXCEPT ![w] = "wakeup"]

\* A bug: the id of the session stays among the deferred ones.
MutForget(D) ==
    /\ deferred' = deferred
    /\ context' = context \ D

\* destroy_session, apart from the server ends themselves.
Forget(D) ==
    /\ deferred' = Without(deferred, D)
    /\ context' = context \ D

-----------------------------------------------------------------------------
(* wait_signaled_shared *)

\* register_session for the sessions of q that are not registered yet; one whose client
\* is gone is queued for closing at once.
NewSessions(q) == Range(q) \ sessions

CloseAtOnce(N) == {s \in N : clientClosed[s] /\ "server" \notin ends[s]}

LinkedInOrder(q) == Fresh(q, sessions)

\* The top of the loop: registrations, closures, then the deferred holders join the wait.
\* The signals that registration sends find nobody asleep, for the selector is here.
Drain(w) ==
    LET new == NewSessions(pendingReg)
        all == sessions \cup new
        gone == {s \in all \cap (pendingClose \cup CloseAtOnce(new)) : "server" \notin ends[s]}
    IN  /\ At(w, "top")
        /\ selector \in {None, w}
        /\ \A s \in new \cup gone : SessionFree(s)
        /\ SchedulerFree
        /\ selector' = w
        /\ sessions' = all \ gone
        /\ hooked' = hooked \cup new
        /\ queued' = queued \cup new
        /\ pendingReg' = <<>>
        /\ pendingClose' = {}
        /\ wakeup' = (wakeup \/ new # {})
        /\ multi' = Without(multi \o dlist \o LinkedInOrder(pendingReg), gone)
        /\ dlist' = <<>>
        /\ DestroyServerEnds(gone)
        /\ Forget(gone)
        /\ wpc' = [wpc EXCEPT ![w] = "scan"]
        /\ UNCHANGED <<clientClosed, backlog, handles, ended, closing, dying, sel,
                       missed, deferral, available, jobVars, panic>>

HolderIsSignaled(h) ==
    CASE h = "wakeup" -> wakeup
      [] h = "deferral" -> deferral
      [] h = "port" -> backlog # <<>>
      [] OTHER -> IsSignaled(h)

\* A session without its parent has no object to wait on.
Waitable == \A s \in Range(multi) \cap Sessions : "server" \notin ends[s]

WaitPanics(w) ==
    /\ At(w, "scan")
    /\ ~Waitable
    /\ Panics(TRUE, "wait")
    /\ UNCHANGED <<sessionVars, managerVars, backlog, clientVars, waitVars, queueVars, deferVars,
                   jobVars>>

\* wait_on_objects looks at the objects in order and returns the first that is signalled.
WaitFinds(w) ==
    /\ At(w, "scan")
    /\ Waitable
    /\ SchedulerFree
    /\ wpc' = [wpc EXCEPT ![w] = "woken"]
    /\ \E i \in DOMAIN multi :
          /\ HolderIsSignaled(multi[i])
          /\ \A j \in 1..(i - 1) : ~HolderIsSignaled(multi[j])
          /\ sel' = [sel EXCEPT ![w] = multi[i]]
    /\ UNCHANGED <<sessionVars, managerVars, backlog, clientVars, multi, wakeup, pendingReg,
                   pendingClose, queueVars, deferVars, jobVars, panic>>

\* If there is none it links its nodes and sleeps, with the scheduler lock held.
WaitLinks(w) ==
    /\ At(w, "scan")
    /\ Waitable
    /\ SchedulerFree
    /\ \A h \in Range(multi) : ~HolderIsSignaled(h)
    /\ wpc' = [wpc EXCEPT ![w] = "linking"]
    /\ UNCHANGED <<sessionVars, managerVars, backlog, clientVars, sel, multi, wakeup, pendingReg,
                   pendingClose, queueVars, deferVars, jobVars, panic>>

WaitSleeps(w) ==
    /\ At(w, "linking")
    /\ wpc' = [wpc EXCEPT ![w] = "asleep"]
    /\ UNCHANGED <<sessionVars, managerVars, backlog, clientVars, sel, multi, wakeup, pendingReg,
                   pendingClose, queueVars, deferVars, jobVars, panic>>

\* consume_wakeup_holder: the event is cleared and the loop starts again.
ConsumeWakeup(w) ==
    /\ At(w, "woken")
    /\ sel[w] = "wakeup"
    /\ SchedulerFree
    /\ wakeup' = FALSE
    /\ multi' = Append(Without(multi, {"wakeup"}), "wakeup")
    /\ wpc' = [wpc EXCEPT ![w] = "top"]
    /\ UNCHANGED <<sessionVars, managerVars, backlog, clientVars, sel, pendingReg, pendingClose,
                   queueVars, deferVars, jobVars, panic>>

\* Any other holder is unlinked and returned; the next worker may select.
Select(w) ==
    /\ At(w, "woken")
    /\ sel[w] # "wakeup"
    /\ multi' = Without(multi, {sel[w]})
    /\ selector' = None
    /\ wpc' = [wpc EXCEPT ![w] = "selected"]
    /\ UNCHANGED <<sessionVars, managerVars, backlog, clientVars, sel, wakeup, pendingReg,
                   pendingClose, sessions, dlist, missed, deferVars, jobVars, panic>>

-----------------------------------------------------------------------------
(* Serving what was selected *)

\* prepare_shared_event for a session; the holder of a destroyed one was freed.
PrepareSession(w) ==
    /\ At(w, "selected")
    /\ sel[w] \in Sessions
    /\ Panics(sel[w] \notin sessions, "holder")
    /\ job' = [job EXCEPT ![w] = sel[w]]
    /\ wpc' = [wpc EXCEPT ![w] = "receive"]
    /\ sel' = [sel EXCEPT ![w] = "wakeup"]
    /\ UNCHANGED <<sessionVars, managerVars, backlog, clientVars, multi, wakeup, pendingReg,
                   pendingClose, queueVars, deferVars, todo, service, taken, result>>

\* on_port_event; an accepted session that is gone already ends the watch over the port.
AcceptSession(w) ==
    LET s == Head(backlog)
        found == backlog # <<>> /\ s \in live
        new == IF found THEN {s} \ sessions ELSE {}
        relinks == backlog = <<>> \/ found
        signals == relinks /\ ~wakeup
    IN  /\ At(w, "selected")
        /\ sel[w] = "port"
        /\ SchedulerFree
        /\ \A t \in new : SessionFree(t)
        /\ backlog' = IF backlog = <<>> THEN backlog ELSE Tail(backlog)
        /\ sessions' = sessions \cup new
        /\ hooked' = hooked \cup new
        /\ queued' = queued \cup new
        /\ manager' = manager \cup new
        /\ pendingClose' = pendingClose \cup CloseAtOnce(new)
        /\ dlist' = IF ~relinks THEN dlist
                     ELSE IF new = {} THEN Append(dlist, "port") ELSE dlist \o <<s, "port">>
        /\ wakeup' = (wakeup \/ relinks)
        /\ missed' = (missed \/ (backlog # <<>> /\ ~found))
        /\ GoesTo(w, "top", signals, "wakeup")
        /\ UNCHANGED <<sessionVars, clientVars, multi, pendingReg, selector, deferVars, jobVars,
                       panic>>

\* A session is destroyed by the worker that serves it, which goes on.
DestroyAndGo(w, D) ==
    /\ sessions' = sessions \ D
    /\ multi' = Without(multi, D)
    /\ dlist' = Without(dlist, D)
    /\ DestroyServerEnds(D)
    /\ Forget(D)

\* The worker is done with a session: the next of its deferred ones, or the loop.
AfterJob(w) == IF todo[w] = <<>> THEN "top" ELSE "dispatch"
NextJobVars(w) ==
    /\ job' = [job EXCEPT ![w] = IF todo[w] = <<>> THEN None ELSE Head(todo[w])]
    /\ todo' = [todo EXCEPT ![w] = IF @ = <<>> THEN @ ELSE Tail(@)]
    /\ service' = [service EXCEPT ![w] = "ok"]
    /\ result' = [result EXCEPT ![w] = "ok"]
NextJob(w) ==
    /\ wpc' = [wpc EXCEPT ![w] = AfterJob(w)]
    /\ NextJobVars(w)

\* receive_request_hle finds the session closed.
ReceiveClosed(w) ==
    /\ At(w, "receive")
    /\ clientClosed[job[w]]
    /\ SessionFree(job[w]) /\ SchedulerFree
    /\ DestroyAndGo(w, {job[w]} \cap sessions)
    /\ NextJob(w)
    /\ UNCHANGED <<clientClosed, queued, hooked, backlog, handles, ended, closing, dying,
                   sel, wakeup, pendingReg, pendingClose, selector, missed, deferral, available, taken,
                   panic>>

\* Or a request; any other result is a panic.
ReceiveRequest(w) ==
    LET s == job[w]
        received == current[s] = None /\ list[s] # <<>>
    IN  /\ At(w, "receive")
        /\ ~clientClosed[s]
        /\ SessionFree(s)
        /\ Panics(~received, "receive")
        /\ current' = IF received THEN [current EXCEPT ![s] = Head(list[s])] ELSE current
        /\ list' = IF received THEN [list EXCEPT ![s] = Tail(@)] ELSE list
        /\ wpc' = [wpc EXCEPT ![w] = "dispatch"]
        /\ UNCHANGED <<state, ends, live, orphan, clientClosed, managerVars, backlog, clientVars,
                       sel, multi, wakeup, pendingReg, pendingClose, queueVars, deferVars, jobVars>>

\* The handler.  A session whose context was taken by another worker's destruction has no
\* request of its own any more; the handler only sees the context.
Dispatch(w) ==
    LET c == current[job[w]]
        closes == c # None /\ call[c].msg = "close"
    IN  /\ At(w, "dispatch")
        /\ service' = [service EXCEPT ![w] = IF closes THEN "closed" ELSE "ok"]
        /\ wpc' = [wpc EXCEPT ![w] = IF closes \/ available THEN "reply" ELSE "deferring"]
        /\ UNCHANGED <<sessionVars, managerVars, backlog, clientVars, sel, multi, wakeup,
                       pendingReg, pendingClose, queueVars, deferVars, todo, job, taken, result,
                       panic>>

\* A deferred request is kept with its session.
Defer(w) ==
    LET here == {job[w]} \cap sessions IN
    /\ At(w, "deferring")
    /\ context' = context \cup here
    /\ deferred' = IF here = {} THEN deferred ELSE Append(deferred, job[w])
    /\ NextJob(w)
    /\ UNCHANGED <<sessionVars, managerVars, backlog, clientVars, sel, multi, wakeup, pendingReg,
                   pendingClose, queueVars, deferral, available, taken, panic>>

\* send_reply_hle_unlocked, under the lock of the session: the next request may come.
TakeReply(w) ==
    LET s == job[w]
        c == current[s]
    IN  /\ At(w, "reply")
        /\ SessionFree(s) /\ SchedulerFree
        /\ current' = ClearCurrent(s)
        /\ orphan' = [orphan EXCEPT ![s] = FALSE]
        /\ taken' = [taken EXCEPT ![w] = IF orphan[s] THEN None ELSE c]
        /\ result' = [result EXCEPT ![w] = ReplyResult(s)]
        /\ GoesTo(w, "answer", c # None /\ list[s] # <<>> /\ "server" \notin ends[s], s)
        /\ UNCHANGED <<state, ends, live, list, clientClosed, managerVars, backlog, clientVars,
                       multi, wakeup, pendingReg, pendingClose, queueVars, deferVars, todo, job,
                       service, panic>>

\* Then, under the scheduler lock only, the client's wait ends or its event is signalled.
AnswerClient(w) ==
    /\ At(w, "answer")
    /\ SchedulerFree
    /\ call' = Answered({taken[w]})
    /\ taken' = [taken EXCEPT ![w] = None]
    /\ wpc' = [wpc EXCEPT ![w] = "finish"]
    /\ UNCHANGED <<sessionVars, managerVars, backlog, handles, ended, closing, dying,
                   sel, multi, wakeup, pendingReg, pendingClose, queueVars, deferVars, todo, job,
                   service, result, panic>>

\* The end of complete_sync_request: the session is destroyed if either side closed it.
FinishClosed(w) ==
    /\ At(w, "finish")
    /\ job[w] \in sessions
    /\ result[w] = "closed" \/ service[w] = "closed"
    /\ SessionFree(job[w]) /\ SchedulerFree
    /\ DestroyAndGo(w, {job[w]})
    /\ NextJob(w)
    /\ UNCHANGED <<clientClosed, queued, hooked, backlog, handles, ended, closing, dying,
                   sel, wakeup, pendingReg, pendingClose, selector, missed, deferral, available, taken,
                   panic>>

\* Otherwise its holder is linked again; a reply that failed is a panic.
FinishRelinks(w) ==
    LET s == job[w] IN
    /\ At(w, "finish")
    /\ ~ (s \in sessions /\ (result[w] = "closed" \/ service[w] = "closed"))
    /\ Panics(s \in sessions /\ result[w] # "ok", "reply")
    /\ IF s \in sessions /\ s \notin Range(multi) \cup Range(dlist)
       THEN /\ dlist' = Append(dlist, s)
            /\ wpc' = [wpc EXCEPT ![w] = "wake"]
            /\ UNCHANGED <<job, todo, service, result>>
       ELSE /\ NextJob(w)
            /\ UNCHANGED dlist
    /\ UNCHANGED <<sessionVars, managerVars, backlog, clientVars, sel, multi, wakeup, pendingReg,
                   pendingClose, sessions, selector, missed, deferVars, taken>>

\* The wakeup event is signalled once the lock of the manager is free again.
Wake(w) ==
    /\ At(w, "wake")
    /\ SchedulerFree
    /\ wakeup' = TRUE
    /\ GoesTo(w, AfterJob(w), ~wakeup, "wakeup")
    /\ NextJobVars(w)
    /\ UNCHANGED <<sessionVars, managerVars, backlog, clientVars, multi, pendingReg, pendingClose,
                   queueVars, deferVars, taken, panic>>

-----------------------------------------------------------------------------
(* Deferral: process_deferral_event_shared *)

ClearDeferral(w) ==
    /\ At(w, "selected")
    /\ sel[w] = "deferral"
    /\ SchedulerFree
    /\ deferral' = FALSE
    /\ wpc' = [wpc EXCEPT ![w] = "take"]
    /\ sel' = [sel EXCEPT ![w] = "wakeup"]
    /\ UNCHANGED <<sessionVars, managerVars, backlog, clientVars, multi, wakeup, pendingReg,
                   pendingClose, queueVars, available, deferred, context, jobVars, panic>>

\* The sessions to retry, and the holder of the event is linked again.
TakeDeferred(w) ==
    /\ At(w, "take")
    /\ todo' = [todo EXCEPT ![w] = Kept(deferred, sessions \cap context)]
    /\ context' = context \ Range(deferred)
    /\ deferred' = <<>>
    /\ dlist' = Append(dlist, "deferral")
    /\ wpc' = [wpc EXCEPT ![w] = "wake"]
    /\ UNCHANGED <<sessionVars, managerVars, backlog, clientVars, sel, multi, wakeup, pendingReg,
                   pendingClose, sessions, selector, missed, deferral, available, job, service,
                   taken, result, panic>>

\* A bug: the deferral event is not signalled.
MutRegisterService ==
    /\ ~available
    /\ SchedulerFree
    /\ available' = TRUE
    /\ UNCHANGED <<sessionVars, managerVars, backlog, clientVars, waitVars, queueVars, deferral,
                   deferred, context, jobVars, panic>>

\* sm: a service is registered, then the deferral event is signalled.
RegisterService ==
    /\ ~available
    /\ SchedulerFree
    /\ available' = TRUE
    /\ deferral' = TRUE
    /\ NotifyIf(~deferral, "deferral")
    /\ UNCHANGED <<sessionVars, managerVars, backlog, clientVars, multi, wakeup, pendingReg,
                   pendingClose, queueVars, deferred, context, jobVars, panic>>

WorkerNext(w) ==
    \/ Drain(w) \/ WaitPanics(w) \/ WaitFinds(w) \/ WaitLinks(w) \/ WaitSleeps(w) \/ ConsumeWakeup(w) \/ Select(w)
    \/ PrepareSession(w) \/ AcceptSession(w) \/ ReceiveClosed(w) \/ ReceiveRequest(w)
    \/ Dispatch(w) \/ Defer(w) \/ TakeReply(w) \/ AnswerClient(w)
    \/ FinishClosed(w) \/ FinishRelinks(w) \/ Wake(w)
    \/ ClearDeferral(w) \/ TakeDeferred(w)

Next ==
    \/ ClientNext /\ UNCHANGED <<queueVars, deferVars, jobVars, panic>>
    \/ \E w \in Workers : WorkerNext(w)
    \/ RegisterService

Spec == Init /\ [][Next]_vars

\* Workers are host threads and run on; a thread in a system call finishes it, and so does
\* the closing of a handle, also the one that ends a process; services come up some time.
FairSpec ==
    /\ Spec
    /\ \A w \in Workers : WF_vars(WorkerNext(w))
    /\ \A c \in Clients : WF_vars(OnRequest(c) /\ UNCHANGED <<queueVars, deferVars, jobVars, panic>>)
    /\ \A s \in Sessions :
          WF_vars((FinalizeHandle(s) \/ OnClientClosed(s) \/ NotifyManagerClosed(s)
                     \/ CloseClientEndpoint(s))
                   /\ UNCHANGED <<queueVars, deferVars, jobVars, panic>>)
    /\ WF_vars(RegisterService)

-----------------------------------------------------------------------------
(* Properties *)

Occurrences(q, x) == Cardinality({i \in DOMAIN q : q[i] = x})
Places(c) ==
    {p \in Sessions \X (1 .. Cardinality(Clients)) :
        p[2] <= Len(list[p[1]]) /\ list[p[1]][p[2]] = c}
      \cup {s \in Sessions : current[s] = c /\ ~orphan[s]}
      \cup {w \in Workers : taken[w] = c}

\* A thread that waits for an answer has exactly one request, in one place: the list of one
\* session, its current request, or the reply of one worker; and a thread that does not wait
\* has none, so no later answer ends a wait it does not belong to (on_request, send_reply_hle,
\* cleanup_requests, on_client_closed).  Requests of a terminated process may be left over.
RequestsAccounted ==
    \A c \in Clients :
        /\ call[c].at = "waiting" => Cardinality(Places(c)) = 1
        /\ call[c].at \notin {"waiting", "exited"} => Places(c) = {}

\* A worker sleeps only if there is nothing to do: no holder it waits on is signalled, no
\* session waits to be registered or destroyed and no holder to be linked, unless a thread
\* that is about to signal the wakeup event is still on its way (wait_any, notify_available,
\* link_to_deferred_list, notify_manager_closed).
SleeperMissesNothing ==
    \A w \in Workers : wpc[w] = "asleep" =>
        /\ \A h \in Range(multi) : HolderIsSignaled(h) => h \in Sessions /\ closing[h] = "bridge"
        /\ pendingReg = <<>> /\ pendingClose = {}
        /\ dlist # <<>> => \E v \in Workers : wpc[v] = "wake"

Serving(s) == {w \in Workers :
    \/ wpc[w] = "selected" /\ sel[w] = s
    \/ wpc[w] \notin {"top", "scan", "linking", "asleep", "woken", "selected", "take", "wake"}
          /\ job[w] = s
    \/ s \in Range(todo[w])}

PortWatched ==
    Occurrences(multi \o dlist, "port")
      + Cardinality({w \in Workers : wpc[w] = "selected" /\ sel[w] = "port"}) = 1

\* Every registered session is watched or worked on, once: its holder is linked in one list, or
\* one worker serves it, or its request is deferred.  The deferral event is watched or being
\* handled.  So is the port, until on_port_event accepts a session that came and went before
\* the port was looked at: the server heard of it from its registration or its first request
\* (unlink, relink and the two lists, on_port_event).
HoldersAccounted ==
    /\ \A s \in sessions :
          Occurrences(multi \o dlist, s) + Cardinality(Serving(s)) + Occurrences(deferred, s) = 1
    /\ Range(deferred) = context
    /\ Defers =>
          Occurrences(multi \o dlist, "deferral")
            + Cardinality({w \in Workers :
                  wpc[w] = "take" \/ (wpc[w] = "selected" /\ sel[w] = "deferral")}) = 1
    /\ PortWatched \/ missed

\* No worker panics: a selected session is registered, a session selected for a request has
\* one, and a reply succeeds unless the session was closed (prepare_shared_event,
\* process_session_event_shared, the assertions of complete_sync_request_transaction_shared).
\* There is one exception: a session whose server end was destroyed before the port was looked
\* at, and whose client end is not closed yet, is registered once more, and the next wait
\* finds that it has no kernel object (on_port_event, timed_wait_impl).  A session that is not
\* registered any more is never waited on.
NoPanic ==
    \/ panic = "none"
    \/ panic = "wait" /\ \E s \in sessions : "server" \in ends[s]

\* The server will never hear of session s: it panicked, or the port was given up for a session
\* found gone and no request was sent on s with SendSyncRequest, which registers a session by
\* itself.
Unheard(s) == panic = "wait" \/ (s \notin queued /\ missed)

\* Every request is answered, with a reply or with an error, or its thread is terminated; a
\* deferred one too, once the service it asks for is registered (complete_sync_request,
\* process_deferral_event_shared, cleanup_requests).
RequestIsAnswered ==
    \A c \in Clients :
        call[c].at = "waiting" ~> call[c].at # "waiting" \/ Unheard(call[c].sess)

\* A session whose client end is closed, by its process or by the end of the process, gives its
\* slot back to the port, also one that the server had not accepted yet
\* (set_manager_close_notification, notify_manager_closed, destroy_session).
SlotIsReleased ==
    \A s \in Sessions :
        closing[s] = "closed" ~> s \notin live \/ Unheard(s)

\* What destroy_session says of the session a worker has selected: it is still there when the
\* worker looks at its holder.
SelectedHolderIsLive ==
    \A w \in Workers : wpc[w] = "selected" /\ sel[w] \in Sessions => sel[w] \in sessions

=============================================================================
