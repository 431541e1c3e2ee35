---------------------------- MODULE KServerSession ----------------------------
(***************************************************************************)
(* Sessions as the kernel keeps them (k_session.rs, k_server_session.rs,   *)
(* k_client_session.rs, k_port.rs and its two ends, svc_ipc.rs): guest     *)
(* threads of one process connect to a named port, send requests on their  *)
(* sessions, wait for the answers and close the handles; the process may   *)
(* be terminated at any moment.  ServerManager adds the service that       *)
(* accepts the sessions and answers.                                       *)
(*                                                                         *)
(* A client has at most one request under way, so a client names its       *)
(* request.  What a method does under the scheduler lock or under the lock *)
(* of a session is one step; the guard of a process locks nothing, so the  *)
(* methods that run under it alone are split into steps.                   *)
(*                                                                         *)
(* Guests do not close a session that another thread is using: no          *)
(* reference to the session is held while a request is under way, so the   *)
(* kernel forgets a waiting thread whose handle a sibling closes.          *)
(***************************************************************************)
EXTENDS SequencesExt, FiniteSets, Naturals

CONSTANTS
    Clients,      \* guest threads
    Async,        \* those that send with SendAsyncRequestWithUserBuffer
    Sessions,     \* session objects, each used once: object ids are not reused
    MaxSessions,  \* max_sessions of the port
    Routes,       \* how sessions come about: ConnectToNamedPort or sm's GetService
    TerminateUpTo, \* bound: the process is terminated before it made more sessions than this
    Workers,      \* threads that run the server's loop
    None

ASSUME SessionAssumption ==
    /\ Async \subseteq Clients
    /\ IsFiniteSet(Clients)
    /\ None \notin Clients \cup Sessions \cup Workers
    /\ Sessions \cap {"wakeup", "deferral", "port"} = {}
    /\ MaxSessions \in Nat
    /\ Routes \subseteq {"named", "sm"}
    /\ TerminateUpTo \in Nat

VARIABLES
    state,        \* KSession::atomic_state
    ends,         \* which endpoints of each session are closed
    live,         \* sessions registered in their process; each holds a port slot
    list,         \* request_list of each server session
    current,      \* current_request
    orphan,       \* the thread and event of the current request were cleared
    clientClosed, \* client_closed
    manager,      \* sessions whose server end knows its request manager
    queued,       \* manager_registration_queued
    hooked,       \* sessions with a manager_close_queue
    backlog,      \* session_list of the server port
    call,         \* what each client is doing, with which session and request
    handles,      \* sessions the process has a handle to
    ended,        \* sessions on which a guest sent the message that closes them
    closing,      \* how far the client end of each session is closed
    dying,        \* the client process is being terminated
    wpc, sel,     \* where each worker is, and the holder it was woken for
    multi,        \* the holders that wait_any waits on (MultiWait::holders)
    wakeup,       \* wakeup_event is signalled
    pendingReg,   \* pending_registrations
    pendingClose  \* pending_session_closures

sessionVars == <<state, ends, live, list, current, orphan, clientClosed>>
managerVars == <<manager, queued, hooked>>
clientVars == <<call, handles, ended, closing, dying>>
waitVars == <<wpc, sel, multi, wakeup, pendingReg, pendingClose>>

Holders == {"wakeup", "deferral", "port"} \cup Sessions
States == {"Invalid", "Normal", "ClientClosed", "ServerClosed"}
WorkerPlaces == {"top", "scan", "linking", "asleep", "woken", "selected", "receive",
                 "take", "dispatch", "deferring", "reply", "answer", "finish", "wake"}

-----------------------------------------------------------------------------
(* Locks and notifications *)

\* A worker that has looked at its objects holds the scheduler lock until it
\* sleeps; whoever needs that lock waits.
SchedulerFree == \A w \in Workers : wpc[w] # "linking"

\* on_client_closed holds the lock of the server session until it has told the
\* manager.
SessionFree(s) == closing[s] # "bridge"

IsSignaled(s) == clientClosed[s] \/ (list[s] # <<>> /\ current[s] = None)

\* NotifyAvailable: a worker asleep on object h wakes up with it.
Wakes(pcs, h) == {w \in Workers : pcs[w] = "asleep" /\ h \in Range(multi)}
WokenPc(pcs, h) == [w \in Workers |-> IF w \in Wakes(pcs, h) THEN "woken" ELSE pcs[w]]
WokenSel(pcs, h) == [w \in Workers |-> IF w \in Wakes(pcs, h) THEN h ELSE sel[w]]

NotifyIf(cond, h) ==
    /\ wpc' = IF cond THEN WokenPc(wpc, h) ELSE wpc
    /\ sel' = IF cond THEN WokenSel(wpc, h) ELSE sel

\* A bug: the event is signalled without the scheduler lock.
MutSignalWakeup ==
    /\ wakeup' = TRUE
    /\ NotifyIf(~wakeup, "wakeup")

\* Event::signal: nobody is told of an event that is signalled already.
SignalWakeup ==
    /\ SchedulerFree
    /\ wakeup' = TRUE
    /\ NotifyIf(~wakeup, "wakeup")

Idle == [at |-> "idle", sess |-> None, msg |-> "get"]
Exited == [Idle EXCEPT !.at = "exited"]

\* The wait of the threads in A ends, or their events are signalled; a thread that
\* is being terminated does not wait any more.
Answered(A) == [c \in Clients |-> IF c \in A /\ call[c].at = "waiting" THEN Idle ELSE call[c]]

-----------------------------------------------------------------------------
(* Connecting and sending *)

\* A bug: one session more than max_sessions.
MutHasSlot == Cardinality(live) <= MaxSessions

HasSlot == Cardinality(live) < MaxSessions

\* create_session, the port's enqueue, and for GetService the registration that sm
\* queues with the manager of the service.
Connect(c, s, route) ==
    /\ call[c].at = "idle" /\ ~dying
    /\ state[s] = "Invalid"
    /\ HasSlot
    /\ SchedulerFree
    /\ state' = [state EXCEPT ![s] = "Normal"]
    /\ live' = live \cup {s}
    /\ handles' = handles \cup {s}
    /\ manager' = manager \cup {s}
    /\ backlog' = Append(backlog, s)
    /\ IF route = "named"
       THEN /\ NotifyIf(backlog = <<>>, "port")
            /\ UNCHANGED <<wakeup, pendingReg>>
       ELSE /\ pendingReg' = Append(pendingReg, s)
            /\ wakeup' = TRUE
            /\ IF backlog = <<>> /\ "port" \in Range(multi)
               THEN NotifyIf(TRUE, "port")
               ELSE NotifyIf(~wakeup, "wakeup")
    /\ UNCHANGED <<ends, list, current, orphan, clientClosed, queued, hooked,
                   call, ended, closing, dying, multi, pendingClose>>

\* Nobody sends on a session after the message that closes it.
MaySend(c, s) == s \in handles \ ended

MayUseAlone(c, s) ==
    /\ s \in handles
    /\ \A d \in Clients \ {c} : call[d].at \in {"resolved", "waiting"} => call[d].sess # s

\* send_sync_request_impl, up to the queueing of the request: a session whose
\* registration was not seen yet is queued for the manager.
ResolveSession(c, s, m) ==
    /\ call[c].at = "idle" /\ ~dying
    /\ MaySend(c, s)
    /\ m = "close" => MayUseAlone(c, s)
    /\ s \in manager \/ c \in Async
    /\ call' = [call EXCEPT ![c] = [at |-> "resolved", sess |-> s, msg |-> m]]
    /\ ended' = IF m = "close" THEN ended \cup {s} ELSE ended
    /\ IF s \in queued \/ c \in Async
       THEN UNCHANGED <<queued, pendingReg, wakeup, wpc, sel>>
       ELSE /\ queued' = queued \cup {s}
            /\ pendingReg' = Append(pendingReg, s)
            /\ SignalWakeup
    /\ UNCHANGED <<sessionVars, manager, hooked, backlog, handles, closing, dying,
                   multi, pendingClose>>

\* KServerSession::on_request; the sender of a synchronous request goes to sleep in
\* the same section.
OnRequest(c) ==
    LET s == call[c].sess
        refused == s \notin live \/ clientClosed[s] \/ dying
    IN  /\ call[c].at = "resolved"
        /\ SchedulerFree /\ SessionFree(s)
        /\ list' = IF refused THEN list ELSE [list EXCEPT ![s] = Append(@, c)]
        /\ NotifyIf(~refused /\ list[s] = <<>>, s)
        /\ call' = [call EXCEPT ![c] = IF ~refused THEN [@ EXCEPT !.at = "waiting"]
                                       ELSE IF dying THEN Exited ELSE Idle]
        /\ UNCHANGED <<state, ends, live, current, orphan, clientClosed, managerVars, backlog,
                       handles, ended, closing, dying, multi, wakeup, pendingReg, pendingClose>>

-----------------------------------------------------------------------------
(* The client end is closed: KClientSession::destroy_with_process *)

Finalized(closed) == closed = {"client", "server"}

\* The handle goes, and KSession::on_client_closed looks at the state.
BeginClose(s) ==
    /\ s \in handles
    /\ handles' = handles \ {s}
    /\ state' = [state EXCEPT ![s] = IF @ = "Normal" THEN "ClientClosed" ELSE @]
    /\ closing' = [closing EXCEPT ![s] = IF state[s] = "Normal" THEN "notify" ELSE "endpoint"]
    /\ UNCHANGED <<ends, live, list, current, orphan, clientClosed, managerVars, backlog,
                   ended, dying, waitVars>>

CloseHandle(c, s) ==
    /\ call[c].at = "idle" /\ ~dying
    /\ MayUseAlone(c, s)
    /\ BeginClose(s)
    /\ call' = [call EXCEPT ![c] = [@ EXCEPT !.at = "closing", !.sess = s]]

\* finalize_handle_table of a terminated process, one session after the other.
FinalizeHandle(s) ==
    /\ dying
    /\ \A t \in Sessions : closing[t] \in {"open", "closed"}
    /\ BeginClose(s)
    /\ UNCHANGED call

\* KServerSession::on_client_closed, up to the notification of its waiters, which is
\* done without the scheduler lock: a worker about to sleep misses it.
OnClientClosed(s) ==
    /\ closing[s] = "notify"
    /\ clientClosed' = [clientClosed EXCEPT ![s] = TRUE]
    /\ orphan' = [orphan EXCEPT ![s] = @ \/ (current[s] # None /\ dying)]
    /\ list' = [list EXCEPT ![s] = <<>>]
    /\ call' = Answered(Range(list[s]) \cap Async)
    /\ NotifyIf("server" \notin ends[s], s)
    /\ closing' = [closing EXCEPT ![s] = "bridge"]
    /\ UNCHANGED <<state, ends, live, current, managerVars, backlog, handles, ended, dying,
                   multi, wakeup, pendingReg, pendingClose>>

\* A bug: the session is queued for the manager, which is not woken up.
MutNotifyManagerClosed(s) ==
    /\ closing[s] = "bridge"
    /\ closing' = [closing EXCEPT ![s] = "endpoint"]
    /\ pendingClose' = IF s \in hooked /\ "server" \notin ends[s]
                       THEN pendingClose \cup {s} ELSE pendingClose
    /\ UNCHANGED <<sessionVars, managerVars, backlog, call, handles, ended, dying, wpc, sel,
                   multi, wakeup, pendingReg>>

\* notify_manager_closed
NotifyManagerClosed(s) ==
    /\ closing[s] = "bridge"
    /\ closing' = [closing EXCEPT ![s] = "endpoint"]
    /\ IF s \in hooked /\ "server" \notin ends[s]
       THEN /\ pendingClose' = pendingClose \cup {s}
            /\ SignalWakeup
       ELSE UNCHANGED <<pendingClose, wakeup, wpc, sel>>
    /\ UNCHANGED <<sessionVars, managerVars, backlog, call, handles, ended, dying, multi,
                   pendingReg>>

\* close_client_endpoint; the second endpoint to close finalizes the session and gives
\* its slot back to the port.
CloseClientEndpoint(s) ==
    LET closed == ends[s] \cup {"client"} IN
    /\ closing[s] = "endpoint"
    /\ ends' = [ends EXCEPT ![s] = closed]
    /\ live' = IF Finalized(closed) THEN live \ {s} ELSE live
    /\ closing' = [closing EXCEPT ![s] = "closed"]
    /\ call' = [c \in Clients |-> IF call[c].at = "closing" /\ call[c].sess = s
                                  THEN (IF dying THEN Exited ELSE Idle) ELSE call[c]]
    /\ UNCHANGED <<state, list, current, orphan, clientClosed, managerVars, backlog, handles,
                   ended, dying, waitVars>>

\* The process is terminated: waits are cancelled, threads in a system call finish it.
Terminate ==
    /\ ~dying
    /\ Cardinality({s \in Sessions : state[s] # "Invalid"}) <= TerminateUpTo
    /\ SchedulerFree
    /\ dying' = TRUE
    /\ call' = [c \in Clients |-> IF call[c].at \in {"idle", "waiting"}
                                  THEN [call[c] EXCEPT !.at = "exited", !.sess = None] ELSE call[c]]
    /\ UNCHANGED <<sessionVars, managerVars, backlog, handles, ended, closing, waitVars>>

ClientNext ==
    \/ \E c \in Clients, s \in Sessions, route \in Routes : Connect(c, s, route)
    \/ \E c \in Clients, s \in Sessions, m \in {"get", "close"} : ResolveSession(c, s, m)
    \/ \E c \in Clients : OnRequest(c)
    \/ \E c \in Clients, s \in Sessions : CloseHandle(c, s)
    \/ \E s \in Sessions :
          FinalizeHandle(s) \/ OnClientClosed(s) \/ NotifyManagerClosed(s) \/ CloseClientEndpoint(s)
    \/ Terminate

-----------------------------------------------------------------------------
(* What the server does to sessions *)

\* A bug: the request stays current until its client was told.
MutClearCurrent(s) == current

\* clear_current_request_and_notify
ClearCurrent(s) == [current EXCEPT ![s] = None]

\* A bug: a request whose thread is gone counts as none.
MutReplyResult(s) ==
    IF current[s] = None \/ orphan[s] THEN "invalid"
    ELSE IF clientClosed[s] THEN "closed" ELSE "ok"

\* What send_reply_hle returns.
ReplyResult(s) ==
    IF current[s] = None THEN "invalid"
    ELSE IF orphan[s] \/ clientClosed[s] THEN "closed" ELSE "ok"

\* destroy_with_process on every session of D, with cleanup_requests.
Aborted(D) ==
    UNION {Range(list[s]) \cup (IF orphan[s] THEN {} ELSE {current[s]}) : s \in D}

DestroyServerEnds(D) ==
    LET closed(s) == IF s \in D THEN ends[s] \cup {"server"} ELSE ends[s] IN
    /\ ends' = [s \in Sessions |-> closed(s)]
    /\ state' = [s \in Sessions |-> IF s \in D /\ state[s] = "Normal"
                                    THEN "ServerClosed" ELSE state[s]]
    /\ live' = {s \in live : ~ (s \in D /\ Finalized(closed(s)))}
    /\ list' = [s \in Sessions |-> IF s \in D THEN <<>> ELSE list[s]]
    /\ current' = [s \in Sessions |-> IF s \in D THEN None ELSE current[s]]
    /\ orphan' = [s \in Sessions |-> s \notin D /\ orphan[s]]
    /\ call' = Answered(Aborted(D))
    /\ manager' = manager \ D

=============================================================================
