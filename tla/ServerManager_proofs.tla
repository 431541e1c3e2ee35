------------------------- MODULE ServerManager_proofs --------------------------
(***************************************************************************)
(* Sessions and the workers of a service: proofs for any clients, sessions *)
(* and routes.  Types, requests and the sleep of the workers are proved    *)
(* for any number of workers; what becomes of the holders, and that nobody *)
(* panics, for one, since two may serve what the other has destroyed.      *)
(*                                                                         *)
(* The first part says what the shared pieces of the steps do, in terms of *)
(* the sets of entries of the lists; the invariants follow, each with one  *)
(* lemma that every step keeps it.                                         *)
(***************************************************************************)
EXTENDS ServerManager, ListLemmas, FiniteSetTheorems

Calls == [at : {"idle", "resolved", "waiting", "closing", "exited"},
          sess : Sessions \cup {None}, msg : {"get", "close"}]

\* Where a worker serves the session it has as its job.
JobPlaces == {"receive", "dispatch", "deferring", "reply", "answer", "finish"}

SessionTypes ==
    /\ state \in [Sessions -> States]
    /\ ends \in [Sessions -> SUBSET {"client", "server"}]
    /\ live \in SUBSET Sessions /\ IsFiniteSet(live) /\ Cardinality(live) <= MaxSessions
    /\ list \in [Sessions -> Seq(Clients)]
    /\ current \in [Sessions -> Clients \cup {None}]
    /\ orphan \in [Sessions -> BOOLEAN]
    /\ clientClosed \in [Sessions -> BOOLEAN]

ClientTypes ==
    /\ manager \in SUBSET Sessions /\ queued \in SUBSET Sessions /\ hooked \in SUBSET Sessions
    /\ backlog \in Seq(Sessions)
    /\ call \in [Clients -> Calls]
    /\ handles \in SUBSET Sessions /\ ended \in SUBSET Sessions
    /\ closing \in [Sessions -> {"open", "notify", "bridge", "endpoint", "closed"}]
    /\ dying \in BOOLEAN
    /\ \A c \in Clients :
          call[c].at \in {"resolved", "waiting", "closing"} => call[c].sess \in Sessions

WaitTypes ==
    /\ wpc \in [Workers -> WorkerPlaces] /\ sel \in [Workers -> Holders]
    /\ multi \in Seq(Holders) /\ wakeup \in BOOLEAN
    /\ pendingReg \in Seq(Sessions) /\ pendingClose \in SUBSET Sessions

ServerTypes ==
    /\ sessions \in SUBSET Sessions /\ dlist \in Seq(Holders)
    /\ selector \in Workers \cup {None}
    /\ deferral \in BOOLEAN /\ available \in BOOLEAN
    /\ deferred \in Seq(Sessions) /\ context \in SUBSET Sessions
    /\ todo \in [Workers -> Seq(Sessions)] /\ job \in [Workers -> Sessions \cup {None}]
    /\ service \in [Workers -> {"ok", "closed"}]
    /\ taken \in [Workers -> Clients \cup {None}]
    /\ result \in [Workers -> {"ok", "closed", "invalid"}]
    /\ missed \in BOOLEAN
    /\ panic \in {"none", "wait", "holder", "receive", "reply"}
    /\ \A w \in Workers : wpc[w] \in JobPlaces => job[w] \in Sessions

TypeInv == SessionTypes /\ ClientTypes /\ WaitTypes /\ ServerTypes

-----------------------------------------------------------------------------
(* What steps are made of *)

\* Holder h wakes worker w.
Rouses(h, w) ==
    wpc[w] = "asleep" /\ h \in Range(multi) /\ wpc'[w] = "woken" /\ sel'[w] = h

Alike(w) == wpc'[w] = wpc[w] /\ sel'[w] = sel[w]

\* Nobody but W is moved, unless it is woken by h, if cond holds.
Alerts(W, cond, h) ==
    /\ \A v \in Workers \ W : Alike(v) \/ (cond /\ Rouses(h, v))
    /\ cond /\ h \in Range(multi) => \A v \in Workers \ W : wpc'[v] # "asleep"

LEMMA Notified ==
    ASSUME WaitTypes, NEW cond \in BOOLEAN, NEW h \in Holders, NotifyIf(cond, h)
    PROVE  /\ wpc' \in [Workers -> WorkerPlaces] /\ sel' \in [Workers -> Holders]
           /\ Alerts({}, cond, h)
  BY DEF WaitTypes, NotifyIf, WokenPc, WokenSel, Wakes, Alerts, Alike, Rouses, WorkerPlaces

LEMMA WentTo ==
    ASSUME WaitTypes, NEW w \in Workers, NEW p \in WorkerPlaces, p # "asleep",
           NEW cond \in BOOLEAN, NEW h \in Holders, GoesTo(w, p, cond, h)
    PROVE  /\ wpc' \in [Workers -> WorkerPlaces] /\ sel' \in [Workers -> Holders]
           /\ wpc'[w] = p /\ sel'[w] = "wakeup"
           /\ Alerts({w}, cond, h)
  BY DEF WaitTypes, GoesTo, WokenPc, WokenSel, Wakes, Alerts, Alike, Rouses, WorkerPlaces, Holders

LEMMA AnsweredIs ==
    ASSUME ClientTypes, NEW A, call' = Answered(A)
    PROVE  /\ call' \in [Clients -> Calls]
           /\ \A c \in Clients :
                call'[c] = IF c \in A /\ call[c].at = "waiting" THEN Idle ELSE call[c]
           /\ \A c \in Clients :
                call'[c].at \in {"resolved", "waiting", "closing"} => call'[c].sess \in Sessions
  BY DEF ClientTypes, Answered, Idle, Calls

\* What becomes of the sessions of D.
SessionsDestroyed(D) ==
    \A s \in Sessions :
        /\ ends'[s] = IF s \in D THEN ends[s] \cup {"server"} ELSE ends[s]
        /\ list'[s] = IF s \in D THEN <<>> ELSE list[s]
        /\ current'[s] = IF s \in D THEN None ELSE current[s]
        /\ orphan'[s] = IF s \in D THEN FALSE ELSE orphan[s]
        /\ state'[s] = "Invalid" <=> state[s] = "Invalid"

LEMMA Destroyed ==
    ASSUME TypeInv, NEW D \in SUBSET Sessions, DestroyServerEnds(D), clientClosed' = clientClosed
    PROVE  /\ SessionTypes'
           /\ live' \in SUBSET live
           /\ SessionsDestroyed(D)
           /\ manager' \in SUBSET Sessions
           /\ call' = Answered(Aborted(D))
<1>1. /\ state' \in [Sessions -> States]
      /\ \A s \in Sessions : state'[s] = "Invalid" <=> state[s] = "Invalid"
  BY DEF TypeInv, SessionTypes, DestroyServerEnds, States
<1>2. /\ ends' \in [Sessions -> SUBSET {"client", "server"}]
      /\ \A s \in Sessions : ends'[s] = IF s \in D THEN ends[s] \cup {"server"} ELSE ends[s]
  BY DEF TypeInv, SessionTypes, DestroyServerEnds
<1>3. /\ list' \in [Sessions -> Seq(Clients)]
      /\ \A s \in Sessions : list'[s] = IF s \in D THEN <<>> ELSE list[s]
  BY EmptyList DEF TypeInv, SessionTypes, DestroyServerEnds
<1>4. /\ current' \in [Sessions -> Clients \cup {None}]
      /\ \A s \in Sessions : current'[s] = IF s \in D THEN None ELSE current[s]
  BY DEF TypeInv, SessionTypes, DestroyServerEnds
<1>5. /\ orphan' \in [Sessions -> BOOLEAN]
      /\ \A s \in Sessions : orphan'[s] = IF s \in D THEN FALSE ELSE orphan[s]
  BY DEF TypeInv, SessionTypes, DestroyServerEnds
<1>6. /\ live' \in SUBSET live /\ IsFiniteSet(live') /\ Cardinality(live') <= MaxSessions
  <2>1. live' \in SUBSET live
    BY DEF DestroyServerEnds
  <2>2. IsFiniteSet(live) /\ Cardinality(live) <= MaxSessions /\ MaxSessions \in Nat
    BY SessionAssumption DEF TypeInv, SessionTypes
  <2>3. IsFiniteSet(live') /\ Cardinality(live') <= Cardinality(live)
        /\ Cardinality(live') \in Nat /\ Cardinality(live) \in Nat
    BY <2>1, <2>2, FS_Subset, FS_CardinalityType
  <2> QED
    BY <2>1, <2>2, <2>3
<1>7. manager' \in SUBSET Sessions /\ call' = Answered(Aborted(D))
  BY DEF TypeInv, ClientTypes, DestroyServerEnds
<1>8. live' \in SUBSET Sessions
  BY <1>6 DEF TypeInv, SessionTypes
<1>9. clientClosed' \in [Sessions -> BOOLEAN]
  BY DEF TypeInv, SessionTypes
<1> QED
  BY <1>1, <1>2, <1>3, <1>4, <1>5, <1>6, <1>7, <1>8, <1>9 DEF SessionTypes, SessionsDestroyed

\* retain on one of the lists.
LEMMA WithoutIs ==
    ASSUME NEW A, NEW q \in Seq(A), NEW S
    PROVE  /\ Without(q, S) \in Seq(A)
           /\ Range(Without(q, S)) = Range(q) \ S
           /\ NoDuplicates(q) => NoDuplicates(Without(q, S))
  BY KeptProperties, KeptDistinct DEF Without

\* What a worker does next.
NextJobEffect(w) ==
    /\ todo' \in [Workers -> Seq(Sessions)] /\ job' \in [Workers -> Sessions \cup {None}]
    /\ service' \in [Workers -> {"ok", "closed"}]
    /\ result' \in [Workers -> {"ok", "closed", "invalid"}]
    /\ result'[w] = "ok" /\ service'[w] = "ok"
    /\ todo[w] = <<>> => todo'[w] = <<>> /\ AfterJob(w) = "top"
    /\ todo[w] # <<>> => /\ Range(todo[w]) = Range(todo'[w]) \cup {job'[w]}
                         /\ NoDuplicates(todo[w]) =>
                               NoDuplicates(todo'[w]) /\ job'[w] \notin Range(todo'[w])
                         /\ job'[w] \in Sessions
                         /\ AfterJob(w) = "dispatch"
    /\ \A v \in Workers \ {w} :
          /\ todo'[v] = todo[v] /\ job'[v] = job[v]
          /\ service'[v] = service[v] /\ result'[v] = result[v]

LEMMA NextJobIs ==
    ASSUME ServerTypes, NEW w \in Workers, NextJobVars(w)
    PROVE  NextJobEffect(w)
<1>1. todo[w] \in Seq(Sessions)
  BY DEF ServerTypes
<1>2. todo[w] # <<>> =>
         /\ Head(todo[w]) \in Sessions /\ Tail(todo[w]) \in Seq(Sessions)
         /\ Range(todo[w]) = Range(Tail(todo[w])) \cup {Head(todo[w])}
         /\ NoDuplicates(todo[w]) =>
               NoDuplicates(Tail(todo[w])) /\ Head(todo[w]) \notin Range(Tail(todo[w]))
  BY <1>1, RangeTail
<1> QED
  BY <1>1, <1>2 DEF ServerTypes, NextJobVars, AfterJob, NextJobEffect

\* A client's step leaves the workers at their jobs.
LEMMA ServerTypesKept ==
    ASSUME ServerTypes, UNCHANGED <<queueVars, deferVars, jobVars, panic>>,
           \A w \in Workers : wpc'[w] \in JobPlaces => wpc[w] \in JobPlaces
    PROVE  ServerTypes'
  BY DEF ServerTypes, queueVars, deferVars, jobVars

\* A session that has no object yet gets one.
LEMMA OneMoreLives ==
    ASSUME SessionTypes, HasSlot, NEW s \in Sessions
    PROVE  /\ live \cup {s} \in SUBSET Sessions /\ IsFiniteSet(live \cup {s})
           /\ Cardinality(live \cup {s}) <= MaxSessions
<1>1. IsFiniteSet(live) /\ live \in SUBSET Sessions
  BY DEF SessionTypes
<1>2. Cardinality(live) \in Nat /\ MaxSessions \in Nat
  BY <1>1, FS_CardinalityType, SessionAssumption
<1>3. /\ IsFiniteSet(live \cup {s})
      /\ Cardinality(live \cup {s}) = IF s \in live THEN Cardinality(live) ELSE Cardinality(live) + 1
  BY <1>1, FS_AddElement
<1> QED
  BY <1>1, <1>2, <1>3 DEF HasSlot

LEMMA FewerLive ==
    ASSUME SessionTypes, NEW L \in SUBSET live
    PROVE  L \in SUBSET Sessions /\ IsFiniteSet(L) /\ Cardinality(L) <= MaxSessions
<1>1. IsFiniteSet(live) /\ live \in SUBSET Sessions /\ Cardinality(live) <= MaxSessions
  BY DEF SessionTypes
<1>2. IsFiniteSet(L) /\ Cardinality(L) <= Cardinality(live)
  BY <1>1, FS_Subset
<1>3. Cardinality(L) \in Nat /\ Cardinality(live) \in Nat /\ MaxSessions \in Nat
  BY <1>1, <1>2, FS_CardinalityType, SessionAssumption
<1> QED
  BY <1>1, <1>2, <1>3

\* A worker destroys the sessions of D and goes on.
DestroyEffect(w, D) ==
    /\ SessionTypes'
    /\ SessionsDestroyed(D) /\ live' \in SUBSET live
    /\ manager' \in SUBSET Sessions
    /\ call' = Answered(Aborted(D)) /\ call' \in [Clients -> Calls]
    /\ \A c \in Clients :
          call'[c].at \in {"resolved", "waiting", "closing"} => call'[c].sess \in Sessions
    /\ sessions' = sessions \ D /\ context' = context \ D
    /\ multi' \in Seq(Holders) /\ Range(multi') = Range(multi) \ D
    /\ dlist' \in Seq(Holders) /\ Range(dlist') = Range(dlist) \ D
    /\ deferred' \in Seq(Sessions) /\ Range(deferred') = Range(deferred) \ D
    /\ NoDuplicates(multi) => NoDuplicates(multi')
    /\ NoDuplicates(dlist) => NoDuplicates(dlist')
    /\ NoDuplicates(deferred) => NoDuplicates(deferred')

LEMMA DestroyDoes ==
    ASSUME TypeInv, NEW w \in Workers, NEW D \in SUBSET Sessions,
           DestroyAndGo(w, D), clientClosed' = clientClosed
    PROVE  DestroyEffect(w, D)
<1>1. multi \in Seq(Holders) /\ dlist \in Seq(Holders) /\ deferred \in Seq(Sessions)
  BY DEF TypeInv, WaitTypes, ServerTypes
<1>2. DestroyServerEnds(D) /\ multi' = Without(multi, D) /\ dlist' = Without(dlist, D)
      /\ deferred' = Without(deferred, D) /\ sessions' = sessions \ D /\ context' = context \ D
  BY DEF DestroyAndGo, Forget
<1>3. /\ SessionTypes' /\ manager' \in SUBSET Sessions /\ call' = Answered(Aborted(D))
      /\ SessionsDestroyed(D) /\ live' \in SUBSET live
  BY <1>2, Destroyed
<1>4. call' \in [Clients -> Calls]
      /\ \A c \in Clients :
            call'[c].at \in {"resolved", "waiting", "closing"} => call'[c].sess \in Sessions
  BY <1>3, AnsweredIs DEF TypeInv
<1> QED
  BY <1>1, <1>2, <1>3, <1>4, WithoutIs DEF DestroyEffect

\* The session a worker serves, if it is still registered.
JobOf(w) == {job[w]} \cap sessions

\* The top of the loop: sessions in N are registered, those of D destroyed.
Gone == LET new == NewSessions(pendingReg)
        IN {s \in (sessions \cup new) \cap (pendingClose \cup CloseAtOnce(new)) : "server" \notin ends[s]}

DrainEffect(w) ==
    /\ NewSessions(pendingReg) \in SUBSET Sessions /\ Gone \in SUBSET Sessions
    /\ SessionsDestroyed(Gone) /\ live' \in SUBSET live
    /\ DestroyServerEnds(Gone) /\ SessionTypes'
    /\ manager' \in SUBSET Sessions
    /\ call' = Answered(Aborted(Gone))
    /\ sessions' = (sessions \cup NewSessions(pendingReg)) \ Gone
    /\ context' = context \ Gone
    /\ multi' \in Seq(Holders)
    /\ Range(multi') = (Range(multi) \cup Range(dlist) \cup NewSessions(pendingReg)) \ Gone
    /\ deferred' \in Seq(Sessions) /\ Range(deferred') = Range(deferred) \ Gone
    /\ NoDuplicates(deferred) => NoDuplicates(deferred')
    /\ /\ NoDuplicates(multi) /\ NoDuplicates(dlist) /\ Range(multi) \cap Range(dlist) = {}
       /\ (Range(multi) \cup Range(dlist)) \cap Sessions \subseteq sessions
       => NoDuplicates(multi')

LEMMA DrainDoes ==
    ASSUME TypeInv, NEW w \in Workers, Drain(w)
    PROVE  DrainEffect(w)
<1> DEFINE new == NewSessions(pendingReg)
           fresh == LinkedInOrder(pendingReg)
           linked == multi \o dlist
           all == linked \o fresh
<1>1. /\ multi \in Seq(Holders) /\ dlist \in Seq(Holders) /\ deferred \in Seq(Sessions)
      /\ pendingReg \in Seq(Sessions)
  BY DEF TypeInv, WaitTypes, ServerTypes
<1>2. new \in SUBSET Sessions /\ Gone \in SUBSET Sessions
  BY <1>1, RangeOf DEF Gone, NewSessions, CloseAtOnce, TypeInv, ServerTypes
<1>3. /\ DestroyServerEnds(Gone) /\ clientClosed' = clientClosed
      /\ sessions' = (sessions \cup new) \ Gone /\ context' = context \ Gone
      /\ multi' = Without(multi \o dlist \o fresh, Gone) /\ deferred' = Without(deferred, Gone)
  BY DEF Drain, Gone, Forget
<1>4. /\ SessionTypes' /\ manager' \in SUBSET Sessions /\ call' = Answered(Aborted(Gone))
      /\ SessionsDestroyed(Gone) /\ live' \in SUBSET live
  BY <1>2, <1>3, Destroyed
<1>5. fresh \in Seq(Sessions) /\ Range(fresh) = new /\ NoDuplicates(fresh)
  BY <1>1, FreshProperties DEF LinkedInOrder, NewSessions
<1>6. fresh \in Seq(Holders)
  BY <1>5, LenProperties, ElementOfSeq, SeqDef DEF Holders
<1>7. /\ linked \in Seq(Holders)
      /\ Range(linked) = Range(multi) \cup Range(dlist)
      /\ NoDuplicates(multi) /\ NoDuplicates(dlist) /\ Range(multi) \cap Range(dlist) = {}
            => NoDuplicates(linked)
  BY <1>1, RangeConcat
<1>8. /\ all \in Seq(Holders)
      /\ Range(all) = Range(multi) \cup Range(dlist) \cup new
      /\ NoDuplicates(linked) /\ (Range(multi) \cup Range(dlist)) \cap new = {}
            => NoDuplicates(all)
  <2> HIDE DEF linked, fresh, new
  <2>1. /\ all \in Seq(Holders)
        /\ Range(all) = Range(linked) \cup Range(fresh)
        /\ NoDuplicates(linked) /\ NoDuplicates(fresh) /\ Range(linked) \cap Range(fresh) = {}
              => NoDuplicates(all)
    BY <1>6, <1>7, RangeConcat
  <2> QED
    BY <1>5, <1>7, <2>1
<1>9. /\ multi' \in Seq(Holders)
      /\ Range(multi') = (Range(multi) \cup Range(dlist) \cup new) \ Gone
      /\ NoDuplicates(all) => NoDuplicates(multi')
  <2>1. multi' = Without(all, Gone)
    BY <1>3
  <2> HIDE DEF all, new
  <2> QED
    BY <1>8, <2>1, WithoutIs
<1>10. /\ deferred' \in Seq(Sessions) /\ Range(deferred') = Range(deferred) \ Gone
       /\ NoDuplicates(deferred) => NoDuplicates(deferred')
  BY <1>1, <1>3, WithoutIs
<1>11. (Range(multi) \cup Range(dlist)) \cap Sessions \subseteq sessions
          => (Range(multi) \cup Range(dlist)) \cap new = {}
  BY <1>2 DEF NewSessions
<1> QED
  BY <1>2, <1>3, <1>4, <1>7, <1>8, <1>9, <1>10, <1>11 DEF DrainEffect

\* A session of the port is accepted.
Accepted ==
    IF backlog # <<>> /\ Head(backlog) \in live THEN {Head(backlog)} \ sessions ELSE {}
Relinks == backlog = <<>> \/ Head(backlog) \in live

AcceptEffect(w) ==
    /\ Accepted \in SUBSET Sessions
    /\ backlog' \in Seq(Sessions)
    /\ backlog = <<>> => backlog' = <<>>
    /\ backlog # <<>> => /\ Head(backlog) \in Sessions /\ Head(backlog) \in Range(backlog)
                         /\ Range(backlog) = Range(backlog') \cup {Head(backlog)}
                         /\ NoDuplicates(backlog) => /\ NoDuplicates(backlog')
                                                     /\ Head(backlog) \notin Range(backlog')
    /\ sessions' = sessions \cup Accepted /\ hooked' = hooked \cup Accepted
    /\ queued' = queued \cup Accepted /\ manager' = manager \cup Accepted
    /\ pendingClose' = pendingClose \cup CloseAtOnce(Accepted)
    /\ wakeup' = (wakeup \/ Relinks)
    /\ dlist' \in Seq(Holders)
    /\ Range(dlist') = Range(dlist) \cup Accepted \cup (IF Relinks THEN {"port"} ELSE {})
    /\ NoDuplicates(dlist) /\ Range(dlist) \cap (Accepted \cup {"port"}) = {}
          => NoDuplicates(dlist')
    /\ wpc' \in [Workers -> WorkerPlaces] /\ sel' \in [Workers -> Holders]
    /\ wpc'[w] = "top"
    /\ Alerts({w}, Relinks /\ ~wakeup, "wakeup")
    /\ missed' = (missed \/ ~Relinks)

LEMMA AcceptDoes ==
    ASSUME TypeInv, NEW w \in Workers, AcceptSession(w)
    PROVE  AcceptEffect(w)
<1> DEFINE s == Head(backlog)
<1>1. dlist \in Seq(Holders) /\ backlog \in Seq(Sessions)
  BY DEF TypeInv, ServerTypes, ClientTypes
<1>2. /\ backlog # <<>> => /\ s \in Sessions /\ Tail(backlog) \in Seq(Sessions)
                           /\ Range(backlog) = Range(Tail(backlog)) \cup {s}
                           /\ NoDuplicates(backlog) =>
                                 NoDuplicates(Tail(backlog)) /\ s \notin Range(Tail(backlog))
  BY <1>1, RangeTail
<1>3. Accepted \in SUBSET Sessions /\ Accepted \in SUBSET {s}
  BY <1>2 DEF Accepted
<1>4. /\ dlist' = IF ~Relinks THEN dlist
                  ELSE IF Accepted = {} THEN Append(dlist, "port") ELSE dlist \o <<s, "port">>
      /\ GoesTo(w, "top", Relinks /\ ~wakeup, "wakeup")
      /\ wakeup' = (wakeup \/ Relinks)
  BY DEF AcceptSession, Relinks, Accepted
<1>5. /\ sessions' = sessions \cup Accepted /\ hooked' = hooked \cup Accepted
      /\ queued' = queued \cup Accepted /\ manager' = manager \cup Accepted
      /\ pendingClose' = pendingClose \cup CloseAtOnce(Accepted)
      /\ backlog' = IF backlog = <<>> THEN backlog ELSE Tail(backlog)
      /\ missed' = (missed \/ ~Relinks)
  BY DEF AcceptSession, Accepted, Relinks
<1>6. /\ dlist' \in Seq(Holders)
      /\ Range(dlist') = Range(dlist) \cup Accepted \cup (IF Relinks THEN {"port"} ELSE {})
      /\ NoDuplicates(dlist) /\ Range(dlist) \cap (Accepted \cup {"port"}) = {}
            => NoDuplicates(dlist')
  <2>1. CASE ~Relinks
    BY <1>1, <1>4, <2>1 DEF Accepted, Relinks
  <2>2. CASE Relinks /\ Accepted = {}
    <3>1. "port" \in Holders
      BY DEF Holders
    <3> QED
      BY <1>1, <1>4, <2>2, <3>1, RangeAppend
  <2>3. CASE Relinks /\ Accepted # {}
    <3>1. s \in Holders /\ "port" \in Holders /\ s # "port" /\ Accepted = {s} /\ s \in Sessions
      BY <1>3, <2>3, SessionAssumption DEF Holders
    <3> DEFINE two == <<s, "port">>
    <3>2. two \in Seq(Holders) /\ Range(two) = {s, "port"} /\ NoDuplicates(two)
      BY <3>1, ShortLists
    <3>3. dlist' = dlist \o two
      BY <1>4, <2>3
    <3> HIDE DEF two, s
    <3>4. /\ dlist' \in Seq(Holders) /\ Range(dlist') = Range(dlist) \cup {s, "port"}
          /\ NoDuplicates(dlist) /\ Range(dlist) \cap {s, "port"} = {} => NoDuplicates(dlist')
      BY <1>1, <3>2, <3>3, RangeConcat
    <3> QED
      BY <2>3, <3>1, <3>4
  <2> QED
    BY <2>1, <2>2, <2>3
<1>7. /\ wpc' \in [Workers -> WorkerPlaces] /\ sel' \in [Workers -> Holders]
      /\ wpc'[w] = "top" /\ Alerts({w}, Relinks /\ ~wakeup, "wakeup")
  <2>1. "wakeup" \in Holders /\ "top" \in WorkerPlaces /\ WaitTypes
        /\ (Relinks /\ ~wakeup) \in BOOLEAN
    BY DEF Holders, WorkerPlaces, TypeInv
  <2>2. GoesTo(w, "top", Relinks /\ ~wakeup, "wakeup")
    BY <1>4
  <2> QED
    BY <2>1, <2>2, WentTo
<1> QED
  BY <1>1, <1>2, <1>3, <1>4, <1>5, <1>6, <1>7 DEF AcceptEffect

-----------------------------------------------------------------------------
(* Types *)

LEMMA TypesStart ==
    ASSUME Init
    PROVE  TypeInv
<1>1. SessionTypes
  BY EmptyList, FS_EmptySet, SessionAssumption DEF Init, SessionTypes, States
<1>2. ClientTypes
  BY EmptyList DEF Init, ClientTypes, Calls, Idle
<1> DEFINE one == <<"wakeup">>
           port == <<"port">>
           two == <<"deferral", "port">>
<1>a. {"wakeup", "deferral", "port"} \subseteq Holders
  BY DEF Holders
<1>b. one \in Seq(Holders) /\ port \in Seq(Holders) /\ two \in Seq(Holders)
  BY <1>a, ShortLists
<1>c. multi = one /\ dlist = IF Defers THEN two ELSE port
  BY DEF Init
<1> HIDE DEF one, port, two
<1>3. WaitTypes
  BY <1>a, <1>b, <1>c, EmptyList DEF Init, WaitTypes, WorkerPlaces
<1>4. ServerTypes
  BY <1>b, <1>c, EmptyList, DefersAssumption DEF Init, ServerTypes, JobPlaces
<1> QED
  BY <1>1, <1>2, <1>3, <1>4 DEF TypeInv

LEMMA TypesStep ==
    ASSUME TypeInv, [Next]_vars
    PROVE  TypeInv'
<1> USE DEF TypeInv
<1>1. ASSUME NEW c \in Clients, NEW s \in Sessions, NEW route \in Routes, Connect(c, s, route),
             UNCHANGED <<queueVars, deferVars, jobVars, panic>>
      PROVE  TypeInv'
  <2>a. /\ wpc' \in [Workers -> WorkerPlaces] /\ sel' \in [Workers -> Holders]
         /\ \A v \in Workers : wpc'[v] = wpc[v] \/ wpc'[v] = "woken"
    BY <1>1 DEF NotifyIf, WokenPc, WokenSel, Wakes, WorkerPlaces, Holders, Connect, WaitTypes
  <2>1. SessionTypes'
    <3>1. live' \in SUBSET Sessions /\ IsFiniteSet(live') /\ Cardinality(live') <= MaxSessions
      BY <1>1, OneMoreLives DEF Connect
    <3> QED
      BY <1>1, <3>1 DEF SessionTypes, Connect, States
  <2>2. ClientTypes'
    BY <1>1 DEF ClientTypes, Connect, sessionVars, managerVars, clientVars, waitVars, queueVars, deferVars, jobVars
  <2>3. WaitTypes'
    <3>1. pendingReg' = pendingReg \/ pendingReg' = Append(pendingReg, s)
      BY <1>1 DEF Connect
    <3>2. pendingReg' \in Seq(Sessions)
      BY <3>1, RangeAppend DEF WaitTypes
    <3> QED
      BY <1>1, <2>a, <3>2 DEF WaitTypes, Connect
  <2>4. ServerTypes'
    BY <1>1, <2>a, ServerTypesKept DEF JobPlaces
  <2> QED
    BY <2>1, <2>2, <2>3, <2>4
<1>2. ASSUME NEW c \in Clients, NEW s \in Sessions, NEW m \in {"get", "close"}, ResolveSession(c, s, m),
             UNCHANGED <<queueVars, deferVars, jobVars, panic>>
      PROVE  TypeInv'
  <2>a. /\ wpc' \in [Workers -> WorkerPlaces] /\ sel' \in [Workers -> Holders]
         /\ \A v \in Workers : wpc'[v] = wpc[v] \/ wpc'[v] = "woken"
    BY <1>2 DEF NotifyIf, WokenPc, WokenSel, Wakes, WorkerPlaces, Holders, ResolveSession, SignalWakeup, WaitTypes
  <2>1. SessionTypes'
    BY <1>2 DEF SessionTypes, ResolveSession, sessionVars, managerVars, clientVars, waitVars, queueVars, deferVars, jobVars
  <2>2. ClientTypes'
    BY <1>2 DEF ClientTypes, ResolveSession, Calls
  <2>3. WaitTypes'
    <3>1. pendingReg' = pendingReg \/ pendingReg' = Append(pendingReg, s)
      BY <1>2 DEF ResolveSession
    <3>2. pendingReg' \in Seq(Sessions)
      BY <3>1, RangeAppend DEF WaitTypes
    <3> QED
      BY <1>2, <2>a, <3>2 DEF WaitTypes, ResolveSession, SignalWakeup
  <2>4. ServerTypes'
    BY <1>2, <2>a, ServerTypesKept DEF JobPlaces
  <2> QED
    BY <2>1, <2>2, <2>3, <2>4
<1>3. ASSUME NEW c \in Clients, OnRequest(c),
             UNCHANGED <<queueVars, deferVars, jobVars, panic>>
      PROVE  TypeInv'
  <2>a. /\ wpc' \in [Workers -> WorkerPlaces] /\ sel' \in [Workers -> Holders]
         /\ \A v \in Workers : wpc'[v] = wpc[v] \/ wpc'[v] = "woken"
    BY <1>3 DEF NotifyIf, WokenPc, WokenSel, Wakes, WorkerPlaces, Holders, OnRequest, WaitTypes, SessionTypes, ClientTypes, Calls
  <2>1. SessionTypes'
    BY <1>3 DEF SessionTypes, OnRequest, sessionVars, managerVars, clientVars, waitVars, queueVars, deferVars, jobVars
  <2>2. ClientTypes'
    BY <1>3 DEF ClientTypes, OnRequest, Calls, Idle, Exited, managerVars
  <2>3. WaitTypes'
    BY <1>3, <2>a DEF WaitTypes, OnRequest
  <2>4. ServerTypes'
    BY <1>3, <2>a, ServerTypesKept DEF JobPlaces
  <2> QED
    BY <2>1, <2>2, <2>3, <2>4
<1>4. ASSUME NEW c \in Clients, NEW s \in Sessions, CloseHandle(c, s),
             UNCHANGED <<queueVars, deferVars, jobVars, panic>>
      PROVE  TypeInv'
  <2>1. SessionTypes'
    BY <1>4 DEF SessionTypes, CloseHandle, BeginClose, States
  <2>2. ClientTypes'
    BY <1>4 DEF ClientTypes, CloseHandle, BeginClose, Calls, managerVars
  <2>3. WaitTypes'
    BY <1>4 DEF WaitTypes, CloseHandle, BeginClose, sessionVars, managerVars, clientVars, waitVars, queueVars, deferVars, jobVars, WorkerPlaces, Holders, At
  <2>4. ServerTypes'
    BY <1>4, ServerTypesKept DEF CloseHandle, BeginClose, sessionVars, managerVars, clientVars, waitVars, queueVars, deferVars, jobVars, Alerts, Alike, Rouses, JobPlaces
  <2> QED
    BY <2>1, <2>2, <2>3, <2>4
<1>5. ASSUME NEW s \in Sessions, FinalizeHandle(s),
             UNCHANGED <<queueVars, deferVars, jobVars, panic>>
      PROVE  TypeInv'
  <2>1. SessionTypes'
    BY <1>5 DEF SessionTypes, FinalizeHandle, BeginClose, States
  <2>2. ClientTypes'
    BY <1>5 DEF ClientTypes, FinalizeHandle, BeginClose, sessionVars, managerVars, clientVars, waitVars, queueVars, deferVars, jobVars
  <2>3. WaitTypes'
    BY <1>5 DEF WaitTypes, FinalizeHandle, BeginClose, sessionVars, managerVars, clientVars, waitVars, queueVars, deferVars, jobVars, WorkerPlaces, Holders, At
  <2>4. ServerTypes'
    BY <1>5, ServerTypesKept DEF FinalizeHandle, BeginClose, sessionVars, managerVars, clientVars, waitVars, queueVars, deferVars, jobVars, Alerts, Alike, Rouses, JobPlaces
  <2> QED
    BY <2>1, <2>2, <2>3, <2>4
<1>6. ASSUME NEW s \in Sessions, OnClientClosed(s),
             UNCHANGED <<queueVars, deferVars, jobVars, panic>>
      PROVE  TypeInv'
  <2>a. /\ wpc' \in [Workers -> WorkerPlaces] /\ sel' \in [Workers -> Holders]
         /\ \A v \in Workers : wpc'[v] = wpc[v] \/ wpc'[v] = "woken"
    BY <1>6 DEF NotifyIf, WokenPc, WokenSel, Wakes, WorkerPlaces, Holders, OnClientClosed, WaitTypes
  <2>1. SessionTypes'
    BY <1>6, EmptyList DEF SessionTypes, OnClientClosed
  <2>2. ClientTypes'
    BY <1>6, AnsweredIs DEF ClientTypes, OnClientClosed, managerVars
  <2>3. WaitTypes'
    BY <1>6, <2>a DEF WaitTypes, OnClientClosed
  <2>4. ServerTypes'
    BY <1>6, <2>a, ServerTypesKept DEF JobPlaces
  <2> QED
    BY <2>1, <2>2, <2>3, <2>4
<1>7. ASSUME NEW s \in Sessions, NotifyManagerClosed(s),
             UNCHANGED <<queueVars, deferVars, jobVars, panic>>
      PROVE  TypeInv'
  <2>a. /\ wpc' \in [Workers -> WorkerPlaces] /\ sel' \in [Workers -> Holders]
         /\ \A v \in Workers : wpc'[v] = wpc[v] \/ wpc'[v] = "woken"
    BY <1>7 DEF NotifyIf, WokenPc, WokenSel, Wakes, WorkerPlaces, Holders, NotifyManagerClosed, SignalWakeup, WaitTypes
  <2>1. SessionTypes'
    BY <1>7 DEF SessionTypes, NotifyManagerClosed, sessionVars, managerVars, clientVars, waitVars, queueVars, deferVars, jobVars
  <2>2. ClientTypes'
    BY <1>7 DEF ClientTypes, NotifyManagerClosed, sessionVars, managerVars, clientVars, waitVars, queueVars, deferVars, jobVars
  <2>3. WaitTypes'
    BY <1>7, <2>a DEF WaitTypes, NotifyManagerClosed, SignalWakeup
  <2>4. ServerTypes'
    BY <1>7, <2>a, ServerTypesKept DEF JobPlaces
  <2> QED
    BY <2>1, <2>2, <2>3, <2>4
<1>8. ASSUME NEW s \in Sessions, CloseClientEndpoint(s),
             UNCHANGED <<queueVars, deferVars, jobVars, panic>>
      PROVE  TypeInv'
  <2>1. SessionTypes'
    <3>1. live' \in SUBSET live
      BY <1>8 DEF CloseClientEndpoint
    <3>2. live' \in SUBSET Sessions /\ IsFiniteSet(live') /\ Cardinality(live') <= MaxSessions
      BY <3>1, FewerLive
    <3> QED
      BY <1>8, <3>2 DEF SessionTypes, CloseClientEndpoint
  <2>2. ClientTypes'
    BY <1>8 DEF ClientTypes, CloseClientEndpoint, Calls, Idle, Exited, managerVars
  <2>3. WaitTypes'
    BY <1>8 DEF WaitTypes, CloseClientEndpoint, sessionVars, managerVars, clientVars, waitVars, queueVars, deferVars, jobVars, WorkerPlaces, Holders, At
  <2>4. ServerTypes'
    BY <1>8, ServerTypesKept DEF CloseClientEndpoint, sessionVars, managerVars, clientVars, waitVars, queueVars, deferVars, jobVars, Alerts, Alike, Rouses, JobPlaces
  <2> QED
    BY <2>1, <2>2, <2>3, <2>4
<1>9. ASSUME Terminate,
             UNCHANGED <<queueVars, deferVars, jobVars, panic>>
      PROVE  TypeInv'
  <2>1. SessionTypes'
    BY <1>9 DEF SessionTypes, Terminate, sessionVars, managerVars, clientVars, waitVars, queueVars, deferVars, jobVars
  <2>2. ClientTypes'
    BY <1>9 DEF ClientTypes, Terminate, Calls, managerVars
  <2>3. WaitTypes'
    BY <1>9 DEF WaitTypes, Terminate, sessionVars, managerVars, clientVars, waitVars, queueVars, deferVars, jobVars, WorkerPlaces, Holders, At
  <2>4. ServerTypes'
    BY <1>9, ServerTypesKept DEF Terminate, sessionVars, managerVars, clientVars, waitVars, queueVars, deferVars, jobVars, Alerts, Alike, Rouses, JobPlaces
  <2> QED
    BY <2>1, <2>2, <2>3, <2>4
<1>10. ASSUME NEW w \in Workers, Drain(w)
      PROVE  TypeInv'
  <2>a. DrainEffect(w)
    BY <1>10, DrainDoes
  <2>1. SessionTypes'
    BY <2>a DEF DrainEffect
  <2>2. ClientTypes'
    <3>1. call' \in [Clients -> Calls] /\ \A c \in Clients : call'[c].at \in {"resolved", "waiting", "closing"} => call'[c].sess \in Sessions
      BY <2>a, AnsweredIs DEF DrainEffect
    <3> QED
      BY <2>a, <3>1, <1>10, RangeOf DEF ClientTypes, WaitTypes, Drain, NewSessions, DrainEffect
  <2>3. WaitTypes'
    BY <2>a, <1>10, EmptyList DEF WaitTypes, DrainEffect, Drain, WorkerPlaces, At
  <2>4. ServerTypes'
    BY <1>10, <2>a, EmptyList DEF ServerTypes, DrainEffect, Drain, WaitTypes, JobPlaces, At, jobVars
  <2> QED
    BY <2>1, <2>2, <2>3, <2>4
<1>11. ASSUME NEW w \in Workers, WaitPanics(w)
      PROVE  TypeInv'
  <2>1. SessionTypes'
    BY <1>11 DEF SessionTypes, WaitPanics, sessionVars, managerVars, clientVars, waitVars, queueVars, deferVars, jobVars
  <2>2. ClientTypes'
    BY <1>11 DEF ClientTypes, WaitPanics, sessionVars, managerVars, clientVars, waitVars, queueVars, deferVars, jobVars
  <2>3. WaitTypes'
    BY <1>11 DEF WaitTypes, WaitPanics, sessionVars, managerVars, clientVars, waitVars, queueVars, deferVars, jobVars, WorkerPlaces, Holders, At
  <2>4. ServerTypes'
    BY <1>11 DEF ServerTypes, WaitPanics, sessionVars, managerVars, clientVars, waitVars, queueVars, deferVars, jobVars, WaitTypes, WorkerPlaces, JobPlaces, At, Panics
  <2> QED
    BY <2>1, <2>2, <2>3, <2>4
<1>12. ASSUME NEW w \in Workers, WaitFinds(w)
      PROVE  TypeInv'
  <2>1. SessionTypes'
    BY <1>12 DEF SessionTypes, WaitFinds, sessionVars, managerVars, clientVars, waitVars, queueVars, deferVars, jobVars
  <2>2. ClientTypes'
    BY <1>12 DEF ClientTypes, WaitFinds, sessionVars, managerVars, clientVars, waitVars, queueVars, deferVars, jobVars
  <2>3. WaitTypes'
    BY <1>12 DEF WaitTypes, WaitFinds, sessionVars, managerVars, clientVars, waitVars, queueVars, deferVars, jobVars, WorkerPlaces, Holders, At
  <2>4. ServerTypes'
    BY <1>12 DEF ServerTypes, WaitFinds, sessionVars, managerVars, clientVars, waitVars, queueVars, deferVars, jobVars, WaitTypes, WorkerPlaces, JobPlaces, At, Panics
  <2> QED
    BY <2>1, <2>2, <2>3, <2>4
<1>13. ASSUME NEW w \in Workers, WaitLinks(w)
      PROVE  TypeInv'
  <2>1. SessionTypes'
    BY <1>13 DEF SessionTypes, WaitLinks, sessionVars, managerVars, clientVars, waitVars, queueVars, deferVars, jobVars
  <2>2. ClientTypes'
    BY <1>13 DEF ClientTypes, WaitLinks, sessionVars, managerVars, clientVars, waitVars, queueVars, deferVars, jobVars
  <2>3. WaitTypes'
    BY <1>13 DEF WaitTypes, WaitLinks, sessionVars, managerVars, clientVars, waitVars, queueVars, deferVars, jobVars, WorkerPlaces, Holders, At
  <2>4. ServerTypes'
    BY <1>13 DEF ServerTypes, WaitLinks, sessionVars, managerVars, clientVars, waitVars, queueVars, deferVars, jobVars, WaitTypes, WorkerPlaces, JobPlaces, At, Panics
  <2> QED
    BY <2>1, <2>2, <2>3, <2>4
<1>14. ASSUME NEW w \in Workers, WaitSleeps(w)
      PROVE  TypeInv'
  <2>1. SessionTypes'
    BY <1>14 DEF SessionTypes, WaitSleeps, sessionVars, managerVars, clientVars, waitVars, queueVars, deferVars, jobVars
  <2>2. ClientTypes'
    BY <1>14 DEF ClientTypes, WaitSleeps, sessionVars, managerVars, clientVars, waitVars, queueVars, deferVars, jobVars
  <2>3. WaitTypes'
    BY <1>14 DEF WaitTypes, WaitSleeps, sessionVars, managerVars, clientVars, waitVars, queueVars, deferVars, jobVars, WorkerPlaces, Holders, At
  <2>4. ServerTypes'
    BY <1>14 DEF ServerTypes, WaitSleeps, sessionVars, managerVars, clientVars, waitVars, queueVars, deferVars, jobVars, WaitTypes, WorkerPlaces, JobPlaces, At, Panics
  <2> QED
    BY <2>1, <2>2, <2>3, <2>4
<1>15. ASSUME NEW w \in Workers, ConsumeWakeup(w)
      PROVE  TypeInv'
  <2>1. SessionTypes'
    BY <1>15 DEF SessionTypes, ConsumeWakeup, sessionVars, managerVars, clientVars, waitVars, queueVars, deferVars, jobVars
  <2>2. ClientTypes'
    BY <1>15 DEF ClientTypes, ConsumeWakeup, sessionVars, managerVars, clientVars, waitVars, queueVars, deferVars, jobVars
  <2>3. WaitTypes'
    <3>1. multi' \in Seq(Holders)
      BY <1>15, WithoutIs, RangeAppend DEF WaitTypes, ConsumeWakeup, Holders
    <3> QED
      BY <1>15, <3>1 DEF WaitTypes, ConsumeWakeup, WorkerPlaces, At
  <2>4. ServerTypes'
    BY <1>15 DEF ServerTypes, ConsumeWakeup, sessionVars, managerVars, clientVars, waitVars, queueVars, deferVars, jobVars, WaitTypes, WorkerPlaces, JobPlaces, At, Panics
  <2> QED
    BY <2>1, <2>2, <2>3, <2>4
<1>16. ASSUME NEW w \in Workers, Select(w)
      PROVE  TypeInv'
  <2>1. SessionTypes'
    BY <1>16 DEF SessionTypes, Select, sessionVars, managerVars, clientVars, waitVars, queueVars, deferVars, jobVars
  <2>2. ClientTypes'
    BY <1>16 DEF ClientTypes, Select, sessionVars, managerVars, clientVars, waitVars, queueVars, deferVars, jobVars
  <2>3. WaitTypes'
    BY <1>16, WithoutIs DEF WaitTypes, Select, sessionVars, managerVars, clientVars, waitVars, queueVars, deferVars, jobVars, WorkerPlaces, Holders, At
  <2>4. ServerTypes'
    BY <1>16 DEF ServerTypes, Select, sessionVars, managerVars, clientVars, waitVars, queueVars, deferVars, jobVars, WaitTypes, WorkerPlaces, JobPlaces, At, Panics
  <2> QED
    BY <2>1, <2>2, <2>3, <2>4
<1>17. ASSUME NEW w \in Workers, PrepareSession(w)
      PROVE  TypeInv'
  <2>1. SessionTypes'
    BY <1>17 DEF SessionTypes, PrepareSession, sessionVars, managerVars, clientVars, waitVars, queueVars, deferVars, jobVars
  <2>2. ClientTypes'
    BY <1>17 DEF ClientTypes, PrepareSession, sessionVars, managerVars, clientVars, waitVars, queueVars, deferVars, jobVars
  <2>3. WaitTypes'
    BY <1>17 DEF WaitTypes, PrepareSession, sessionVars, managerVars, clientVars, waitVars, queueVars, deferVars, jobVars, WorkerPlaces, Holders, At
  <2>4. ServerTypes'
    BY <1>17 DEF ServerTypes, PrepareSession, sessionVars, managerVars, clientVars, waitVars, queueVars, deferVars, jobVars, WaitTypes, WorkerPlaces, JobPlaces, At, Panics
  <2> QED
    BY <2>1, <2>2, <2>3, <2>4
<1>18. ASSUME NEW w \in Workers, AcceptSession(w)
      PROVE  TypeInv'
  <2>a. AcceptEffect(w)
    BY <1>18, AcceptDoes
  <2>1. SessionTypes'
    BY <1>18 DEF SessionTypes, AcceptSession, sessionVars
  <2>2. ClientTypes'
    BY <1>18, <2>a DEF ClientTypes, AcceptSession, AcceptEffect, clientVars
  <2>3. WaitTypes'
    BY <1>18, <2>a DEF WaitTypes, AcceptSession, AcceptEffect, CloseAtOnce
  <2>4. ServerTypes'
    BY <1>18, <2>a DEF ServerTypes, AcceptSession, AcceptEffect, WaitTypes, JobPlaces, Alerts, Alike, Rouses, deferVars, jobVars
  <2> QED
    BY <2>1, <2>2, <2>3, <2>4
<1>19. ASSUME NEW w \in Workers, ReceiveClosed(w)
      PROVE  TypeInv'
  <2>a. JobOf(w) \in SUBSET Sessions
    BY DEF JobOf, ServerTypes
  <2>b. DestroyEffect(w, JobOf(w))
    BY <1>19, <2>a, DestroyDoes DEF ReceiveClosed, JobOf
  <2>c. NextJobEffect(w)
    BY <1>19, NextJobIs DEF ReceiveClosed, NextJob
  <2>1. SessionTypes'
    BY <2>b DEF DestroyEffect
  <2>2. ClientTypes'
    BY <1>19, <2>b DEF ClientTypes, DestroyEffect, ReceiveClosed
  <2>3. WaitTypes'
    BY <1>19, <2>b DEF WaitTypes, DestroyEffect, ReceiveClosed, NextJob, AfterJob, WorkerPlaces
  <2>4. ServerTypes'
    BY <1>19, <2>b, <2>c DEF ServerTypes, DestroyEffect, NextJobEffect, ReceiveClosed, NextJob, WaitTypes, JobPlaces
  <2> QED
    BY <2>1, <2>2, <2>3, <2>4
<1>20. ASSUME NEW w \in Workers, ReceiveRequest(w)
      PROVE  TypeInv'
  <2>1. SessionTypes'
    <3>1. job[w] \in Sessions /\ list[job[w]] \in Seq(Clients)
      BY <1>20 DEF ReceiveRequest, At, ServerTypes, JobPlaces, SessionTypes
    <3>2. list[job[w]] # <<>> => Head(list[job[w]]) \in Clients /\ Tail(list[job[w]]) \in Seq(Clients)
      BY <3>1, RangeTail
    <3> QED
      BY <1>20, <3>1, <3>2 DEF SessionTypes, ReceiveRequest
  <2>2. ClientTypes'
    BY <1>20 DEF ClientTypes, ReceiveRequest, sessionVars, managerVars, clientVars, waitVars, queueVars, deferVars, jobVars
  <2>3. WaitTypes'
    BY <1>20 DEF WaitTypes, ReceiveRequest, sessionVars, managerVars, clientVars, waitVars, queueVars, deferVars, jobVars, WorkerPlaces, Holders, At
  <2>4. ServerTypes'
    BY <1>20 DEF ServerTypes, ReceiveRequest, sessionVars, managerVars, clientVars, waitVars, queueVars, deferVars, jobVars, WaitTypes, WorkerPlaces, JobPlaces, At, Panics
  <2> QED
    BY <2>1, <2>2, <2>3, <2>4
<1>21. ASSUME NEW w \in Workers, Dispatch(w)
      PROVE  TypeInv'
  <2>1. SessionTypes'
    BY <1>21 DEF SessionTypes, Dispatch, sessionVars, managerVars, clientVars, waitVars, queueVars, deferVars, jobVars
  <2>2. ClientTypes'
    BY <1>21 DEF ClientTypes, Dispatch, sessionVars, managerVars, clientVars, waitVars, queueVars, deferVars, jobVars
  <2>3. WaitTypes'
    BY <1>21 DEF WaitTypes, Dispatch, sessionVars, managerVars, clientVars, waitVars, queueVars, deferVars, jobVars, WorkerPlaces, Holders, At
  <2>4. ServerTypes'
    BY <1>21 DEF ServerTypes, Dispatch, sessionVars, managerVars, clientVars, waitVars, queueVars, deferVars, jobVars, WaitTypes, WorkerPlaces, JobPlaces, At, Panics
  <2> QED
    BY <2>1, <2>2, <2>3, <2>4
<1>22. ASSUME NEW w \in Workers, Defer(w)
      PROVE  TypeInv'
  <2>c. NextJobEffect(w)
    BY <1>22, NextJobIs DEF Defer, NextJob
  <2>1. SessionTypes'
    BY <1>22 DEF SessionTypes, Defer, sessionVars, managerVars, clientVars, waitVars, queueVars, deferVars, jobVars
  <2>2. ClientTypes'
    BY <1>22 DEF ClientTypes, Defer, sessionVars, managerVars, clientVars, waitVars, queueVars, deferVars, jobVars
  <2>3. WaitTypes'
    BY <1>22 DEF WaitTypes, Defer, NextJob, AfterJob, WorkerPlaces
  <2>4. ServerTypes'
    <3>1. deferred' \in Seq(Sessions) /\ context' \in SUBSET Sessions
      BY <1>22, RangeAppend DEF Defer, ServerTypes, At, JobPlaces
    <3> QED
      BY <1>22, <3>1, <2>c DEF ServerTypes, NextJobEffect, Defer, NextJob, WaitTypes, JobPlaces, queueVars
  <2> QED
    BY <2>1, <2>2, <2>3, <2>4
<1>23. ASSUME NEW w \in Workers, TakeReply(w)
      PROVE  TypeInv'
  <2>a. /\ wpc' \in [Workers -> WorkerPlaces] /\ sel' \in [Workers -> Holders]
         /\ wpc'[w] = "answer" /\ \A v \in Workers \ {w} : wpc'[v] = wpc[v] \/ wpc'[v] = "woken"
    BY <1>23 DEF TakeReply, GoesTo, WokenPc, WokenSel, Wakes, WorkerPlaces, Holders, WaitTypes, ServerTypes, At, JobPlaces
  <2>1. SessionTypes'
    BY <1>23 DEF SessionTypes, TakeReply, ClearCurrent, ServerTypes, At, JobPlaces
  <2>2. ClientTypes'
    BY <1>23 DEF ClientTypes, TakeReply, sessionVars, managerVars, clientVars, waitVars, queueVars, deferVars, jobVars
  <2>3. WaitTypes'
    BY <1>23, <2>a DEF WaitTypes, TakeReply
  <2>4. ServerTypes'
    BY <1>23, <2>a DEF ServerTypes, SessionTypes, TakeReply, ReplyResult, JobPlaces, At, queueVars, deferVars
  <2> QED
    BY <2>1, <2>2, <2>3, <2>4
<1>24. ASSUME NEW w \in Workers, AnswerClient(w)
      PROVE  TypeInv'
  <2>1. SessionTypes'
    BY <1>24 DEF SessionTypes, AnswerClient, sessionVars, managerVars, clientVars, waitVars, queueVars, deferVars, jobVars
  <2>2. ClientTypes'
    BY <1>24, AnsweredIs DEF ClientTypes, AnswerClient, managerVars
  <2>3. WaitTypes'
    BY <1>24 DEF WaitTypes, AnswerClient, sessionVars, managerVars, clientVars, waitVars, queueVars, deferVars, jobVars, WorkerPlaces, Holders, At
  <2>4. ServerTypes'
    BY <1>24 DEF ServerTypes, AnswerClient, sessionVars, managerVars, clientVars, waitVars, queueVars, deferVars, jobVars, WaitTypes, WorkerPlaces, JobPlaces, At, Panics
  <2> QED
    BY <2>1, <2>2, <2>3, <2>4
<1>25. ASSUME NEW w \in Workers, FinishClosed(w)
      PROVE  TypeInv'
  <2>a. {job[w]} \in SUBSET Sessions
    BY <1>25 DEF FinishClosed, ServerTypes
  <2>b. DestroyEffect(w, {job[w]})
    BY <1>25, <2>a, DestroyDoes DEF FinishClosed
  <2>c. NextJobEffect(w)
    BY <1>25, NextJobIs DEF FinishClosed, NextJob
  <2>1. SessionTypes'
    BY <2>b DEF DestroyEffect
  <2>2. ClientTypes'
    BY <1>25, <2>b DEF ClientTypes, DestroyEffect, FinishClosed
  <2>3. WaitTypes'
    BY <1>25, <2>b DEF WaitTypes, DestroyEffect, FinishClosed, NextJob, AfterJob, WorkerPlaces
  <2>4. ServerTypes'
    BY <1>25, <2>b, <2>c DEF ServerTypes, DestroyEffect, NextJobEffect, FinishClosed, NextJob, WaitTypes, JobPlaces
  <2> QED
    BY <2>1, <2>2, <2>3, <2>4
<1>26. ASSUME NEW w \in Workers, FinishRelinks(w)
      PROVE  TypeInv'
  <2>c. NextJob(w) => NextJobEffect(w)
    BY NextJobIs DEF NextJob
  <2>1. SessionTypes'
    BY <1>26 DEF SessionTypes, FinishRelinks, sessionVars, managerVars, clientVars, waitVars, queueVars, deferVars, jobVars
  <2>2. ClientTypes'
    BY <1>26 DEF ClientTypes, FinishRelinks, sessionVars, managerVars, clientVars, waitVars, queueVars, deferVars, jobVars
  <2>3. WaitTypes'
    BY <1>26 DEF WaitTypes, FinishRelinks, NextJob, AfterJob, WorkerPlaces
  <2>4. ServerTypes'
    <3>a. dlist' = dlist \/ dlist' = Append(dlist, job[w])
      BY <1>26 DEF FinishRelinks
    <3>b. job[w] \in Holders
      BY <1>26 DEF FinishRelinks, ServerTypes, At, JobPlaces, Holders
    <3>1. dlist' \in Seq(Holders)
      <4>1. dlist \in Seq(Holders)
        BY DEF ServerTypes
      <4>2. Append(dlist, job[w]) \in Seq(Holders)
        BY <3>b, <4>1, RangeAppend
      <4> QED
        BY <3>a, <4>1, <4>2
    <3> QED
      BY <1>26, <3>1, <2>c DEF ServerTypes, NextJobEffect, FinishRelinks, NextJob, WaitTypes, JobPlaces, At, Panics, deferVars
  <2> QED
    BY <2>1, <2>2, <2>3, <2>4
<1>27. ASSUME NEW w \in Workers, Wake(w)
      PROVE  TypeInv'
  <2>c. NextJobEffect(w)
    BY <1>27, NextJobIs DEF Wake
  <2>a. /\ wpc' \in [Workers -> WorkerPlaces] /\ sel' \in [Workers -> Holders]
         /\ wpc'[w] = AfterJob(w) /\ \A v \in Workers \ {w} : wpc'[v] = wpc[v] \/ wpc'[v] = "woken"
    BY <1>27 DEF Wake, GoesTo, AfterJob, WokenPc, WokenSel, Wakes, WorkerPlaces, Holders, WaitTypes
  <2>1. SessionTypes'
    BY <1>27 DEF SessionTypes, Wake, sessionVars, managerVars, clientVars, waitVars, queueVars, deferVars, jobVars
  <2>2. ClientTypes'
    BY <1>27 DEF ClientTypes, Wake, sessionVars, managerVars, clientVars, waitVars, queueVars, deferVars, jobVars
  <2>3. WaitTypes'
    BY <1>27, <2>a DEF WaitTypes, Wake
  <2>4. ServerTypes'
    BY <1>27, <2>a, <2>c DEF ServerTypes, NextJobEffect, Wake, JobPlaces, queueVars, deferVars
  <2> QED
    BY <2>1, <2>2, <2>3, <2>4
<1>28. ASSUME NEW w \in Workers, ClearDeferral(w)
      PROVE  TypeInv'
  <2>1. SessionTypes'
    BY <1>28 DEF SessionTypes, ClearDeferral, sessionVars, managerVars, clientVars, waitVars, queueVars, deferVars, jobVars
  <2>2. ClientTypes'
    BY <1>28 DEF ClientTypes, ClearDeferral, sessionVars, managerVars, clientVars, waitVars, queueVars, deferVars, jobVars
  <2>3. WaitTypes'
    BY <1>28 DEF WaitTypes, ClearDeferral, sessionVars, managerVars, clientVars, waitVars, queueVars, deferVars, jobVars, WorkerPlaces, Holders, At
  <2>4. ServerTypes'
    BY <1>28 DEF ServerTypes, ClearDeferral, sessionVars, managerVars, clientVars, waitVars, queueVars, deferVars, jobVars, WaitTypes, WorkerPlaces, JobPlaces, At, Panics
  <2> QED
    BY <2>1, <2>2, <2>3, <2>4
<1>29. ASSUME NEW w \in Workers, TakeDeferred(w)
      PROVE  TypeInv'
  <2>1. SessionTypes'
    BY <1>29 DEF SessionTypes, TakeDeferred, sessionVars, managerVars, clientVars, waitVars, queueVars, deferVars, jobVars
  <2>2. ClientTypes'
    BY <1>29 DEF ClientTypes, TakeDeferred, sessionVars, managerVars, clientVars, waitVars, queueVars, deferVars, jobVars
  <2>3. WaitTypes'
    BY <1>29 DEF WaitTypes, TakeDeferred, sessionVars, managerVars, clientVars, waitVars, queueVars, deferVars, jobVars, WorkerPlaces, Holders, At
  <2>4. ServerTypes'
    <3>1. dlist' \in Seq(Holders) /\ Kept(deferred, sessions \cap context) \in Seq(Sessions)
      BY <1>29, RangeAppend, KeptProperties DEF TakeDeferred, ServerTypes, Holders
    <3> QED
      BY <1>29, <3>1, EmptyList DEF ServerTypes, TakeDeferred, WaitTypes, JobPlaces, At
  <2> QED
    BY <2>1, <2>2, <2>3, <2>4
<1>30. ASSUME RegisterService
      PROVE  TypeInv'
  <2>a. /\ wpc' \in [Workers -> WorkerPlaces] /\ sel' \in [Workers -> Holders]
         /\ \A v \in Workers : wpc'[v] = wpc[v] \/ wpc'[v] = "woken"
    BY <1>30 DEF NotifyIf, WokenPc, WokenSel, Wakes, WorkerPlaces, Holders, RegisterService, WaitTypes
  <2>1. SessionTypes'
    BY <1>30 DEF SessionTypes, RegisterService, sessionVars, managerVars, clientVars, waitVars, queueVars, deferVars, jobVars
  <2>2. ClientTypes'
    BY <1>30 DEF ClientTypes, RegisterService, sessionVars, managerVars, clientVars, waitVars, queueVars, deferVars, jobVars
  <2>3. WaitTypes'
    BY <1>30, <2>a DEF WaitTypes, RegisterService
  <2>4. ServerTypes'
    BY <1>30, <2>a DEF ServerTypes, RegisterService, JobPlaces, queueVars, jobVars
  <2> QED
    BY <2>1, <2>2, <2>3, <2>4
<1>31. CASE UNCHANGED vars
  BY <1>31 DEF SessionTypes, ClientTypes, WaitTypes, ServerTypes, vars, sessionVars, managerVars, clientVars, waitVars, queueVars, deferVars, jobVars
<1> QED
  BY <1>1, <1>2, <1>3, <1>4, <1>5, <1>6, <1>7, <1>8, <1>9, <1>10, <1>11, <1>12, <1>13, <1>14, <1>15, <1>16, <1>17, <1>18, <1>19, <1>20, <1>21, <1>22, <1>23, <1>24, <1>25, <1>26, <1>27, <1>28, <1>29, <1>30, <1>31 DEF Next, ClientNext, WorkerNext

LEMMA TypesAlways == Spec => []TypeInv
  BY TypesStart, TypesStep, PTL DEF Spec

\* Sessions, requests, lists and workers keep their types, and the port never has more sessions
\* than max_sessions registered (KPort::has_slot, create_session, ServerManager).
THEOREM TypesHold == Spec => []TypeOK
<1>1. TypeInv => TypeOK
  <2> SUFFICES ASSUME TypeInv PROVE TypeOK
    OBVIOUS
  <2>1. /\ \A s \in Sessions : Range(list[s]) \subseteq Clients
        /\ Range(backlog) \cup Range(pendingReg) \cup Range(deferred) \subseteq Sessions
        /\ Range(multi) \cup Range(dlist) \subseteq Holders
        /\ \A w \in Workers : Range(todo[w]) \subseteq Sessions
    BY RangeOf DEF TypeInv, SessionTypes, ClientTypes, WaitTypes, ServerTypes
  <2> QED
    BY <2>1 DEF TypeOK, TypeInv, SessionTypes, ClientTypes, WaitTypes, ServerTypes, Calls
<1> QED
  BY <1>1, TypesAlways, PTL

-----------------------------------------------------------------------------
(* Requests *)

\* Client c has a request in the list of session s, and as its current request.
Pending(c, s) == c \in Range(list[s])
Received(c, s) == current[s] = c /\ ~orphan[s]

OnePlace ==
    /\ \A s \in Sessions : NoDuplicates(list[s])
    /\ \A c \in Clients, s, r \in Sessions :
          /\ Pending(c, s) /\ Pending(c, r) => s = r
          /\ Received(c, s) /\ Received(c, r) => s = r
          /\ ~ (Pending(c, s) /\ Received(c, r))
    /\ \A c \in Clients, v, w \in Workers : taken[v] = c /\ taken[w] = c => v = w
    /\ \A c \in Clients, w \in Workers, s \in Sessions :
          taken[w] = c => ~Pending(c, s) /\ ~Received(c, s)

HasPlace(c) ==
    \/ \E s \in Sessions : Pending(c, s) \/ Received(c, s)
    \/ \E w \in Workers : taken[w] = c

\* A client that waits has a request; one that neither waits nor was terminated has none.
PlacesFollowCalls ==
    \A c \in Clients :
        /\ call[c].at = "waiting" => HasPlace(c)
        /\ call[c].at \notin {"waiting", "exited"} => ~HasPlace(c)

RequestParts ==
    /\ \A c \in Clients, s \in Sessions :
          call[c].at = "waiting" /\ Pending(c, s) => call[c].sess = s
    /\ \A s \in Sessions : current[s] = None => ~orphan[s]
    /\ \A w \in Workers : taken[w] # None => wpc[w] = "answer"

\* A session is used as long as the process has a handle to it, and a process that is being
\* terminated has no thread that could send.
ClientInv ==
    /\ \A s \in Sessions : state[s] = "Invalid" => s \notin handles /\ closing[s] = "open"
    /\ \A s \in handles : closing[s] = "open"
    /\ \A c \in Clients : call[c].at \in {"resolved", "waiting"} => call[c].sess \in handles \/ dying
    /\ dying => \A c \in Clients : call[c].at \notin {"idle", "waiting"}

RequestInv == OnePlace /\ PlacesFollowCalls /\ RequestParts /\ ClientInv

\* Steps that touch neither requests nor clients.
LEMMA RequestsKept ==
    ASSUME RequestInv,
           UNCHANGED <<list, current, orphan, taken, call, closing, dying>>,
           \A w \in Workers : wpc[w] = "answer" => wpc'[w] = "answer",
           handles' = handles /\ \A s \in Sessions : state'[s] = "Invalid" <=> state[s] = "Invalid"
    PROVE  RequestInv'
  BY DEF RequestInv, OnePlace, PlacesFollowCalls, RequestParts, ClientInv, Pending, Received, HasPlace

\* Destroying sessions ends every wait for a request in them.
LEMMA RequestsAborted ==
    ASSUME TypeInv, RequestInv, NEW D \in SUBSET Sessions, DestroyServerEnds(D),
           clientClosed' = clientClosed, UNCHANGED <<taken, closing, dying, handles>>,
           \A w \in Workers : wpc[w] = "answer" => wpc'[w] = "answer"
    PROVE  RequestInv'
<1>1. SessionsDestroyed(D) /\ call' = Answered(Aborted(D))
  BY Destroyed
<1>2. /\ \A c \in Clients :
            call'[c] = IF c \in Aborted(D) /\ call[c].at = "waiting" THEN Idle ELSE call[c]
  BY <1>1, AnsweredIs DEF TypeInv
<1>3. \A c \in Clients : c \in Aborted(D) <=> \E s \in D : Pending(c, s) \/ Received(c, s)
  <2>1. None \notin Clients
    BY SessionAssumption
  <2> QED
    BY <2>1 DEF Aborted, Pending, Received
<1>4. \A c \in Clients, s \in Sessions :
         /\ Pending(c, s)' <=> Pending(c, s) /\ s \notin D
         /\ Received(c, s)' <=> Received(c, s) /\ s \notin D
  <2> SUFFICES ASSUME NEW c \in Clients, NEW s \in Sessions
               PROVE  /\ Pending(c, s)' <=> Pending(c, s) /\ s \notin D
                      /\ Received(c, s)' <=> Received(c, s) /\ s \notin D
    OBVIOUS
  <2>1. list'[s] = IF s \in D THEN <<>> ELSE list[s]
    BY <1>1 DEF SessionsDestroyed
  <2>2. current'[s] = (IF s \in D THEN None ELSE current[s])
        /\ orphan'[s] = (IF s \in D THEN FALSE ELSE orphan[s])
    BY <1>1 DEF SessionsDestroyed
  <2>3. c # None
    BY SessionAssumption
  <2>4. Pending(c, s)' <=> Pending(c, s) /\ s \notin D
    BY <2>1, EmptyList DEF Pending
  <2>5. Received(c, s)' <=> Received(c, s) /\ s \notin D
    BY <2>2, <2>3 DEF Received
  <2> QED
    BY <2>4, <2>5
<1>5. OnePlace'
  <2>1. \A s \in Sessions : NoDuplicates(list'[s])
    BY <1>1, EmptyList DEF RequestInv, OnePlace, SessionsDestroyed
  <2> QED
    BY <1>4, <2>1 DEF RequestInv, OnePlace
<1>6. \A c \in Clients : HasPlace(c)' <=> HasPlace(c) /\ c \notin Aborted(D)
  BY <1>3, <1>4 DEF HasPlace, RequestInv, OnePlace
<1>7. PlacesFollowCalls'
  BY <1>2, <1>6 DEF PlacesFollowCalls, RequestInv, Idle
<1>8. \A c \in Clients : call'[c] = call[c] \/ (call[c].at = "waiting" /\ call'[c].at = "idle")
  BY <1>2 DEF Idle
<1>9. RequestParts'
  <2>1. \A c \in Clients, s \in Sessions :
           call'[c].at = "waiting" /\ Pending(c, s)' => call'[c].sess = s
    BY <1>4, <1>8 DEF RequestParts, RequestInv
  <2>2. \A s \in Sessions : current'[s] = None => ~orphan'[s]
    BY <1>1 DEF RequestParts, RequestInv, SessionsDestroyed
  <2> QED
    BY <2>1, <2>2 DEF RequestParts, RequestInv
<1>10. ClientInv'
  BY <1>1, <1>8 DEF ClientInv, RequestInv, SessionsDestroyed
<1> QED
  BY <1>5, <1>7, <1>9, <1>10 DEF RequestInv

\* Steps that move no request; no thread starts to wait or leaves off waiting, but for the end
\* of its process.
LEMMA PlacesKept ==
    ASSUME RequestInv, UNCHANGED <<list, current, orphan, taken>>,
           \A w \in Workers : wpc[w] = "answer" => wpc'[w] = "answer",
           \A c \in Clients :
              /\ call'[c].at = "waiting" => call[c].at = "waiting" /\ call'[c].sess = call[c].sess
              /\ call'[c].at \notin {"waiting", "exited"} => call[c].at \notin {"waiting", "exited"}
    PROVE  OnePlace' /\ PlacesFollowCalls' /\ RequestParts'
  BY DEF RequestInv, OnePlace, PlacesFollowCalls, RequestParts, Pending, Received, HasPlace

LEMMA RequestsStep ==
    ASSUME TypeInv, RequestInv, [Next]_vars
    PROVE  RequestInv'
<1> USE DEF TypeInv
<1>1. ASSUME NEW c \in Clients, NEW s \in Sessions, NEW route \in Routes, Connect(c, s, route),
             UNCHANGED <<queueVars, deferVars, jobVars, panic>>
      PROVE  RequestInv'
  <2>a. \A v \in Workers : wpc[v] = "answer" => wpc'[v] = "answer"
    BY <1>1 DEF Connect, NotifyIf, SignalWakeup, WokenPc, Wakes, WaitTypes, waitVars
  <2>1. OnePlace' /\ PlacesFollowCalls' /\ RequestParts'
    BY <1>1, <2>a, PlacesKept DEF Connect, sessionVars, managerVars, clientVars, waitVars, queueVars, deferVars, jobVars, ClientTypes, Calls, Idle, Exited
  <2>2. ClientInv'
    BY <1>1 DEF Connect, ClientInv, RequestInv, ClientTypes, SessionTypes, WaitTypes, Calls, Idle, Exited, sessionVars, clientVars
  <2> QED
    BY <2>1, <2>2 DEF RequestInv
<1>2. ASSUME NEW c \in Clients, NEW s \in Sessions, NEW m \in {"get", "close"}, ResolveSession(c, s, m),
             UNCHANGED <<queueVars, deferVars, jobVars, panic>>
      PROVE  RequestInv'
  <2>a. \A v \in Workers : wpc[v] = "answer" => wpc'[v] = "answer"
    BY <1>2 DEF ResolveSession, NotifyIf, SignalWakeup, WokenPc, Wakes, WaitTypes, waitVars
  <2>1. OnePlace' /\ PlacesFollowCalls' /\ RequestParts'
    BY <1>2, <2>a, PlacesKept DEF ResolveSession, sessionVars, managerVars, clientVars, waitVars, queueVars, deferVars, jobVars, ClientTypes, Calls, Idle, Exited
  <2>2. ClientInv'
    BY <1>2 DEF ResolveSession, MaySend, ClientInv, RequestInv, ClientTypes, SessionTypes, WaitTypes, Calls, Idle, Exited, sessionVars, clientVars
  <2> QED
    BY <2>1, <2>2 DEF RequestInv
<1>3. ASSUME NEW c \in Clients, OnRequest(c),
             UNCHANGED <<queueVars, deferVars, jobVars, panic>>
      PROVE  RequestInv'
  <2>a. \A v \in Workers : wpc[v] = "answer" => wpc'[v] = "answer"
    BY <1>3 DEF OnRequest, NotifyIf, WokenPc, Wakes, WaitTypes
  <2> DEFINE s == call[c].sess
             refused == s \notin live \/ clientClosed[s] \/ dying
  <2>b. s \in Sessions /\ list[s] \in Seq(Clients)
    BY <1>3 DEF OnRequest, ClientTypes, SessionTypes
  <2>c. call[c].at = "resolved" /\ ~HasPlace(c)
    BY <1>3 DEF OnRequest, RequestInv, PlacesFollowCalls
  <2>d. /\ \A d \in Clients \ {c} : call'[d] = call[d]
        /\ UNCHANGED <<state, current, orphan, taken, handles, closing, dying>>
    BY <1>3 DEF OnRequest, ClientTypes, jobVars
  <2>e. ClientInv'
    <3>1. \/ call'[c].at = "waiting" /\ call'[c].sess = s /\ ~dying
          \/ call'[c].at = "exited" /\ dying
          \/ call'[c].at = "idle" /\ ~dying
      BY <1>3 DEF OnRequest, ClientTypes, Calls, Idle, Exited
    <3> QED
      BY <2>b, <2>c, <2>d, <3>1 DEF ClientInv, RequestInv, s
  <2>1. CASE refused
    <3>1. list' = list /\ call'[c].at \in {"idle", "exited"}
      BY <1>3, <2>1 DEF OnRequest, ClientTypes, Calls, Idle, Exited
    <3>2. OnePlace' /\ PlacesFollowCalls' /\ RequestParts'
      BY <2>a, <2>c, <2>d, <3>1, PlacesKept
    <3> QED
      BY <2>e, <3>2 DEF RequestInv
  <2>2. CASE ~refused
    <3>1. /\ \A r \in Sessions : list'[r] = IF r = s THEN Append(list[s], c) ELSE list[r]
          /\ call'[c].at = "waiting" /\ call'[c].sess = s
      BY <1>3, <2>2 DEF OnRequest, ClientTypes, Calls, SessionTypes
    <3>2. /\ Range(Append(list[s], c)) = Range(list[s]) \cup {c}
          /\ NoDuplicates(list[s]) /\ c \notin Range(list[s]) => NoDuplicates(Append(list[s], c))
      BY <2>b, RangeAppend
    <3> HIDE DEF s, refused
    <3>3. \A d \in Clients, r \in Sessions :
             /\ Pending(d, r)' <=> Pending(d, r) \/ (d = c /\ r = s)
             /\ Received(d, r)' <=> Received(d, r)
      BY <2>d, <3>1, <3>2 DEF Pending, Received
    <3>4. OnePlace'
      <4>1. \A r \in Sessions : NoDuplicates(list'[r])
        BY <2>b, <2>c, <3>1, <3>2 DEF RequestInv, OnePlace, HasPlace, Pending
      <4> QED
        BY <2>c, <2>d, <3>3, <4>1 DEF RequestInv, OnePlace, HasPlace
    <3>5. \A d \in Clients : HasPlace(d)' <=> HasPlace(d) \/ d = c
      BY <2>b, <2>d, <3>3 DEF HasPlace
    <3>6. PlacesFollowCalls'
      BY <2>d, <3>1, <3>5 DEF RequestInv, PlacesFollowCalls
    <3>7. RequestParts'
      BY <2>a, <2>c, <2>d, <3>1, <3>3 DEF RequestInv, RequestParts, HasPlace
    <3> QED
      BY <2>e, <3>4, <3>6, <3>7 DEF RequestInv
  <2> QED
    BY <2>1, <2>2
<1>4. ASSUME NEW c \in Clients, NEW s \in Sessions, CloseHandle(c, s),
             UNCHANGED <<queueVars, deferVars, jobVars, panic>>
      PROVE  RequestInv'
  <2>a. \A v \in Workers : wpc[v] = "answer" => wpc'[v] = "answer"
    BY <1>4 DEF CloseHandle, BeginClose, MayUseAlone, WaitTypes, waitVars
  <2>1. OnePlace' /\ PlacesFollowCalls' /\ RequestParts'
    BY <1>4, <2>a, PlacesKept DEF CloseHandle, BeginClose, MayUseAlone, sessionVars, managerVars, clientVars, waitVars, queueVars, deferVars, jobVars, ClientTypes, Calls, Idle, Exited
  <2>2. ClientInv'
    BY <1>4 DEF CloseHandle, BeginClose, MayUseAlone, ClientInv, RequestInv, ClientTypes, SessionTypes, WaitTypes, Calls, Idle, Exited, sessionVars, clientVars
  <2> QED
    BY <2>1, <2>2 DEF RequestInv
<1>5. ASSUME NEW s \in Sessions, FinalizeHandle(s),
             UNCHANGED <<queueVars, deferVars, jobVars, panic>>
      PROVE  RequestInv'
  <2>a. \A v \in Workers : wpc[v] = "answer" => wpc'[v] = "answer"
    BY <1>5 DEF FinalizeHandle, BeginClose, MayUseAlone, WaitTypes, waitVars
  <2>1. OnePlace' /\ PlacesFollowCalls' /\ RequestParts'
    BY <1>5, <2>a, PlacesKept DEF FinalizeHandle, BeginClose, MayUseAlone, sessionVars, managerVars, clientVars, waitVars, queueVars, deferVars, jobVars, ClientTypes, Calls, Idle, Exited
  <2>2. ClientInv'
    BY <1>5 DEF FinalizeHandle, BeginClose, MayUseAlone, ClientInv, RequestInv, ClientTypes, SessionTypes, WaitTypes, Calls, Idle, Exited, sessionVars, clientVars
  <2> QED
    BY <2>1, <2>2 DEF RequestInv
<1>6. ASSUME NEW s \in Sessions, OnClientClosed(s),
             UNCHANGED <<queueVars, deferVars, jobVars, panic>>
      PROVE  RequestInv'
  <2>a. \A v \in Workers : wpc[v] = "answer" => wpc'[v] = "answer"
    BY <1>6 DEF OnClientClosed, NotifyIf, WokenPc, Wakes, WaitTypes
  <2>1. s \notin handles /\ closing[s] = "notify" /\ closing'[s] # "open"
    BY <1>6 DEF OnClientClosed, RequestInv, ClientInv, ClientTypes
  <2>2. list[s] \in Seq(Clients) /\ Range(list[s]) \cap Async \in SUBSET Clients
    BY RangeOf DEF SessionTypes
  <2>3. \A c \in Range(list[s]) : c \in Clients /\ call[c].at # "waiting"
    BY <2>1, <2>2, RangeOf DEF RequestInv, RequestParts, ClientInv, Pending
  <2>4. call' = call
    BY <1>6, <2>3 DEF OnClientClosed, Answered, ClientTypes
  <2>5. /\ \A r \in Sessions : list'[r] = IF r = s THEN <<>> ELSE list[r]
        /\ \A r \in Sessions \ {s} : orphan'[r] = orphan[r] /\ closing'[r] = closing[r]
        /\ orphan'[s] = (orphan[s] \/ (current[s] # None /\ dying))
        /\ UNCHANGED <<state, current, taken, handles, dying>>
    BY <1>6 DEF OnClientClosed, SessionTypes, ClientTypes, jobVars
  <2>6. \A c \in Clients, r \in Sessions :
           /\ Pending(c, r)' <=> Pending(c, r) /\ r # s
           /\ Received(c, r)' => Received(c, r)
           /\ call[c].at = "waiting" /\ Received(c, r) => Received(c, r)'
    <3>1. \A c \in Clients : call[c].at = "waiting" => ~dying
      BY DEF RequestInv, ClientInv
    <3> QED
      BY <2>5, <3>1, EmptyList DEF Pending, Received, SessionTypes
  <2>7. OnePlace'
    <3>1. \A r \in Sessions : NoDuplicates(list'[r])
      BY <2>5, EmptyList DEF RequestInv, OnePlace
    <3> QED
      BY <2>5, <2>6, <3>1 DEF RequestInv, OnePlace
  <2>8. \A c \in Clients : (HasPlace(c)' => HasPlace(c))
                             /\ (call[c].at = "waiting" /\ HasPlace(c) => HasPlace(c)')
    BY <2>3, <2>5, <2>6 DEF HasPlace, Pending
  <2>9. PlacesFollowCalls'
    BY <2>4, <2>8 DEF RequestInv, PlacesFollowCalls
  <2>10. RequestParts'
    BY <2>a, <2>4, <2>5, <2>6 DEF RequestInv, RequestParts, SessionTypes
  <2>11. ClientInv'
    BY <2>1, <2>4, <2>5 DEF RequestInv, ClientInv, ClientTypes
  <2> QED
    BY <2>7, <2>9, <2>10, <2>11 DEF RequestInv
<1>7. ASSUME NEW s \in Sessions, NotifyManagerClosed(s),
             UNCHANGED <<queueVars, deferVars, jobVars, panic>>
      PROVE  RequestInv'
  <2>a. \A v \in Workers : wpc[v] = "answer" => wpc'[v] = "answer"
    BY <1>7 DEF NotifyManagerClosed, NotifyIf, SignalWakeup, WokenPc, Wakes, WaitTypes, waitVars
  <2>1. OnePlace' /\ PlacesFollowCalls' /\ RequestParts'
    BY <1>7, <2>a, PlacesKept DEF NotifyManagerClosed, sessionVars, managerVars, clientVars, waitVars, queueVars, deferVars, jobVars, ClientTypes, Calls, Idle, Exited
  <2>2. ClientInv'
    BY <1>7 DEF NotifyManagerClosed, ClientInv, RequestInv, ClientTypes, SessionTypes, WaitTypes, Calls, Idle, Exited, sessionVars, clientVars
  <2> QED
    BY <2>1, <2>2 DEF RequestInv
<1>8. ASSUME NEW s \in Sessions, CloseClientEndpoint(s),
             UNCHANGED <<queueVars, deferVars, jobVars, panic>>
      PROVE  RequestInv'
  <2>a. \A v \in Workers : wpc[v] = "answer" => wpc'[v] = "answer"
    BY <1>8 DEF CloseClientEndpoint, WaitTypes, waitVars
  <2>1. OnePlace' /\ PlacesFollowCalls' /\ RequestParts'
    BY <1>8, <2>a, PlacesKept DEF CloseClientEndpoint, sessionVars, managerVars, clientVars, waitVars, queueVars, deferVars, jobVars, ClientTypes, Calls, Idle, Exited
  <2>2. ClientInv'
    BY <1>8 DEF CloseClientEndpoint, ClientInv, RequestInv, ClientTypes, SessionTypes, WaitTypes, Calls, Idle, Exited, sessionVars, clientVars
  <2> QED
    BY <2>1, <2>2 DEF RequestInv
<1>9. ASSUME Terminate,
             UNCHANGED <<queueVars, deferVars, jobVars, panic>>
      PROVE  RequestInv'
  <2>a. \A v \in Workers : wpc[v] = "answer" => wpc'[v] = "answer"
    BY <1>9 DEF Terminate, WaitTypes, waitVars
  <2>1. OnePlace' /\ PlacesFollowCalls' /\ RequestParts'
    BY <1>9, <2>a, PlacesKept DEF Terminate, sessionVars, managerVars, clientVars, waitVars, queueVars, deferVars, jobVars, ClientTypes, Calls, Idle, Exited
  <2>2. ClientInv'
    BY <1>9 DEF Terminate, ClientInv, RequestInv, ClientTypes, SessionTypes, WaitTypes, Calls, Idle, Exited, sessionVars, clientVars
  <2> QED
    BY <2>1, <2>2 DEF RequestInv
<1>10. ASSUME NEW w \in Workers, Drain(w)
      PROVE  RequestInv'
  <2>1. DrainEffect(w) /\ clientClosed' = clientClosed
    BY <1>10, DrainDoes DEF Drain
  <2>2. /\ UNCHANGED <<taken, closing, dying, handles>>
        /\ \A v \in Workers : wpc[v] = "answer" => wpc'[v] = "answer"
    BY <1>10 DEF Drain, At, WaitTypes, jobVars
  <2> QED
    BY <2>1, <2>2, RequestsAborted DEF DrainEffect
<1>11. ASSUME NEW w \in Workers, WaitPanics(w)
      PROVE  RequestInv'
  BY <1>11, RequestsKept DEF WaitPanics, sessionVars, managerVars, clientVars, waitVars, queueVars, deferVars, jobVars, At, WaitTypes, NextJob, AfterJob, GoesTo, NotifyIf, WokenPc, Wakes
<1>12. ASSUME NEW w \in Workers, WaitFinds(w)
      PROVE  RequestInv'
  BY <1>12, RequestsKept DEF WaitFinds, sessionVars, managerVars, clientVars, waitVars, queueVars, deferVars, jobVars, At, WaitTypes, NextJob, AfterJob, GoesTo, NotifyIf, WokenPc, Wakes
<1>13. ASSUME NEW w \in Workers, WaitLinks(w)
      PROVE  RequestInv'
  BY <1>13, RequestsKept DEF WaitLinks, sessionVars, managerVars, clientVars, waitVars, queueVars, deferVars, jobVars, At, WaitTypes, NextJob, AfterJob, GoesTo, NotifyIf, WokenPc, Wakes
<1>14. ASSUME NEW w \in Workers, WaitSleeps(w)
      PROVE  RequestInv'
  BY <1>14, RequestsKept DEF WaitSleeps, sessionVars, managerVars, clientVars, waitVars, queueVars, deferVars, jobVars, At, WaitTypes, NextJob, AfterJob, GoesTo, NotifyIf, WokenPc, Wakes
<1>15. ASSUME NEW w \in Workers, ConsumeWakeup(w)
      PROVE  RequestInv'
  BY <1>15, RequestsKept DEF ConsumeWakeup, sessionVars, managerVars, clientVars, waitVars, queueVars, deferVars, jobVars, At, WaitTypes, NextJob, AfterJob, GoesTo, NotifyIf, WokenPc, Wakes
<1>16. ASSUME NEW w \in Workers, Select(w)
      PROVE  RequestInv'
  BY <1>16, RequestsKept DEF Select, sessionVars, managerVars, clientVars, waitVars, queueVars, deferVars, jobVars, At, WaitTypes, NextJob, AfterJob, GoesTo, NotifyIf, WokenPc, Wakes
<1>17. ASSUME NEW w \in Workers, PrepareSession(w)
      PROVE  RequestInv'
  BY <1>17, RequestsKept DEF PrepareSession, sessionVars, managerVars, clientVars, waitVars, queueVars, deferVars, jobVars, At, WaitTypes, NextJob, AfterJob, GoesTo, NotifyIf, WokenPc, Wakes
<1>18. ASSUME NEW w \in Workers, AcceptSession(w)
      PROVE  RequestInv'
  BY <1>18, RequestsKept DEF AcceptSession, sessionVars, managerVars, clientVars, waitVars, queueVars, deferVars, jobVars, At, WaitTypes, NextJob, AfterJob, GoesTo, NotifyIf, WokenPc, Wakes
<1>19. ASSUME NEW w \in Workers, ReceiveClosed(w)
      PROVE  RequestInv'
  <2>1. JobOf(w) \in SUBSET Sessions /\ DestroyServerEnds(JobOf(w)) /\ clientClosed' = clientClosed
    BY <1>19 DEF ReceiveClosed, DestroyAndGo, JobOf, ServerTypes
  <2>2. /\ UNCHANGED <<taken, closing, dying, handles>>
        /\ \A v \in Workers : wpc[v] = "answer" => wpc'[v] = "answer"
    BY <1>19 DEF ReceiveClosed, At, NextJob, WaitTypes, jobVars
  <2> QED
    BY <2>1, <2>2, RequestsAborted
<1>20. ASSUME NEW w \in Workers, ReceiveRequest(w)
      PROVE  RequestInv'
  <2> DEFINE s == job[w]
             q == list[s]
             received == current[s] = None /\ q # <<>>
  <2>a. s \in Sessions /\ q \in Seq(Clients)
    BY <1>20 DEF ReceiveRequest, At, ServerTypes, JobPlaces, SessionTypes
  <2>b. /\ \A v \in Workers : wpc[v] = "answer" => wpc'[v] = "answer"
        /\ UNCHANGED <<state, orphan, taken, call, handles, closing, dying>>
    BY <1>20 DEF ReceiveRequest, At, WaitTypes, clientVars, jobVars
  <2>1. CASE ~received
    <3>1. list' = list /\ current' = current
      BY <1>20, <2>1 DEF ReceiveRequest
    <3> QED
      BY <2>b, <3>1, RequestsKept
  <2>2. CASE received
    <3>1. /\ \A r \in Sessions : list'[r] = IF r = s THEN Tail(q) ELSE list[r]
          /\ \A r \in Sessions : current'[r] = IF r = s THEN Head(q) ELSE current[r]
      BY <1>20, <2>2 DEF ReceiveRequest, SessionTypes
    <3>2. /\ Head(q) \in Clients /\ Range(q) = Range(Tail(q)) \cup {Head(q)}
          /\ NoDuplicates(Tail(q)) /\ Head(q) \notin Range(Tail(q))
      <4>1. NoDuplicates(q)
        BY <2>a DEF RequestInv, OnePlace
      <4> HIDE DEF q
      <4> QED
        BY <2>a, <2>2, <4>1, RangeTail
    <3>3. ~orphan[s] /\ current[s] = None
      BY <2>a, <2>2 DEF RequestInv, RequestParts
    <3>4. \A c \in Clients, r \in Sessions :
             /\ Pending(c, r)' <=> Pending(c, r) /\ ~(r = s /\ c = Head(q))
             /\ Received(c, r)' <=> Received(c, r) \/ (r = s /\ c = Head(q))
      <4>1. \A c \in Clients, r \in Sessions :
             Pending(c, r)' <=> Pending(c, r) /\ ~(r = s /\ c = Head(q))
        BY <2>b, <3>1, <3>2 DEF Pending
      <4>2. \A c \in Clients : c # None
        BY SessionAssumption
      <4> QED
        BY <2>b, <3>1, <3>2, <3>3, <4>1, <4>2 DEF Received
    <3>5. Pending(Head(q), s)
      BY <3>2 DEF Pending
    <3> HIDE DEF s, q, received
    <3>6. OnePlace'
      <4>1. \A r \in Sessions : NoDuplicates(list'[r])
        BY <3>1, <3>2 DEF RequestInv, OnePlace
      <4> QED
        BY <2>a, <2>b, <3>2, <3>4, <3>5, <4>1 DEF RequestInv, OnePlace
    <3>7. \A c \in Clients : HasPlace(c)' <=> HasPlace(c)
      BY <2>a, <2>b, <3>4, <3>5 DEF HasPlace
    <3>8. PlacesFollowCalls'
      BY <2>b, <3>7 DEF RequestInv, PlacesFollowCalls
    <3>9. RequestParts'
      BY <2>b, <3>1, <3>3, <3>4 DEF RequestInv, RequestParts
    <3>10. ClientInv'
      BY <2>b DEF RequestInv, ClientInv
    <3> QED
      BY <3>6, <3>8, <3>9, <3>10 DEF RequestInv
  <2> QED
    BY <2>1, <2>2
<1>21. ASSUME NEW w \in Workers, Dispatch(w)
      PROVE  RequestInv'
  BY <1>21, RequestsKept DEF Dispatch, sessionVars, managerVars, clientVars, waitVars, queueVars, deferVars, jobVars, At, WaitTypes, NextJob, AfterJob, GoesTo, NotifyIf, WokenPc, Wakes
<1>22. ASSUME NEW w \in Workers, Defer(w)
      PROVE  RequestInv'
  BY <1>22, RequestsKept DEF Defer, sessionVars, managerVars, clientVars, waitVars, queueVars, deferVars, jobVars, At, WaitTypes, NextJob, AfterJob, GoesTo, NotifyIf, WokenPc, Wakes
<1>23. ASSUME NEW w \in Workers, TakeReply(w)
      PROVE  RequestInv'
  <2> DEFINE s == job[w]
             kept == IF orphan[s] THEN None ELSE current[s]
  <2>a. s \in Sessions /\ wpc[w] = "reply" /\ wpc'[w] = "answer"
        /\ \A v \in Workers : wpc[v] = "answer" => wpc'[v] = "answer"
    BY <1>23 DEF TakeReply, At, ServerTypes, JobPlaces, WaitTypes, GoesTo, WokenPc, Wakes
  <2>b. UNCHANGED <<state, list, call, handles, closing, dying>>
    BY <1>23 DEF TakeReply, clientVars
  <2>1. /\ \A r \in Sessions : current'[r] = IF r = s THEN None ELSE current[r]
        /\ \A r \in Sessions : orphan'[r] = IF r = s THEN FALSE ELSE orphan[r]
        /\ \A v \in Workers : taken'[v] = IF v = w THEN kept ELSE taken[v]
    BY <1>23 DEF TakeReply, ClearCurrent, SessionTypes, ServerTypes
  <2>2. taken[w] = None
    BY <2>a DEF RequestInv, RequestParts
  <2>3. None \notin Clients
    BY SessionAssumption
  <2>4. \A c \in Clients : kept = c <=> Received(c, s)
    BY <2>3 DEF Received, SessionTypes
  <2>5. \A c \in Clients, r \in Sessions :
           /\ Pending(c, r)' <=> Pending(c, r)
           /\ Received(c, r)' <=> Received(c, r) /\ r # s
    BY <2>b, <2>1, <2>3 DEF Pending, Received
  <2> HIDE DEF s, kept
  <2>6. OnePlace'
    <3>1. \A r \in Sessions : NoDuplicates(list'[r])
      BY <2>b DEF RequestInv, OnePlace
    <3> QED
      BY <2>a, <2>1, <2>2, <2>3, <2>4, <2>5, <3>1 DEF RequestInv, OnePlace
  <2>7. \A c \in Clients : HasPlace(c)' <=> HasPlace(c)
    BY <2>a, <2>1, <2>2, <2>3, <2>4, <2>5 DEF HasPlace
  <2>8. PlacesFollowCalls'
    BY <2>b, <2>7 DEF RequestInv, PlacesFollowCalls
  <2>9. RequestParts'
    BY <2>a, <2>b, <2>1, <2>5 DEF RequestInv, RequestParts
  <2>10. ClientInv'
    BY <2>b DEF RequestInv, ClientInv
  <2> QED
    BY <2>6, <2>8, <2>9, <2>10 DEF RequestInv
<1>24. ASSUME NEW w \in Workers, AnswerClient(w)
      PROVE  RequestInv'
  <2>a. /\ wpc[w] = "answer" /\ \A v \in Workers \ {w} : wpc'[v] = wpc[v]
        /\ UNCHANGED <<state, list, current, orphan, handles, closing, dying>>
        /\ \A v \in Workers : taken'[v] = IF v = w THEN None ELSE taken[v]
    BY <1>24 DEF AnswerClient, At, WaitTypes, ServerTypes, sessionVars
  <2>b. \A c \in Clients :
           call'[c] = IF c = taken[w] /\ call[c].at = "waiting" THEN Idle ELSE call[c]
    BY <1>24 DEF AnswerClient, Answered
  <2>1. OnePlace'
    BY <2>a, SessionAssumption DEF RequestInv, OnePlace, Pending, Received
  <2>2. \A c \in Clients : HasPlace(c)' <=> HasPlace(c) /\ c # taken[w]
    BY <2>a, SessionAssumption DEF RequestInv, OnePlace, HasPlace, Pending, Received
  <2>3. PlacesFollowCalls'
    BY <2>b, <2>2 DEF RequestInv, PlacesFollowCalls, Idle
  <2>4. \A c \in Clients : call'[c] = call[c] \/ (call[c].at = "waiting" /\ call'[c].at = "idle")
    BY <2>b DEF Idle
  <2>5. RequestParts'
    BY <2>a, <2>4 DEF RequestInv, RequestParts, Pending
  <2>6. ClientInv'
    BY <2>a, <2>4 DEF RequestInv, ClientInv
  <2> QED
    BY <2>1, <2>3, <2>5, <2>6 DEF RequestInv
<1>25. ASSUME NEW w \in Workers, FinishClosed(w)
      PROVE  RequestInv'
  <2>1. {job[w]} \in SUBSET Sessions /\ DestroyServerEnds({job[w]}) /\ clientClosed' = clientClosed
    BY <1>25 DEF FinishClosed, DestroyAndGo, ServerTypes
  <2>2. /\ UNCHANGED <<taken, closing, dying, handles>>
        /\ \A v \in Workers : wpc[v] = "answer" => wpc'[v] = "answer"
    BY <1>25 DEF FinishClosed, At, NextJob, WaitTypes, jobVars
  <2> QED
    BY <2>1, <2>2, RequestsAborted
<1>26. ASSUME NEW w \in Workers, FinishRelinks(w)
      PROVE  RequestInv'
  BY <1>26, RequestsKept DEF FinishRelinks, sessionVars, managerVars, clientVars, waitVars, queueVars, deferVars, jobVars, At, WaitTypes, NextJob, AfterJob, GoesTo, NotifyIf, WokenPc, Wakes
<1>27. ASSUME NEW w \in Workers, Wake(w)
      PROVE  RequestInv'
  BY <1>27, RequestsKept DEF Wake, sessionVars, managerVars, clientVars, waitVars, queueVars, deferVars, jobVars, At, WaitTypes, NextJob, AfterJob, GoesTo, NotifyIf, WokenPc, Wakes
<1>28. ASSUME NEW w \in Workers, ClearDeferral(w)
      PROVE  RequestInv'
  BY <1>28, RequestsKept DEF ClearDeferral, sessionVars, managerVars, clientVars, waitVars, queueVars, deferVars, jobVars, At, WaitTypes, NextJob, AfterJob, GoesTo, NotifyIf, WokenPc, Wakes
<1>29. ASSUME NEW w \in Workers, TakeDeferred(w)
      PROVE  RequestInv'
  BY <1>29, RequestsKept DEF TakeDeferred, sessionVars, managerVars, clientVars, waitVars, queueVars, deferVars, jobVars, At, WaitTypes, NextJob, AfterJob, GoesTo, NotifyIf, WokenPc, Wakes
<1>30. ASSUME RegisterService
      PROVE  RequestInv'
  BY <1>30, RequestsKept DEF RegisterService, sessionVars, managerVars, clientVars, waitVars, queueVars, deferVars, jobVars, At, WaitTypes, NextJob, AfterJob, GoesTo, NotifyIf, WokenPc, Wakes
<1>31. CASE UNCHANGED vars
  BY <1>31, RequestsKept DEF vars, sessionVars, managerVars, clientVars, waitVars, queueVars, deferVars, jobVars
<1> QED
  BY <1>1, <1>2, <1>3, <1>4, <1>5, <1>6, <1>7, <1>8, <1>9, <1>10, <1>11, <1>12, <1>13, <1>14, <1>15, <1>16, <1>17, <1>18, <1>19, <1>20, <1>21, <1>22, <1>23, <1>24, <1>25, <1>26, <1>27, <1>28, <1>29, <1>30, <1>31 DEF Next, ClientNext, WorkerNext

LEMMA RequestsStart ==
    ASSUME Init
    PROVE  RequestInv
<1>1. None \notin Clients
  BY SessionAssumption
<1>2. \A c \in Clients, s \in Sessions : ~Pending(c, s) /\ ~Received(c, s)
  BY <1>1, EmptyList DEF Init, Pending, Received
<1>3. \A s \in Sessions : NoDuplicates(list[s])
  BY EmptyList DEF Init
<1>4. OnePlace /\ PlacesFollowCalls
  BY <1>1, <1>2, <1>3 DEF Init, OnePlace, PlacesFollowCalls, HasPlace, Idle
<1>5. RequestParts /\ ClientInv
  BY DEF Init, RequestParts, ClientInv, Idle
<1> QED
  BY <1>4, <1>5 DEF RequestInv

LEMMA RequestsAlways == Spec => []RequestInv
  BY TypesAlways, RequestsStart, RequestsStep, PTL DEF Spec

\* A list without duplicates is not longer than there are clients.
LEMMA ListFits ==
    ASSUME NEW q \in Seq(Clients), NoDuplicates(q)
    PROVE  Len(q) \in Nat /\ Len(q) <= Cardinality(Clients) /\ Cardinality(Clients) \in Nat
<1>1. IsFiniteSet(Clients) /\ Cardinality(Clients) \in Nat
  BY SessionAssumption, FS_CardinalityType
<1>2. Len(q) \in Nat /\ DOMAIN q = 1..Len(q) /\ q \in [1..Len(q) -> Clients]
  BY LenProperties
<1>3. q \in Injection(1..Len(q), Clients)
  BY <1>2 DEF NoDuplicates, Injection, IsInjective
<1>4. Cardinality(1..Len(q)) <= Cardinality(Clients)
  BY <1>1, <1>3, FS_Injection
<1>5. Cardinality(1..Len(q)) = Len(q)
  BY <1>2, FS_Interval
<1> QED
  BY <1>1, <1>2, <1>4, <1>5

LEMMA PlacesAre ==
    ASSUME SessionTypes, OnePlace, NEW c \in Clients
    PROVE  /\ Places(c) = {} <=> ~HasPlace(c)
           /\ HasPlace(c) => \E p : Places(c) = {p}
<1> DEFINE A == {p \in Sessions \X (1 .. Cardinality(Clients)) :
                    p[2] <= Len(list[p[1]]) /\ list[p[1]][p[2]] = c}
           B == {s \in Sessions : Received(c, s)}
           C == {w \in Workers : taken[w] = c}
<1>1. Places(c) = A \cup B \cup C
  BY DEF Places, Received
<1>2. \A s \in Sessions :
        /\ list[s] \in Seq(Clients) /\ Len(list[s]) \in Nat
        /\ Len(list[s]) <= Cardinality(Clients) /\ Cardinality(Clients) \in Nat
  BY ListFits DEF SessionTypes, OnePlace
<1>3. \A s \in Sessions :
        /\ Pending(c, s) <=> \E i \in 1..Len(list[s]) : list[s][i] = c
        /\ \A i, j \in 1..Len(list[s]) : list[s][i] = c /\ list[s][j] = c => i = j
  BY <1>2, RangeOf, LenProperties DEF Pending, OnePlace, NoDuplicates
<1>4. \A p \in A : p[1] \in Sessions /\ p[2] \in 1..Len(list[p[1]]) /\ Pending(c, p[1])
                     /\ list[p[1]][p[2]] = c /\ p = <<p[1], p[2]>>
  BY <1>2, <1>3
<1>5. \A s \in Sessions : Pending(c, s) => \E p \in A : p[1] = s
  <2> SUFFICES ASSUME NEW s \in Sessions, Pending(c, s)
               PROVE  \E p \in A : p[1] = s
    OBVIOUS
  <2>1. PICK i \in 1..Len(list[s]) : list[s][i] = c
    BY <1>3
  <2>2. i \in 1..Cardinality(Clients) /\ i <= Len(list[s])
    BY <1>2
  <2>3. <<s, i>> \in Sessions \X (1 .. Cardinality(Clients)) /\ <<s, i>>[1] = s /\ <<s, i>>[2] = i
    BY <2>2
  <2> DEFINE p == <<s, i>>
  <2>4. p \in A
    BY <2>1, <2>2, <2>3
  <2> QED
    BY <2>3, <2>4
<1>6. \A p, r \in A : p = r
  <2> SUFFICES ASSUME NEW p \in A, NEW r \in A PROVE p = r
    OBVIOUS
  <2>1. p[1] = r[1]
    BY <1>4 DEF OnePlace
  <2>2. p[2] = r[2]
    BY <1>3, <1>4, <2>1
  <2> QED
    BY <1>4, <2>1, <2>2
<1> HIDE DEF A
<1>7. (A # {} <=> \E s \in Sessions : Pending(c, s)) /\ (A # {} => B = {} /\ C = {})
  BY <1>4, <1>5 DEF OnePlace
<1>8. (B # {} => \E s : B = {s}) /\ (B # {} => C = {})
  BY DEF OnePlace
<1>9. C # {} => \E w : C = {w}
  BY DEF OnePlace
<1>10. A # {} => \E p : A = {p}
  BY <1>6
<1>11. Places(c) = {} <=> ~HasPlace(c)
  BY <1>1, <1>7 DEF HasPlace
<1>12. HasPlace(c) => A # {} \/ B # {} \/ C # {}
  BY <1>7 DEF HasPlace
<1> HIDE DEF B, C
<1> QED
  BY <1>1, <1>7, <1>8, <1>9, <1>10, <1>11, <1>12

\* A thread that waits has exactly one request, in one place, and a thread that does not wait
\* has none (on_request, send_reply_hle, cleanup_requests, on_client_closed).
THEOREM RequestsAreAccounted == Spec => []RequestsAccounted
<1>1. TypeInv /\ RequestInv => RequestsAccounted
  <2> SUFFICES ASSUME TypeInv, RequestInv PROVE RequestsAccounted
    OBVIOUS
  <2>1. \A c \in Clients : HasPlace(c) => Cardinality(Places(c)) = 1
    BY PlacesAre, FS_Singleton DEF TypeInv, RequestInv
  <2> QED
    BY <2>1, PlacesAre DEF TypeInv, RequestInv, PlacesFollowCalls, RequestsAccounted
<1> QED
  BY <1>1, TypesAlways, RequestsAlways, PTL

-----------------------------------------------------------------------------
(* Sleeping *)

Watching == {"scan", "linking", "asleep", "woken"}
Selecting == \E w \in Workers : wpc[w] \in Watching

\* One worker at a time waits, the one that holds selection_mutex.
SelectorInv == \A w \in Workers : wpc[w] \in Watching => selector = w

\* The wakeup event is always waited on, and every session the server knows of reports its
\* closing (set_manager_close_notification).
WatchInv ==
    /\ "wakeup" \in Range(multi)
    /\ Range(multi) \cap Sessions \subseteq hooked
    /\ Range(dlist) \cap Sessions \subseteq hooked
    /\ sessions \subseteq hooked

\* No holder is signalled, but for a session whose closing is on its way to the manager.
Quiet ==
    /\ Waitable
    /\ ~wakeup
    /\ deferral => "deferral" \notin Range(multi)
    /\ backlog # <<>> => "port" \notin Range(multi)
    /\ \A s \in Range(multi) \cap Sessions : IsSignaled(s) => closing[s] = "bridge"

QuietInv == \A w \in Workers : wpc[w] \in {"linking", "asleep"} => Quiet

\* Whoever leaves work to the selector signals the wakeup event, or is about to.
WorkInv ==
    /\ pendingReg # <<>> \/ pendingClose # {} => wakeup \/ ~Selecting
    /\ dlist # <<>> => wakeup \/ ~Selecting \/ \E v \in Workers : wpc[v] = "wake"

SleepInv == SelectorInv /\ WatchInv /\ QuietInv /\ WorkInv

LEMMA SleepStart ==
    ASSUME Init
    PROVE  SleepInv
<1>1. "wakeup" \in Range(multi) /\ Range(multi) \cap Sessions = {} /\ Range(dlist) \cap Sessions = {}
  <2> DEFINE one == <<"wakeup">>
             port == <<"port">>
             two == <<"deferral", "port">>
  <2>1. /\ Range(one) = {"wakeup"} /\ Range(port) = {"port"} /\ Range(two) = {"deferral", "port"}
    BY ShortLists
  <2>2. multi = one /\ dlist = IF Defers THEN two ELSE port
    BY DEF Init
  <2> HIDE DEF one, port, two
  <2> QED
    BY <2>1, <2>2, SessionAssumption
<1> QED
  BY <1>1 DEF Init, SleepInv, SelectorInv, WatchInv, QuietInv, WorkInv, Selecting, Watching

LEMMA HolderCases ==
    /\ (HolderIsSignaled("wakeup") <=> wakeup) /\ (HolderIsSignaled("deferral") <=> deferral)
    /\ HolderIsSignaled("port") <=> backlog # <<>>
    /\ \A s \in Sessions : HolderIsSignaled(s) <=> IsSignaled(s)
  BY SessionAssumption DEF HolderIsSignaled

LEMMA SleepStep ==
    ASSUME TypeInv, RequestInv, SleepInv, [Next]_vars
    PROVE  SleepInv'
<1> USE DEF TypeInv
<1>a. Sessions \cap {"wakeup", "deferral", "port"} = {} /\ None \notin Clients \cup Workers
  BY SessionAssumption
<1>1. ASSUME NEW c \in Clients, NEW s \in Sessions, NEW route \in Routes, Connect(c, s, route),
             UNCHANGED <<queueVars, deferVars, jobVars, panic>>
      PROVE  SleepInv'
  <2>1. SelectorInv'
    BY <1>a, <1>1 DEF SleepInv, SelectorInv, Connect, sessionVars, managerVars, clientVars, waitVars, queueVars, deferVars, jobVars, WaitTypes, Watching, At, SchedulerFree, NotifyIf, SignalWakeup, GoesTo, WokenPc, Wakes, NextJob, AfterJob
  <2>2. WatchInv'
    BY <1>a, <1>1 DEF SleepInv, WatchInv, Connect, sessionVars, managerVars, clientVars, waitVars, queueVars, deferVars, jobVars, SignalWakeup, NextJob
  <2>3. QuietInv'
    BY <1>a, <1>1 DEF SleepInv, QuietInv, Connect, sessionVars, managerVars, clientVars, waitVars, queueVars, deferVars, jobVars, WaitTypes, Watching, At, SchedulerFree, NotifyIf, SignalWakeup, GoesTo, WokenPc, Wakes, NextJob, AfterJob, Quiet, Waitable, IsSignaled, SelectorInv, WatchInv
  <2>4. WorkInv'
    BY <1>a, <1>1 DEF SleepInv, WorkInv, Connect, sessionVars, managerVars, clientVars, waitVars, queueVars, deferVars, jobVars, WaitTypes, Watching, At, SchedulerFree, NotifyIf, SignalWakeup, GoesTo, WokenPc, Wakes, NextJob, AfterJob, Selecting, SelectorInv, WatchInv
  <2> QED
    BY <2>1, <2>2, <2>3, <2>4 DEF SleepInv
<1>2. ASSUME NEW c \in Clients, NEW s \in Sessions, NEW m \in {"get", "close"}, ResolveSession(c, s, m),
             UNCHANGED <<queueVars, deferVars, jobVars, panic>>
      PROVE  SleepInv'
  <2>1. SelectorInv'
    BY <1>a, <1>2 DEF SleepInv, SelectorInv, ResolveSession, sessionVars, managerVars, clientVars, waitVars, queueVars, deferVars, jobVars, WaitTypes, Watching, At, SchedulerFree, NotifyIf, SignalWakeup, GoesTo, WokenPc, Wakes, NextJob, AfterJob
  <2>2. WatchInv'
    BY <1>a, <1>2 DEF SleepInv, WatchInv, ResolveSession, sessionVars, managerVars, clientVars, waitVars, queueVars, deferVars, jobVars, SignalWakeup, NextJob
  <2>3. QuietInv'
    BY <1>a, <1>2 DEF SleepInv, QuietInv, ResolveSession, sessionVars, managerVars, clientVars, waitVars, queueVars, deferVars, jobVars, WaitTypes, Watching, At, SchedulerFree, NotifyIf, SignalWakeup, GoesTo, WokenPc, Wakes, NextJob, AfterJob, Quiet, Waitable, IsSignaled, SelectorInv, WatchInv
  <2>4. WorkInv'
    BY <1>a, <1>2 DEF SleepInv, WorkInv, ResolveSession, sessionVars, managerVars, clientVars, waitVars, queueVars, deferVars, jobVars, WaitTypes, Watching, At, SchedulerFree, NotifyIf, SignalWakeup, GoesTo, WokenPc, Wakes, NextJob, AfterJob, Selecting, SelectorInv, WatchInv
  <2> QED
    BY <2>1, <2>2, <2>3, <2>4 DEF SleepInv
<1>3. ASSUME NEW c \in Clients, OnRequest(c),
             UNCHANGED <<queueVars, deferVars, jobVars, panic>>
      PROVE  SleepInv'
  <2>1. SelectorInv'
    BY <1>a, <1>3 DEF SleepInv, SelectorInv, OnRequest, sessionVars, managerVars, clientVars, waitVars, queueVars, deferVars, jobVars, WaitTypes, Watching, At, SchedulerFree, NotifyIf, SignalWakeup, GoesTo, WokenPc, Wakes, NextJob, AfterJob
  <2>2. WatchInv'
    BY <1>a, <1>3 DEF SleepInv, WatchInv, OnRequest, sessionVars, managerVars, clientVars, waitVars, queueVars, deferVars, jobVars, SignalWakeup, NextJob
  <2>3. QuietInv'
    BY <1>a, <1>3 DEF SleepInv, QuietInv, OnRequest, sessionVars, managerVars, clientVars, waitVars, queueVars, deferVars, jobVars, WaitTypes, Watching, At, SchedulerFree, NotifyIf, SignalWakeup, GoesTo, WokenPc, Wakes, NextJob, AfterJob, Quiet, Waitable, IsSignaled, SelectorInv, WatchInv
  <2>4. WorkInv'
    BY <1>a, <1>3 DEF SleepInv, WorkInv, OnRequest, sessionVars, managerVars, clientVars, waitVars, queueVars, deferVars, jobVars, WaitTypes, Watching, At, SchedulerFree, NotifyIf, SignalWakeup, GoesTo, WokenPc, Wakes, NextJob, AfterJob, Selecting, SelectorInv, WatchInv
  <2> QED
    BY <2>1, <2>2, <2>3, <2>4 DEF SleepInv
<1>4. ASSUME NEW c \in Clients, NEW s \in Sessions, CloseHandle(c, s),
             UNCHANGED <<queueVars, deferVars, jobVars, panic>>
      PROVE  SleepInv'
  <2>1. SelectorInv'
    BY <1>a, <1>4 DEF SleepInv, SelectorInv, CloseHandle, BeginClose, sessionVars, managerVars, clientVars, waitVars, queueVars, deferVars, jobVars, WaitTypes, Watching, At, SchedulerFree, NotifyIf, SignalWakeup, GoesTo, WokenPc, Wakes, NextJob, AfterJob
  <2>2. WatchInv'
    BY <1>a, <1>4 DEF SleepInv, WatchInv, CloseHandle, BeginClose, sessionVars, managerVars, clientVars, waitVars, queueVars, deferVars, jobVars, SignalWakeup, NextJob
  <2>3. QuietInv'
    <3>1. closing[s] = "open" /\ \A r \in Sessions \ {s} : closing'[r] = closing[r]
      BY <1>4 DEF CloseHandle, BeginClose, RequestInv, ClientInv, ClientTypes
    <3>2. UNCHANGED <<wpc, multi, wakeup, deferral, backlog, clientClosed, list, current, ends>>
      BY <1>4 DEF CloseHandle, BeginClose, waitVars, deferVars
    <3> QED
      BY <3>1, <3>2 DEF SleepInv, QuietInv, Quiet, Waitable, IsSignaled
  <2>4. WorkInv'
    BY <1>a, <1>4 DEF SleepInv, WorkInv, CloseHandle, BeginClose, sessionVars, managerVars, clientVars, waitVars, queueVars, deferVars, jobVars, WaitTypes, Watching, At, SchedulerFree, NotifyIf, SignalWakeup, GoesTo, WokenPc, Wakes, NextJob, AfterJob, Selecting, SelectorInv, WatchInv
  <2> QED
    BY <2>1, <2>2, <2>3, <2>4 DEF SleepInv
<1>5. ASSUME NEW s \in Sessions, FinalizeHandle(s),
             UNCHANGED <<queueVars, deferVars, jobVars, panic>>
      PROVE  SleepInv'
  <2>1. SelectorInv'
    BY <1>a, <1>5 DEF SleepInv, SelectorInv, FinalizeHandle, BeginClose, sessionVars, managerVars, clientVars, waitVars, queueVars, deferVars, jobVars, WaitTypes, Watching, At, SchedulerFree, NotifyIf, SignalWakeup, GoesTo, WokenPc, Wakes, NextJob, AfterJob
  <2>2. WatchInv'
    BY <1>a, <1>5 DEF SleepInv, WatchInv, FinalizeHandle, BeginClose, sessionVars, managerVars, clientVars, waitVars, queueVars, deferVars, jobVars, SignalWakeup, NextJob
  <2>3. QuietInv'
    BY <1>a, <1>5 DEF SleepInv, QuietInv, FinalizeHandle, BeginClose, sessionVars, managerVars, clientVars, waitVars, queueVars, deferVars, jobVars, WaitTypes, Watching, At, SchedulerFree, NotifyIf, SignalWakeup, GoesTo, WokenPc, Wakes, NextJob, AfterJob, Quiet, Waitable, IsSignaled, SelectorInv, WatchInv
  <2>4. WorkInv'
    BY <1>a, <1>5 DEF SleepInv, WorkInv, FinalizeHandle, BeginClose, sessionVars, managerVars, clientVars, waitVars, queueVars, deferVars, jobVars, WaitTypes, Watching, At, SchedulerFree, NotifyIf, SignalWakeup, GoesTo, WokenPc, Wakes, NextJob, AfterJob, Selecting, SelectorInv, WatchInv
  <2> QED
    BY <2>1, <2>2, <2>3, <2>4 DEF SleepInv
<1>6. ASSUME NEW s \in Sessions, OnClientClosed(s),
             UNCHANGED <<queueVars, deferVars, jobVars, panic>>
      PROVE  SleepInv'
  <2>1. SelectorInv'
    BY <1>a, <1>6 DEF SleepInv, SelectorInv, OnClientClosed, sessionVars, managerVars, clientVars, waitVars, queueVars, deferVars, jobVars, WaitTypes, Watching, At, SchedulerFree, NotifyIf, SignalWakeup, GoesTo, WokenPc, Wakes, NextJob, AfterJob
  <2>2. WatchInv'
    BY <1>a, <1>6 DEF SleepInv, WatchInv, OnClientClosed, sessionVars, managerVars, clientVars, waitVars, queueVars, deferVars, jobVars, SignalWakeup, NextJob
  <2>3. QuietInv'
    <3>1. /\ closing'[s] = "bridge"
          /\ \A r \in Sessions \ {s} : /\ closing'[r] = closing[r] /\ clientClosed'[r] = clientClosed[r]
                                        /\ list'[r] = list[r]
          /\ UNCHANGED <<multi, wakeup, deferral, backlog, current, ends>>
      BY <1>6 DEF OnClientClosed, ClientTypes, SessionTypes, deferVars
    <3>2. \A v \in Workers : wpc'[v] \in {"linking", "asleep"} => wpc'[v] = wpc[v]
      BY <1>6 DEF OnClientClosed, WaitTypes, NotifyIf, WokenPc, Wakes
    <3>3. Quiet => Quiet'
      BY <3>1 DEF Quiet, Waitable, IsSignaled
    <3> QED
      BY <3>2, <3>3 DEF SleepInv, QuietInv
  <2>4. WorkInv'
    BY <1>a, <1>6 DEF SleepInv, WorkInv, OnClientClosed, sessionVars, managerVars, clientVars, waitVars, queueVars, deferVars, jobVars, WaitTypes, Watching, At, SchedulerFree, NotifyIf, SignalWakeup, GoesTo, WokenPc, Wakes, NextJob, AfterJob, Selecting, SelectorInv, WatchInv
  <2> QED
    BY <2>1, <2>2, <2>3, <2>4 DEF SleepInv
<1>7. ASSUME NEW s \in Sessions, NotifyManagerClosed(s),
             UNCHANGED <<queueVars, deferVars, jobVars, panic>>
      PROVE  SleepInv'
  <2>1. SelectorInv'
    BY <1>a, <1>7 DEF SleepInv, SelectorInv, NotifyManagerClosed, sessionVars, managerVars, clientVars, waitVars, queueVars, deferVars, jobVars, WaitTypes, Watching, At, SchedulerFree, NotifyIf, SignalWakeup, GoesTo, WokenPc, Wakes, NextJob, AfterJob
  <2>2. WatchInv'
    BY <1>a, <1>7 DEF SleepInv, WatchInv, NotifyManagerClosed, sessionVars, managerVars, clientVars, waitVars, queueVars, deferVars, jobVars, SignalWakeup, NextJob
  <2>3. QuietInv'
    BY <1>a, <1>7 DEF SleepInv, QuietInv, NotifyManagerClosed, sessionVars, managerVars, clientVars, waitVars, queueVars, deferVars, jobVars, WaitTypes, Watching, At, SchedulerFree, NotifyIf, SignalWakeup, GoesTo, WokenPc, Wakes, NextJob, AfterJob, Quiet, Waitable, IsSignaled, SelectorInv, WatchInv
  <2>4. WorkInv'
    BY <1>a, <1>7 DEF SleepInv, WorkInv, NotifyManagerClosed, sessionVars, managerVars, clientVars, waitVars, queueVars, deferVars, jobVars, WaitTypes, Watching, At, SchedulerFree, NotifyIf, SignalWakeup, GoesTo, WokenPc, Wakes, NextJob, AfterJob, Selecting, SelectorInv, WatchInv
  <2> QED
    BY <2>1, <2>2, <2>3, <2>4 DEF SleepInv
<1>8. ASSUME NEW s \in Sessions, CloseClientEndpoint(s),
             UNCHANGED <<queueVars, deferVars, jobVars, panic>>
      PROVE  SleepInv'
  <2>1. SelectorInv'
    BY <1>a, <1>8 DEF SleepInv, SelectorInv, CloseClientEndpoint, sessionVars, managerVars, clientVars, waitVars, queueVars, deferVars, jobVars, WaitTypes, Watching, At, SchedulerFree, NotifyIf, SignalWakeup, GoesTo, WokenPc, Wakes, NextJob, AfterJob
  <2>2. WatchInv'
    BY <1>a, <1>8 DEF SleepInv, WatchInv, CloseClientEndpoint, sessionVars, managerVars, clientVars, waitVars, queueVars, deferVars, jobVars, SignalWakeup, NextJob
  <2>3. QuietInv'
    BY <1>a, <1>8 DEF SleepInv, QuietInv, CloseClientEndpoint, sessionVars, managerVars, clientVars, waitVars, queueVars, deferVars, jobVars, WaitTypes, Watching, At, SchedulerFree, NotifyIf, SignalWakeup, GoesTo, WokenPc, Wakes, NextJob, AfterJob, Quiet, Waitable, IsSignaled, SelectorInv, WatchInv
  <2>4. WorkInv'
    BY <1>a, <1>8 DEF SleepInv, WorkInv, CloseClientEndpoint, sessionVars, managerVars, clientVars, waitVars, queueVars, deferVars, jobVars, WaitTypes, Watching, At, SchedulerFree, NotifyIf, SignalWakeup, GoesTo, WokenPc, Wakes, NextJob, AfterJob, Selecting, SelectorInv, WatchInv
  <2> QED
    BY <2>1, <2>2, <2>3, <2>4 DEF SleepInv
<1>9. ASSUME Terminate,
             UNCHANGED <<queueVars, deferVars, jobVars, panic>>
      PROVE  SleepInv'
  <2>1. SelectorInv'
    BY <1>a, <1>9 DEF SleepInv, SelectorInv, Terminate, sessionVars, managerVars, clientVars, waitVars, queueVars, deferVars, jobVars, WaitTypes, Watching, At, SchedulerFree, NotifyIf, SignalWakeup, GoesTo, WokenPc, Wakes, NextJob, AfterJob
  <2>2. WatchInv'
    BY <1>a, <1>9 DEF SleepInv, WatchInv, Terminate, sessionVars, managerVars, clientVars, waitVars, queueVars, deferVars, jobVars, SignalWakeup, NextJob
  <2>3. QuietInv'
    BY <1>a, <1>9 DEF SleepInv, QuietInv, Terminate, sessionVars, managerVars, clientVars, waitVars, queueVars, deferVars, jobVars, WaitTypes, Watching, At, SchedulerFree, NotifyIf, SignalWakeup, GoesTo, WokenPc, Wakes, NextJob, AfterJob, Quiet, Waitable, IsSignaled, SelectorInv, WatchInv
  <2>4. WorkInv'
    BY <1>a, <1>9 DEF SleepInv, WorkInv, Terminate, sessionVars, managerVars, clientVars, waitVars, queueVars, deferVars, jobVars, WaitTypes, Watching, At, SchedulerFree, NotifyIf, SignalWakeup, GoesTo, WokenPc, Wakes, NextJob, AfterJob, Selecting, SelectorInv, WatchInv
  <2> QED
    BY <2>1, <2>2, <2>3, <2>4 DEF SleepInv
<1>10. ASSUME NEW w \in Workers, Drain(w)
      PROVE  SleepInv'
  <2>a. DrainEffect(w)
    BY <1>10, DrainDoes
  <2>1. SelectorInv'
    BY <1>a, <1>10, <2>a DEF SleepInv, SelectorInv, Drain, DrainEffect, sessionVars, managerVars, clientVars, waitVars, queueVars, deferVars, jobVars, WaitTypes, Watching, At, SchedulerFree, NotifyIf, SignalWakeup, GoesTo, WokenPc, Wakes, NextJob, AfterJob
  <2>2. WatchInv'
    <3>1. hooked' = hooked \cup NewSessions(pendingReg) /\ dlist' = <<>>
      BY <1>10 DEF Drain
    <3> QED
      BY <1>a, <2>a, <3>1, EmptyList DEF DrainEffect, SleepInv, WatchInv
  <2>3. QuietInv'
    BY <1>a, <1>10, <2>a DEF SleepInv, QuietInv, Drain, DrainEffect, sessionVars, managerVars, clientVars, waitVars, queueVars, deferVars, jobVars, WaitTypes, Watching, At, SchedulerFree, NotifyIf, SignalWakeup, GoesTo, WokenPc, Wakes, NextJob, AfterJob, Quiet, Waitable, IsSignaled, SelectorInv, WatchInv
  <2>4. WorkInv'
    BY <1>a, <1>10, <2>a DEF SleepInv, WorkInv, Drain, DrainEffect, sessionVars, managerVars, clientVars, waitVars, queueVars, deferVars, jobVars, WaitTypes, Watching, At, SchedulerFree, NotifyIf, SignalWakeup, GoesTo, WokenPc, Wakes, NextJob, AfterJob, Selecting, SelectorInv, WatchInv
  <2> QED
    BY <2>1, <2>2, <2>3, <2>4 DEF SleepInv
<1>11. ASSUME NEW w \in Workers, WaitPanics(w)
      PROVE  SleepInv'
  <2>1. SelectorInv'
    BY <1>a, <1>11 DEF SleepInv, SelectorInv, WaitPanics, sessionVars, managerVars, clientVars, waitVars, queueVars, deferVars, jobVars, WaitTypes, Watching, At, SchedulerFree, NotifyIf, SignalWakeup, GoesTo, WokenPc, Wakes, NextJob, AfterJob
  <2>2. WatchInv'
    BY <1>a, <1>11 DEF SleepInv, WatchInv, WaitPanics, sessionVars, managerVars, clientVars, waitVars, queueVars, deferVars, jobVars, SignalWakeup, NextJob
  <2>3. QuietInv'
    BY <1>a, <1>11 DEF SleepInv, QuietInv, WaitPanics, sessionVars, managerVars, clientVars, waitVars, queueVars, deferVars, jobVars, WaitTypes, Watching, At, SchedulerFree, NotifyIf, SignalWakeup, GoesTo, WokenPc, Wakes, NextJob, AfterJob, Quiet, Waitable, IsSignaled, SelectorInv, WatchInv
  <2>4. WorkInv'
    BY <1>a, <1>11 DEF SleepInv, WorkInv, WaitPanics, sessionVars, managerVars, clientVars, waitVars, queueVars, deferVars, jobVars, WaitTypes, Watching, At, SchedulerFree, NotifyIf, SignalWakeup, GoesTo, WokenPc, Wakes, NextJob, AfterJob, Selecting, SelectorInv, WatchInv
  <2> QED
    BY <2>1, <2>2, <2>3, <2>4 DEF SleepInv
<1>12. ASSUME NEW w \in Workers, WaitFinds(w)
      PROVE  SleepInv'
  <2>1. SelectorInv'
    BY <1>a, <1>12 DEF SleepInv, SelectorInv, WaitFinds, sessionVars, managerVars, clientVars, waitVars, queueVars, deferVars, jobVars, WaitTypes, Watching, At, SchedulerFree, NotifyIf, SignalWakeup, GoesTo, WokenPc, Wakes, NextJob, AfterJob
  <2>2. WatchInv'
    BY <1>a, <1>12 DEF SleepInv, WatchInv, WaitFinds, sessionVars, managerVars, clientVars, waitVars, queueVars, deferVars, jobVars, SignalWakeup, NextJob
  <2>3. QuietInv'
    BY <1>a, <1>12 DEF SleepInv, QuietInv, WaitFinds, sessionVars, managerVars, clientVars, waitVars, queueVars, deferVars, jobVars, WaitTypes, Watching, At, SchedulerFree, NotifyIf, SignalWakeup, GoesTo, WokenPc, Wakes, NextJob, AfterJob, Quiet, Waitable, IsSignaled, SelectorInv, WatchInv
  <2>4. WorkInv'
    BY <1>a, <1>12 DEF SleepInv, WorkInv, WaitFinds, sessionVars, managerVars, clientVars, waitVars, queueVars, deferVars, jobVars, WaitTypes, Watching, At, SchedulerFree, NotifyIf, SignalWakeup, GoesTo, WokenPc, Wakes, NextJob, AfterJob, Selecting, SelectorInv, WatchInv
  <2> QED
    BY <2>1, <2>2, <2>3, <2>4 DEF SleepInv
<1>13. ASSUME NEW w \in Workers, WaitLinks(w)
      PROVE  SleepInv'
  <2>1. SelectorInv'
    BY <1>a, <1>13 DEF SleepInv, SelectorInv, WaitLinks, sessionVars, managerVars, clientVars, waitVars, queueVars, deferVars, jobVars, WaitTypes, Watching, At, SchedulerFree, NotifyIf, SignalWakeup, GoesTo, WokenPc, Wakes, NextJob, AfterJob
  <2>2. WatchInv'
    BY <1>a, <1>13 DEF SleepInv, WatchInv, WaitLinks, sessionVars, managerVars, clientVars, waitVars, queueVars, deferVars, jobVars, SignalWakeup, NextJob
  <2>3. QuietInv'
    <3>1. Quiet
      BY <1>13, HolderCases DEF WaitLinks, Quiet, SleepInv, WatchInv
    <3>2. Quiet'
      BY <1>13, <3>1 DEF WaitLinks, Quiet, Waitable, IsSignaled, sessionVars, clientVars, deferVars
    <3> QED
      BY <3>2 DEF QuietInv
  <2>4. WorkInv'
    BY <1>a, <1>13 DEF SleepInv, WorkInv, WaitLinks, sessionVars, managerVars, clientVars, waitVars, queueVars, deferVars, jobVars, WaitTypes, Watching, At, SchedulerFree, NotifyIf, SignalWakeup, GoesTo, WokenPc, Wakes, NextJob, AfterJob, Selecting, SelectorInv, WatchInv
  <2> QED
    BY <2>1, <2>2, <2>3, <2>4 DEF SleepInv
<1>14. ASSUME NEW w \in Workers, WaitSleeps(w)
      PROVE  SleepInv'
  <2>1. SelectorInv'
    BY <1>a, <1>14 DEF SleepInv, SelectorInv, WaitSleeps, sessionVars, managerVars, clientVars, waitVars, queueVars, deferVars, jobVars, WaitTypes, Watching, At, SchedulerFree, NotifyIf, SignalWakeup, GoesTo, WokenPc, Wakes, NextJob, AfterJob
  <2>2. WatchInv'
    BY <1>a, <1>14 DEF SleepInv, WatchInv, WaitSleeps, sessionVars, managerVars, clientVars, waitVars, queueVars, deferVars, jobVars, SignalWakeup, NextJob
  <2>3. QuietInv'
    BY <1>a, <1>14 DEF SleepInv, QuietInv, WaitSleeps, sessionVars, managerVars, clientVars, waitVars, queueVars, deferVars, jobVars, WaitTypes, Watching, At, SchedulerFree, NotifyIf, SignalWakeup, GoesTo, WokenPc, Wakes, NextJob, AfterJob, Quiet, Waitable, IsSignaled, SelectorInv, WatchInv
  <2>4. WorkInv'
    BY <1>a, <1>14 DEF SleepInv, WorkInv, WaitSleeps, sessionVars, managerVars, clientVars, waitVars, queueVars, deferVars, jobVars, WaitTypes, Watching, At, SchedulerFree, NotifyIf, SignalWakeup, GoesTo, WokenPc, Wakes, NextJob, AfterJob, Selecting, SelectorInv, WatchInv
  <2> QED
    BY <2>1, <2>2, <2>3, <2>4 DEF SleepInv
<1>15. ASSUME NEW w \in Workers, ConsumeWakeup(w)
      PROVE  SleepInv'
  <2>1. SelectorInv'
    BY <1>a, <1>15 DEF SleepInv, SelectorInv, ConsumeWakeup, sessionVars, managerVars, clientVars, waitVars, queueVars, deferVars, jobVars, WaitTypes, Watching, At, SchedulerFree, NotifyIf, SignalWakeup, GoesTo, WokenPc, Wakes, NextJob, AfterJob
  <2>2. WatchInv'
    <3> DEFINE rest == Without(multi, {"wakeup"})
    <3>1. rest \in Seq(Holders) /\ Range(rest) = Range(multi) \ {"wakeup"} /\ "wakeup" \in Holders
      BY WithoutIs DEF WaitTypes, Holders
    <3>2. multi' = Append(rest, "wakeup")
      BY <1>15 DEF ConsumeWakeup
    <3> HIDE DEF rest
    <3>3. Range(multi') = Range(multi) \cup {"wakeup"}
      BY <3>1, <3>2, RangeAppend DEF SleepInv, WatchInv
    <3> QED
      BY <1>a, <1>15, <3>3 DEF ConsumeWakeup, SleepInv, WatchInv, managerVars, queueVars
  <2>3. QuietInv'
    BY <1>a, <1>15 DEF SleepInv, QuietInv, ConsumeWakeup, sessionVars, managerVars, clientVars, waitVars, queueVars, deferVars, jobVars, WaitTypes, Watching, At, SchedulerFree, NotifyIf, SignalWakeup, GoesTo, WokenPc, Wakes, NextJob, AfterJob, Quiet, Waitable, IsSignaled, SelectorInv, WatchInv
  <2>4. WorkInv'
    BY <1>a, <1>15 DEF SleepInv, WorkInv, ConsumeWakeup, sessionVars, managerVars, clientVars, waitVars, queueVars, deferVars, jobVars, WaitTypes, Watching, At, SchedulerFree, NotifyIf, SignalWakeup, GoesTo, WokenPc, Wakes, NextJob, AfterJob, Selecting, SelectorInv, WatchInv
  <2> QED
    BY <2>1, <2>2, <2>3, <2>4 DEF SleepInv
<1>16. ASSUME NEW w \in Workers, Select(w)
      PROVE  SleepInv'
  <2>1. SelectorInv'
    BY <1>a, <1>16 DEF SleepInv, SelectorInv, Select, sessionVars, managerVars, clientVars, waitVars, queueVars, deferVars, jobVars, WaitTypes, Watching, At, SchedulerFree, NotifyIf, SignalWakeup, GoesTo, WokenPc, Wakes, NextJob, AfterJob
  <2>2. WatchInv'
    <3>1. Range(multi') = Range(multi) \ {sel[w]} /\ sel[w] # "wakeup"
      BY <1>16, WithoutIs DEF Select, WaitTypes
    <3> QED
      BY <1>16, <3>1 DEF Select, SleepInv, WatchInv, managerVars
  <2>3. QuietInv'
    BY <1>a, <1>16 DEF SleepInv, QuietInv, Select, sessionVars, managerVars, clientVars, waitVars, queueVars, deferVars, jobVars, WaitTypes, Watching, At, SchedulerFree, NotifyIf, SignalWakeup, GoesTo, WokenPc, Wakes, NextJob, AfterJob, Quiet, Waitable, IsSignaled, SelectorInv, WatchInv
  <2>4. WorkInv'
    BY <1>a, <1>16 DEF SleepInv, WorkInv, Select, sessionVars, managerVars, clientVars, waitVars, queueVars, deferVars, jobVars, WaitTypes, Watching, At, SchedulerFree, NotifyIf, SignalWakeup, GoesTo, WokenPc, Wakes, NextJob, AfterJob, Selecting, SelectorInv, WatchInv
  <2> QED
    BY <2>1, <2>2, <2>3, <2>4 DEF SleepInv
<1>17. ASSUME NEW w \in Workers, PrepareSession(w)
      PROVE  SleepInv'
  <2>1. SelectorInv'
    BY <1>a, <1>17 DEF SleepInv, SelectorInv, PrepareSession, sessionVars, managerVars, clientVars, waitVars, queueVars, deferVars, jobVars, WaitTypes, Watching, At, SchedulerFree, NotifyIf, SignalWakeup, GoesTo, WokenPc, Wakes, NextJob, AfterJob
  <2>2. WatchInv'
    BY <1>a, <1>17 DEF SleepInv, WatchInv, PrepareSession, sessionVars, managerVars, clientVars, waitVars, queueVars, deferVars, jobVars, SignalWakeup, NextJob
  <2>3. QuietInv'
    BY <1>a, <1>17 DEF SleepInv, QuietInv, PrepareSession, sessionVars, managerVars, clientVars, waitVars, queueVars, deferVars, jobVars, WaitTypes, Watching, At, SchedulerFree, NotifyIf, SignalWakeup, GoesTo, WokenPc, Wakes, NextJob, AfterJob, Quiet, Waitable, IsSignaled, SelectorInv, WatchInv
  <2>4. WorkInv'
    BY <1>a, <1>17 DEF SleepInv, WorkInv, PrepareSession, sessionVars, managerVars, clientVars, waitVars, queueVars, deferVars, jobVars, WaitTypes, Watching, At, SchedulerFree, NotifyIf, SignalWakeup, GoesTo, WokenPc, Wakes, NextJob, AfterJob, Selecting, SelectorInv, WatchInv
  <2> QED
    BY <2>1, <2>2, <2>3, <2>4 DEF SleepInv
<1>18. ASSUME NEW w \in Workers, AcceptSession(w)
      PROVE  SleepInv'
  <2>a. AcceptEffect(w)
    BY <1>18, AcceptDoes
  <2>1. SelectorInv'
    BY <1>a, <1>18, <2>a DEF SleepInv, SelectorInv, AcceptSession, AcceptEffect, Alerts, Alike, Rouses, sessionVars, managerVars, clientVars, waitVars, queueVars, deferVars, jobVars, WaitTypes, Watching, At, SchedulerFree, NotifyIf, SignalWakeup, GoesTo, WokenPc, Wakes, NextJob, AfterJob
  <2>2. WatchInv'
    BY <1>a, <1>18, <2>a DEF SleepInv, WatchInv, AcceptSession, AcceptEffect, Alerts, Alike, Rouses, sessionVars, managerVars, clientVars, waitVars, queueVars, deferVars, jobVars, SignalWakeup, NextJob
  <2>3. QuietInv'
    BY <1>a, <1>18, <2>a DEF SleepInv, QuietInv, AcceptSession, AcceptEffect, Alerts, Alike, Rouses, sessionVars, managerVars, clientVars, waitVars, queueVars, deferVars, jobVars, WaitTypes, Watching, At, SchedulerFree, NotifyIf, SignalWakeup, GoesTo, WokenPc, Wakes, NextJob, AfterJob, Quiet, Waitable, IsSignaled, SelectorInv, WatchInv
  <2>4. WorkInv'
    <3>1. ~Relinks => Accepted = {} /\ CloseAtOnce(Accepted) = {}
      BY DEF Relinks, Accepted, CloseAtOnce
    <3>2. ~Relinks /\ dlist' # <<>> => dlist # <<>>
      <4>1. ~Relinks => Range(dlist') = Range(dlist)
        BY <2>a, <3>1 DEF AcceptEffect
      <4>2. dlist \in Seq(Holders) /\ dlist' \in Seq(Holders)
        BY <2>a DEF AcceptEffect, ServerTypes
      <4> QED
        BY <4>1, <4>2, RangeOf
    <3>3. pendingReg' = pendingReg /\ wpc[w] = "selected"
      BY <1>18 DEF AcceptSession, At
    <3>4. wakeup' = (wakeup \/ Relinks) /\ pendingClose' = pendingClose \cup CloseAtOnce(Accepted)
      BY <2>a DEF AcceptEffect
    <3>5. /\ wpc'[w] = "top" /\ \A v \in Workers \ {w} : wpc'[v] \in Watching => wpc[v] \in Watching
          /\ \A v \in Workers \ {w} : wpc[v] = "wake" => wpc'[v] = "wake"
      BY <2>a DEF AcceptEffect, Alerts, Alike, Rouses, Watching
    <3>6. CASE Relinks
      BY <3>4, <3>6 DEF WorkInv
    <3>7. CASE ~Relinks
      <4>1. (wakeup' <=> wakeup) /\ pendingClose' = pendingClose
        BY <3>1, <3>4, <3>7
      <4>2. Selecting' => Selecting
        BY <3>5 DEF Selecting, Watching
      <4>3. (\E v \in Workers : wpc[v] = "wake") => \E v \in Workers : wpc'[v] = "wake"
        BY <3>3, <3>5
      <4> QED
        BY <3>2, <3>3, <3>7, <4>1, <4>2, <4>3 DEF SleepInv, WorkInv
    <3> QED
      BY <3>6, <3>7
  <2> QED
    BY <2>1, <2>2, <2>3, <2>4 DEF SleepInv
<1>19. ASSUME NEW w \in Workers, ReceiveClosed(w)
      PROVE  SleepInv'
  <2>b. JobOf(w) \in SUBSET Sessions
    BY DEF JobOf, ServerTypes
  <2>a. DestroyEffect(w, JobOf(w))
    BY <1>19, <2>b, DestroyDoes DEF ReceiveClosed, JobOf
  <2>1. SelectorInv'
    BY <1>a, <1>19, <2>a DEF SleepInv, SelectorInv, ReceiveClosed, DestroyEffect, sessionVars, managerVars, clientVars, waitVars, queueVars, deferVars, jobVars, WaitTypes, Watching, At, SchedulerFree, NotifyIf, SignalWakeup, GoesTo, WokenPc, Wakes, NextJob, AfterJob
  <2>2. WatchInv'
    <3>1. hooked' = hooked
      BY <1>19 DEF ReceiveClosed
    <3> QED
      BY <1>a, <2>a, <2>b, <3>1 DEF DestroyEffect, SleepInv, WatchInv
  <2>3. QuietInv'
    <3>1. UNCHANGED <<wakeup, deferral, backlog, clientClosed, closing>>
      BY <1>19 DEF ReceiveClosed
    <3>2. /\ Range(multi') = Range(multi) \ JobOf(w)
          /\ \A r \in Sessions \ JobOf(w) : list'[r] = list[r] /\ current'[r] = current[r] /\ ends'[r] = ends[r]
      BY <2>a DEF DestroyEffect, SessionsDestroyed
    <3>3. Quiet => Quiet'
      BY <1>a, <2>b, <3>1, <3>2 DEF Quiet, Waitable, IsSignaled
    <3>4. \A v \in Workers : wpc'[v] \in {"linking", "asleep"} => wpc'[v] = wpc[v]
      BY <1>19 DEF ReceiveClosed, NextJob, AfterJob, WaitTypes
    <3> QED
      BY <3>3, <3>4 DEF SleepInv, QuietInv
  <2>4. WorkInv'
    <3>1. dlist' # <<>> => dlist # <<>>
      BY <2>a, RangeOf DEF DestroyEffect, ServerTypes
    <3> QED
      BY <1>19, <3>1 DEF ReceiveClosed, SleepInv, WorkInv, Selecting, Watching, At, NextJob, AfterJob, WaitTypes
  <2> QED
    BY <2>1, <2>2, <2>3, <2>4 DEF SleepInv
<1>20. ASSUME NEW w \in Workers, ReceiveRequest(w)
      PROVE  SleepInv'
  <2>1. SelectorInv'
    BY <1>a, <1>20 DEF SleepInv, SelectorInv, ReceiveRequest, sessionVars, managerVars, clientVars, waitVars, queueVars, deferVars, jobVars, WaitTypes, Watching, At, SchedulerFree, NotifyIf, SignalWakeup, GoesTo, WokenPc, Wakes, NextJob, AfterJob
  <2>2. WatchInv'
    BY <1>a, <1>20 DEF SleepInv, WatchInv, ReceiveRequest, sessionVars, managerVars, clientVars, waitVars, queueVars, deferVars, jobVars, SignalWakeup, NextJob
  <2>3. QuietInv'
    BY <1>a, <1>20 DEF SleepInv, QuietInv, ReceiveRequest, sessionVars, managerVars, clientVars, waitVars, queueVars, deferVars, jobVars, WaitTypes, Watching, At, SchedulerFree, NotifyIf, SignalWakeup, GoesTo, WokenPc, Wakes, NextJob, AfterJob, Quiet, Waitable, IsSignaled, SelectorInv, WatchInv
  <2>4. WorkInv'
    BY <1>a, <1>20 DEF SleepInv, WorkInv, ReceiveRequest, sessionVars, managerVars, clientVars, waitVars, queueVars, deferVars, jobVars, WaitTypes, Watching, At, SchedulerFree, NotifyIf, SignalWakeup, GoesTo, WokenPc, Wakes, NextJob, AfterJob, Selecting, SelectorInv, WatchInv
  <2> QED
    BY <2>1, <2>2, <2>3, <2>4 DEF SleepInv
<1>21. ASSUME NEW w \in Workers, Dispatch(w)
      PROVE  SleepInv'
  <2>1. SelectorInv'
    BY <1>a, <1>21 DEF SleepInv, SelectorInv, Dispatch, sessionVars, managerVars, clientVars, waitVars, queueVars, deferVars, jobVars, WaitTypes, Watching, At, SchedulerFree, NotifyIf, SignalWakeup, GoesTo, WokenPc, Wakes, NextJob, AfterJob
  <2>2. WatchInv'
    BY <1>a, <1>21 DEF SleepInv, WatchInv, Dispatch, sessionVars, managerVars, clientVars, waitVars, queueVars, deferVars, jobVars, SignalWakeup, NextJob
  <2>3. QuietInv'
    BY <1>a, <1>21 DEF SleepInv, QuietInv, Dispatch, sessionVars, managerVars, clientVars, waitVars, queueVars, deferVars, jobVars, WaitTypes, Watching, At, SchedulerFree, NotifyIf, SignalWakeup, GoesTo, WokenPc, Wakes, NextJob, AfterJob, Quiet, Waitable, IsSignaled, SelectorInv, WatchInv
  <2>4. WorkInv'
    BY <1>a, <1>21 DEF SleepInv, WorkInv, Dispatch, sessionVars, managerVars, clientVars, waitVars, queueVars, deferVars, jobVars, WaitTypes, Watching, At, SchedulerFree, NotifyIf, SignalWakeup, GoesTo, WokenPc, Wakes, NextJob, AfterJob, Selecting, SelectorInv, WatchInv
  <2> QED
    BY <2>1, <2>2, <2>3, <2>4 DEF SleepInv
<1>22. ASSUME NEW w \in Workers, Defer(w)
      PROVE  SleepInv'
  <2>1. SelectorInv'
    BY <1>a, <1>22 DEF SleepInv, SelectorInv, Defer, sessionVars, managerVars, clientVars, waitVars, queueVars, deferVars, jobVars, WaitTypes, Watching, At, SchedulerFree, NotifyIf, SignalWakeup, GoesTo, WokenPc, Wakes, NextJob, AfterJob
  <2>2. WatchInv'
    BY <1>a, <1>22 DEF SleepInv, WatchInv, Defer, sessionVars, managerVars, clientVars, waitVars, queueVars, deferVars, jobVars, SignalWakeup, NextJob
  <2>3. QuietInv'
    BY <1>a, <1>22 DEF SleepInv, QuietInv, Defer, sessionVars, managerVars, clientVars, waitVars, queueVars, deferVars, jobVars, WaitTypes, Watching, At, SchedulerFree, NotifyIf, SignalWakeup, GoesTo, WokenPc, Wakes, NextJob, AfterJob, Quiet, Waitable, IsSignaled, SelectorInv, WatchInv
  <2>4. WorkInv'
    BY <1>a, <1>22 DEF SleepInv, WorkInv, Defer, sessionVars, managerVars, clientVars, waitVars, queueVars, deferVars, jobVars, WaitTypes, Watching, At, SchedulerFree, NotifyIf, SignalWakeup, GoesTo, WokenPc, Wakes, NextJob, AfterJob, Selecting, SelectorInv, WatchInv
  <2> QED
    BY <2>1, <2>2, <2>3, <2>4 DEF SleepInv
<1>23. ASSUME NEW w \in Workers, TakeReply(w)
      PROVE  SleepInv'
  <2>1. SelectorInv'
    BY <1>a, <1>23 DEF SleepInv, SelectorInv, TakeReply, sessionVars, managerVars, clientVars, waitVars, queueVars, deferVars, jobVars, WaitTypes, Watching, At, SchedulerFree, NotifyIf, SignalWakeup, GoesTo, WokenPc, Wakes, NextJob, AfterJob
  <2>2. WatchInv'
    BY <1>a, <1>23 DEF SleepInv, WatchInv, TakeReply, sessionVars, managerVars, clientVars, waitVars, queueVars, deferVars, jobVars, SignalWakeup, NextJob
  <2>3. QuietInv'
    <3> DEFINE s == job[w]
               rings == current[s] # None /\ list[s] # <<>> /\ "server" \notin ends[s]
    <3>1. s \in Sessions /\ wpc[w] = "reply"
      BY <1>23 DEF TakeReply, At, JobPlaces, ServerTypes
    <3>2. /\ \A r \in Sessions \ {s} : current'[r] = current[r]
          /\ UNCHANGED <<multi, wakeup, deferral, backlog, clientClosed, list, ends, closing>>
      BY <1>23 DEF TakeReply, ClearCurrent, SessionTypes, clientVars, deferVars
    <3>3. \A v \in Workers : wpc'[v] \in {"linking", "asleep"} => wpc[v] = wpc'[v] /\ ~(rings /\ s \in Range(multi))
      BY <1>23 DEF TakeReply, GoesTo, WokenPc, Wakes, SchedulerFree, WaitTypes
    <3>4. Quiet /\ ~(rings /\ s \in Range(multi)) => Quiet'
      BY <3>1, <3>2 DEF Quiet, Waitable, IsSignaled
    <3> HIDE DEF s, rings
    <3> QED
      BY <3>3, <3>4 DEF SleepInv, QuietInv
  <2>4. WorkInv'
    BY <1>a, <1>23 DEF SleepInv, WorkInv, TakeReply, sessionVars, managerVars, clientVars, waitVars, queueVars, deferVars, jobVars, WaitTypes, Watching, At, SchedulerFree, NotifyIf, SignalWakeup, GoesTo, WokenPc, Wakes, NextJob, AfterJob, Selecting, SelectorInv, WatchInv
  <2> QED
    BY <2>1, <2>2, <2>3, <2>4 DEF SleepInv
<1>24. ASSUME NEW w \in Workers, AnswerClient(w)
      PROVE  SleepInv'
  <2>1. SelectorInv'
    BY <1>a, <1>24 DEF SleepInv, SelectorInv, AnswerClient, sessionVars, managerVars, clientVars, waitVars, queueVars, deferVars, jobVars, WaitTypes, Watching, At, SchedulerFree, NotifyIf, SignalWakeup, GoesTo, WokenPc, Wakes, NextJob, AfterJob
  <2>2. WatchInv'
    BY <1>a, <1>24 DEF SleepInv, WatchInv, AnswerClient, sessionVars, managerVars, clientVars, waitVars, queueVars, deferVars, jobVars, SignalWakeup, NextJob
  <2>3. QuietInv'
    BY <1>a, <1>24 DEF SleepInv, QuietInv, AnswerClient, sessionVars, managerVars, clientVars, waitVars, queueVars, deferVars, jobVars, WaitTypes, Watching, At, SchedulerFree, NotifyIf, SignalWakeup, GoesTo, WokenPc, Wakes, NextJob, AfterJob, Quiet, Waitable, IsSignaled, SelectorInv, WatchInv
  <2>4. WorkInv'
    BY <1>a, <1>24 DEF SleepInv, WorkInv, AnswerClient, sessionVars, managerVars, clientVars, waitVars, queueVars, deferVars, jobVars, WaitTypes, Watching, At, SchedulerFree, NotifyIf, SignalWakeup, GoesTo, WokenPc, Wakes, NextJob, AfterJob, Selecting, SelectorInv, WatchInv
  <2> QED
    BY <2>1, <2>2, <2>3, <2>4 DEF SleepInv
<1>25. ASSUME NEW w \in Workers, FinishClosed(w)
      PROVE  SleepInv'
  <2>b. {job[w]} \in SUBSET Sessions
    BY <1>25 DEF FinishClosed, ServerTypes
  <2>a. DestroyEffect(w, {job[w]})
    BY <1>25, <2>b, DestroyDoes DEF FinishClosed
  <2>1. SelectorInv'
    BY <1>a, <1>25, <2>a DEF SleepInv, SelectorInv, FinishClosed, DestroyEffect, sessionVars, managerVars, clientVars, waitVars, queueVars, deferVars, jobVars, WaitTypes, Watching, At, SchedulerFree, NotifyIf, SignalWakeup, GoesTo, WokenPc, Wakes, NextJob, AfterJob
  <2>2. WatchInv'
    <3>1. hooked' = hooked
      BY <1>25 DEF FinishClosed
    <3> QED
      BY <1>a, <2>a, <2>b, <3>1 DEF DestroyEffect, SleepInv, WatchInv
  <2>3. QuietInv'
    <3>1. UNCHANGED <<wakeup, deferral, backlog, clientClosed, closing>>
      BY <1>25 DEF FinishClosed
    <3>2. /\ Range(multi') = Range(multi) \ {job[w]}
          /\ \A r \in Sessions \ {job[w]} : list'[r] = list[r] /\ current'[r] = current[r] /\ ends'[r] = ends[r]
      BY <2>a DEF DestroyEffect, SessionsDestroyed
    <3>3. Quiet => Quiet'
      BY <1>a, <2>b, <3>1, <3>2 DEF Quiet, Waitable, IsSignaled
    <3>4. \A v \in Workers : wpc'[v] \in {"linking", "asleep"} => wpc'[v] = wpc[v]
      BY <1>25 DEF FinishClosed, NextJob, AfterJob, WaitTypes
    <3> QED
      BY <3>3, <3>4 DEF SleepInv, QuietInv
  <2>4. WorkInv'
    <3>1. dlist' # <<>> => dlist # <<>>
      BY <2>a, RangeOf DEF DestroyEffect, ServerTypes
    <3> QED
      BY <1>25, <3>1 DEF FinishClosed, SleepInv, WorkInv, Selecting, Watching, At, NextJob, AfterJob, WaitTypes
  <2> QED
    BY <2>1, <2>2, <2>3, <2>4 DEF SleepInv
<1>26. ASSUME NEW w \in Workers, FinishRelinks(w)
      PROVE  SleepInv'
  <2>1. SelectorInv'
    BY <1>a, <1>26 DEF SleepInv, SelectorInv, FinishRelinks, sessionVars, managerVars, clientVars, waitVars, queueVars, deferVars, jobVars, WaitTypes, Watching, At, SchedulerFree, NotifyIf, SignalWakeup, GoesTo, WokenPc, Wakes, NextJob, AfterJob
  <2>2. WatchInv'
    <3>1. Range(dlist') \cap Sessions \subseteq (Range(dlist) \cap Sessions) \cup sessions
      <4>1. dlist' = dlist \/ (job[w] \in sessions /\ dlist' = Append(dlist, job[w]))
        BY <1>26 DEF FinishRelinks
      <4>2. dlist \in Seq(Holders) /\ sessions \subseteq Holders
        BY DEF ServerTypes, Holders
      <4>3. job[w] \in sessions => Range(Append(dlist, job[w])) = Range(dlist) \cup {job[w]}
        BY <4>2, RangeAppend
      <4> QED
        BY <4>1, <4>3
    <3>2. UNCHANGED <<multi, hooked, sessions>>
      BY <1>26 DEF FinishRelinks, managerVars
    <3> QED
      BY <3>1, <3>2 DEF SleepInv, WatchInv
  <2>3. QuietInv'
    BY <1>a, <1>26 DEF SleepInv, QuietInv, FinishRelinks, sessionVars, managerVars, clientVars, waitVars, queueVars, deferVars, jobVars, WaitTypes, Watching, At, SchedulerFree, NotifyIf, SignalWakeup, GoesTo, WokenPc, Wakes, NextJob, AfterJob, Quiet, Waitable, IsSignaled, SelectorInv, WatchInv
  <2>4. WorkInv'
    BY <1>a, <1>26 DEF SleepInv, WorkInv, FinishRelinks, sessionVars, managerVars, clientVars, waitVars, queueVars, deferVars, jobVars, WaitTypes, Watching, At, SchedulerFree, NotifyIf, SignalWakeup, GoesTo, WokenPc, Wakes, NextJob, AfterJob, Selecting, SelectorInv, WatchInv
  <2> QED
    BY <2>1, <2>2, <2>3, <2>4 DEF SleepInv
<1>27. ASSUME NEW w \in Workers, Wake(w)
      PROVE  SleepInv'
  <2>1. SelectorInv'
    BY <1>a, <1>27 DEF SleepInv, SelectorInv, Wake, sessionVars, managerVars, clientVars, waitVars, queueVars, deferVars, jobVars, WaitTypes, Watching, At, SchedulerFree, NotifyIf, SignalWakeup, GoesTo, WokenPc, Wakes, NextJob, AfterJob
  <2>2. WatchInv'
    BY <1>a, <1>27 DEF SleepInv, WatchInv, Wake, sessionVars, managerVars, clientVars, waitVars, queueVars, deferVars, jobVars, SignalWakeup, NextJob
  <2>3. QuietInv'
    BY <1>a, <1>27 DEF SleepInv, QuietInv, Wake, sessionVars, managerVars, clientVars, waitVars, queueVars, deferVars, jobVars, WaitTypes, Watching, At, SchedulerFree, NotifyIf, SignalWakeup, GoesTo, WokenPc, Wakes, NextJob, AfterJob, Quiet, Waitable, IsSignaled, SelectorInv, WatchInv
  <2>4. WorkInv'
    BY <1>a, <1>27 DEF SleepInv, WorkInv, Wake, sessionVars, managerVars, clientVars, waitVars, queueVars, deferVars, jobVars, WaitTypes, Watching, At, SchedulerFree, NotifyIf, SignalWakeup, GoesTo, WokenPc, Wakes, NextJob, AfterJob, Selecting, SelectorInv, WatchInv
  <2> QED
    BY <2>1, <2>2, <2>3, <2>4 DEF SleepInv
<1>28. ASSUME NEW w \in Workers, ClearDeferral(w)
      PROVE  SleepInv'
  <2>1. SelectorInv'
    BY <1>a, <1>28 DEF SleepInv, SelectorInv, ClearDeferral, sessionVars, managerVars, clientVars, waitVars, queueVars, deferVars, jobVars, WaitTypes, Watching, At, SchedulerFree, NotifyIf, SignalWakeup, GoesTo, WokenPc, Wakes, NextJob, AfterJob
  <2>2. WatchInv'
    BY <1>a, <1>28 DEF SleepInv, WatchInv, ClearDeferral, sessionVars, managerVars, clientVars, waitVars, queueVars, deferVars, jobVars, SignalWakeup, NextJob
  <2>3. QuietInv'
    BY <1>a, <1>28 DEF SleepInv, QuietInv, ClearDeferral, sessionVars, managerVars, clientVars, waitVars, queueVars, deferVars, jobVars, WaitTypes, Watching, At, SchedulerFree, NotifyIf, SignalWakeup, GoesTo, WokenPc, Wakes, NextJob, AfterJob, Quiet, Waitable, IsSignaled, SelectorInv, WatchInv
  <2>4. WorkInv'
    BY <1>a, <1>28 DEF SleepInv, WorkInv, ClearDeferral, sessionVars, managerVars, clientVars, waitVars, queueVars, deferVars, jobVars, WaitTypes, Watching, At, SchedulerFree, NotifyIf, SignalWakeup, GoesTo, WokenPc, Wakes, NextJob, AfterJob, Selecting, SelectorInv, WatchInv
  <2> QED
    BY <2>1, <2>2, <2>3, <2>4 DEF SleepInv
<1>29. ASSUME NEW w \in Workers, TakeDeferred(w)
      PROVE  SleepInv'
  <2>1. SelectorInv'
    BY <1>a, <1>29 DEF SleepInv, SelectorInv, TakeDeferred, sessionVars, managerVars, clientVars, waitVars, queueVars, deferVars, jobVars, WaitTypes, Watching, At, SchedulerFree, NotifyIf, SignalWakeup, GoesTo, WokenPc, Wakes, NextJob, AfterJob
  <2>2. WatchInv'
    <3>1. Range(dlist') = Range(dlist) \cup {"deferral"}
      <4>1. "deferral" \in Holders /\ dlist \in Seq(Holders)
        BY DEF ServerTypes, Holders
      <4>2. dlist' = Append(dlist, "deferral")
        BY <1>29 DEF TakeDeferred
      <4> QED
        BY <4>1, <4>2, RangeAppend
    <3>2. UNCHANGED <<multi, hooked, sessions>>
      BY <1>29 DEF TakeDeferred, managerVars
    <3> QED
      BY <1>a, <3>1, <3>2 DEF SleepInv, WatchInv
  <2>3. QuietInv'
    BY <1>a, <1>29 DEF SleepInv, QuietInv, TakeDeferred, sessionVars, managerVars, clientVars, waitVars, queueVars, deferVars, jobVars, WaitTypes, Watching, At, SchedulerFree, NotifyIf, SignalWakeup, GoesTo, WokenPc, Wakes, NextJob, AfterJob, Quiet, Waitable, IsSignaled, SelectorInv, WatchInv
  <2>4. WorkInv'
    BY <1>a, <1>29 DEF SleepInv, WorkInv, TakeDeferred, sessionVars, managerVars, clientVars, waitVars, queueVars, deferVars, jobVars, WaitTypes, Watching, At, SchedulerFree, NotifyIf, SignalWakeup, GoesTo, WokenPc, Wakes, NextJob, AfterJob, Selecting, SelectorInv, WatchInv
  <2> QED
    BY <2>1, <2>2, <2>3, <2>4 DEF SleepInv
<1>30. ASSUME RegisterService
      PROVE  SleepInv'
  <2>1. SelectorInv'
    BY <1>a, <1>30 DEF SleepInv, SelectorInv, RegisterService, sessionVars, managerVars, clientVars, waitVars, queueVars, deferVars, jobVars, WaitTypes, Watching, At, SchedulerFree, NotifyIf, SignalWakeup, GoesTo, WokenPc, Wakes, NextJob, AfterJob
  <2>2. WatchInv'
    BY <1>a, <1>30 DEF SleepInv, WatchInv, RegisterService, sessionVars, managerVars, clientVars, waitVars, queueVars, deferVars, jobVars, SignalWakeup, NextJob
  <2>3. QuietInv'
    BY <1>a, <1>30 DEF SleepInv, QuietInv, RegisterService, sessionVars, managerVars, clientVars, waitVars, queueVars, deferVars, jobVars, WaitTypes, Watching, At, SchedulerFree, NotifyIf, SignalWakeup, GoesTo, WokenPc, Wakes, NextJob, AfterJob, Quiet, Waitable, IsSignaled, SelectorInv, WatchInv
  <2>4. WorkInv'
    BY <1>a, <1>30 DEF SleepInv, WorkInv, RegisterService, sessionVars, managerVars, clientVars, waitVars, queueVars, deferVars, jobVars, WaitTypes, Watching, At, SchedulerFree, NotifyIf, SignalWakeup, GoesTo, WokenPc, Wakes, NextJob, AfterJob, Selecting, SelectorInv, WatchInv
  <2> QED
    BY <2>1, <2>2, <2>3, <2>4 DEF SleepInv
<1>31. CASE UNCHANGED vars
  BY <1>31 DEF vars, sessionVars, managerVars, clientVars, waitVars, queueVars, deferVars, jobVars, SleepInv, SelectorInv, WatchInv, QuietInv, WorkInv, Selecting, Quiet, Waitable, IsSignaled
<1> QED
  BY <1>1, <1>2, <1>3, <1>4, <1>5, <1>6, <1>7, <1>8, <1>9, <1>10, <1>11, <1>12, <1>13, <1>14, <1>15, <1>16, <1>17, <1>18, <1>19, <1>20, <1>21, <1>22, <1>23, <1>24, <1>25, <1>26, <1>27, <1>28, <1>29, <1>30, <1>31 DEF Next, ClientNext, WorkerNext

LEMMA SleepAlways == Spec => []SleepInv
  BY TypesAlways, RequestsAlways, SleepStart, SleepStep, PTL DEF Spec

\* A worker sleeps only if there is nothing to do, or whoever has something to do for it is about
\* to wake it up (wait_any, notify_available, link_to_deferred_list, notify_manager_closed).
THEOREM NoWakeupIsLost == Spec => []SleeperMissesNothing
<1>1. TypeInv /\ SleepInv => SleeperMissesNothing
  <2> SUFFICES ASSUME TypeInv, SleepInv, NEW w \in Workers, wpc[w] = "asleep"
               PROVE  /\ \A h \in Range(multi) : HolderIsSignaled(h) => h \in Sessions /\ closing[h] = "bridge"
                      /\ pendingReg = <<>> /\ pendingClose = {}
                      /\ dlist # <<>> => \E v \in Workers : wpc[v] = "wake"
    BY DEF SleeperMissesNothing
  <2>1. Quiet /\ Selecting
    BY DEF SleepInv, QuietInv, Selecting, Watching
  <2>2. \A h \in Range(multi) : h \in Holders
    BY RangeOf DEF TypeInv, WaitTypes
  <2>3. \A h \in Range(multi) : HolderIsSignaled(h) => h \in Sessions /\ closing[h] = "bridge"
    BY <2>1, <2>2, HolderCases DEF Quiet, Holders
  <2> QED
    BY <2>1, <2>3 DEF SleepInv, WorkInv, Quiet
<1> QED
  BY <1>1, TypesAlways, SleepAlways, PTL

-----------------------------------------------------------------------------
(* One worker *)

\* With one worker, what it serves and what it waits on is known from its place alone.
Linked(h) == h \in Range(multi) \cup Range(dlist)
Busy(w, s) == wpc[w] \in JobPlaces /\ job[w] = s
Picked(w, h) == wpc[w] = "selected" /\ sel[w] = h
Retried(w, s) == s \in Range(todo[w])

\* No holder is linked twice, no session deferred twice.
ListsApart(w) ==
    /\ NoDuplicates(multi) /\ NoDuplicates(dlist) /\ Range(multi) \cap Range(dlist) = {}
    /\ NoDuplicates(deferred) /\ NoDuplicates(todo[w])

\* A registered session is linked, deferred, to be retried, selected or served; an
\* unregistered one is none of these.
HolderPlaces(w) ==
    /\ Range(deferred) = context
    /\ \A s \in Sessions :
          /\ Linked(s) => s \notin context /\ ~Retried(w, s)
          /\ s \in context => ~Retried(w, s)
          /\ Busy(w, s) \/ Picked(w, s) => ~Linked(s) /\ s \notin context /\ ~Retried(w, s)
          /\ s \in sessions <=> \/ Linked(s) \/ s \in context \/ Retried(w, s)
                                \/ Busy(w, s) \/ Picked(w, s)

EventPlaces(w) ==
    /\ Linked("deferral") => wpc[w] # "take" /\ ~Picked(w, "deferral")
    /\ Defers => Linked("deferral") \/ wpc[w] = "take" \/ Picked(w, "deferral")
    /\ Linked("port") => ~Picked(w, "port")
    /\ Linked("port") \/ Picked(w, "port") \/ missed
    /\ ~Picked(w, "wakeup")

\* A session has a current request as long as the worker has to answer it, and the worker
\* serves only sessions that are signalled.
ServiceInv(w) ==
    /\ \A s \in Sessions :
          /\ current[s] # None <=> \/ s \in context \/ Retried(w, s)
                                   \/ wpc[w] \in {"dispatch", "deferring", "reply"} /\ job[w] = s
          /\ wpc[w] \in {"woken", "selected"} /\ sel[w] = s => IsSignaled(s)
          /\ wpc[w] = "receive" /\ job[w] = s => IsSignaled(s)
    /\ wpc[w] = "woken" => sel[w] \in Range(multi)
    /\ wpc[w] \in {"top", "scan", "linking", "asleep", "woken", "selected", "receive", "take"} =>
          todo[w] = <<>>
    /\ wpc[w] \in {"answer", "finish"} => result[w] # "invalid"

OneInv(w) ==
    ListsApart(w) /\ HolderPlaces(w) /\ EventPlaces(w) /\ ServiceInv(w) /\ NoPanic

\* A worker is left where it is, or woken up by a holder of H.
Stirred(w, H) ==
    \/ wpc'[w] = wpc[w] /\ sel'[w] = sel[w]
    \/ wpc[w] = "asleep" /\ wpc'[w] = "woken" /\ sel'[w] \in H \cap Range(multi)

\* A worker goes back to the loop, or to the next session it has to retry.
Proceeds(w) ==
    \/ todo[w] = <<>> /\ todo'[w] = <<>> /\ wpc'[w] = "top"
    \/ /\ todo[w] # <<>> /\ wpc'[w] = "dispatch" /\ job'[w] \in Sessions
       /\ Range(todo[w]) = Range(todo'[w]) \cup {job'[w]} /\ job'[w] \notin Range(todo'[w])

LEMMA Proceeding ==
    ASSUME NEW w, NextJobEffect(w), NoDuplicates(todo[w]), wpc'[w] = AfterJob(w)
    PROVE  Proceeds(w) /\ NoDuplicates(todo'[w])
  BY EmptyList DEF NextJobEffect, Proceeds

LEMMA OneStart ==
    ASSUME Init, NEW w, Workers = {w}
    PROVE  OneInv(w)
<1> DEFINE one == <<"wakeup">>
           port == <<"port">>
           two == <<"deferral", "port">>
<1>1. /\ Range(one) = {"wakeup"} /\ Range(port) = {"port"} /\ Range(two) = {"deferral", "port"}
      /\ NoDuplicates(one) /\ NoDuplicates(port) /\ NoDuplicates(two)
  <2>1. \A x, y \in {"wakeup", "deferral", "port"} :
           /\ Range(<<x>>) = {x} /\ NoDuplicates(<<x>>) /\ Range(<<x, y>>) = {x, y}
           /\ x # y => NoDuplicates(<<x, y>>)
    BY ShortLists
  <2>2. "deferral" # "port"
    OBVIOUS
  <2> QED
    BY <2>1, <2>2
<1>2. multi = one /\ dlist = IF Defers THEN two ELSE port
  BY DEF Init
<1> HIDE DEF one, port, two
<1>3. ListsApart(w)
  BY <1>1, <1>2, EmptyList DEF Init, ListsApart
<1>4. HolderPlaces(w)
  BY <1>1, <1>2, EmptyList, SessionAssumption
     DEF Init, HolderPlaces, Linked, Busy, Picked, Retried, JobPlaces
<1>5. EventPlaces(w)
  BY <1>1, <1>2, DefersAssumption DEF Init, EventPlaces, Linked, Picked
<1>6. NoPanic
  BY DEF Init, NoPanic
<1>7. ServiceInv(w)
  BY EmptyList DEF Init, ServiceInv, Retried
<1> QED
  BY <1>3, <1>4, <1>5, <1>6, <1>7 DEF OneInv

LEMMA OneStep ==
    ASSUME TypeInv, RequestInv, SleepInv, NEW w, Workers = {w}, OneInv(w), [Next]_vars
    PROVE  OneInv(w)'
<1> USE DEF TypeInv
<1>a. /\ Sessions \cap {"wakeup", "deferral", "port"} = {} /\ None \notin Clients \cup Workers
      /\ w \in Workers
  BY SessionAssumption
<1>1. ASSUME NEW c \in Clients, NEW s \in Sessions, NEW route \in Routes, Connect(c, s, route),
             UNCHANGED <<queueVars, deferVars, jobVars, panic>>
      PROVE  OneInv(w)'
  <2>c. Stirred(w, {"port", "wakeup"})
    BY <1>a, <1>1 DEF Connect, Stirred, SignalWakeup, NotifyIf, WokenPc, WokenSel, Wakes, WaitTypes
  <2>1. ListsApart(w)'
    BY <1>a, <1>1 DEF OneInv, ListsApart, Connect, sessionVars, managerVars, clientVars, waitVars, queueVars, deferVars, jobVars, ServerTypes
  <2>2. HolderPlaces(w)'
    BY <1>a, <1>1 DEF OneInv, HolderPlaces, Linked, Busy, Picked, Retried, JobPlaces, Connect, sessionVars, managerVars, clientVars, waitVars, queueVars, deferVars, jobVars, ServerTypes, WaitTypes, At, Panics, NotifyIf, SignalWakeup, GoesTo, WokenPc, WokenSel, Wakes, NextJob, AfterJob
  <2>3. EventPlaces(w)'
    BY <1>1, <2>c DEF OneInv, EventPlaces, Linked, Picked, Stirred, Connect, queueVars
  <2>4. NoPanic'
    BY <1>1 DEF OneInv, NoPanic, Connect, sessionVars, queueVars
  <2>5. ServiceInv(w)'
    BY <1>a, <1>1, <2>c DEF OneInv, ServiceInv, Retried, IsSignaled, Stirred, Connect, deferVars, jobVars
  <2> QED
    BY <2>1, <2>2, <2>3, <2>4, <2>5 DEF OneInv
<1>2. ASSUME NEW c \in Clients, NEW s \in Sessions, NEW m \in {"get", "close"}, ResolveSession(c, s, m),
             UNCHANGED <<queueVars, deferVars, jobVars, panic>>
      PROVE  OneInv(w)'
  <2>c. Stirred(w, {"wakeup"})
    BY <1>a, <1>2 DEF ResolveSession, SignalWakeup, Stirred, SignalWakeup, NotifyIf, WokenPc, WokenSel, Wakes, WaitTypes
  <2>1. ListsApart(w)'
    BY <1>a, <1>2 DEF OneInv, ListsApart, ResolveSession, sessionVars, managerVars, clientVars, waitVars, queueVars, deferVars, jobVars, ServerTypes
  <2>2. HolderPlaces(w)'
    BY <1>a, <1>2 DEF OneInv, HolderPlaces, Linked, Busy, Picked, Retried, JobPlaces, ResolveSession, sessionVars, managerVars, clientVars, waitVars, queueVars, deferVars, jobVars, ServerTypes, WaitTypes, At, Panics, NotifyIf, SignalWakeup, GoesTo, WokenPc, WokenSel, Wakes, NextJob, AfterJob
  <2>3. EventPlaces(w)'
    BY <1>a, <1>2 DEF OneInv, EventPlaces, Linked, Busy, Picked, Retried, JobPlaces, ResolveSession, sessionVars, managerVars, clientVars, waitVars, queueVars, deferVars, jobVars, ServerTypes, WaitTypes, At, Panics, NotifyIf, SignalWakeup, GoesTo, WokenPc, WokenSel, Wakes, NextJob, AfterJob
  <2>4. NoPanic'
    BY <1>2 DEF OneInv, NoPanic, ResolveSession, sessionVars, queueVars
  <2>5. ServiceInv(w)'
    BY <1>a, <1>2, <2>c DEF OneInv, ServiceInv, Retried, IsSignaled, Stirred, ResolveSession, sessionVars, deferVars, jobVars
  <2> QED
    BY <2>1, <2>2, <2>3, <2>4, <2>5 DEF OneInv
<1>3. ASSUME NEW c \in Clients, OnRequest(c),
             UNCHANGED <<queueVars, deferVars, jobVars, panic>>
      PROVE  OneInv(w)'
  <2>1. ListsApart(w)'
    BY <1>a, <1>3 DEF OneInv, ListsApart, OnRequest, sessionVars, managerVars, clientVars, waitVars, queueVars, deferVars, jobVars, ServerTypes
  <2>2. HolderPlaces(w)'
    BY <1>a, <1>3 DEF OneInv, HolderPlaces, Linked, Busy, Picked, Retried, JobPlaces, OnRequest, sessionVars, managerVars, clientVars, waitVars, queueVars, deferVars, jobVars, ServerTypes, WaitTypes, At, Panics, NotifyIf, SignalWakeup, GoesTo, WokenPc, WokenSel, Wakes, NextJob, AfterJob
  <2>3. EventPlaces(w)'
    BY <1>a, <1>3 DEF OneInv, EventPlaces, Linked, Busy, Picked, Retried, JobPlaces, OnRequest, sessionVars, managerVars, clientVars, waitVars, queueVars, deferVars, jobVars, ServerTypes, WaitTypes, At, Panics, NotifyIf, SignalWakeup, GoesTo, WokenPc, WokenSel, Wakes, NextJob, AfterJob
  <2>4. NoPanic'
    BY <1>3 DEF OneInv, NoPanic, OnRequest, sessionVars, queueVars
  <2>5. ServiceInv(w)'
    <3> DEFINE s == call[c].sess
    <3>1. s \in Sessions /\ list[s] \in Seq(Clients)
      BY <1>3 DEF OnRequest, ClientTypes, SessionTypes
    <3>2. \/ wpc'[w] = wpc[w] /\ sel'[w] = sel[w]
          \/ wpc[w] = "asleep" /\ wpc'[w] = "woken" /\ sel'[w] = s /\ s \in Range(multi) /\ list'[s] = Append(list[s], c)
      BY <1>a, <1>3, <3>1 DEF OnRequest, SessionTypes, Stirred, SignalWakeup, NotifyIf, WokenPc, WokenSel, Wakes, WaitTypes
    <3>3. \A r \in Sessions : list'[r] = list[r] \/ (r = s /\ list'[s] = Append(list[s], c))
      BY <1>3, <3>1 DEF OnRequest, SessionTypes
    <3>4. Append(list[s], c) # <<>>
      BY <3>1, RangeAppend
    <3>5. UNCHANGED <<multi, current, clientClosed, context, todo, job, result, panic>>
      BY <1>3 DEF OnRequest, deferVars, jobVars
    <3>6. wpc[w] = "asleep" /\ s \in Range(multi) => current[s] = None
      BY <3>1 DEF OneInv, HolderPlaces, Linked, ServiceInv
    <3> HIDE DEF s
    <3>7. \A r \in Sessions : IsSignaled(r) => IsSignaled(r)'
      BY <3>3, <3>4, <3>5 DEF IsSignaled
    <3>8. CASE wpc'[w] = wpc[w] /\ sel'[w] = sel[w]
      BY <1>a, <3>5, <3>7, <3>8 DEF OneInv, ServiceInv, Retried
    <3>9. CASE ~(wpc'[w] = wpc[w] /\ sel'[w] = sel[w])
      <4>1. /\ wpc[w] = "asleep" /\ wpc'[w] = "woken" /\ sel'[w] = s /\ s \in Range(multi)
            /\ list'[s] = Append(list[s], c)
        BY <3>2, <3>9
      <4>2. list'[s] # <<>>
        BY <3>4, <4>1
      <4>3. \A r \in Sessions : r = s => IsSignaled(r)'
        BY <3>5, <3>6, <4>1, <4>2 DEF IsSignaled
      <4> QED
        BY <1>a, <3>1, <3>5, <4>1, <4>3 DEF OneInv, ServiceInv, Retried
    <3> QED
      BY <3>8, <3>9
  <2> QED
    BY <2>1, <2>2, <2>3, <2>4, <2>5 DEF OneInv
<1>4. ASSUME NEW c \in Clients, NEW s \in Sessions, CloseHandle(c, s),
             UNCHANGED <<queueVars, deferVars, jobVars, panic>>
      PROVE  OneInv(w)'
  <2>1. ListsApart(w)'
    BY <1>a, <1>4 DEF OneInv, ListsApart, CloseHandle, BeginClose, sessionVars, managerVars, clientVars, waitVars, queueVars, deferVars, jobVars, ServerTypes
  <2>2. HolderPlaces(w)'
    BY <1>a, <1>4 DEF OneInv, HolderPlaces, Linked, Busy, Picked, Retried, JobPlaces, CloseHandle, BeginClose, sessionVars, managerVars, clientVars, waitVars, queueVars, deferVars, jobVars, ServerTypes, WaitTypes, At, Panics, NotifyIf, SignalWakeup, GoesTo, WokenPc, WokenSel, Wakes, NextJob, AfterJob
  <2>3. EventPlaces(w)'
    BY <1>a, <1>4 DEF OneInv, EventPlaces, Linked, Busy, Picked, Retried, JobPlaces, CloseHandle, BeginClose, sessionVars, managerVars, clientVars, waitVars, queueVars, deferVars, jobVars, ServerTypes, WaitTypes, At, Panics, NotifyIf, SignalWakeup, GoesTo, WokenPc, WokenSel, Wakes, NextJob, AfterJob
  <2>4. NoPanic'
    BY <1>4 DEF OneInv, NoPanic, CloseHandle, BeginClose, sessionVars, queueVars
  <2>5. ServiceInv(w)'
    BY <1>a, <1>4 DEF OneInv, ServiceInv, Retried, IsSignaled, CloseHandle, BeginClose, sessionVars, managerVars, clientVars, waitVars, queueVars, deferVars, jobVars, ServerTypes, WaitTypes, At, Panics, NotifyIf, SignalWakeup, GoesTo, WokenPc, WokenSel, Wakes, NextJob, AfterJob, SessionTypes
  <2> QED
    BY <2>1, <2>2, <2>3, <2>4, <2>5 DEF OneInv
<1>5. ASSUME NEW s \in Sessions, FinalizeHandle(s),
             UNCHANGED <<queueVars, deferVars, jobVars, panic>>
      PROVE  OneInv(w)'
  <2>1. ListsApart(w)'
    BY <1>a, <1>5 DEF OneInv, ListsApart, FinalizeHandle, BeginClose, sessionVars, managerVars, clientVars, waitVars, queueVars, deferVars, jobVars, ServerTypes
  <2>2. HolderPlaces(w)'
    BY <1>a, <1>5 DEF OneInv, HolderPlaces, Linked, Busy, Picked, Retried, JobPlaces, FinalizeHandle, BeginClose, sessionVars, managerVars, clientVars, waitVars, queueVars, deferVars, jobVars, ServerTypes, WaitTypes, At, Panics, NotifyIf, SignalWakeup, GoesTo, WokenPc, WokenSel, Wakes, NextJob, AfterJob
  <2>3. EventPlaces(w)'
    BY <1>a, <1>5 DEF OneInv, EventPlaces, Linked, Busy, Picked, Retried, JobPlaces, FinalizeHandle, BeginClose, sessionVars, managerVars, clientVars, waitVars, queueVars, deferVars, jobVars, ServerTypes, WaitTypes, At, Panics, NotifyIf, SignalWakeup, GoesTo, WokenPc, WokenSel, Wakes, NextJob, AfterJob
  <2>4. NoPanic'
    BY <1>5 DEF OneInv, NoPanic, FinalizeHandle, BeginClose, sessionVars, queueVars
  <2>5. ServiceInv(w)'
    BY <1>a, <1>5 DEF OneInv, ServiceInv, Retried, IsSignaled, FinalizeHandle, BeginClose, sessionVars, managerVars, clientVars, waitVars, queueVars, deferVars, jobVars, ServerTypes, WaitTypes, At, Panics, NotifyIf, SignalWakeup, GoesTo, WokenPc, WokenSel, Wakes, NextJob, AfterJob, SessionTypes
  <2> QED
    BY <2>1, <2>2, <2>3, <2>4, <2>5 DEF OneInv
<1>6. ASSUME NEW s \in Sessions, OnClientClosed(s),
             UNCHANGED <<queueVars, deferVars, jobVars, panic>>
      PROVE  OneInv(w)'
  <2>1. ListsApart(w)'
    BY <1>a, <1>6 DEF OneInv, ListsApart, OnClientClosed, sessionVars, managerVars, clientVars, waitVars, queueVars, deferVars, jobVars, ServerTypes
  <2>2. HolderPlaces(w)'
    BY <1>a, <1>6 DEF OneInv, HolderPlaces, Linked, Busy, Picked, Retried, JobPlaces, OnClientClosed, sessionVars, managerVars, clientVars, waitVars, queueVars, deferVars, jobVars, ServerTypes, WaitTypes, At, Panics, NotifyIf, SignalWakeup, GoesTo, WokenPc, WokenSel, Wakes, NextJob, AfterJob
  <2>3. EventPlaces(w)'
    BY <1>a, <1>6 DEF OneInv, EventPlaces, Linked, Busy, Picked, Retried, JobPlaces, OnClientClosed, sessionVars, managerVars, clientVars, waitVars, queueVars, deferVars, jobVars, ServerTypes, WaitTypes, At, Panics, NotifyIf, SignalWakeup, GoesTo, WokenPc, WokenSel, Wakes, NextJob, AfterJob
  <2>4. NoPanic'
    BY <1>6 DEF OneInv, NoPanic, OnClientClosed, sessionVars, queueVars
  <2>5. ServiceInv(w)'
    BY <1>a, <1>6 DEF OneInv, ServiceInv, Retried, IsSignaled, OnClientClosed, sessionVars, managerVars, clientVars, waitVars, queueVars, deferVars, jobVars, ServerTypes, WaitTypes, At, Panics, NotifyIf, SignalWakeup, GoesTo, WokenPc, WokenSel, Wakes, NextJob, AfterJob, SessionTypes
  <2> QED
    BY <2>1, <2>2, <2>3, <2>4, <2>5 DEF OneInv
<1>7. ASSUME NEW s \in Sessions, NotifyManagerClosed(s),
             UNCHANGED <<queueVars, deferVars, jobVars, panic>>
      PROVE  OneInv(w)'
  <2>c. Stirred(w, {"wakeup"})
    BY <1>a, <1>7 DEF NotifyManagerClosed, SignalWakeup, Stirred, SignalWakeup, NotifyIf, WokenPc, WokenSel, Wakes, WaitTypes
  <2>1. ListsApart(w)'
    BY <1>a, <1>7 DEF OneInv, ListsApart, NotifyManagerClosed, sessionVars, managerVars, clientVars, waitVars, queueVars, deferVars, jobVars, ServerTypes
  <2>2. HolderPlaces(w)'
    BY <1>a, <1>7 DEF OneInv, HolderPlaces, Linked, Busy, Picked, Retried, JobPlaces, NotifyManagerClosed, sessionVars, managerVars, clientVars, waitVars, queueVars, deferVars, jobVars, ServerTypes, WaitTypes, At, Panics, NotifyIf, SignalWakeup, GoesTo, WokenPc, WokenSel, Wakes, NextJob, AfterJob
  <2>3. EventPlaces(w)'
    BY <1>a, <1>7 DEF OneInv, EventPlaces, Linked, Busy, Picked, Retried, JobPlaces, NotifyManagerClosed, sessionVars, managerVars, clientVars, waitVars, queueVars, deferVars, jobVars, ServerTypes, WaitTypes, At, Panics, NotifyIf, SignalWakeup, GoesTo, WokenPc, WokenSel, Wakes, NextJob, AfterJob
  <2>4. NoPanic'
    BY <1>7 DEF OneInv, NoPanic, NotifyManagerClosed, sessionVars, queueVars
  <2>5. ServiceInv(w)'
    BY <1>a, <1>7, <2>c DEF OneInv, ServiceInv, Retried, IsSignaled, Stirred, NotifyManagerClosed, sessionVars, deferVars, jobVars
  <2> QED
    BY <2>1, <2>2, <2>3, <2>4, <2>5 DEF OneInv
<1>8. ASSUME NEW s \in Sessions, CloseClientEndpoint(s),
             UNCHANGED <<queueVars, deferVars, jobVars, panic>>
      PROVE  OneInv(w)'
  <2>1. ListsApart(w)'
    BY <1>a, <1>8 DEF OneInv, ListsApart, CloseClientEndpoint, sessionVars, managerVars, clientVars, waitVars, queueVars, deferVars, jobVars, ServerTypes
  <2>2. HolderPlaces(w)'
    BY <1>a, <1>8 DEF OneInv, HolderPlaces, Linked, Busy, Picked, Retried, JobPlaces, CloseClientEndpoint, sessionVars, managerVars, clientVars, waitVars, queueVars, deferVars, jobVars, ServerTypes, WaitTypes, At, Panics, NotifyIf, SignalWakeup, GoesTo, WokenPc, WokenSel, Wakes, NextJob, AfterJob
  <2>3. EventPlaces(w)'
    BY <1>a, <1>8 DEF OneInv, EventPlaces, Linked, Busy, Picked, Retried, JobPlaces, CloseClientEndpoint, sessionVars, managerVars, clientVars, waitVars, queueVars, deferVars, jobVars, ServerTypes, WaitTypes, At, Panics, NotifyIf, SignalWakeup, GoesTo, WokenPc, WokenSel, Wakes, NextJob, AfterJob
  <2>4. NoPanic'
    BY <1>8 DEF OneInv, NoPanic, CloseClientEndpoint, SessionTypes, ServerTypes, sessionVars, queueVars
  <2>5. ServiceInv(w)'
    BY <1>a, <1>8 DEF OneInv, ServiceInv, Retried, IsSignaled, CloseClientEndpoint, sessionVars, managerVars, clientVars, waitVars, queueVars, deferVars, jobVars, ServerTypes, WaitTypes, At, Panics, NotifyIf, SignalWakeup, GoesTo, WokenPc, WokenSel, Wakes, NextJob, AfterJob, SessionTypes
  <2> QED
    BY <2>1, <2>2, <2>3, <2>4, <2>5 DEF OneInv
<1>9. ASSUME Terminate,
             UNCHANGED <<queueVars, deferVars, jobVars, panic>>
      PROVE  OneInv(w)'
  <2>1. ListsApart(w)'
    BY <1>a, <1>9 DEF OneInv, ListsApart, Terminate, sessionVars, managerVars, clientVars, waitVars, queueVars, deferVars, jobVars, ServerTypes
  <2>2. HolderPlaces(w)'
    BY <1>a, <1>9 DEF OneInv, HolderPlaces, Linked, Busy, Picked, Retried, JobPlaces, Terminate, sessionVars, managerVars, clientVars, waitVars, queueVars, deferVars, jobVars, ServerTypes, WaitTypes, At, Panics, NotifyIf, SignalWakeup, GoesTo, WokenPc, WokenSel, Wakes, NextJob, AfterJob
  <2>3. EventPlaces(w)'
    BY <1>a, <1>9 DEF OneInv, EventPlaces, Linked, Busy, Picked, Retried, JobPlaces, Terminate, sessionVars, managerVars, clientVars, waitVars, queueVars, deferVars, jobVars, ServerTypes, WaitTypes, At, Panics, NotifyIf, SignalWakeup, GoesTo, WokenPc, WokenSel, Wakes, NextJob, AfterJob
  <2>4. NoPanic'
    BY <1>9 DEF OneInv, NoPanic, Terminate, sessionVars, queueVars
  <2>5. ServiceInv(w)'
    BY <1>a, <1>9 DEF OneInv, ServiceInv, Retried, IsSignaled, Terminate, sessionVars, managerVars, clientVars, waitVars, queueVars, deferVars, jobVars, ServerTypes, WaitTypes, At, Panics, NotifyIf, SignalWakeup, GoesTo, WokenPc, WokenSel, Wakes, NextJob, AfterJob, SessionTypes
  <2> QED
    BY <2>1, <2>2, <2>3, <2>4, <2>5 DEF OneInv
<1>10. ASSUME Drain(w)
      PROVE  OneInv(w)'
  <2>a. DrainEffect(w)
    BY <1>10, DrainDoes
  <2>b. /\ wpc[w] = "top" /\ wpc'[w] = "scan" /\ sel'[w] = sel[w] /\ dlist' = <<>>
        /\ UNCHANGED <<clientClosed, todo, job, result, missed>>
    BY <1>a, <1>10 DEF Drain, At, WaitTypes, jobVars
  <2> DEFINE new == NewSessions(pendingReg)
  <2>c. /\ new \in SUBSET Sessions /\ new \cap sessions = {} /\ Gone \in SUBSET Sessions
        /\ sessions' = (sessions \cup new) \ Gone /\ context' = context \ Gone
        /\ Range(multi') = (Range(multi) \cup Range(dlist) \cup new) \ Gone
        /\ Range(deferred') = Range(deferred) \ Gone /\ live' \in SUBSET live
        /\ SessionsDestroyed(Gone)
    BY <2>a DEF DrainEffect, NewSessions
  <2>d. todo[w] = <<>> /\ Range(todo[w]) = {} /\ Range(dlist') = {}
    BY <2>b, EmptyList DEF OneInv, ServiceInv
  <2> HIDE DEF new
  <2>1. ListsApart(w)'
    <3>1. (Range(multi) \cup Range(dlist)) \cap Sessions \subseteq sessions
      BY DEF OneInv, HolderPlaces, Linked
    <3>2. NoDuplicates(multi') /\ NoDuplicates(deferred')
      BY <2>a, <3>1 DEF DrainEffect, OneInv, ListsApart
    <3> QED
      BY <2>b, <2>d, <3>2, EmptyList DEF OneInv, ListsApart
  <2>2. HolderPlaces(w)'
    BY <2>b, <2>c, <2>d DEF OneInv, HolderPlaces, Linked, Busy, Picked, Retried, JobPlaces
  <2>3. EventPlaces(w)'
    BY <1>a, <2>b, <2>c, <2>d DEF OneInv, EventPlaces, Linked, Picked
  <2>4. NoPanic'
    BY <1>10 DEF Drain, At, NoPanic
  <2>5. ServiceInv(w)'
    <3>1. \A s \in Sessions : current'[s] # None <=> s \in context'
      BY <2>b, <2>c, <2>d DEF OneInv, ServiceInv, Retried, SessionsDestroyed
    <3> QED
      BY <2>b, <2>d, <3>1 DEF OneInv, ServiceInv, Retried
  <2> QED
    BY <2>1, <2>2, <2>3, <2>4, <2>5 DEF OneInv
<1>11. ASSUME WaitPanics(w)
      PROVE  OneInv(w)'
  <2>1. ListsApart(w)'
    BY <1>a, <1>11 DEF OneInv, ListsApart, WaitPanics, sessionVars, managerVars, clientVars, waitVars, queueVars, deferVars, jobVars, ServerTypes
  <2>2. HolderPlaces(w)'
    BY <1>a, <1>11 DEF OneInv, HolderPlaces, Linked, Busy, Picked, Retried, JobPlaces, WaitPanics, sessionVars, managerVars, clientVars, waitVars, queueVars, deferVars, jobVars, ServerTypes, WaitTypes, At, Panics, NotifyIf, SignalWakeup, GoesTo, WokenPc, WokenSel, Wakes, NextJob, AfterJob
  <2>3. EventPlaces(w)'
    BY <1>a, <1>11 DEF OneInv, EventPlaces, Linked, Busy, Picked, Retried, JobPlaces, WaitPanics, sessionVars, managerVars, clientVars, waitVars, queueVars, deferVars, jobVars, ServerTypes, WaitTypes, At, Panics, NotifyIf, SignalWakeup, GoesTo, WokenPc, WokenSel, Wakes, NextJob, AfterJob
  <2>4. NoPanic'
    <3>1. PICK s \in Sessions : Linked(s) /\ "server" \in ends[s]
      BY <1>11 DEF WaitPanics, Waitable, Linked
    <3>2. s \in sessions
      BY <3>1 DEF OneInv, HolderPlaces
    <3> QED
      BY <1>11, <3>1, <3>2 DEF WaitPanics, Panics, NoPanic, sessionVars, queueVars
  <2>5. ServiceInv(w)'
    BY <1>a, <1>11 DEF OneInv, ServiceInv, Retried, IsSignaled, WaitPanics, sessionVars, managerVars, clientVars, waitVars, queueVars, deferVars, jobVars, ServerTypes, WaitTypes, At, Panics, NotifyIf, SignalWakeup, GoesTo, WokenPc, WokenSel, Wakes, NextJob, AfterJob, SessionTypes
  <2> QED
    BY <2>1, <2>2, <2>3, <2>4, <2>5 DEF OneInv
<1>12. ASSUME WaitFinds(w)
      PROVE  OneInv(w)'
  <2>1. ListsApart(w)'
    BY <1>a, <1>12 DEF OneInv, ListsApart, WaitFinds, sessionVars, managerVars, clientVars, waitVars, queueVars, deferVars, jobVars, ServerTypes
  <2>2. HolderPlaces(w)'
    BY <1>a, <1>12 DEF OneInv, HolderPlaces, Linked, Busy, Picked, Retried, JobPlaces, WaitFinds, sessionVars, managerVars, clientVars, waitVars, queueVars, deferVars, jobVars, ServerTypes, WaitTypes, At, Panics, NotifyIf, SignalWakeup, GoesTo, WokenPc, WokenSel, Wakes, NextJob, AfterJob
  <2>3. EventPlaces(w)'
    BY <1>a, <1>12 DEF OneInv, EventPlaces, Linked, Busy, Picked, Retried, JobPlaces, WaitFinds, sessionVars, managerVars, clientVars, waitVars, queueVars, deferVars, jobVars, ServerTypes, WaitTypes, At, Panics, NotifyIf, SignalWakeup, GoesTo, WokenPc, WokenSel, Wakes, NextJob, AfterJob
  <2>4. NoPanic'
    BY <1>12 DEF WaitFinds, At, NoPanic
  <2>5. ServiceInv(w)'
    <3>1. sel'[w] \in Range(multi) /\ HolderIsSignaled(sel'[w])
      <4>1. PICK i \in DOMAIN multi : HolderIsSignaled(multi[i]) /\ sel' = [sel EXCEPT ![w] = multi[i]]
        BY <1>12 DEF WaitFinds
      <4>2. multi[i] \in Range(multi)
        BY DEF Range
      <4> QED
        BY <1>a, <4>1, <4>2 DEF WaitTypes
    <3>2. \A s \in Sessions : sel'[w] = s => IsSignaled(s)
      BY <3>1, HolderCases
    <3>3. wpc[w] = "scan" /\ wpc'[w] = "woken"
      BY <1>a, <1>12 DEF WaitFinds, At, WaitTypes
    <3>4. UNCHANGED <<multi, list, current, clientClosed, context, todo, job, result, panic>>
      BY <1>12 DEF WaitFinds, sessionVars, deferVars, jobVars
    <3> QED
      BY <3>1, <3>2, <3>3, <3>4 DEF OneInv, ServiceInv, Retried, IsSignaled
  <2> QED
    BY <2>1, <2>2, <2>3, <2>4, <2>5 DEF OneInv
<1>13. ASSUME WaitLinks(w)
      PROVE  OneInv(w)'
  <2>1. ListsApart(w)'
    BY <1>a, <1>13 DEF OneInv, ListsApart, WaitLinks, sessionVars, managerVars, clientVars, waitVars, queueVars, deferVars, jobVars, ServerTypes
  <2>2. HolderPlaces(w)'
    BY <1>a, <1>13 DEF OneInv, HolderPlaces, Linked, Busy, Picked, Retried, JobPlaces, WaitLinks, sessionVars, managerVars, clientVars, waitVars, queueVars, deferVars, jobVars, ServerTypes, WaitTypes, At, Panics, NotifyIf, SignalWakeup, GoesTo, WokenPc, WokenSel, Wakes, NextJob, AfterJob
  <2>3. EventPlaces(w)'
    BY <1>a, <1>13 DEF OneInv, EventPlaces, Linked, Busy, Picked, Retried, JobPlaces, WaitLinks, sessionVars, managerVars, clientVars, waitVars, queueVars, deferVars, jobVars, ServerTypes, WaitTypes, At, Panics, NotifyIf, SignalWakeup, GoesTo, WokenPc, WokenSel, Wakes, NextJob, AfterJob
  <2>4. NoPanic'
    BY <1>13 DEF WaitLinks, At, NoPanic
  <2>5. ServiceInv(w)'
    BY <1>a, <1>13 DEF OneInv, ServiceInv, Retried, IsSignaled, WaitLinks, sessionVars, managerVars, clientVars, waitVars, queueVars, deferVars, jobVars, ServerTypes, WaitTypes, At, Panics, NotifyIf, SignalWakeup, GoesTo, WokenPc, WokenSel, Wakes, NextJob, AfterJob, SessionTypes
  <2> QED
    BY <2>1, <2>2, <2>3, <2>4, <2>5 DEF OneInv
<1>14. ASSUME WaitSleeps(w)
      PROVE  OneInv(w)'
  <2>1. ListsApart(w)'
    BY <1>a, <1>14 DEF OneInv, ListsApart, WaitSleeps, sessionVars, managerVars, clientVars, waitVars, queueVars, deferVars, jobVars, ServerTypes
  <2>2. HolderPlaces(w)'
    BY <1>a, <1>14 DEF OneInv, HolderPlaces, Linked, Busy, Picked, Retried, JobPlaces, WaitSleeps, sessionVars, managerVars, clientVars, waitVars, queueVars, deferVars, jobVars, ServerTypes, WaitTypes, At, Panics, NotifyIf, SignalWakeup, GoesTo, WokenPc, WokenSel, Wakes, NextJob, AfterJob
  <2>3. EventPlaces(w)'
    BY <1>a, <1>14 DEF OneInv, EventPlaces, Linked, Busy, Picked, Retried, JobPlaces, WaitSleeps, sessionVars, managerVars, clientVars, waitVars, queueVars, deferVars, jobVars, ServerTypes, WaitTypes, At, Panics, NotifyIf, SignalWakeup, GoesTo, WokenPc, WokenSel, Wakes, NextJob, AfterJob
  <2>4. NoPanic'
    BY <1>14 DEF WaitSleeps, At, NoPanic
  <2>5. ServiceInv(w)'
    BY <1>a, <1>14 DEF OneInv, ServiceInv, Retried, IsSignaled, WaitSleeps, sessionVars, managerVars, clientVars, waitVars, queueVars, deferVars, jobVars, ServerTypes, WaitTypes, At, Panics, NotifyIf, SignalWakeup, GoesTo, WokenPc, WokenSel, Wakes, NextJob, AfterJob, SessionTypes
  <2> QED
    BY <2>1, <2>2, <2>3, <2>4, <2>5 DEF OneInv
<1>15. ASSUME ConsumeWakeup(w)
      PROVE  OneInv(w)'
  <2>a. Range(multi') = Range(multi) /\ (NoDuplicates(multi) => NoDuplicates(multi'))
    <3> DEFINE rest == Without(multi, {"wakeup"})
    <3>1. /\ rest \in Seq(Holders) /\ Range(rest) = Range(multi) \ {"wakeup"} /\ "wakeup" \in Holders
          /\ NoDuplicates(multi) => NoDuplicates(rest)
      BY WithoutIs DEF WaitTypes, Holders
    <3>2. multi' = Append(rest, "wakeup")
      BY <1>15 DEF ConsumeWakeup
    <3> HIDE DEF rest
    <3>3. "wakeup" \in Range(multi)
      BY DEF SleepInv, WatchInv
    <3>4. Range(multi') = Range(rest) \cup {"wakeup"} /\ (NoDuplicates(rest) => NoDuplicates(multi'))
      BY <3>1, <3>2, RangeAppend
    <3> QED
      BY <3>1, <3>3, <3>4
  <2>1. ListsApart(w)'
    BY <1>a, <1>15, <2>a DEF OneInv, ListsApart, ConsumeWakeup, sessionVars, managerVars, clientVars, waitVars, queueVars, deferVars, jobVars, ServerTypes
  <2>2. HolderPlaces(w)'
    BY <1>a, <1>15, <2>a DEF OneInv, HolderPlaces, Linked, Busy, Picked, Retried, JobPlaces, ConsumeWakeup, sessionVars, managerVars, clientVars, waitVars, queueVars, deferVars, jobVars, ServerTypes, WaitTypes, At, Panics, NotifyIf, SignalWakeup, GoesTo, WokenPc, WokenSel, Wakes, NextJob, AfterJob
  <2>3. EventPlaces(w)'
    BY <1>a, <1>15, <2>a DEF OneInv, EventPlaces, Linked, Busy, Picked, Retried, JobPlaces, ConsumeWakeup, sessionVars, managerVars, clientVars, waitVars, queueVars, deferVars, jobVars, ServerTypes, WaitTypes, At, Panics, NotifyIf, SignalWakeup, GoesTo, WokenPc, WokenSel, Wakes, NextJob, AfterJob
  <2>4. NoPanic'
    BY <1>15 DEF ConsumeWakeup, At, NoPanic
  <2>5. ServiceInv(w)'
    BY <1>a, <1>15, <2>a DEF OneInv, ServiceInv, Retried, IsSignaled, ConsumeWakeup, sessionVars, managerVars, clientVars, waitVars, queueVars, deferVars, jobVars, ServerTypes, WaitTypes, At, Panics, NotifyIf, SignalWakeup, GoesTo, WokenPc, WokenSel, Wakes, NextJob, AfterJob, SessionTypes
  <2> QED
    BY <2>1, <2>2, <2>3, <2>4, <2>5 DEF OneInv
<1>16. ASSUME Select(w)
      PROVE  OneInv(w)'
  <2>a. Range(multi') = Range(multi) \ {sel[w]} /\ (NoDuplicates(multi) => NoDuplicates(multi'))
    BY <1>16, WithoutIs DEF Select, WaitTypes
  <2>b. /\ wpc[w] = "woken" /\ wpc'[w] = "selected" /\ sel[w] # "wakeup"
        /\ UNCHANGED <<sel, dlist, sessions, context, deferred, todo, job, missed>>
    BY <1>a, <1>16 DEF Select, At, WaitTypes, sessionVars, deferVars, jobVars
  <2>c. sel[w] \in Range(multi) /\ sel[w] \notin Range(dlist)
    BY <2>b DEF OneInv, ServiceInv, ListsApart
  <2>1. ListsApart(w)'
    BY <1>a, <1>16, <2>a DEF OneInv, ListsApart, Select, sessionVars, managerVars, clientVars, waitVars, queueVars, deferVars, jobVars, ServerTypes
  <2>2. HolderPlaces(w)'
    BY <2>a, <2>b, <2>c DEF OneInv, HolderPlaces, Linked, Busy, Picked, Retried, JobPlaces
  <2>3. EventPlaces(w)'
    BY <2>a, <2>b, <2>c DEF OneInv, EventPlaces, Linked, Picked
  <2>4. NoPanic'
    BY <1>16 DEF Select, At, NoPanic
  <2>5. ServiceInv(w)'
    BY <1>a, <1>16, <2>a DEF OneInv, ServiceInv, Retried, IsSignaled, Select, sessionVars, managerVars, clientVars, waitVars, queueVars, deferVars, jobVars, ServerTypes, WaitTypes, At, Panics, NotifyIf, SignalWakeup, GoesTo, WokenPc, WokenSel, Wakes, NextJob, AfterJob, SessionTypes
  <2> QED
    BY <2>1, <2>2, <2>3, <2>4, <2>5 DEF OneInv
<1>17. ASSUME PrepareSession(w)
      PROVE  OneInv(w)'
  <2>1. ListsApart(w)'
    BY <1>a, <1>17 DEF OneInv, ListsApart, PrepareSession, sessionVars, managerVars, clientVars, waitVars, queueVars, deferVars, jobVars, ServerTypes
  <2>2. HolderPlaces(w)'
    BY <1>a, <1>17 DEF OneInv, HolderPlaces, Linked, Busy, Picked, Retried, JobPlaces, PrepareSession, sessionVars, managerVars, clientVars, waitVars, queueVars, deferVars, jobVars, ServerTypes, WaitTypes, At, Panics, NotifyIf, SignalWakeup, GoesTo, WokenPc, WokenSel, Wakes, NextJob, AfterJob
  <2>3. EventPlaces(w)'
    BY <1>a, <1>17 DEF OneInv, EventPlaces, Linked, Busy, Picked, Retried, JobPlaces, PrepareSession, sessionVars, managerVars, clientVars, waitVars, queueVars, deferVars, jobVars, ServerTypes, WaitTypes, At, Panics, NotifyIf, SignalWakeup, GoesTo, WokenPc, WokenSel, Wakes, NextJob, AfterJob
  <2>4. NoPanic'
    <3>1. sel[w] \in sessions /\ panic = "none"
      BY <1>17 DEF PrepareSession, At, OneInv, HolderPlaces, Picked
    <3> QED
      BY <1>17, <3>1 DEF PrepareSession, Panics, NoPanic
  <2>5. ServiceInv(w)'
    <3>1. /\ wpc[w] = "selected" /\ wpc'[w] = "receive" /\ sel[w] \in Sessions /\ job'[w] = sel[w]
          /\ UNCHANGED <<multi, list, current, clientClosed, context, todo, result>>
      BY <1>a, <1>17 DEF PrepareSession, At, WaitTypes, ServerTypes, sessionVars, deferVars
    <3> QED
      BY <3>1 DEF OneInv, ServiceInv, Retried, IsSignaled
  <2> QED
    BY <2>1, <2>2, <2>3, <2>4, <2>5 DEF OneInv
<1>18. ASSUME AcceptSession(w)
      PROVE  OneInv(w)'
  <2>a. AcceptEffect(w)
    BY <1>18, AcceptDoes
  <2>b. /\ wpc[w] = "selected" /\ sel[w] = "port" /\ wpc'[w] = "top"
        /\ UNCHANGED <<multi, context, deferred, todo, job>>
    BY <2>a, <1>18 DEF AcceptSession, AcceptEffect, At, sessionVars, deferVars, jobVars
  <2>c. Accepted \in SUBSET Sessions /\ Accepted \cap sessions = {}
    BY <2>a DEF AcceptEffect, Accepted
  <2>d. /\ "port" \notin Range(multi) \cup Range(dlist)
        /\ Accepted \cap (Range(multi) \cup Range(dlist)) = {}
    BY <2>b, <2>c DEF OneInv, EventPlaces, HolderPlaces, Linked, Picked
  <2>e. /\ Range(dlist') = Range(dlist) \cup Accepted \cup (IF Relinks THEN {"port"} ELSE {})
        /\ sessions' = sessions \cup Accepted
        /\ NoDuplicates(dlist) => NoDuplicates(dlist')
    BY <2>a, <2>d DEF AcceptEffect
  <2>f. todo[w] = <<>> /\ Range(todo[w]) = {}
    BY <2>b, EmptyList DEF OneInv, ServiceInv
  <2>1. ListsApart(w)'
    BY <1>a, <2>b, <2>d, <2>e DEF OneInv, ListsApart
  <2>2. HolderPlaces(w)'
    BY <1>a, <2>b, <2>c, <2>d, <2>e, <2>f DEF OneInv, HolderPlaces, Linked, Busy, Picked, Retried, JobPlaces
  <2>3. EventPlaces(w)'
    <3>1. (Relinks \/ missed') /\ (missed => missed')
      BY <2>a DEF AcceptEffect
    <3> QED
      BY <1>a, <2>b, <2>c, <2>e, <3>1 DEF OneInv, EventPlaces, Linked, Picked
  <2>4. NoPanic'
    BY <1>18 DEF AcceptSession, At, NoPanic
  <2>5. ServiceInv(w)'
    BY <1>a, <1>18, <2>a DEF OneInv, ServiceInv, Retried, IsSignaled, AcceptSession, AcceptEffect, sessionVars, managerVars, clientVars, waitVars, queueVars, deferVars, jobVars, ServerTypes, WaitTypes, At, Panics, NotifyIf, SignalWakeup, GoesTo, WokenPc, WokenSel, Wakes, NextJob, AfterJob, SessionTypes
  <2> QED
    BY <2>1, <2>2, <2>3, <2>4, <2>5 DEF OneInv
<1>19. ASSUME ReceiveClosed(w)
      PROVE  OneInv(w)'
  <2>b. JobOf(w) \in SUBSET Sessions /\ job[w] \in Sessions /\ wpc[w] = "receive"
    BY <1>19 DEF JobOf, ServerTypes, ReceiveClosed, At, JobPlaces
  <2>c. DestroyEffect(w, JobOf(w))
    BY <1>19, <2>b, DestroyDoes DEF ReceiveClosed, JobOf
  <2>d. JobOf(w) = {job[w]}
    BY <2>b DEF JobOf, OneInv, HolderPlaces, Busy, JobPlaces
  <2>a. DestroyEffect(w, {job[w]}) /\ NextJobEffect(w)
    BY <1>19, <2>c, <2>d, NextJobIs DEF ReceiveClosed, NextJob
  <2>e. wpc[w] = "receive" /\ wpc'[w] = AfterJob(w) /\ missed' = missed
    BY <1>a, <1>19 DEF ReceiveClosed, At, NextJob, WaitTypes
  <2>f. Proceeds(w) /\ NoDuplicates(todo'[w]) /\ result'[w] = "ok"
    BY <2>a, <2>e, Proceeding DEF OneInv, ListsApart, NextJobEffect
  <2> DEFINE s == job[w]
  <2>g. /\ sessions' = sessions \ {s} /\ context' = context \ {s}
        /\ Range(multi') = Range(multi) \ {s} /\ Range(dlist') = Range(dlist) \ {s}
        /\ Range(deferred') = Range(deferred) \ {s}
        /\ live' \in SUBSET live /\ SessionsDestroyed({s})
    BY <2>a DEF DestroyEffect
  <2>h. todo[w] = <<>> => Range(todo[w]) = {} /\ Range(todo'[w]) = {}
    BY <2>f, EmptyList DEF Proceeds
  <2>i. s \in Sessions /\ Busy(w, s)
    BY <2>b, <2>e DEF Busy, JobPlaces
  <2> HIDE DEF s
  <2>1. ListsApart(w)'
    BY <1>a, <1>19, <2>a DEF OneInv, ListsApart, ReceiveClosed, DestroyEffect, NextJobEffect, sessionVars, managerVars, clientVars, waitVars, queueVars, deferVars, jobVars, ServerTypes
  <2>2. HolderPlaces(w)'
    BY <2>e, <2>f, <2>g, <2>h, <2>i DEF OneInv, HolderPlaces, Linked, Busy, Picked, Retried, JobPlaces, Proceeds, s
  <2>3. EventPlaces(w)'
    BY <1>a, <2>e, <2>f, <2>g, <2>i DEF OneInv, EventPlaces, Linked, Picked, Proceeds
  <2>4. NoPanic'
    BY <1>19 DEF ReceiveClosed, At, NoPanic
  <2>5. ServiceInv(w)'
    <3>1. s \notin context /\ ~Retried(w, s)
      BY <2>i DEF OneInv, HolderPlaces
    <3>2. \A r \in Sessions : current'[r] = IF r = s THEN None ELSE current[r]
      BY <2>g DEF SessionsDestroyed
    <3> QED
      BY <2>e, <2>f, <2>g, <2>h, <2>i, <3>1, <3>2 DEF OneInv, ServiceInv, Retried, Proceeds, s
  <2> QED
    BY <2>1, <2>2, <2>3, <2>4, <2>5 DEF OneInv
<1>20. ASSUME ReceiveRequest(w)
      PROVE  OneInv(w)'
  <2>1. ListsApart(w)'
    BY <1>a, <1>20 DEF OneInv, ListsApart, ReceiveRequest, sessionVars, managerVars, clientVars, waitVars, queueVars, deferVars, jobVars, ServerTypes
  <2>2. HolderPlaces(w)'
    BY <1>a, <1>20 DEF OneInv, HolderPlaces, Linked, Busy, Picked, Retried, JobPlaces, ReceiveRequest, sessionVars, managerVars, clientVars, waitVars, queueVars, deferVars, jobVars, ServerTypes, WaitTypes, At, Panics, NotifyIf, SignalWakeup, GoesTo, WokenPc, WokenSel, Wakes, NextJob, AfterJob
  <2>3. EventPlaces(w)'
    BY <1>a, <1>20 DEF OneInv, EventPlaces, Linked, Busy, Picked, Retried, JobPlaces, ReceiveRequest, sessionVars, managerVars, clientVars, waitVars, queueVars, deferVars, jobVars, ServerTypes, WaitTypes, At, Panics, NotifyIf, SignalWakeup, GoesTo, WokenPc, WokenSel, Wakes, NextJob, AfterJob
  <2>4. NoPanic'
    <3>1. job[w] \in Sessions /\ IsSignaled(job[w]) /\ panic = "none" /\ ~clientClosed[job[w]]
      BY <1>a, <1>20 DEF ReceiveRequest, At, ServerTypes, JobPlaces, OneInv, ServiceInv
    <3> QED
      BY <1>20, <3>1 DEF ReceiveRequest, IsSignaled, Panics, NoPanic
  <2>5. ServiceInv(w)'
    <3> DEFINE s == job[w]
    <3>1. s \in Sessions /\ wpc[w] = "receive" /\ wpc'[w] = "dispatch" /\ ~clientClosed[s] /\ list[s] \in Seq(Clients)
      BY <1>a, <1>20 DEF ReceiveRequest, At, ServerTypes, JobPlaces, WaitTypes, SessionTypes
    <3>2. current[s] = None /\ list[s] # <<>>
      BY <3>1 DEF OneInv, ServiceInv, IsSignaled
    <3>3. Head(list[s]) # None
      BY <1>a, <3>1, <3>2, RangeTail
    <3>4. \A r \in Sessions : current'[r] = IF r = s THEN Head(list[s]) ELSE current[r]
      BY <1>20, <3>2 DEF ReceiveRequest, SessionTypes
    <3>5. UNCHANGED <<context, todo, job, result>>
      BY <1>20 DEF ReceiveRequest, deferVars, jobVars
    <3> QED
      BY <3>1, <3>3, <3>4, <3>5 DEF OneInv, ServiceInv, Retried
  <2> QED
    BY <2>1, <2>2, <2>3, <2>4, <2>5 DEF OneInv
<1>21. ASSUME Dispatch(w)
      PROVE  OneInv(w)'
  <2>1. ListsApart(w)'
    BY <1>a, <1>21 DEF OneInv, ListsApart, Dispatch, sessionVars, managerVars, clientVars, waitVars, queueVars, deferVars, jobVars, ServerTypes
  <2>2. HolderPlaces(w)'
    BY <1>a, <1>21 DEF OneInv, HolderPlaces, Linked, Busy, Picked, Retried, JobPlaces, Dispatch, sessionVars, managerVars, clientVars, waitVars, queueVars, deferVars, jobVars, ServerTypes, WaitTypes, At, Panics, NotifyIf, SignalWakeup, GoesTo, WokenPc, WokenSel, Wakes, NextJob, AfterJob
  <2>3. EventPlaces(w)'
    BY <1>a, <1>21 DEF OneInv, EventPlaces, Linked, Busy, Picked, Retried, JobPlaces, Dispatch, sessionVars, managerVars, clientVars, waitVars, queueVars, deferVars, jobVars, ServerTypes, WaitTypes, At, Panics, NotifyIf, SignalWakeup, GoesTo, WokenPc, WokenSel, Wakes, NextJob, AfterJob
  <2>4. NoPanic'
    BY <1>21 DEF Dispatch, At, NoPanic
  <2>5. ServiceInv(w)'
    BY <1>a, <1>21 DEF OneInv, ServiceInv, Retried, IsSignaled, Dispatch, sessionVars, managerVars, clientVars, waitVars, queueVars, deferVars, jobVars, ServerTypes, WaitTypes, At, Panics, NotifyIf, SignalWakeup, GoesTo, WokenPc, WokenSel, Wakes, NextJob, AfterJob, SessionTypes
  <2> QED
    BY <2>1, <2>2, <2>3, <2>4, <2>5 DEF OneInv
<1>22. ASSUME Defer(w)
      PROVE  OneInv(w)'
  <2>b. job[w] \in sessions /\ job[w] \in Sessions /\ job[w] \notin context
    BY <1>22 DEF OneInv, HolderPlaces, Busy, Defer, At, ServerTypes, JobPlaces
  <2>c. deferred' = Append(deferred, job[w]) /\ context' = context \cup {job[w]}
    BY <1>22, <2>b DEF Defer
  <2>a. /\ Range(deferred') = Range(deferred) \cup {job[w]} /\ context' = context \cup {job[w]}
        /\ NoDuplicates(deferred) /\ job[w] \notin Range(deferred) => NoDuplicates(deferred')
        /\ NextJobEffect(w)
    BY <1>22, <2>b, <2>c, RangeAppend, NextJobIs DEF ServerTypes, Defer, NextJob
  <2>d. /\ wpc[w] = "deferring" /\ wpc'[w] = AfterJob(w)
        /\ UNCHANGED <<multi, dlist, sessions, current, list, clientClosed, panic>>
    BY <1>a, <1>22 DEF Defer, At, NextJob, WaitTypes, sessionVars, queueVars
  <2>e. Proceeds(w) /\ NoDuplicates(todo'[w]) /\ result'[w] = "ok"
    BY <2>a, <2>d, Proceeding DEF OneInv, ListsApart, NextJobEffect
  <2>1. ListsApart(w)'
    BY <2>a, <2>b, <2>d, <2>e DEF OneInv, ListsApart, HolderPlaces
  <2>2. HolderPlaces(w)'
    <3>1. todo[w] = <<>> => Range(todo[w]) = {} /\ Range(todo'[w]) = {}
      BY <2>e, EmptyList DEF Proceeds
    <3> QED
      BY <2>a, <2>b, <2>d, <2>e, <3>1 DEF OneInv, HolderPlaces, Linked, Busy, Picked, Retried, JobPlaces, Proceeds
  <2>3. EventPlaces(w)'
    BY <1>a, <1>22, <2>a DEF OneInv, EventPlaces, Linked, Busy, Picked, Retried, JobPlaces, Defer, NextJobEffect, sessionVars, managerVars, clientVars, waitVars, queueVars, deferVars, jobVars, ServerTypes, WaitTypes, At, Panics, NotifyIf, SignalWakeup, GoesTo, WokenPc, WokenSel, Wakes, NextJob, AfterJob
  <2>4. NoPanic'
    BY <1>22 DEF Defer, At, NoPanic
  <2>5. ServiceInv(w)'
    BY <1>a, <1>22, <2>a DEF OneInv, ServiceInv, Retried, IsSignaled, Defer, NextJobEffect, sessionVars, managerVars, clientVars, waitVars, queueVars, deferVars, jobVars, ServerTypes, WaitTypes, At, Panics, NotifyIf, SignalWakeup, GoesTo, WokenPc, WokenSel, Wakes, NextJob, AfterJob, SessionTypes
  <2> QED
    BY <2>1, <2>2, <2>3, <2>4, <2>5 DEF OneInv
<1>23. ASSUME TakeReply(w)
      PROVE  OneInv(w)'
  <2>1. ListsApart(w)'
    BY <1>a, <1>23 DEF OneInv, ListsApart, TakeReply, sessionVars, managerVars, clientVars, waitVars, queueVars, deferVars, jobVars, ServerTypes
  <2>2. HolderPlaces(w)'
    BY <1>a, <1>23 DEF OneInv, HolderPlaces, Linked, Busy, Picked, Retried, JobPlaces, TakeReply, sessionVars, managerVars, clientVars, waitVars, queueVars, deferVars, jobVars, ServerTypes, WaitTypes, At, Panics, NotifyIf, SignalWakeup, GoesTo, WokenPc, WokenSel, Wakes, NextJob, AfterJob
  <2>3. EventPlaces(w)'
    BY <1>a, <1>23 DEF OneInv, EventPlaces, Linked, Busy, Picked, Retried, JobPlaces, TakeReply, sessionVars, managerVars, clientVars, waitVars, queueVars, deferVars, jobVars, ServerTypes, WaitTypes, At, Panics, NotifyIf, SignalWakeup, GoesTo, WokenPc, WokenSel, Wakes, NextJob, AfterJob
  <2>4. NoPanic'
    BY <1>23 DEF TakeReply, At, NoPanic
  <2>5. ServiceInv(w)'
    <3> DEFINE s == job[w]
    <3>1. s \in Sessions /\ wpc[w] = "reply" /\ wpc'[w] = "answer"
      BY <1>a, <1>23 DEF TakeReply, At, ServerTypes, JobPlaces, WaitTypes, GoesTo, WokenPc, Wakes
    <3>2. current[s] # None
      BY <3>1 DEF OneInv, ServiceInv
    <3>3. result'[w] # "invalid"
      BY <1>a, <1>23, <3>2 DEF TakeReply, ReplyResult, ServerTypes
    <3>4. \A r \in Sessions : current'[r] = IF r = s THEN None ELSE current[r]
      BY <1>23 DEF TakeReply, ClearCurrent, SessionTypes
    <3>5. UNCHANGED <<context, todo, job, panic>>
      BY <1>23 DEF TakeReply, deferVars
    <3>6. s \notin context /\ ~Retried(w, s)
      BY <3>1 DEF OneInv, HolderPlaces, Busy, JobPlaces
    <3> QED
      BY <3>1, <3>3, <3>4, <3>5, <3>6 DEF OneInv, ServiceInv, Retried
  <2> QED
    BY <2>1, <2>2, <2>3, <2>4, <2>5 DEF OneInv
<1>24. ASSUME AnswerClient(w)
      PROVE  OneInv(w)'
  <2>1. ListsApart(w)'
    BY <1>a, <1>24 DEF OneInv, ListsApart, AnswerClient, sessionVars, managerVars, clientVars, waitVars, queueVars, deferVars, jobVars, ServerTypes
  <2>2. HolderPlaces(w)'
    BY <1>a, <1>24 DEF OneInv, HolderPlaces, Linked, Busy, Picked, Retried, JobPlaces, AnswerClient, sessionVars, managerVars, clientVars, waitVars, queueVars, deferVars, jobVars, ServerTypes, WaitTypes, At, Panics, NotifyIf, SignalWakeup, GoesTo, WokenPc, WokenSel, Wakes, NextJob, AfterJob
  <2>3. EventPlaces(w)'
    BY <1>a, <1>24 DEF OneInv, EventPlaces, Linked, Busy, Picked, Retried, JobPlaces, AnswerClient, sessionVars, managerVars, clientVars, waitVars, queueVars, deferVars, jobVars, ServerTypes, WaitTypes, At, Panics, NotifyIf, SignalWakeup, GoesTo, WokenPc, WokenSel, Wakes, NextJob, AfterJob
  <2>4. NoPanic'
    BY <1>24 DEF AnswerClient, At, NoPanic
  <2>5. ServiceInv(w)'
    BY <1>a, <1>24 DEF OneInv, ServiceInv, Retried, IsSignaled, AnswerClient, sessionVars, managerVars, clientVars, waitVars, queueVars, deferVars, jobVars, ServerTypes, WaitTypes, At, Panics, NotifyIf, SignalWakeup, GoesTo, WokenPc, WokenSel, Wakes, NextJob, AfterJob, SessionTypes
  <2> QED
    BY <2>1, <2>2, <2>3, <2>4, <2>5 DEF OneInv
<1>25. ASSUME FinishClosed(w)
      PROVE  OneInv(w)'
  <2>b. job[w] \in Sessions /\ wpc[w] = "finish"
    BY <1>25 DEF FinishClosed, ServerTypes, At, JobPlaces
  <2>c. DestroyEffect(w, {job[w]})
    BY <1>25, <2>b, DestroyDoes DEF FinishClosed
  <2>a. DestroyEffect(w, {job[w]}) /\ NextJobEffect(w)
    BY <1>25, <2>c, NextJobIs DEF FinishClosed, NextJob
  <2>e. wpc[w] = "finish" /\ wpc'[w] = AfterJob(w) /\ missed' = missed
    BY <1>a, <1>25 DEF FinishClosed, At, NextJob, WaitTypes
  <2>f. Proceeds(w) /\ NoDuplicates(todo'[w]) /\ result'[w] = "ok"
    BY <2>a, <2>e, Proceeding DEF OneInv, ListsApart, NextJobEffect
  <2> DEFINE s == job[w]
  <2>g. /\ sessions' = sessions \ {s} /\ context' = context \ {s}
        /\ Range(multi') = Range(multi) \ {s} /\ Range(dlist') = Range(dlist) \ {s}
        /\ Range(deferred') = Range(deferred) \ {s}
        /\ live' \in SUBSET live /\ SessionsDestroyed({s})
    BY <2>a DEF DestroyEffect
  <2>h. todo[w] = <<>> => Range(todo[w]) = {} /\ Range(todo'[w]) = {}
    BY <2>f, EmptyList DEF Proceeds
  <2>i. s \in Sessions /\ Busy(w, s)
    BY <2>b, <2>e DEF Busy, JobPlaces
  <2> HIDE DEF s
  <2>1. ListsApart(w)'
    BY <1>a, <1>25, <2>a DEF OneInv, ListsApart, FinishClosed, DestroyEffect, NextJobEffect, sessionVars, managerVars, clientVars, waitVars, queueVars, deferVars, jobVars, ServerTypes
  <2>2. HolderPlaces(w)'
    BY <2>e, <2>f, <2>g, <2>h, <2>i DEF OneInv, HolderPlaces, Linked, Busy, Picked, Retried, JobPlaces, Proceeds, s
  <2>3. EventPlaces(w)'
    BY <1>a, <2>e, <2>f, <2>g, <2>i DEF OneInv, EventPlaces, Linked, Picked, Proceeds
  <2>4. NoPanic'
    BY <1>25 DEF FinishClosed, At, NoPanic
  <2>5. ServiceInv(w)'
    <3>1. s \notin context /\ ~Retried(w, s)
      BY <2>i DEF OneInv, HolderPlaces
    <3>2. \A r \in Sessions : current'[r] = IF r = s THEN None ELSE current[r]
      BY <2>g DEF SessionsDestroyed
    <3> QED
      BY <2>e, <2>f, <2>g, <2>h, <2>i, <3>1, <3>2 DEF OneInv, ServiceInv, Retried, Proceeds, s
  <2> QED
    BY <2>1, <2>2, <2>3, <2>4, <2>5 DEF OneInv
<1>26. ASSUME FinishRelinks(w)
      PROVE  OneInv(w)'
  <2>b. job[w] \in sessions /\ job[w] \in Sessions /\ job[w] \in Holders /\ ~Linked(job[w])
    BY <1>26 DEF OneInv, HolderPlaces, Busy, FinishRelinks, At, ServerTypes, JobPlaces, Holders
  <2>c. dlist' = Append(dlist, job[w]) /\ wpc'[w] = "wake" /\ UNCHANGED <<job, todo, service, result>>
    BY <1>26, <2>b DEF FinishRelinks, Linked, WaitTypes
  <2>a. /\ Range(dlist') = Range(dlist) \cup {job[w]} /\ wpc'[w] = "wake" /\ job' = job /\ todo' = todo
        /\ NoDuplicates(dlist) => NoDuplicates(dlist')
    BY <2>b, <2>c, RangeAppend DEF ServerTypes, Linked
  <2>1. ListsApart(w)'
    BY <1>a, <1>26, <2>a DEF OneInv, ListsApart, FinishRelinks, sessionVars, managerVars, clientVars, waitVars, queueVars, deferVars, jobVars, ServerTypes
  <2>2. HolderPlaces(w)'
    BY <1>a, <1>26, <2>a DEF OneInv, HolderPlaces, Linked, Busy, Picked, Retried, JobPlaces, FinishRelinks, sessionVars, managerVars, clientVars, waitVars, queueVars, deferVars, jobVars, ServerTypes, WaitTypes, At, Panics, NotifyIf, SignalWakeup, GoesTo, WokenPc, WokenSel, Wakes, NextJob, AfterJob
  <2>3. EventPlaces(w)'
    BY <1>a, <1>26, <2>a DEF OneInv, EventPlaces, Linked, Busy, Picked, Retried, JobPlaces, FinishRelinks, sessionVars, managerVars, clientVars, waitVars, queueVars, deferVars, jobVars, ServerTypes, WaitTypes, At, Panics, NotifyIf, SignalWakeup, GoesTo, WokenPc, WokenSel, Wakes, NextJob, AfterJob
  <2>4. NoPanic'
    <3>1. panic = "none" /\ result[w] \in {"ok", "closed"}
      BY <1>a, <1>26 DEF FinishRelinks, At, ServerTypes, OneInv, ServiceInv
    <3> QED
      BY <1>26, <2>b, <3>1 DEF FinishRelinks, Panics, NoPanic
  <2>5. ServiceInv(w)'
    <3>1. wpc[w] = "finish" /\ result[w] \in {"ok", "closed", "invalid"}
      BY <1>a, <1>26 DEF FinishRelinks, At, ServerTypes
    <3>2. UNCHANGED <<context, current>>
      BY <1>26 DEF FinishRelinks, deferVars, sessionVars
    <3> QED
      BY <2>a, <3>1, <3>2 DEF OneInv, ServiceInv, Retried
  <2> QED
    BY <2>1, <2>2, <2>3, <2>4, <2>5 DEF OneInv
<1>27. ASSUME Wake(w)
      PROVE  OneInv(w)'
  <2>a. NextJobEffect(w)
    BY <1>27, NextJobIs DEF Wake
  <2>d. /\ wpc[w] = "wake" /\ wpc'[w] = AfterJob(w)
        /\ UNCHANGED <<multi, dlist, sessions, context, deferred, current, list, clientClosed, panic>>
    BY <1>a, <1>27 DEF Wake, At, GoesTo, AfterJob, WokenPc, Wakes, WaitTypes, sessionVars, queueVars, deferVars
  <2>e. Proceeds(w) /\ NoDuplicates(todo'[w]) /\ result'[w] = "ok"
    BY <2>a, <2>d, Proceeding DEF OneInv, ListsApart, NextJobEffect
  <2>1. ListsApart(w)'
    BY <1>a, <1>27, <2>a DEF OneInv, ListsApart, Wake, NextJobEffect, sessionVars, managerVars, clientVars, waitVars, queueVars, deferVars, jobVars, ServerTypes
  <2>2. HolderPlaces(w)'
    <3>1. todo[w] = <<>> => Range(todo[w]) = {} /\ Range(todo'[w]) = {}
      BY <2>e, EmptyList DEF Proceeds
    <3> QED
      BY <2>d, <2>e, <3>1 DEF OneInv, HolderPlaces, Linked, Busy, Picked, Retried, JobPlaces, Proceeds
  <2>3. EventPlaces(w)'
    BY <1>a, <1>27, <2>a DEF OneInv, EventPlaces, Linked, Busy, Picked, Retried, JobPlaces, Wake, NextJobEffect, sessionVars, managerVars, clientVars, waitVars, queueVars, deferVars, jobVars, ServerTypes, WaitTypes, At, Panics, NotifyIf, SignalWakeup, GoesTo, WokenPc, WokenSel, Wakes, NextJob, AfterJob
  <2>4. NoPanic'
    BY <1>27 DEF Wake, At, NoPanic
  <2>5. ServiceInv(w)'
    BY <1>a, <1>27, <2>a DEF OneInv, ServiceInv, Retried, IsSignaled, Wake, NextJobEffect, sessionVars, managerVars, clientVars, waitVars, queueVars, deferVars, jobVars, ServerTypes, WaitTypes, At, Panics, NotifyIf, SignalWakeup, GoesTo, WokenPc, WokenSel, Wakes, NextJob, AfterJob, SessionTypes
  <2> QED
    BY <2>1, <2>2, <2>3, <2>4, <2>5 DEF OneInv
<1>28. ASSUME ClearDeferral(w)
      PROVE  OneInv(w)'
  <2>1. ListsApart(w)'
    BY <1>a, <1>28 DEF OneInv, ListsApart, ClearDeferral, sessionVars, managerVars, clientVars, waitVars, queueVars, deferVars, jobVars, ServerTypes
  <2>2. HolderPlaces(w)'
    BY <1>a, <1>28 DEF OneInv, HolderPlaces, Linked, Busy, Picked, Retried, JobPlaces, ClearDeferral, sessionVars, managerVars, clientVars, waitVars, queueVars, deferVars, jobVars, ServerTypes, WaitTypes, At, Panics, NotifyIf, SignalWakeup, GoesTo, WokenPc, WokenSel, Wakes, NextJob, AfterJob
  <2>3. EventPlaces(w)'
    BY <1>a, <1>28 DEF OneInv, EventPlaces, Linked, Busy, Picked, Retried, JobPlaces, ClearDeferral, sessionVars, managerVars, clientVars, waitVars, queueVars, deferVars, jobVars, ServerTypes, WaitTypes, At, Panics, NotifyIf, SignalWakeup, GoesTo, WokenPc, WokenSel, Wakes, NextJob, AfterJob
  <2>4. NoPanic'
    BY <1>28 DEF ClearDeferral, At, NoPanic
  <2>5. ServiceInv(w)'
    BY <1>a, <1>28 DEF OneInv, ServiceInv, Retried, IsSignaled, ClearDeferral, sessionVars, managerVars, clientVars, waitVars, queueVars, deferVars, jobVars, ServerTypes, WaitTypes, At, Panics, NotifyIf, SignalWakeup, GoesTo, WokenPc, WokenSel, Wakes, NextJob, AfterJob, SessionTypes
  <2> QED
    BY <2>1, <2>2, <2>3, <2>4, <2>5 DEF OneInv
<1>29. ASSUME TakeDeferred(w)
      PROVE  OneInv(w)'
  <2>b. todo'[w] = Kept(deferred, sessions \cap context) /\ dlist' = Append(dlist, "deferral") /\ deferred' = <<>>
    BY <1>29 DEF TakeDeferred, ServerTypes
  <2>c. "deferral" \in Holders /\ "deferral" \notin Range(dlist) /\ wpc[w] = "take"
    BY <1>29 DEF Holders, OneInv, EventPlaces, Linked, TakeDeferred, At
  <2>d. context \subseteq sessions /\ Range(deferred) = context
    BY DEF OneInv, HolderPlaces, ServerTypes
  <2>a. /\ Range(todo'[w]) = context /\ context' = {} /\ deferred' = <<>>
        /\ NoDuplicates(deferred) => NoDuplicates(todo'[w])
        /\ Range(dlist') = Range(dlist) \cup {"deferral"} /\ (NoDuplicates(dlist) => NoDuplicates(dlist'))
    <3>1. Range(todo'[w]) = context /\ (NoDuplicates(deferred) => NoDuplicates(todo'[w]))
      <4> DEFINE S == sessions \cap context
      <4>1. deferred \in Seq(Sessions) /\ Range(deferred) \cap S = context
        BY <2>d DEF ServerTypes
      <4>2. todo'[w] = Kept(deferred, S)
        BY <2>b
      <4> HIDE DEF S
      <4>3. Range(Kept(deferred, S)) = Range(deferred) \cap S
        BY <4>1, KeptProperties
      <4>4. NoDuplicates(deferred) => NoDuplicates(Kept(deferred, S))
        BY <4>1, KeptDistinct
      <4> QED
        BY <4>1, <4>2, <4>3, <4>4
    <3>2. Range(dlist') = Range(dlist) \cup {"deferral"} /\ (NoDuplicates(dlist) => NoDuplicates(dlist'))
      <4>1. dlist \in Seq(Holders)
        BY DEF ServerTypes
      <4> QED
        BY <2>b, <2>c, <4>1, RangeAppend
    <3>3. context' = {}
      BY <1>29, <2>d DEF TakeDeferred
    <3> QED
      BY <2>b, <3>1, <3>2, <3>3
  <2>e. /\ wpc'[w] = "wake" /\ todo[w] = <<>>
        /\ UNCHANGED <<multi, sessions, job, current, list, clientClosed>>
    BY <1>a, <2>c, <1>29 DEF TakeDeferred, WaitTypes, sessionVars, OneInv, ServiceInv
  <2>f. Range(deferred') = {} /\ Range(todo[w]) = {} /\ NoDuplicates(deferred')
    BY <2>a, <2>e, EmptyList
  <2>1. ListsApart(w)'
    BY <2>a, <2>c, <2>e, <2>f DEF OneInv, ListsApart, EventPlaces, Linked
  <2>2. HolderPlaces(w)'
    BY <1>a, <2>a, <2>c, <2>e, <2>f DEF OneInv, HolderPlaces, Linked, Busy, Picked, Retried, JobPlaces
  <2>3. EventPlaces(w)'
    BY <1>a, <1>29, <2>a DEF OneInv, EventPlaces, Linked, Busy, Picked, Retried, JobPlaces, TakeDeferred, sessionVars, managerVars, clientVars, waitVars, queueVars, deferVars, jobVars, ServerTypes, WaitTypes, At, Panics, NotifyIf, SignalWakeup, GoesTo, WokenPc, WokenSel, Wakes, NextJob, AfterJob
  <2>4. NoPanic'
    BY <1>29 DEF TakeDeferred, At, NoPanic
  <2>5. ServiceInv(w)'
    BY <2>a, <2>c, <2>e, <2>f DEF OneInv, ServiceInv, Retried
  <2> QED
    BY <2>1, <2>2, <2>3, <2>4, <2>5 DEF OneInv
<1>30. ASSUME RegisterService
      PROVE  OneInv(w)'
  <2>1. ListsApart(w)'
    BY <1>a, <1>30 DEF OneInv, ListsApart, RegisterService, sessionVars, managerVars, clientVars, waitVars, queueVars, deferVars, jobVars, ServerTypes
  <2>2. HolderPlaces(w)'
    BY <1>a, <1>30 DEF OneInv, HolderPlaces, Linked, Busy, Picked, Retried, JobPlaces, RegisterService, sessionVars, managerVars, clientVars, waitVars, queueVars, deferVars, jobVars, ServerTypes, WaitTypes, At, Panics, NotifyIf, SignalWakeup, GoesTo, WokenPc, WokenSel, Wakes, NextJob, AfterJob
  <2>3. EventPlaces(w)'
    BY <1>a, <1>30 DEF OneInv, EventPlaces, Linked, Busy, Picked, Retried, JobPlaces, RegisterService, sessionVars, managerVars, clientVars, waitVars, queueVars, deferVars, jobVars, ServerTypes, WaitTypes, At, Panics, NotifyIf, SignalWakeup, GoesTo, WokenPc, WokenSel, Wakes, NextJob, AfterJob
  <2>4. NoPanic'
    BY <1>30 DEF OneInv, NoPanic, RegisterService, sessionVars, queueVars
  <2>5. ServiceInv(w)'
    BY <1>a, <1>30 DEF OneInv, ServiceInv, Retried, IsSignaled, RegisterService, sessionVars, managerVars, clientVars, waitVars, queueVars, deferVars, jobVars, ServerTypes, WaitTypes, At, Panics, NotifyIf, SignalWakeup, GoesTo, WokenPc, WokenSel, Wakes, NextJob, AfterJob, SessionTypes
  <2> QED
    BY <2>1, <2>2, <2>3, <2>4, <2>5 DEF OneInv
<1>31. CASE UNCHANGED vars
  BY <1>31 DEF vars, sessionVars, managerVars, clientVars, waitVars, queueVars, deferVars, jobVars, OneInv, ListsApart, HolderPlaces, EventPlaces, ServiceInv, NoPanic, IsSignaled, Linked, Busy, Picked, Retried, JobPlaces
<1> QED
  BY <1>1, <1>2, <1>3, <1>4, <1>5, <1>6, <1>7, <1>8, <1>9, <1>10, <1>11, <1>12, <1>13, <1>14, <1>15, <1>16, <1>17, <1>18, <1>19, <1>20, <1>21, <1>22, <1>23, <1>24, <1>25, <1>26, <1>27, <1>28, <1>29, <1>30, <1>31 DEF Next, ClientNext, WorkerNext

LEMMA OneAlways ==
    ASSUME NEW w, Workers = {w}
    PROVE  Spec => []OneInv(w)
<1>1. Init => OneInv(w)
  BY OneStart
<1>2. TypeInv /\ RequestInv /\ SleepInv /\ OneInv(w) /\ [Next]_vars => OneInv(w)'
  BY OneStep
<1> QED
  BY <1>1, <1>2, TypesAlways, RequestsAlways, SleepAlways, PTL DEF Spec

\* How often x occurs in a list where nothing occurs twice.
LEMMA OccurrencesAre ==
    ASSUME NEW A, NEW q \in Seq(A), NoDuplicates(q), NEW x
    PROVE  Occurrences(q, x) = IF x \in Range(q) THEN 1 ELSE 0
<1> DEFINE I == {i \in DOMAIN q : q[i] = x}
<1>1. CASE x \in Range(q)
  <2>1. PICK i \in DOMAIN q : q[i] = x
    BY <1>1 DEF Range
  <2>2. I = {i}
    BY <2>1 DEF NoDuplicates
  <2> QED
    BY <1>1, <2>2, FS_Singleton DEF Occurrences
<1>2. CASE x \notin Range(q)
  <2>1. I = {}
    BY <1>2 DEF Range
  <2> QED
    BY <1>2, <2>1, FS_EmptySet DEF Occurrences
<1> QED
  BY <1>1, <1>2

\* A set of workers, if there is one worker.
LEMMA WorkersAre ==
    ASSUME NEW w, NEW V \in SUBSET {w}
    PROVE  Cardinality(V) = IF w \in V THEN 1 ELSE 0
<1>1. V = {} \/ V = {w}
  OBVIOUS
<1> QED
  BY <1>1, FS_Singleton, FS_EmptySet

LEMMA OneAccounts ==
    ASSUME TypeInv, NEW w, Workers = {w}, OneInv(w)
    PROVE  HoldersAccounted
<1> DEFINE linked == multi \o dlist
<1>1. \A h : Occurrences(linked, h) = IF Linked(h) THEN 1 ELSE 0
  <2>1. multi \in Seq(Holders) /\ dlist \in Seq(Holders)
    BY DEF TypeInv, WaitTypes, ServerTypes
  <2>2. linked \in Seq(Holders) /\ NoDuplicates(linked) /\ Range(linked) = Range(multi) \cup Range(dlist)
    BY <2>1, RangeConcat DEF OneInv, ListsApart
  <2> HIDE DEF linked
  <2> QED
    BY <2>2, OccurrencesAre DEF Linked
<1> HIDE DEF linked
<1>2. \A s \in Sessions : Occurrences(deferred, s) = IF s \in context THEN 1 ELSE 0
  <2>1. deferred \in Seq(Sessions) /\ NoDuplicates(deferred) /\ Range(deferred) = context
    BY DEF TypeInv, ServerTypes, OneInv, ListsApart, HolderPlaces
  <2> QED
    BY <2>1, OccurrencesAre
<1>3. \A s \in Sessions :
         Cardinality(Serving(s)) = IF Busy(w, s) \/ Picked(w, s) \/ Retried(w, s) THEN 1 ELSE 0
  <2> SUFFICES ASSUME NEW s \in Sessions
               PROVE  Cardinality(Serving(s)) =
                         IF Busy(w, s) \/ Picked(w, s) \/ Retried(w, s) THEN 1 ELSE 0
    OBVIOUS
  <2>1. Serving(s) \in SUBSET {w}
    BY DEF Serving
  <2>2. w \in Serving(s) <=> Busy(w, s) \/ Picked(w, s) \/ Retried(w, s)
    BY DEF Serving, Busy, Picked, Retried, JobPlaces, TypeInv, WaitTypes, WorkerPlaces
  <2> QED
    BY <2>1, <2>2, WorkersAre
<1>4. \A s \in sessions :
         Occurrences(linked, s) + Cardinality(Serving(s)) + Occurrences(deferred, s) = 1
  <2> SUFFICES ASSUME NEW s \in sessions
               PROVE  Occurrences(linked, s) + Cardinality(Serving(s)) + Occurrences(deferred, s) = 1
    OBVIOUS
  <2>1. s \in Sessions
    BY DEF TypeInv, ServerTypes
  <2>2. /\ Occurrences(linked, s) = IF Linked(s) THEN 1 ELSE 0
        /\ Occurrences(deferred, s) = IF s \in context THEN 1 ELSE 0
        /\ Cardinality(Serving(s)) = IF Busy(w, s) \/ Picked(w, s) \/ Retried(w, s) THEN 1 ELSE 0
    BY <1>1, <1>2, <1>3, <2>1
  <2>3. \/ Linked(s) /\ s \notin context /\ ~(Busy(w, s) \/ Picked(w, s) \/ Retried(w, s))
        \/ ~Linked(s) /\ s \in context /\ ~(Busy(w, s) \/ Picked(w, s) \/ Retried(w, s))
        \/ ~Linked(s) /\ s \notin context /\ (Busy(w, s) \/ Picked(w, s) \/ Retried(w, s))
    BY <2>1 DEF OneInv, HolderPlaces
  <2> QED
    BY <2>2, <2>3
<1>5. Defers =>
        Occurrences(linked, "deferral")
          + Cardinality({v \in Workers :
                wpc[v] = "take" \/ (wpc[v] = "selected" /\ sel[v] = "deferral")}) = 1
  <2> DEFINE V == {v \in Workers : wpc[v] = "take" \/ (wpc[v] = "selected" /\ sel[v] = "deferral")}
  <2>1. V \in SUBSET {w} /\ (w \in V <=> wpc[w] = "take" \/ Picked(w, "deferral"))
    BY DEF Picked
  <2> HIDE DEF V
  <2>2. Cardinality(V) = IF w \in V THEN 1 ELSE 0
    BY <2>1, WorkersAre
  <2>3. Defers => Occurrences(linked, "deferral") + Cardinality(V) = 1
    BY <1>1, <2>1, <2>2 DEF OneInv, EventPlaces
  <2> QED
    BY <2>3 DEF V
<1>6. PortWatched \/ missed
  <2> DEFINE V == {v \in Workers : wpc[v] = "selected" /\ sel[v] = "port"}
  <2>1. V \in SUBSET {w} /\ (w \in V <=> Picked(w, "port"))
    BY DEF Picked
  <2> HIDE DEF V
  <2>2. Cardinality(V) = IF w \in V THEN 1 ELSE 0
    BY <2>1, WorkersAre
  <2>3. Occurrences(linked, "port") + Cardinality(V) = 1 \/ missed
    BY <1>1, <2>1, <2>2 DEF OneInv, EventPlaces
  <2> QED
    BY <2>3 DEF V, PortWatched, linked
<1> QED
  BY <1>4, <1>5, <1>6 DEF HoldersAccounted, linked, OneInv, HolderPlaces

\* With one worker every registered session is watched, served or deferred, once; so is
\* the deferral event, and so is the port until on_port_event accepts a session that is gone
\* already (unlink, relink, on_port_event).
THEOREM HoldersAreAccounted ==
    ASSUME NEW w, Workers = {w}
    PROVE  Spec => []HoldersAccounted
<1>1. TypeInv /\ OneInv(w) => HoldersAccounted
  BY OneAccounts
<1> QED
  BY <1>1, TypesAlways, OneAlways, PTL

\* A service with one worker does not panic, unless a session is registered once more after its
\* server end was destroyed (prepare_shared_event, process_session_event_shared,
\* complete_sync_request_transaction_shared).
THEOREM OneWorkerDoesNotPanic ==
    ASSUME NEW w, Workers = {w}
    PROVE  Spec => []NoPanic
<1>1. OneInv(w) => NoPanic
  BY DEF OneInv
<1> QED
  BY <1>1, OneAlways, PTL

\* With one worker, a selected session is still there when its holder is looked at, as
\* destroy_session says; with two it need not be.
THEOREM OneWorkerHolderIsLive ==
    ASSUME NEW w, Workers = {w}
    PROVE  Spec => []SelectedHolderIsLive
<1>1. OneInv(w) => SelectedHolderIsLive
  BY DEF OneInv, HolderPlaces, Picked, SelectedHolderIsLive
<1> QED
  BY <1>1, OneAlways, PTL
=============================================================================
