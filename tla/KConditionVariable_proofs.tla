----------------------- MODULE KConditionVariable_proofs -----------------------
(***************************************************************************)
(* Proofs about KConditionVariable, for any number of threads, mutexes and *)
(* condition variables, on the condition that guests lock mutexes in the   *)
(* order of their addresses.  Without it threads may wait in a circle,     *)
(* along which restore_priority comes back to the thread it began with:    *)
(* the run condition_variable_circle shows how its expect fails then.      *)
(*                                                                         *)
(* A system call is the composition of the methods of                      *)
(* PriorityInheritance_proofs on the record Kernel.  The invariant says    *)
(* that this record is sound and that every thread fits: what the thread   *)
(* waits for, owns and is about to do agrees with the words of the         *)
(* mutexes.                                                                *)
(***************************************************************************)
EXTENDS KConditionVariable, PriorityInheritance_proofs

TagWords == [Mutexes -> {Free} \cup [owner : Threads, waiters : BOOLEAN]]
PcValues == Waiting \cup InUser \cup {"exited"}
Kernels == Records(TagWords, [Threads -> PcValues])

\* A thread that owns a mutex it does not know of or gives up.
Between == {"arbitrate_unlock", "resume", "cv_resume"}

\* What thread u waits for: its place tells whether it waits, and in which tree.
WaitFits(s, wanted, flags, u) ==
    /\ s.cv[u] # NoCV => s.pc[u] = "cv_wait" /\ flags[s.cv[u]] = 1
    /\ s.ref[u] # NoRef <=> s.pc[u] \in Waiting /\ s.cv[u] = NoCV
    /\ s.pc[u] \notin {"user", "exited"} => wanted[u] \in Mutexes
    /\ s.ref[u] # NoRef =>
          /\ s.ref[u].addr = wanted[u]
          /\ s.tag[wanted[u]] = [owner |-> s.ref[u].owner, waiters |-> TRUE]

\* What thread u owns: the words that name it are those of the mutexes it takes
\* itself to hold, but for one that it is about to take or to give up; and all of
\* them are below the one it waits for.
OwnsFits(s, wanted, owned, u) ==
    /\ \A m \in owned[u] : s.tag[m].owner = u
    /\ s.pc[u] \in {"arbitrate_unlock", "cv_resume"} => s.tag[wanted[u]].owner = u
    /\ s.pc[u] = "arbitrate_unlock" => wanted[u] \notin owned[u]
    /\ \A m \in Mutexes : s.tag[m].owner = u /\ m \notin owned[u] =>
          s.pc[u] = "exited" \/ (s.pc[u] \in Between /\ wanted[u] = m)
    /\ s.pc[u] \in Waiting \cup {"arbitrate_lock"} => \A m \in owned[u] : m < wanted[u]

Fits(s, wanted, owned, flags, u) ==
    WaitFits(s, wanted, flags, u) /\ OwnsFits(s, wanted, owned, u)

\* Every thread fits, and has the priority it should have while it is alive.
Coherent(s, wanted, owned, flags, living) ==
    /\ s \in Kernels /\ Sound(s)
    /\ wanted \in [Threads -> Mutexes \cup {0}]
    /\ owned \in [Threads -> SUBSET Mutexes]
    /\ flags \in [CVs -> {0, 1}]
    /\ living \in [Threads -> BOOLEAN]
    /\ \A u \in Threads : Fits(s, wanted, owned, flags, u)
    /\ \A u \in Threads : living[u] => Settled(s, u)

\* The inductive invariant.
KInv ==
    /\ Coherent(Kernel, want, owns, flag, alive)
    /\ seen \in [Threads -> Threads \cup {NoThread}]
    /\ terminating \in [Threads -> BOOLEAN]
    /\ \A u \in Threads : pc[u] = "arbitrate_lock" => seen[u] # u

\* The fields of the record.
LEMMA KernelFields ==
    /\ Kernel.base = base /\ Kernel.prio = prio /\ Kernel.held = held /\ Kernel.ref = ref
    /\ Kernel.cv = cv /\ Kernel.tree = tree /\ Kernel.panic = panic /\ Kernel.tag = tag
    /\ Kernel.pc = pc
  BY DEF Kernel

\* The fields of thread u are as before, the words name it as before, and the word
\* of the mutex it waits for has not changed.
SameFor(s, r, wanted, wanted2, owned, owned2, flags, flags2, u) ==
    /\ r.cv[u] = s.cv[u] /\ r.ref[u] = s.ref[u] /\ r.pc[u] = s.pc[u]
    /\ wanted2[u] = wanted[u] /\ owned2[u] = owned[u] /\ owned[u] \in SUBSET Mutexes
    /\ \A k \in CVs : flags[k] = 1 /\ s.cv[u] = k => flags2[k] = 1
    /\ \A m \in Mutexes : r.tag[m].owner = u <=> s.tag[m].owner = u
    /\ \A m \in Mutexes :
          s.tag[m].waiters /\ s.ref[u] # NoRef /\ s.ref[u].addr = m => r.tag[m] = s.tag[m]

\* Such a thread fits as before.
LEMMA FitsSame ==
    ASSUME NEW s \in Kernels, NEW r, NEW wanted, NEW wanted2, NEW owned, NEW owned2,
           NEW flags, NEW flags2, NEW u \in Threads, Fits(s, wanted, owned, flags, u),
           SameFor(s, r, wanted, wanted2, owned, owned2, flags, flags2, u)
    PROVE  Fits(r, wanted2, owned2, flags2, u)
<1>1. s.cv[u] \in CVs \cup {NoCV} /\ s.pc[u] \in PcValues
  BY DEF Kernels, Records
<1>2. WaitFits(s, wanted, flags, u) /\ OwnsFits(s, wanted, owned, u)
  BY DEF Fits
<1>3. WaitFits(r, wanted2, flags2, u)
  <2>1. s.ref[u] # NoRef =>
           wanted[u] \in Mutexes /\ s.ref[u].addr = wanted[u] /\ s.tag[wanted[u]].waiters
    BY <1>2 DEF WaitFits, Waiting
  <2>2. s.ref[u] # NoRef => r.tag[wanted[u]] = s.tag[wanted[u]]
    BY <2>1 DEF SameFor
  <2> QED
    BY <1>1, <1>2, <2>2 DEF WaitFits, SameFor
<1>4. OwnsFits(r, wanted2, owned2, u)
  <2>1. s.pc[u] \in {"arbitrate_unlock", "cv_resume"} => wanted[u] \in Mutexes
    BY <1>2 DEF WaitFits
  <2> QED
    BY <1>2, <2>1 DEF OwnsFits, SameFor
<1> QED
  BY <1>3, <1>4 DEF Fits

\* A thread that waits for nothing and holds no word between two steps fits.
LEMMA FitsIdle ==
    ASSUME NEW s, NEW wanted, NEW owned, NEW flags, NEW u \in Threads,
           s.cv[u] = NoCV, s.ref[u] = NoRef,
           s.pc[u] = "user" \/ s.pc[u] = "exited",
           \A m \in owned[u] : s.tag[m].owner = u,
           s.pc[u] = "user" => \A m \in Mutexes : s.tag[m].owner = u => m \in owned[u]
    PROVE  Fits(s, wanted, owned, flags, u)
  BY DEF Fits, WaitFits, OwnsFits, Waiting

\* The invariant holds at the start.
LEMMA InitKInv == Init => KInv
<1> SUFFICES ASSUME Init PROVE KInv
  OBVIOUS
<1> PICK s : s = Kernel
  OBVIOUS
<1>1. /\ s.base = InitialPriority /\ s.prio = InitialPriority
      /\ s.held = [t \in Threads |-> [m \in Mutexes |-> {}]]
      /\ s.ref = [t \in Threads |-> NoRef] /\ s.cv = [t \in Threads |-> NoCV]
      /\ s.tree = [k \in CVs |-> <<>>] /\ s.panic = FALSE /\ s.tag = [m \in Mutexes |-> Free]
      /\ s.pc = [t \in Threads |-> "user"]
  BY KernelFields DEF Init
<1>2. s \in Kernels
  <2>1. s = [base |-> s.base, prio |-> s.prio, held |-> s.held, ref |-> s.ref, cv |-> s.cv,
             tree |-> s.tree, panic |-> s.panic, tag |-> s.tag, pc |-> s.pc]
    BY DEF Kernel
  <2>2. /\ s.base \in [Threads -> Int] /\ s.prio \in [Threads -> Int]
        /\ s.held \in [Threads -> [Mutexes -> SUBSET Keys]]
    BY <1>1, PriorityAssumption
  <2>3. s.ref \in [Threads -> Refs] /\ s.cv \in [Threads -> CVs \cup {NoCV}]
    BY <1>1 DEF Refs
  <2>4. s.tree \in [CVs -> Seq(Keys)]
    BY <1>1
  <2>5. s.panic \in BOOLEAN /\ s.tag \in TagWords /\ s.pc \in [Threads -> PcValues]
    BY <1>1 DEF TagWords, PcValues, InUser
  <2> HIDE DEF Kernel
  <2> QED
    BY <2>1, <2>2, <2>3, <2>4, <2>5 DEF Kernels, Records
<1>3. \A u \in Threads : ~Waits(s, u) /\ s.ref[u].owner = NoThread
  BY <1>1, Ids DEF Waits, NoRef
<1>4. HeldAgrees(s, {})
  <2>1. \A o \in Threads, m \in Mutexes : Waiters(s, o, m) \ {} = {} /\ s.held[o][m] = {}
    BY <1>1, <1>3, Ids DEF Waiters, Waits
  <2>2. KeysOf(s, {}) = {}
    BY DEF KeysOf
  <2> QED
    BY <2>1, <2>2 DEF HeldAgrees
<1>5. TreesAgree(s)
  <2>1. \A k \in CVs : Sleepers(s, k) = {} /\ s.tree[k] = <<>>
    BY <1>1, Ids DEF Sleepers
  <2>2. KeysOf(s, {}) = {} /\ Range(<<>>) = {} /\ InOrder(<<>>, ByPriority)
    BY DEF KeysOf, Range, InOrder
  <2> QED
    BY <2>1, <2>2 DEF TreesAgree
<1>6. Sound(s)
  BY <1>1, <1>3, <1>4, <1>5 DEF Sound, Ascends
<1>7. \A u \in Threads : Settled(s, u)
  <2> TAKE u \in Threads
  <2>1. s.prio[u] = s.base[u] /\ s.base[u] \in Int
    BY <1>1, PriorityAssumption
  <2>2. \A w \in Threads : s.ref[w].owner # u
    BY <1>3, Ids
  <2> QED
    BY <1>2, <1>4, <2>1, <2>2, SettledMeans DEF Kernels
<1>8. \A u \in Threads : Fits(s, want, owns, flag, u)
  <2> TAKE u \in Threads
  <2>1. s.cv[u] = NoCV /\ s.ref[u] = NoRef /\ s.pc[u] = "user" /\ owns[u] = {}
    BY <1>1 DEF Init
  <2>2. \A m \in Mutexes : s.tag[m].owner # u
    BY <1>1, Ids DEF Free
  <2> QED
    BY <2>1, <2>2, FitsIdle
<1>9. /\ want \in [Threads -> Mutexes \cup {0}] /\ owns \in [Threads -> SUBSET Mutexes]
      /\ flag \in [CVs -> {0, 1}] /\ alive \in [Threads -> BOOLEAN]
      /\ seen \in [Threads -> Threads \cup {NoThread}]
      /\ terminating \in [Threads -> BOOLEAN]
      /\ \A u \in Threads : pc[u] # "arbitrate_lock"
  BY DEF Init
<1> QED
  BY <1>2, <1>6, <1>7, <1>8, <1>9 DEF KInv, Coherent

-----------------------------------------------------------------------------
(* What guests do by themselves *)

\* The record after a step that changes nothing but words and places.
GuestRecord(s, r) ==
    /\ r \in Kernels /\ Sound(r) /\ SettledKept(s, r)
    /\ r.cv = s.cv /\ r.ref = s.ref /\ r.tag = tag' /\ r.pc = pc'

LEMMA GuestRecords ==
    ASSUME KInv, UNCHANGED threadVars, tag' \in TagWords, pc' \in [Threads -> PcValues]
    PROVE  \E s, r : /\ s = Kernel /\ r = Kernel' /\ GuestRecord(s, r)
                     /\ Coherent(s, want, owns, flag, alive)
                     /\ s.tag = tag /\ s.pc = pc /\ s.cv = cv /\ s.ref = ref
<1> PICK s : s = Kernel
  OBVIOUS
<1> PICK r : r = Kernel'
  OBVIOUS
<1>1. s \in Kernels /\ Sound(s) /\ Coherent(s, want, owns, flag, alive)
  BY DEF KInv, Coherent
<1>2. /\ s.base = base /\ s.prio = prio /\ s.held = held /\ s.ref = ref /\ s.cv = cv
      /\ s.tree = tree /\ s.panic = panic /\ s.tag = tag /\ s.pc = pc
  BY KernelFields
<1>3. r = [base |-> base', prio |-> prio', held |-> held', ref |-> ref', cv |-> cv',
           tree |-> tree', panic |-> panic', tag |-> tag', pc |-> pc']
  BY DEF Kernel
<1>4. /\ r.base = s.base /\ r.prio = s.prio /\ r.held = s.held /\ r.ref = s.ref /\ r.cv = s.cv
      /\ r.tree = s.tree /\ r.panic = s.panic /\ r.tag = tag' /\ r.pc = pc'
  BY <1>2, <1>3 DEF threadVars
<1>5. r \in Kernels
  <2>1. r = [base |-> s.base, prio |-> s.prio, held |-> s.held, ref |-> s.ref, cv |-> s.cv,
             tree |-> s.tree, panic |-> s.panic, tag |-> tag', pc |-> pc']
    BY <1>2, <1>3 DEF threadVars
  <2> QED
    BY <1>1, <2>1 DEF Kernels, Records
<1>6. Sound(r) /\ SettledKept(s, r)
  BY <1>1, <1>4, SoundSame
<1> QED
  BY <1>1, <1>2, <1>4, <1>5, <1>6 DEF GuestRecord

\* What remains to be shown of a step of a guest.
LEMMA GuestKeeps ==
    ASSUME NEW s, NEW r, s = Kernel, r = Kernel', GuestRecord(s, r), KInv,
           want' \in [Threads -> Mutexes \cup {0}], owns' \in [Threads -> SUBSET Mutexes],
           seen' \in [Threads -> Threads \cup {NoThread}],
           UNCHANGED <<flag, lifeVars>>,
           \A u \in Threads : Fits(r, want', owns', flag, u),
           \A u \in Threads : pc'[u] = "arbitrate_lock" => seen'[u] # u
    PROVE  KInv'
<1>1. flag' = flag /\ alive' = alive /\ terminating' = terminating
  BY DEF lifeVars
<1>2. \A u \in Threads : alive[u] => Settled(r, u)
  BY DEF GuestRecord, SettledKept, KInv, Coherent
<1>3. /\ flag \in [CVs -> {0, 1}] /\ alive \in [Threads -> BOOLEAN]
      /\ terminating \in [Threads -> BOOLEAN]
  BY DEF KInv, Coherent
<1>4. Coherent(r, want', owns', flag, alive)
  BY <1>2, <1>3 DEF Coherent, GuestRecord
<1> QED
  BY <1>1, <1>3, <1>4 DEF KInv

\* The words are words.
LEMMA TagOf ==
    ASSUME NEW s \in Kernels, NEW m \in Mutexes
    PROVE  /\ s.tag[m] = Free \/ (s.tag[m].owner \in Threads /\ s.tag[m].waiters \in BOOLEAN)
           /\ s.tag[m].owner \in Threads \cup {NoThread}
           /\ s.tag[m] = Free <=> s.tag[m].owner = NoThread
           /\ s.tag[m] = Free => ~s.tag[m].waiters
           /\ s.tag[m] = [owner |-> s.tag[m].owner, waiters |-> s.tag[m].waiters]
<1>1. s.tag[m] \in {Free} \cup [owner : Threads, waiters : BOOLEAN]
  BY DEF Kernels, Records, TagWords
<1>2. CASE s.tag[m] = Free
  BY <1>2, Ids DEF Free
<1>3. CASE s.tag[m] \in [owner : Threads, waiters : BOOLEAN]
  BY <1>3, Ids DEF Free
<1> QED
  BY <1>1, <1>2, <1>3

\* Setting the wait bit.
LEMMA WaitBit ==
    ASSUME NEW s \in Kernels, NEW m \in Mutexes
    PROVE  /\ [s.tag[m] EXCEPT !.waiters = TRUE] = [owner |-> s.tag[m].owner, waiters |-> TRUE]
           /\ s.tag[m].waiters => s.tag[m] = [owner |-> s.tag[m].owner, waiters |-> TRUE]
<1>1. s.tag[m] \in [owner : Threads \cup {NoThread}, waiters : BOOLEAN]
  <2>1. s.tag[m] \in {Free} \cup [owner : Threads, waiters : BOOLEAN]
    BY DEF Kernels, Records, TagWords
  <2>2. Free \in [owner : Threads \cup {NoThread}, waiters : BOOLEAN]
    BY DEF Free
  <2>3. [owner : Threads, waiters : BOOLEAN]
           \subseteq [owner : Threads \cup {NoThread}, waiters : BOOLEAN]
    OBVIOUS
  <2> QED
    BY <2>1, <2>2, <2>3
<1>2. PICK w : w = s.tag[m]
  OBVIOUS
<1>3. w \in [owner : Threads \cup {NoThread}, waiters : BOOLEAN]
  BY <1>1, <1>2
<1>4. [w EXCEPT !.waiters = TRUE] = [owner |-> w.owner, waiters |-> TRUE]
  <2>1. PICK x : x = [w EXCEPT !.waiters = TRUE]
    OBVIOUS
  <2>2. x \in [owner : Threads \cup {NoThread}, waiters : BOOLEAN] /\ x.owner = w.owner
    BY <1>3, <2>1
  <2>3. x.waiters = TRUE
    BY <1>3, <2>1
  <2>4. x = [owner |-> x.owner, waiters |-> x.waiters]
    BY <2>2
  <2>5. x = [owner |-> w.owner, waiters |-> TRUE]
    BY <2>2, <2>3, <2>4
  <2> QED
    BY <2>1, <2>5
<1>5. ASSUME w.waiters PROVE w = [owner |-> w.owner, waiters |-> TRUE]
  <2>1. w = [owner |-> w.owner, waiters |-> w.waiters]
    BY <1>3
  <2>2. w.waiters \in BOOLEAN
    BY <1>3
  <2>3. w.waiters = TRUE
    BY <1>5, <2>2
  <2> QED
    BY <2>1, <2>3
<1> QED
  BY <1>2, <1>4, <1>5

LEMMA GuestLockKeeps ==
    ASSUME KInv, NEW t \in Threads, NEW m \in Mutexes, GuestLock(t, m) PROVE KInv'
<1>1. tag' \in TagWords /\ pc' \in [Threads -> PcValues]
  BY KernelFields DEF GuestLock, KInv, Coherent, Kernels, Records, TagWords
<1>2. PICK s, r : /\ s = Kernel /\ r = Kernel' /\ GuestRecord(s, r)
                  /\ Coherent(s, want, owns, flag, alive)
                  /\ s.tag = tag /\ s.pc = pc /\ s.cv = cv /\ s.ref = ref
  BY <1>1, GuestRecords DEF GuestLock
<1>3. /\ s \in Kernels /\ want \in [Threads -> Mutexes \cup {0}]
      /\ owns \in [Threads -> SUBSET Mutexes] /\ \A u \in Threads : Fits(s, want, owns, flag, u)
  BY <1>2 DEF Coherent
<1>4. /\ pc[t] = "user" /\ s.tag[m] = Free /\ pc' = pc /\ want' = want /\ seen' = seen
      /\ owns' = [owns EXCEPT ![t] = @ \cup {m}]
      /\ tag' = [tag EXCEPT ![m] = [owner |-> t, waiters |-> FALSE]]
  BY <1>2 DEF GuestLock
<1>5. /\ r.tag[m] = [owner |-> t, waiters |-> FALSE]
      /\ \A a \in Mutexes \ {m} : r.tag[a] = s.tag[a]
      /\ r.cv = s.cv /\ r.ref = s.ref /\ r.pc = s.pc
  BY <1>2, <1>3, <1>4 DEF GuestRecord, Kernels, Records, TagWords
<1>6. Fits(r, want', owns', flag, t)
  <2>1. s.cv[t] = NoCV /\ s.ref[t] = NoRef /\ s.pc[t] = "user"
    BY <1>2, <1>3, <1>4 DEF Fits, WaitFits, Waiting
  <2>2. \A a \in owns[t] : s.tag[a].owner = t
    BY <1>3 DEF Fits, OwnsFits
  <2>3. \A a \in Mutexes : s.tag[a].owner = t => a \in owns[t]
    BY <1>3, <2>1 DEF Fits, OwnsFits, Between
  <2>4. owns'[t] = owns[t] \cup {m} /\ owns[t] \in SUBSET Mutexes
    BY <1>3, <1>4
  <2> QED
    BY <1>5, <2>1, <2>2, <2>3, <2>4, FitsIdle
<1>7. ASSUME NEW u \in Threads \ {t} PROVE Fits(r, want', owns', flag, u)
  <2>1. Fits(s, want, owns, flag, u) /\ owns[u] \in SUBSET Mutexes /\ owns'[u] = owns[u]
    BY <1>3, <1>4
  <2>2. \A a \in Mutexes : r.tag[a].owner = u <=> s.tag[a].owner = u
    BY <1>4, <1>5, Ids DEF Free
  <2>3. \A a \in Mutexes : s.tag[a].waiters => r.tag[a] = s.tag[a]
    BY <1>4, <1>5 DEF Free
  <2>4. SameFor(s, r, want, want', owns, owns', flag, flag, u)
    BY <1>4, <1>5, <2>1, <2>2, <2>3 DEF SameFor
  <2> QED
    BY <1>3, <2>1, <2>4, FitsSame
<1>8. /\ owns' \in [Threads -> SUBSET Mutexes] /\ want' \in [Threads -> Mutexes \cup {0}]
      /\ seen' \in [Threads -> Threads \cup {NoThread}] /\ UNCHANGED <<flag, lifeVars>>
      /\ \A u \in Threads : pc'[u] = "arbitrate_lock" => seen'[u] # u
  BY <1>3, <1>4 DEF KInv, GuestLock
<1> QED
  BY <1>2, <1>6, <1>7, <1>8, GuestKeeps

LEMMA GuestContendKeeps ==
    ASSUME KInv, LockOrder, NEW t \in Threads, NEW m \in Mutexes, GuestContend(t, m)
    PROVE  KInv'
<1>1. tag' \in TagWords /\ pc' \in [Threads -> PcValues]
  <2>1. tag \in TagWords /\ pc \in [Threads -> PcValues] /\ Kernel \in Kernels
    BY KernelFields DEF KInv, Coherent, Kernels, Records
  <2>2. tag[m] = [owner |-> tag[m].owner, waiters |-> tag[m].waiters] /\ tag[m].owner \in Threads
    BY <2>1, TagOf, KernelFields DEF GuestContend
  <2>3. tag' = [tag EXCEPT ![m] = [owner |-> tag[m].owner, waiters |-> TRUE]]
    BY <2>1, <2>2, WaitBit, KernelFields DEF GuestContend
  <2>4. pc' = [pc EXCEPT ![t] = "arbitrate_lock"]
    BY DEF GuestContend
  <2> QED
    BY <2>1, <2>2, <2>3, <2>4 DEF TagWords, PcValues, InUser
<1>2. PICK s, r : /\ s = Kernel /\ r = Kernel' /\ GuestRecord(s, r)
                  /\ Coherent(s, want, owns, flag, alive)
                  /\ s.tag = tag /\ s.pc = pc /\ s.cv = cv /\ s.ref = ref
  BY <1>1, GuestRecords DEF GuestContend
<1>3. /\ s \in Kernels /\ want \in [Threads -> Mutexes \cup {0}]
      /\ owns \in [Threads -> SUBSET Mutexes] /\ \A u \in Threads : Fits(s, want, owns, flag, u)
      /\ seen \in [Threads -> Threads \cup {NoThread}]
  BY <1>2 DEF Coherent, KInv
<1>4. /\ pc[t] = "user" /\ s.tag[m].owner \in Threads \ {t} /\ owns' = owns
      /\ \A a \in owns[t] : a < m
      /\ want' = [want EXCEPT ![t] = m] /\ seen' = [seen EXCEPT ![t] = s.tag[m].owner]
      /\ pc' = [pc EXCEPT ![t] = "arbitrate_lock"]
      /\ tag' = [tag EXCEPT ![m].waiters = TRUE]
  BY <1>2 DEF GuestContend, MayLock
<1>5. /\ r.tag[m] = [owner |-> s.tag[m].owner, waiters |-> TRUE]
      /\ \A a \in Mutexes \ {m} : r.tag[a] = s.tag[a]
      /\ r.cv = s.cv /\ r.ref = s.ref /\ r.pc[t] = "arbitrate_lock"
      /\ \A u \in Threads \ {t} : r.pc[u] = s.pc[u]
  <2>1. [s.tag[m] EXCEPT !.waiters = TRUE] = [owner |-> s.tag[m].owner, waiters |-> TRUE]
    BY <1>3, WaitBit
  <2>2. s.tag \in TagWords /\ s.pc \in [Threads -> PcValues]
    BY <1>3 DEF Kernels, Records
  <2> QED
    BY <1>2, <1>4, <2>1, <2>2 DEF GuestRecord, TagWords
<1>6. \A a \in Mutexes : r.tag[a].owner = s.tag[a].owner /\ (s.tag[a].waiters => r.tag[a] = s.tag[a])
  <2>1. s.tag[m].waiters => s.tag[m] = [owner |-> s.tag[m].owner, waiters |-> TRUE]
    BY <1>3, WaitBit
  <2> QED
    BY <1>5, <2>1
<1>7. Fits(r, want', owns', flag, t)
  <2>1. s.cv[t] = NoCV /\ s.ref[t] = NoRef /\ s.pc[t] = "user"
    BY <1>2, <1>3, <1>4 DEF Fits, WaitFits, Waiting
  <2>2. \A a \in owns[t] : s.tag[a].owner = t
    BY <1>3 DEF Fits, OwnsFits
  <2>3. \A a \in Mutexes : s.tag[a].owner = t => a \in owns[t]
    BY <1>3, <2>1 DEF Fits, OwnsFits, Between
  <2>4. want'[t] = m /\ owns'[t] = owns[t] /\ owns[t] \in SUBSET Mutexes
    BY <1>3, <1>4
  <2>5. WaitFits(r, want', flag, t)
    BY <1>5, <2>1, <2>4 DEF WaitFits, Waiting
  <2>6. OwnsFits(r, want', owns', t)
    BY <1>4, <1>5, <1>6, <2>2, <2>3, <2>4 DEF OwnsFits
  <2> QED
    BY <2>5, <2>6 DEF Fits
<1>8. ASSUME NEW u \in Threads \ {t} PROVE Fits(r, want', owns', flag, u)
  <2>1. Fits(s, want, owns, flag, u) /\ owns[u] \in SUBSET Mutexes /\ want'[u] = want[u]
    BY <1>3, <1>4
  <2>2. SameFor(s, r, want, want', owns, owns', flag, flag, u)
    BY <1>4, <1>5, <1>6, <2>1 DEF SameFor
  <2> QED
    BY <1>3, <2>1, <2>2, FitsSame
<1>9. /\ owns' \in [Threads -> SUBSET Mutexes] /\ want' \in [Threads -> Mutexes \cup {0}]
      /\ seen' \in [Threads -> Threads \cup {NoThread}] /\ UNCHANGED <<flag, lifeVars>>
      /\ \A u \in Threads : pc'[u] = "arbitrate_lock" => seen'[u] # u
  <2>1. \A u \in Threads : pc[u] = "arbitrate_lock" => seen[u] # u
    BY DEF KInv
  <2>2. pc \in [Threads -> PcValues]
    BY <1>2, <1>3 DEF Kernels, Records
  <2> QED
    BY <1>3, <1>4, <2>1, <2>2 DEF GuestContend
<1> QED
  BY <1>2, <1>7, <1>8, <1>9, GuestKeeps

\* The end of a call or wait of t: it no longer wants a mutex.
LEMMA ReturnsTypes ==
    ASSUME KInv, NEW t \in Threads, Returns(t), pc' = [pc EXCEPT ![t] = "user"] \/
                                                pc' = [pc EXCEPT ![t] = "exited"]
    PROVE  /\ want' \in [Threads -> Mutexes \cup {0}]
           /\ seen' \in [Threads -> Threads \cup {NoThread}]
           /\ \A u \in Threads \ {t} : want'[u] = want[u] /\ seen'[u] = seen[u] /\ pc'[u] = pc[u]
           /\ \A u \in Threads : pc'[u] = "arbitrate_lock" => seen'[u] # u
           /\ pc' \in [Threads -> PcValues] /\ pc'[t] \in {"user", "exited"}
<1>1. /\ want \in [Threads -> Mutexes \cup {0}] /\ seen \in [Threads -> Threads \cup {NoThread}]
      /\ \A u \in Threads : pc[u] = "arbitrate_lock" => seen[u] # u
      /\ pc \in [Threads -> PcValues]
  BY KernelFields DEF KInv, Coherent, Kernels, Records
<1>2. /\ want' = [want EXCEPT ![t] = 0] /\ seen' = [seen EXCEPT ![t] = NoThread]
  BY DEF Returns
<1> QED
  BY <1>1, <1>2 DEF PcValues, InUser

\* A step that only ends a call of t, or the thread.
LEMMA LeaveKeeps ==
    ASSUME KInv, NEW t \in Threads, Returns(t), UNCHANGED <<threadVars, tag, flag, owns>>,
           UNCHANGED lifeVars,
           \/ pc' = [pc EXCEPT ![t] = "user"] /\ pc[t] = "arbitrate_lock"
           \/ pc' = [pc EXCEPT ![t] = "exited"] /\ pc[t] \in InUser
    PROVE  KInv'
<1>1. /\ want' \in [Threads -> Mutexes \cup {0}]
      /\ seen' \in [Threads -> Threads \cup {NoThread}]
      /\ \A u \in Threads \ {t} : want'[u] = want[u] /\ seen'[u] = seen[u] /\ pc'[u] = pc[u]
      /\ \A u \in Threads : pc'[u] = "arbitrate_lock" => seen'[u] # u
      /\ pc' \in [Threads -> PcValues]
  BY ReturnsTypes
<1>2. tag' \in TagWords
  BY KernelFields DEF KInv, Coherent, Kernels, Records
<1>3. PICK s, r : /\ s = Kernel /\ r = Kernel' /\ GuestRecord(s, r)
                  /\ Coherent(s, want, owns, flag, alive)
                  /\ s.tag = tag /\ s.pc = pc /\ s.cv = cv /\ s.ref = ref
  BY <1>1, <1>2, GuestRecords
<1>4. /\ s \in Kernels /\ pc \in [Threads -> PcValues]
      /\ owns \in [Threads -> SUBSET Mutexes] /\ \A u \in Threads : Fits(s, want, owns, flag, u)
  BY <1>3 DEF Coherent, KInv, Kernels, Records
<1>5. r.tag = s.tag /\ r.cv = s.cv /\ r.ref = s.ref /\ r.pc = pc'
  BY <1>3 DEF GuestRecord
<1>6. Fits(r, want', owns', flag, t)
  <2>1. s.pc[t] \in InUser
    BY <1>3 DEF InUser
  <2>2. s.cv[t] = NoCV /\ s.ref[t] = NoRef
    BY <1>4, <2>1 DEF Fits, WaitFits, Waiting, InUser
  <2>3. \A a \in owns[t] : s.tag[a].owner = t
    BY <1>4 DEF Fits, OwnsFits
  <2>4. r.pc[t] = "user" => s.pc[t] = "arbitrate_lock"
    BY <1>3, <1>4, <1>5
  <2>5. r.pc[t] = "user" => \A a \in Mutexes : s.tag[a].owner = t => a \in owns[t]
    BY <1>4, <2>4 DEF Fits, OwnsFits, Between
  <2>6. r.pc[t] = "user" \/ r.pc[t] = "exited"
    BY <1>4, <1>5
  <2> QED
    BY <1>5, <2>2, <2>3, <2>5, <2>6, FitsIdle
<1>7. ASSUME NEW u \in Threads \ {t} PROVE Fits(r, want', owns', flag, u)
  <2>1. Fits(s, want, owns, flag, u) /\ owns[u] \in SUBSET Mutexes
    BY <1>4
  <2>2. SameFor(s, r, want, want', owns, owns', flag, flag, u)
    BY <1>1, <1>3, <1>5, <2>1 DEF SameFor
  <2> QED
    BY <1>4, <2>1, <2>2, FitsSame
<1> QED
  BY <1>1, <1>3, <1>4, <1>6, <1>7, GuestKeeps

LEMMA GuestResumeKeeps ==
    ASSUME KInv, NEW t \in Threads, GuestResume(t) PROVE KInv'
<1>1. /\ want' \in [Threads -> Mutexes \cup {0}]
      /\ seen' \in [Threads -> Threads \cup {NoThread}]
      /\ \A u \in Threads \ {t} : want'[u] = want[u] /\ seen'[u] = seen[u] /\ pc'[u] = pc[u]
      /\ \A u \in Threads : pc'[u] = "arbitrate_lock" => seen'[u] # u
      /\ pc' \in [Threads -> PcValues]
  BY ReturnsTypes DEF GuestResume
<1>2. tag' \in TagWords
  BY KernelFields DEF KInv, Coherent, Kernels, Records, GuestResume
<1>3. PICK s, r : /\ s = Kernel /\ r = Kernel' /\ GuestRecord(s, r)
                  /\ Coherent(s, want, owns, flag, alive)
                  /\ s.tag = tag /\ s.pc = pc /\ s.cv = cv /\ s.ref = ref
  BY <1>1, <1>2, GuestRecords DEF GuestResume
<1>4. /\ s \in Kernels /\ pc \in [Threads -> PcValues]
      /\ owns \in [Threads -> SUBSET Mutexes] /\ \A u \in Threads : Fits(s, want, owns, flag, u)
  BY <1>3 DEF Coherent, KInv, Kernels, Records
<1>5. r.tag = s.tag /\ r.cv = s.cv /\ r.ref = s.ref /\ r.pc = pc'
  BY <1>3 DEF GuestRecord, GuestResume
<1>6. /\ s.pc[t] \in {"resume", "cv_resume"}
      /\ owns' = [owns EXCEPT ![t] = IF s.pc[t] = "cv_resume" \/ s.tag[want[t]].owner = t
                                     THEN owns[t] \cup {want[t]} ELSE owns[t]]
      /\ pc' = [pc EXCEPT ![t] = "user"]
  BY <1>3 DEF GuestResume
<1>7. want[t] \in Mutexes /\ owns' \in [Threads -> SUBSET Mutexes]
  <2>1. want[t] \in Mutexes
    BY <1>4, <1>6 DEF Fits, WaitFits
  <2> QED
    BY <1>4, <1>6, <2>1
<1>8. Fits(r, want', owns', flag, t)
  <2>1. s.cv[t] = NoCV /\ s.ref[t] = NoRef
    BY <1>4, <1>6 DEF Fits, WaitFits, Waiting
  <2>2. \A a \in owns'[t] : s.tag[a].owner = t
    <3>1. \A a \in owns[t] : s.tag[a].owner = t
      BY <1>4 DEF Fits, OwnsFits
    <3>2. s.pc[t] = "cv_resume" => s.tag[want[t]].owner = t
      BY <1>4 DEF Fits, OwnsFits
    <3> QED
      BY <1>4, <1>6, <3>1, <3>2
  <2>3. \A a \in Mutexes : s.tag[a].owner = t => a \in owns'[t]
    <3>1. \A a \in Mutexes : s.tag[a].owner = t /\ a \notin owns[t] => want[t] = a
      BY <1>4, <1>6 DEF Fits, OwnsFits
    <3> QED
      BY <1>4, <1>6, <3>1
  <2>4. r.pc[t] = "user"
    BY <1>4, <1>5, <1>6
  <2> QED
    BY <1>5, <2>1, <2>2, <2>3, <2>4, FitsIdle
<1>9. ASSUME NEW u \in Threads \ {t} PROVE Fits(r, want', owns', flag, u)
  <2>1. Fits(s, want, owns, flag, u) /\ owns[u] \in SUBSET Mutexes /\ owns'[u] = owns[u]
    BY <1>4, <1>6
  <2>2. SameFor(s, r, want, want', owns, owns', flag, flag, u)
    BY <1>1, <1>3, <1>5, <2>1 DEF SameFor
  <2> QED
    BY <1>4, <2>1, <2>2, FitsSame
<1>10. UNCHANGED <<flag, lifeVars>> /\ \A u \in Threads : Fits(r, want', owns', flag, u)
  BY <1>8, <1>9 DEF GuestResume
<1> QED
  BY <1>1, <1>3, <1>7, <1>10, GuestKeeps

LEMMA GuestUnlockKeeps ==
    ASSUME KInv, NEW t \in Threads, NEW m \in Mutexes, GuestUnlock(t, m) PROVE KInv'
<1>1. tag' \in TagWords /\ pc' \in [Threads -> PcValues]
  <2>1. tag \in TagWords /\ pc \in [Threads -> PcValues]
    BY KernelFields DEF KInv, Coherent, Kernels, Records
  <2> QED
    BY <2>1 DEF GuestUnlock, TagWords, PcValues, InUser
<1>2. PICK s, r : /\ s = Kernel /\ r = Kernel' /\ GuestRecord(s, r)
                  /\ Coherent(s, want, owns, flag, alive)
                  /\ s.tag = tag /\ s.pc = pc /\ s.cv = cv /\ s.ref = ref
  BY <1>1, GuestRecords DEF GuestUnlock
<1>3. /\ s \in Kernels /\ want \in [Threads -> Mutexes \cup {0}]
      /\ owns \in [Threads -> SUBSET Mutexes] /\ \A u \in Threads : Fits(s, want, owns, flag, u)
      /\ s.pc \in [Threads -> PcValues] /\ s.tag \in TagWords
  BY <1>2 DEF Coherent, Kernels, Records
<1>4. /\ s.pc[t] = "user" /\ m \in owns[t] /\ owns' = [owns EXCEPT ![t] = owns[t] \ {m}]
      /\ \/ /\ s.tag[m] = [owner |-> t, waiters |-> FALSE]
            /\ r.tag = [s.tag EXCEPT ![m] = Free] /\ r.pc = s.pc /\ want' = want
         \/ /\ r.tag = s.tag /\ r.pc = [s.pc EXCEPT ![t] = "arbitrate_unlock"]
            /\ want' = [want EXCEPT ![t] = m]
      /\ r.cv = s.cv /\ r.ref = s.ref
  BY <1>2 DEF GuestUnlock, GuestRecord
<1>5. /\ s.cv[t] = NoCV /\ s.ref[t] = NoRef
      /\ \A a \in owns[t] : s.tag[a].owner = t
      /\ \A a \in Mutexes : s.tag[a].owner = t => a \in owns[t]
  <2>1. s.cv[t] = NoCV /\ s.ref[t] = NoRef
    BY <1>3, <1>4 DEF Fits, WaitFits, Waiting
  <2>2. \A a \in owns[t] : s.tag[a].owner = t
    BY <1>3 DEF Fits, OwnsFits
  <2> QED
    BY <1>3, <1>4, <2>1, <2>2 DEF Fits, OwnsFits, Between
<1>6. owns'[t] = owns[t] \ {m} /\ owns[t] \in SUBSET Mutexes /\ m \in Mutexes
  BY <1>3, <1>4
<1>7. Fits(r, want', owns', flag, t)
  <2>1. CASE /\ s.tag[m] = [owner |-> t, waiters |-> FALSE]
             /\ r.tag = [s.tag EXCEPT ![m] = Free] /\ r.pc = s.pc /\ want' = want
    <3>1. r.tag[m].owner = NoThread /\ \A a \in Mutexes \ {m} : r.tag[a] = s.tag[a]
      BY <1>3, <2>1 DEF TagWords, Free
    <3>2. \A a \in owns'[t] : r.tag[a].owner = t
      BY <1>5, <1>6, <3>1
    <3>3. \A a \in Mutexes : r.tag[a].owner = t => a \in owns'[t]
      BY <1>5, <1>6, <3>1, Ids
    <3> QED
      BY <1>4, <1>5, <2>1, <3>2, <3>3, FitsIdle
  <2>2. CASE /\ r.tag = s.tag /\ r.pc = [s.pc EXCEPT ![t] = "arbitrate_unlock"]
             /\ want' = [want EXCEPT ![t] = m]
    <3>1. r.pc[t] = "arbitrate_unlock" /\ want'[t] = m
      BY <1>3, <2>2
    <3>2. WaitFits(r, want', flag, t)
      BY <1>4, <1>5, <3>1 DEF WaitFits, Waiting
    <3>3. OwnsFits(r, want', owns', t)
      BY <1>4, <1>5, <1>6, <2>2, <3>1 DEF OwnsFits, Between, Waiting
    <3> QED
      BY <3>2, <3>3 DEF Fits
  <2> QED
    BY <1>4, <2>1, <2>2
<1>8. ASSUME NEW u \in Threads \ {t} PROVE Fits(r, want', owns', flag, u)
  <2>1. /\ Fits(s, want, owns, flag, u) /\ owns[u] \in SUBSET Mutexes /\ owns'[u] = owns[u]
        /\ want'[u] = want[u] /\ r.pc[u] = s.pc[u]
    BY <1>3, <1>4
  <2>2. /\ \A a \in Mutexes : r.tag[a].owner = u <=> s.tag[a].owner = u
        /\ \A a \in Mutexes : s.tag[a].waiters => r.tag[a] = s.tag[a]
    <3>1. CASE s.tag[m] = [owner |-> t, waiters |-> FALSE] /\ r.tag = [s.tag EXCEPT ![m] = Free]
      <4>1. r.tag[m].owner = NoThread /\ \A a \in Mutexes \ {m} : r.tag[a] = s.tag[a]
        BY <1>3, <3>1 DEF TagWords, Free
      <4> QED
        BY <3>1, <4>1, Ids
    <3>2. CASE r.tag = s.tag
      BY <3>2
    <3> QED
      BY <1>4, <3>1, <3>2
  <2>3. SameFor(s, r, want, want', owns, owns', flag, flag, u)
    BY <1>4, <2>1, <2>2 DEF SameFor
  <2> QED
    BY <1>3, <2>1, <2>3, FitsSame
<1>9. /\ owns' \in [Threads -> SUBSET Mutexes] /\ want' \in [Threads -> Mutexes \cup {0}]
      /\ seen' \in [Threads -> Threads \cup {NoThread}] /\ UNCHANGED <<flag, lifeVars>>
      /\ \A u \in Threads : pc'[u] = "arbitrate_lock" => seen'[u] # u
  <2>1. /\ \A u \in Threads : pc[u] = "arbitrate_lock" => seen[u] # u
        /\ seen \in [Threads -> Threads \cup {NoThread}]
    BY DEF KInv
  <2>2. pc' = pc \/ pc' = [pc EXCEPT ![t] = "arbitrate_unlock"]
    BY <1>2, <1>4 DEF GuestUnlock
  <2>3. \A u \in Threads : pc'[u] = "arbitrate_lock" => pc[u] = "arbitrate_lock"
    BY <1>2, <1>3, <2>2
  <2>4. seen' = seen /\ UNCHANGED <<flag, lifeVars>>
    BY DEF GuestUnlock
  <2>5. owns' \in [Threads -> SUBSET Mutexes] /\ want' \in [Threads -> Mutexes \cup {0}]
    BY <1>3, <1>4, <1>6
  <2> QED
    BY <2>1, <2>3, <2>4, <2>5
<1> QED
  BY <1>2, <1>7, <1>8, <1>9, GuestKeeps

LEMMA ArbitrateLockEnds ==
    ASSUME KInv, NEW t \in Threads,
           ArbitrateLockReturns(t) \/ ArbitrateLockFails(t) \/ Exit(t)
    PROVE  KInv'
<1>1. CASE ArbitrateLockReturns(t)
  BY <1>1, LeaveKeeps DEF ArbitrateLockReturns
<1>2. CASE ArbitrateLockFails(t)
  BY <1>2, LeaveKeeps DEF ArbitrateLockFails, InUser
<1>3. CASE Exit(t)
  BY <1>3, LeaveKeeps DEF Exit
<1> QED
  BY <1>1, <1>2, <1>3

-----------------------------------------------------------------------------
(* What the steps of the kernel have in common *)

\* All is coherent but for thread t, which is in the middle of a step.
CoherentBut(s, wanted, owned, flags, living, t) ==
    /\ s \in Kernels /\ Sound(s)
    /\ wanted \in [Threads -> Mutexes \cup {0}]
    /\ owned \in [Threads -> SUBSET Mutexes]
    /\ flags \in [CVs -> {0, 1}]
    /\ living \in [Threads -> BOOLEAN]
    /\ \A u \in Threads \ {t} : Fits(s, wanted, owned, flags, u)
    /\ \A u \in Threads : living[u] => Settled(s, u)

LEMMA CoherentIs ==
    ASSUME NEW s, NEW wanted, NEW owned, NEW flags, NEW living, NEW t \in Threads
    PROVE  Coherent(s, wanted, owned, flags, living) <=>
              /\ CoherentBut(s, wanted, owned, flags, living, t)
              /\ Fits(s, wanted, owned, flags, t)
<1>1. (\A u \in Threads : Fits(s, wanted, owned, flags, u)) <=>
         /\ \A u \in Threads \ {t} : Fits(s, wanted, owned, flags, u)
         /\ Fits(s, wanted, owned, flags, t)
  OBVIOUS
<1> QED
  BY <1>1 DEF Coherent, CoherentBut

\* Such a thread waits for nothing, and the words that name it are those of its
\* mutexes.
Loose(s, owned, t) ==
    /\ s.cv[t] = NoCV /\ s.ref[t] = NoRef
    /\ \A m \in Mutexes : s.tag[m].owner = t <=> m \in owned[t]

\* A step that is the same for everybody but t.
Moves(s, r, wanted, wanted2, owned, owned2, flags, flags2, living, t) ==
    /\ CoherentBut(s, wanted, owned, flags, living, t)
    /\ r \in Kernels /\ Sound(r) /\ SettledKept(s, r)
    /\ wanted2 \in [Threads -> Mutexes \cup {0}]
    /\ owned2 \in [Threads -> SUBSET Mutexes]
    /\ flags2 \in [CVs -> {0, 1}]
    /\ \A u \in Threads \ {t} :
          SameFor(s, r, wanted, wanted2, owned, owned2, flags, flags2, u)

LEMMA OthersFit ==
    ASSUME NEW s, NEW r, NEW wanted, NEW wanted2, NEW owned, NEW owned2, NEW flags, NEW flags2,
           NEW living, NEW t \in Threads,
           Moves(s, r, wanted, wanted2, owned, owned2, flags, flags2, living, t)
    PROVE  CoherentBut(r, wanted2, owned2, flags2, living, t)
<1>1. \A u \in Threads \ {t} : Fits(r, wanted2, owned2, flags2, u)
  <2> TAKE u \in Threads \ {t}
  <2>1. /\ s \in Kernels /\ Fits(s, wanted, owned, flags, u)
        /\ SameFor(s, r, wanted, wanted2, owned, owned2, flags, flags2, u)
    BY DEF Moves, CoherentBut
  <2> QED
    BY <2>1, FitsSame
<1>2. \A u \in Threads : living[u] => Settled(r, u)
  BY DEF Moves, CoherentBut, SettledKept
<1>3. living \in [Threads -> BOOLEAN]
  BY DEF Moves, CoherentBut
<1> QED
  BY <1>1, <1>2, <1>3 DEF Moves, CoherentBut

\* Thread w begins to wait for the mutex that thread o has, by AddWaiter.
Parks(s, wanted, owned, flags, living, w, o, a) ==
    /\ CoherentBut(s, wanted, owned, flags, living, w) /\ Loose(s, owned, w)
    /\ wanted[w] \in Mutexes /\ \A m \in owned[w] : m < wanted[w]
    /\ s.tag[wanted[w]] = [owner |-> o, waiters |-> TRUE]
    /\ a = AddWaiter(s, o, w, wanted[w])

\* A thread that waits for the mutex that thread o has.
Parked(r, wanted, owned, w, o) ==
    /\ r.cv[w] = NoCV /\ r.ref[w] = [owner |-> o, addr |-> wanted[w]]
    /\ r.tag[wanted[w]] = [owner |-> o, waiters |-> TRUE]
    /\ wanted[w] \in Mutexes /\ owned[w] \in SUBSET Mutexes
    /\ \A m \in Mutexes : r.tag[m].owner = w <=> m \in owned[w]
    /\ \A m \in owned[w] : m < wanted[w]

LEMMA ParkedFits ==
    ASSUME NEW r, NEW wanted, NEW owned, NEW flags, NEW w \in Threads, NEW o \in Threads,
           Parked(r, wanted, owned, w, o), r.pc[w] \in Waiting
    PROVE  Fits(r, wanted, owned, flags, w)
<1>1. r.ref[w] # NoRef /\ r.ref[w].owner = o /\ r.ref[w].addr = wanted[w]
  BY Ids DEF NoRef, Parked
<1>2. WaitFits(r, wanted, flags, w)
  BY <1>1 DEF WaitFits, Parked
<1>3. OwnsFits(r, wanted, owned, w)
  BY DEF OwnsFits, Waiting, Parked
<1> QED
  BY <1>2, <1>3 DEF Fits

LEMMA ParkSound ==
    ASSUME NEW s, NEW wanted, NEW owned, NEW flags, NEW living, NEW w \in Threads,
           NEW o \in Threads, NEW a, Parks(s, wanted, owned, flags, living, w, o, a)
    PROVE  /\ CoherentBut(a, wanted, owned, flags, living, w)
           /\ a.tag = s.tag /\ a.pc = s.pc /\ a.cv = s.cv /\ SettledKept(s, a)
           /\ Parked(a, wanted, owned, w, o)
<1> PICK m : m = wanted[w]
  OBVIOUS
<1>1. /\ CoherentBut(s, wanted, owned, flags, living, w) /\ m \in Mutexes
      /\ s.cv[w] = NoCV /\ s.ref[w] = NoRef
      /\ \A b \in Mutexes : s.tag[b].owner = w <=> b \in owned[w]
      /\ \A b \in owned[w] : b < m
      /\ s.tag[m] = [owner |-> o, waiters |-> TRUE]
      /\ s \in Kernels /\ Sound(s)
  BY DEF Parks, Loose, CoherentBut
<1>2. /\ owned \in [Threads -> SUBSET Mutexes]
      /\ \A u \in Threads \ {w} : Fits(s, wanted, owned, flags, u)
  BY <1>1 DEF CoherentBut
<1>3. s \in Records(TagWords, [Threads -> PcValues])
  BY <1>1 DEF Kernels
<1>4. o # w
  BY <1>1, Ids
<1>5. ~Waits(s, w)
  BY <1>1 DEF Waits, NoRef
<1>6. Waits(s, o) => m < s.ref[o].addr
  <2> SUFFICES ASSUME Waits(s, o) PROVE m < s.ref[o].addr
    OBVIOUS
  <2>1. WaitFits(s, wanted, flags, o) /\ OwnsFits(s, wanted, owned, o)
    BY <1>2, <1>4 DEF Fits
  <2>2. s.ref[o] # NoRef
    BY DEF Waits, NoRef
  <2>3. s.pc[o] \in Waiting /\ s.ref[o].addr = wanted[o]
    BY <2>1, <2>2 DEF WaitFits
  <2>4. m \in owned[o]
    BY <1>1, <2>1, <2>3 DEF OwnsFits, Waiting, Between
  <2> QED
    BY <2>1, <2>3, <2>4 DEF OwnsFits
<1>7. \A u \in Threads : s.ref[u].owner = w => s.ref[u].addr < m
  <2> TAKE u \in Threads
  <2> SUFFICES ASSUME s.ref[u].owner = w PROVE s.ref[u].addr < m
    OBVIOUS
  <2>1. s.ref[u] # NoRef
    BY Ids DEF NoRef
  <2>2. u # w
    BY <1>1, <2>1
  <2>3. WaitFits(s, wanted, flags, u)
    BY <1>2, <2>2 DEF Fits
  <2>4. s.ref[u].addr = wanted[u] /\ s.tag[wanted[u]].owner = w /\ wanted[u] \in Mutexes
    BY <2>1, <2>3 DEF WaitFits, Waiting
  <2> QED
    BY <1>1, <2>4
<1>8. a = AddWaiter(s, o, w, m)
  BY DEF Parks
<1>9. /\ a \in Kernels /\ Sound(a) /\ SettledKept(s, a)
      /\ a.cv = s.cv /\ a.tag = s.tag /\ a.pc = s.pc
      /\ a.ref = [s.ref EXCEPT ![w] = [owner |-> o, addr |-> m]]
  BY <1>1, <1>3, <1>4, <1>5, <1>6, <1>7, <1>8, AddWaiterSound DEF Kernels
<1>10. CoherentBut(a, wanted, owned, flags, living, w)
  <2>1. ASSUME NEW u \in Threads \ {w}
        PROVE  SameFor(s, a, wanted, wanted, owned, owned, flags, flags, u)
    <3>1. a.ref[u] = s.ref[u] /\ owned[u] \in SUBSET Mutexes
      BY <1>2, <1>3, <1>9 DEF Records
    <3> QED
      BY <1>9, <3>1 DEF SameFor
  <2>2. /\ wanted \in [Threads -> Mutexes \cup {0}] /\ flags \in [CVs -> {0, 1}]
    BY <1>1 DEF CoherentBut
  <2>3. Moves(s, a, wanted, wanted, owned, owned, flags, flags, living, w)
    BY <1>1, <1>2, <1>9, <2>1, <2>2 DEF Moves
  <2> QED
    BY <2>3, OthersFit
<1>11. Parked(a, wanted, owned, w, o)
  <2>1. a.ref[w] = [owner |-> o, addr |-> m]
    BY <1>3, <1>9 DEF Records
  <2>2. owned[w] \in SUBSET Mutexes
    BY <1>2
  <2> QED
    BY <1>1, <1>9, <2>1, <2>2 DEF Parked
<1> QED
  BY <1>9, <1>10, <1>11

\* Thread t is put at another place.
Placed(s, t, place, r) == r = [s EXCEPT !.pc[t] = place]

LEMMA PlaceSound ==
    ASSUME NEW s \in Kernels, NEW t \in Threads, NEW place \in PcValues, NEW r,
           Placed(s, t, place, r)
    PROVE  /\ r \in Kernels /\ (Sound(s) => Sound(r)) /\ SettledKept(s, r)
           /\ r.cv = s.cv /\ r.ref = s.ref /\ r.tag = s.tag /\ r.held = s.held
           /\ r.pc[t] = place /\ \A u \in Threads \ {t} : r.pc[u] = s.pc[u]
<1> DEFINE places == [s.pc EXCEPT ![t] = place]
<1>1. s.pc \in [Threads -> PcValues] /\ s \in Records(TagWords, [Threads -> PcValues])
  BY DEF Kernels, Records
<1>2. places \in [Threads -> PcValues] /\ places[t] = place
      /\ \A u \in Threads \ {t} : places[u] = s.pc[u]
  BY <1>1
<1>3. r = [s EXCEPT !.pc = places]
  BY DEF Placed
<1> HIDE DEF places
<1>4. r \in Kernels
  BY <1>1, <1>2, <1>3 DEF Records, Kernels
<1>5. /\ r.base = s.base /\ r.prio = s.prio /\ r.held = s.held /\ r.ref = s.ref /\ r.cv = s.cv
      /\ r.tree = s.tree /\ r.panic = s.panic /\ r.tag = s.tag /\ r.pc = places
  BY <1>1, <1>3 DEF Records
<1> QED
  BY <1>2, <1>4, <1>5, SoundSame

LEMMA PlaceMoves ==
    ASSUME NEW s, NEW wanted, NEW owned, NEW flags, NEW living, NEW t \in Threads,
           CoherentBut(s, wanted, owned, flags, living, t),
           NEW place \in PcValues, NEW r, Placed(s, t, place, r)
    PROVE  CoherentBut(r, wanted, owned, flags, living, t)
<1>1. /\ s \in Kernels /\ Sound(s) /\ wanted \in [Threads -> Mutexes \cup {0}]
      /\ owned \in [Threads -> SUBSET Mutexes] /\ flags \in [CVs -> {0, 1}]
  BY DEF CoherentBut
<1>2. /\ r \in Kernels /\ Sound(r) /\ SettledKept(s, r)
      /\ r.cv = s.cv /\ r.ref = s.ref /\ r.tag = s.tag
      /\ \A u \in Threads \ {t} : r.pc[u] = s.pc[u]
  BY <1>1, PlaceSound
<1>3. \A u \in Threads \ {t} :
          SameFor(s, r, wanted, wanted, owned, owned, flags, flags, u)
  BY <1>1, <1>2 DEF SameFor
<1>4. Moves(s, r, wanted, wanted, owned, owned, flags, flags, living, t)
  BY <1>1, <1>2, <1>3 DEF Moves
<1> QED
  BY <1>4, OthersFit

\* The word of mutex m is written.
Written(s, m, word, r) == r = [s EXCEPT !.tag[m] = word]

LEMMA WriteSound ==
    ASSUME NEW s \in Kernels, NEW m \in Mutexes,
           NEW word \in {Free} \cup [owner : Threads, waiters : BOOLEAN], NEW r,
           Written(s, m, word, r)
    PROVE  /\ r \in Kernels /\ (Sound(s) => Sound(r)) /\ SettledKept(s, r)
           /\ r.cv = s.cv /\ r.ref = s.ref /\ r.pc = s.pc /\ r.held = s.held
           /\ r.tag[m] = word /\ \A a \in Mutexes \ {m} : r.tag[a] = s.tag[a]
<1> DEFINE words == [s.tag EXCEPT ![m] = word]
<1>1. s.tag \in TagWords /\ s \in Records(TagWords, [Threads -> PcValues])
  BY DEF Kernels, Records
<1>2. words \in TagWords /\ words[m] = word
      /\ \A a \in Mutexes \ {m} : words[a] = s.tag[a]
  BY <1>1 DEF TagWords
<1>3. r = [s EXCEPT !.tag = words]
  BY DEF Written
<1> HIDE DEF words
<1>4. r \in Kernels
  BY <1>1, <1>2, <1>3 DEF Records, Kernels
<1>5. /\ r.base = s.base /\ r.prio = s.prio /\ r.held = s.held /\ r.ref = s.ref /\ r.cv = s.cv
      /\ r.tree = s.tree /\ r.panic = s.panic /\ r.tag = words /\ r.pc = s.pc
  BY <1>1, <1>3 DEF Records
<1> QED
  BY <1>2, <1>4, <1>5, SoundSame

\* A mutex that somebody owns stays with its owner, or passes to one of those who
\* wait for it with the owner, of the highest priority, or is free then.
WordsKept(s, r) ==
    \A m \in Mutexes : s.tag[m].owner # NoThread => r.tag[m].owner = s.tag[m].owner

WordsPass(s, r) ==
    \A m \in Mutexes :
       s.tag[m].owner # NoThread /\ r.tag[m].owner \notin {NoThread, s.tag[m].owner}
       => /\ r.tag[m].owner \in Waiters(s, s.tag[m].owner, m)
          /\ \A w \in Waiters(s, s.tag[m].owner, m) : s.prio[r.tag[m].owner] <= s.prio[w]

\* The step does what HandsToHighest says.
NextOwnerWaits ==
    \A m \in Mutexes :
       LET queue == {w \in Threads : ref[w] = [owner |-> tag[m].owner, addr |-> m]} IN
       /\ tag[m].owner # NoThread
       /\ tag'[m].owner \notin {NoThread, tag[m].owner}
       => /\ tag'[m].owner \in queue
          /\ \A w \in queue : prio[tag'[m].owner] <= prio[w]

LEMMA WordsPassOn ==
    ASSUME NEW s, s = Kernel, NEW r, SetKernel(r), WordsPass(s, r)
    PROVE  NextOwnerWaits
<1>1. s.tag = tag /\ s.ref = ref /\ s.prio = prio /\ r.tag = tag'
  BY KernelFields DEF SetKernel
<1> QED
  BY <1>1 DEF WordsPass, NextOwnerWaits, Waiters

\* What remains to be shown of a system call.
LEMMA KernelIs ==
    ASSUME NEW r \in Kernels, SetKernel(r)
    PROVE  Kernel' = r
<1>1. r = [base |-> r.base, prio |-> r.prio, held |-> r.held, ref |-> r.ref, cv |-> r.cv,
           tree |-> r.tree, panic |-> r.panic, tag |-> r.tag, pc |-> r.pc]
  BY DEF Kernels, Records
<1> QED
  BY <1>1 DEF SetKernel, Kernel

LEMMA CallKeeps ==
    ASSUME NEW r, SetKernel(r), KInv, Coherent(r, want', owns', flag', alive'),
           seen' \in [Threads -> Threads \cup {NoThread}],
           terminating' \in [Threads -> BOOLEAN],
           \A u \in Threads : r.pc[u] = "arbitrate_lock" => seen'[u] # u,
           NEW s, s = Kernel, WordsPass(s, r)
    PROVE  KInv' /\ NextOwnerWaits
<1>1. r \in Kernels
  BY DEF Coherent
<1>2. Kernel' = r
  BY <1>1, KernelIs
<1>3. pc' = r.pc
  BY DEF SetKernel
<1>4. KInv'
  BY <1>2, <1>3 DEF KInv
<1> QED
  BY <1>4, WordsPassOn

LEMMA ArbitrateLockWaitsKeeps ==
    ASSUME KInv, NEW t \in Threads, ArbitrateLockWaits(t)
    PROVE  KInv' /\ NextOwnerWaits
<1> PICK s : s = Kernel
  OBVIOUS
<1> PICK o : o = s.tag[want[t]].owner
  OBVIOUS
<1> PICK a : a = AddWaiter(s, o, t, want[t])
  OBVIOUS
<1> PICK r : Placed(a, t, "mutex_wait", r)
  BY DEF Placed
<1>1. /\ s \in Kernels /\ s.tag = tag /\ s.pc = pc /\ s.cv = cv /\ s.ref = ref
      /\ Coherent(s, want, owns, flag, alive) /\ Fits(s, want, owns, flag, t)
      /\ CoherentBut(s, want, owns, flag, alive, t)
      /\ \A u \in Threads : s.pc[u] = "arbitrate_lock" => seen[u] # u
      /\ seen \in [Threads -> Threads \cup {NoThread}]
      /\ terminating \in [Threads -> BOOLEAN]
  BY KernelFields, CoherentIs DEF KInv, Coherent
<1>2. /\ s.pc[t] = "arbitrate_lock" /\ s.tag[want[t]] = [owner |-> o, waiters |-> TRUE]
      /\ o = seen[t] /\ want[t] \in Mutexes
      /\ SetKernel(r) /\ UNCHANGED <<flag, guestVars, lifeVars>>
  <2>1. want[t] \in Mutexes
    BY <1>1 DEF ArbitrateLockWaits, Fits, WaitFits
  <2>2. r = [AddWaiter(Kernel, tag[want[t]].owner, t, want[t]) EXCEPT !.pc[t] = "mutex_wait"]
    BY <1>1 DEF Placed
  <2>3. SetKernel(r)
    BY <2>2 DEF ArbitrateLockWaits
  <2>4. s.tag[want[t]] = [owner |-> seen[t], waiters |-> TRUE]
    BY <1>1 DEF ArbitrateLockWaits, SameTag
  <2> QED
    BY <1>1, <2>1, <2>3, <2>4 DEF ArbitrateLockWaits
<1>3. o \in Threads
  <2>1. s.tag[want[t]] = Free \/ s.tag[want[t]].owner \in Threads
    BY <1>1, <1>2, TagOf
  <2>2. s.tag[want[t]] # Free
    BY <1>2 DEF Free
  <2> QED
    BY <2>1, <2>2
<1>4. Loose(s, owns, t) /\ \A b \in owns[t] : b < want[t]
  BY <1>1, <1>2 DEF Fits, WaitFits, OwnsFits, Loose, Waiting, Between, Coherent
<1>5. Parks(s, want, owns, flag, alive, t, o, a)
  BY <1>1, <1>2, <1>4 DEF Parks
<1>6. /\ CoherentBut(a, want, owns, flag, alive, t) /\ Parked(a, want, owns, t, o)
      /\ a.pc = s.pc /\ a.tag = s.tag /\ a \in Kernels
  <2>1. /\ CoherentBut(a, want, owns, flag, alive, t) /\ Parked(a, want, owns, t, o)
        /\ a.pc = s.pc /\ a.tag = s.tag
    BY <1>3, <1>5, ParkSound
  <2> QED
    BY <2>1 DEF CoherentBut
<1>7. /\ CoherentBut(r, want, owns, flag, alive, t)
      /\ r.cv = a.cv /\ r.ref = a.ref /\ r.tag = a.tag /\ r.pc[t] = "mutex_wait"
      /\ \A u \in Threads \ {t} : r.pc[u] = s.pc[u]
  <2>1. "mutex_wait" \in PcValues
    BY DEF PcValues, Waiting
  <2> QED
    BY <1>6, <2>1, PlaceSound, PlaceMoves
<1>8. Fits(r, want, owns, flag, t)
  <2>1. Parked(r, want, owns, t, o) /\ r.pc[t] \in Waiting
    BY <1>6, <1>7 DEF Parked, Waiting
  <2> QED
    BY <1>3, <2>1, ParkedFits
<1>9. Coherent(r, want, owns, flag, alive)
  BY <1>7, <1>8, CoherentIs
<1>10. want' = want /\ owns' = owns /\ seen' = seen /\ flag' = flag /\ alive' = alive
       /\ terminating' = terminating
  BY <1>2 DEF guestVars, lifeVars
<1>11. Coherent(r, want', owns', flag', alive')
  BY <1>9, <1>10
<1>12. \A u \in Threads : r.pc[u] = "arbitrate_lock" => seen'[u] # u
  BY <1>1, <1>7, <1>10
<1>13. WordsPass(s, r)
  BY <1>6, <1>7 DEF WordsPass
<1> QED
  BY <1>1, <1>2, <1>10, <1>11, <1>12, <1>13, CallKeeps

-----------------------------------------------------------------------------
(* A mutex is given up *)

\* The mutex goes to thread n, one of the highest priority among those that wait
\* for it with t, and the others wait for n.
Hands(s, g, t, m, n) ==
    /\ n \in Waiters(s, t, m) /\ \A w \in Waiters(s, t, m) : s.prio[n] <= s.prio[w]
    /\ g.cv = s.cv /\ g.ref = HandedRef(s, Waiters(s, t, m), n, m)
    /\ g.tag[m].owner = n
    /\ \A w \in Waiters(s, t, m) \ {n} : g.tag[m] = [owner |-> n, waiters |-> TRUE]
    /\ \A a \in Mutexes \ {m} : g.tag[a] = s.tag[a]
    /\ g.pc[n] \in {"resume", "cv_resume"} /\ \A u \in Threads \ {n} : g.pc[u] = s.pc[u]

\* Nobody waits for the mutex, and it is free.
Frees(s, g, t, m) ==
    /\ Waiters(s, t, m) = {}
    /\ g.cv = s.cv /\ g.ref = s.ref /\ g.tag[m] = Free
    /\ \A a \in Mutexes \ {m} : g.tag[a] = s.tag[a]
    /\ g.pc = s.pc

LEMMA GiveUpSound ==
    ASSUME NEW s \in Kernels, Sound(s), NEW t \in Threads, NEW m \in Mutexes,
           NEW g, g = GiveUp(s, t, m)
    PROVE  /\ g \in Kernels /\ Sound(g) /\ SettledKept(s, g)
           /\ Frees(s, g, t, m) \/ \E n \in Threads : Hands(s, g, t, m, n)
<1>1. s \in Records(TagWords, [Threads -> PcValues]) /\ HeldAgrees(s, {})
  BY DEF Kernels, Sound
<1>2. CASE s.held[t][m] = {}
  <2>1. Written(s, m, Free, g)
    BY <1>2 DEF GiveUp, Written
  <2>2. /\ g \in Kernels /\ Sound(g) /\ SettledKept(s, g)
        /\ g.cv = s.cv /\ g.ref = s.ref /\ g.pc = s.pc /\ g.tag[m] = Free
        /\ \A a \in Mutexes \ {m} : g.tag[a] = s.tag[a]
    BY <2>1, WriteSound
  <2>3. Waiters(s, t, m) = {}
    <3>1. s.held[t][m] = KeysOf(s, Waiters(s, t, m) \ {})
      BY <1>1 DEF HeldAgrees
    <3> QED
      BY <1>2, <3>1 DEF KeysOf
  <2> QED
    BY <2>2, <2>3 DEF Frees
<1>3. CASE s.held[t][m] # {}
  <2> PICK n : n = Highest(s.held[t][m]).thread
    OBVIOUS
  <2> PICK h : h = HandOver(s, t, m)
    OBVIOUS
  <2> PICK W : W = Waiters(s, t, m)
    OBVIOUS
  <2>1. n \in W /\ \A w \in W : s.prio[n] <= s.prio[w]
    BY <1>1, <1>3, FirstWaiter
  <2>2. n \in Threads /\ W \subseteq Threads
    BY <2>1 DEF Waiters
  <2>3. /\ h \in Kernels /\ Sound(h) /\ SettledKept(s, h) /\ h.cv = s.cv /\ h.tag = s.tag
        /\ h.pc = s.pc /\ h.ref = HandedRef(s, W, n, m)
    <3>1. /\ h \in Records(TagWords, [Threads -> PcValues]) /\ Sound(h) /\ SettledKept(s, h)
          /\ h.cv = s.cv /\ h.tag = s.tag /\ h.pc = s.pc /\ h.ref = HandedRef(s, W, n, m)
      BY <1>1, <1>3, HandOverSound
    <3> QED
      BY <3>1 DEF Kernels
  <2> PICK word : word = NextTag(h, n, m)
    OBVIOUS
  <2>4. word \in [owner : Threads, waiters : BOOLEAN] /\ word.owner = n
    BY <2>2 DEF NextTag
  <2>5. W # {n} => word = [owner |-> n, waiters |-> TRUE]
    <3> SUFFICES ASSUME NEW w \in W, w # n PROVE word = [owner |-> n, waiters |-> TRUE]
      BY <2>1
    <3>1. h.ref[w] = [owner |-> n, addr |-> m]
      BY <2>2, <2>3 DEF HandedRef
    <3>2. w \in Waiters(h, n, m) \ {}
      BY <2>2, <3>1 DEF Waiters
    <3>3. h.held[n][m] = KeysOf(h, Waiters(h, n, m) \ {})
      BY <2>2, <2>3 DEF Sound, HeldAgrees
    <3>4. h.held[n][m] # {}
      BY <3>2, <3>3 DEF KeysOf
    <3>5. (h.held[n][m] # {}) = TRUE
      BY <3>4, Zenon
    <3>6. word = [owner |-> n, waiters |-> h.held[n][m] # {}]
      BY Zenon DEF NextTag
    <3> QED
      BY <3>5, <3>6, Zenon
  <2> PICK x : Written(h, m, word, x)
    BY DEF Written
  <2>6. /\ x \in Kernels /\ Sound(x) /\ SettledKept(h, x)
        /\ x.cv = h.cv /\ x.ref = h.ref /\ x.pc = h.pc /\ x.tag[m] = word
        /\ \A a \in Mutexes \ {m} : x.tag[a] = h.tag[a]
    BY <2>3, <2>4, WriteSound
  <2> PICK place : place = IF x.pc[n] = "cv_wait" THEN "cv_resume" ELSE "resume"
    OBVIOUS
  <2>7. place \in {"resume", "cv_resume"} /\ place \in PcValues
    BY DEF PcValues, InUser
  <2>8. Placed(x, n, place, g)
    <3>1. g = Wake([h EXCEPT !.tag[m] = NextTag(h, n, m)], n)
      BY <1>3, Zenon DEF GiveUp
    <3>2. x = [h EXCEPT !.tag[m] = NextTag(h, n, m)]
      BY Zenon DEF Written
    <3>3. g = Wake(x, n)
      BY <3>1, <3>2, Zenon
    <3> QED
      BY <3>3 DEF Wake, Placed
  <2>9. /\ g \in Kernels /\ Sound(g) /\ SettledKept(x, g)
        /\ g.cv = x.cv /\ g.ref = x.ref /\ g.tag = x.tag /\ g.pc[n] = place
        /\ \A u \in Threads \ {n} : g.pc[u] = x.pc[u]
    BY <2>2, <2>6, <2>7, <2>8, PlaceSound
  <2>10. SettledKept(s, g)
    BY <2>3, <2>6, <2>9, Zenon DEF SettledKept
  <2>11. Hands(s, g, t, m, n)
    <3>1. g.cv = s.cv /\ g.ref = HandedRef(s, W, n, m)
      BY <2>3, <2>6, <2>9
    <3>2. g.tag[m] = word /\ \A a \in Mutexes \ {m} : g.tag[a] = s.tag[a]
      BY <2>3, <2>6, <2>9
    <3>3. \A w \in W \ {n} : g.tag[m] = [owner |-> n, waiters |-> TRUE]
      BY <2>5, <3>2
    <3>4. g.pc[n] \in {"resume", "cv_resume"} /\ \A u \in Threads \ {n} : g.pc[u] = s.pc[u]
      BY <2>3, <2>6, <2>7, <2>9
    <3> QED
      BY <2>1, <2>4, <3>1, <3>2, <3>3, <3>4 DEF Hands
  <2> QED
    BY <2>2, <2>9, <2>10, <2>11
<1> QED
  BY <1>2, <1>3

\* Thread t gives up mutex m, which it owns, and then takes itself to hold owned2.
GivesUp(s, g, wanted, owned, owned2, flags, living, t, m) ==
    /\ CoherentBut(s, wanted, owned, flags, living, t)
    /\ s.cv[t] = NoCV /\ s.ref[t] = NoRef /\ m \in Mutexes /\ s.tag[m].owner = t
    /\ \A a \in Mutexes \ {m} : s.tag[a].owner = t <=> a \in owned[t]
    /\ owned2 \in [Threads -> SUBSET Mutexes] /\ owned2[t] = owned[t] \ {m}
    /\ \A u \in Threads \ {t} : owned2[u] = owned[u]
    /\ g = GiveUp(s, t, m)

\* What thread u waits for is not m if it does not wait for t.
LEMMA WaitsElsewhere ==
    ASSUME NEW s \in Kernels, NEW wanted, NEW flags, NEW u \in Threads,
           WaitFits(s, wanted, flags, u), s.ref[u] # NoRef,
           NEW m \in Mutexes, s.ref[u].addr = m
    PROVE  wanted[u] = m /\ u \in Waiters(s, s.tag[m].owner, m)
<1>1. s \in Records(TagWords, [Threads -> PcValues])
  BY DEF Kernels
<1>2. wanted[u] = m /\ s.tag[m] = [owner |-> s.ref[u].owner, waiters |-> TRUE]
  BY DEF WaitFits
<1>3. s.tag[m].owner = s.ref[u].owner
  BY <1>2
<1>4. Waits(s, u)
  BY <1>1, RefOf
<1>5. u \in Waiters(s, s.ref[u].owner, s.ref[u].addr)
  BY <1>1, <1>4, RefOf
<1> QED
  BY <1>2, <1>3, <1>5

LEMMA GivesUpFrees ==
    ASSUME NEW s, NEW g, NEW wanted, NEW owned, NEW owned2, NEW flags, NEW living,
           NEW t \in Threads, NEW m, GivesUp(s, g, wanted, owned, owned2, flags, living, t, m),
           Frees(s, g, t, m), NEW u \in Threads \ {t}
    PROVE  Fits(g, wanted, owned2, flags, u)
<1>1. /\ s \in Kernels /\ Fits(s, wanted, owned, flags, u) /\ m \in Mutexes
      /\ owned \in [Threads -> SUBSET Mutexes] /\ s.tag[m].owner = t /\ owned2[u] = owned[u]
  BY DEF GivesUp, CoherentBut
<1>2. WaitFits(s, wanted, flags, u)
  BY <1>1 DEF Fits
<1>3. \A a \in Mutexes : g.tag[a].owner = u <=> s.tag[a].owner = u
  BY <1>1, Ids DEF Frees, Free
<1>4. ~(s.ref[u] # NoRef /\ s.ref[u].addr = m)
  BY <1>1, <1>2, WaitsElsewhere DEF Frees
<1>5. SameFor(s, g, wanted, wanted, owned, owned2, flags, flags, u)
  BY <1>1, <1>3, <1>4 DEF SameFor, Frees
<1> QED
  BY <1>1, <1>5, FitsSame

LEMMA GivesUpHands ==
    ASSUME NEW s, NEW g, NEW wanted, NEW owned, NEW owned2, NEW flags, NEW living,
           NEW t \in Threads, NEW m, GivesUp(s, g, wanted, owned, owned2, flags, living, t, m),
           NEW n \in Threads, Hands(s, g, t, m, n), NEW u \in Threads \ {t}
    PROVE  n # t /\ Fits(g, wanted, owned2, flags, u)
<1>1. /\ s \in Kernels /\ Fits(s, wanted, owned, flags, u) /\ m \in Mutexes
      /\ owned[u] \in SUBSET Mutexes /\ s.tag[m].owner = t /\ owned2[u] = owned[u]
      /\ s.ref[t] = NoRef
  BY DEF GivesUp, CoherentBut
<1>2. WaitFits(s, wanted, flags, u) /\ OwnsFits(s, wanted, owned, u)
  BY <1>1 DEF Fits
<1>3. s \in Records(TagWords, [Threads -> PcValues])
  BY <1>1 DEF Kernels
<1>4. \A w \in Waiters(s, t, m) :
          w \in Threads /\ s.ref[w] # NoRef /\ s.ref[w].owner = t /\ s.ref[w].addr = m
  BY Ids DEF Waiters, NoRef
<1>5. n # t
  BY <1>1, <1>4 DEF Hands
<1>6. \A a \in Mutexes \ {m} : g.tag[a].owner = u <=> s.tag[a].owner = u
  BY DEF Hands
<1>7. s.tag[m].owner # u /\ m \notin owned[u]
  BY <1>1, <1>2 DEF OwnsFits
<1>8. CASE u = n
  <2>1. s.ref[u] # NoRef /\ s.ref[u].owner = t /\ s.ref[u].addr = m
    BY <1>4, <1>8 DEF Hands
  <2>2. wanted[u] = m /\ s.pc[u] \in Waiting /\ s.cv[u] = NoCV
    BY <1>2, <2>1 DEF WaitFits
  <2>3. g.cv[u] = NoCV /\ g.ref[u] = NoRef /\ g.pc[u] \in {"resume", "cv_resume"}
    BY <1>8, <2>2 DEF Hands, HandedRef
  <2>4. WaitFits(g, wanted, flags, u)
    BY <1>1, <2>2, <2>3 DEF WaitFits, Waiting
  <2>5. g.tag[m].owner = u
    BY <1>8 DEF Hands
  <2>6. OwnsFits(g, wanted, owned2, u)
    <3>1. \A a \in owned2[u] : g.tag[a].owner = u
      BY <1>1, <1>2, <1>6, <1>7 DEF OwnsFits
    <3>2. \A a \in Mutexes : g.tag[a].owner = u /\ a \notin owned2[u] => a = m
      BY <1>1, <1>2, <1>6, <2>2 DEF OwnsFits, Waiting, Between
    <3> QED
      BY <2>2, <2>3, <2>5, <3>1, <3>2 DEF OwnsFits, Between, Waiting
  <2> QED
    BY <1>5, <2>4, <2>6 DEF Fits
<1>9. CASE u # n /\ u \in Waiters(s, t, m)
  <2>1. s.ref[u] # NoRef /\ s.ref[u].owner = t /\ s.ref[u].addr = m
    BY <1>4, <1>9
  <2>2. wanted[u] = m /\ s.pc[u] \in Waiting /\ s.cv[u] = NoCV
    BY <1>2, <2>1 DEF WaitFits
  <2>3. /\ g.cv[u] = NoCV /\ g.ref[u] = [owner |-> n, addr |-> m] /\ g.pc[u] = s.pc[u]
        /\ g.tag[m] = [owner |-> n, waiters |-> TRUE]
    BY <1>9, <2>2 DEF Hands, HandedRef
  <2>4. Parked(g, wanted, owned2, u, n)
    <3>1. \A a \in Mutexes : s.tag[a].owner = u <=> a \in owned[u]
      BY <1>1, <1>2, <2>2 DEF OwnsFits, Waiting, Between
    <3>2. \A a \in Mutexes : g.tag[a].owner = u <=> a \in owned2[u]
      BY <1>1, <1>6, <1>7, <1>9, <2>3, <3>1
    <3>3. \A a \in owned2[u] : a < wanted[u]
      BY <1>1, <1>2, <2>2 DEF OwnsFits
    <3> QED
      BY <1>1, <2>2, <2>3, <3>2, <3>3 DEF Parked
  <2> QED
    BY <1>5, <2>2, <2>3, <2>4, ParkedFits
<1>10. CASE u # n /\ u \notin Waiters(s, t, m)
  <2>1. ~(s.ref[u] # NoRef /\ s.ref[u].addr = m)
    BY <1>1, <1>2, <1>10, WaitsElsewhere
  <2>2. /\ g.cv[u] = s.cv[u] /\ g.ref[u] = s.ref[u] /\ g.pc[u] = s.pc[u]
    BY <1>10 DEF Hands, HandedRef
  <2>3. \A a \in Mutexes : g.tag[a].owner = u <=> s.tag[a].owner = u
    BY <1>6, <1>7, <1>10 DEF Hands
  <2>4. SameFor(s, g, wanted, wanted, owned, owned2, flags, flags, u)
    BY <1>1, <2>1, <2>2, <2>3 DEF SameFor, Hands
  <2> QED
    BY <1>1, <1>5, <2>4, FitsSame
<1> QED
  BY <1>8, <1>9, <1>10

LEMMA GivesUpSound ==
    ASSUME NEW s, NEW g, NEW wanted, NEW owned, NEW owned2, NEW flags, NEW living,
           NEW t \in Threads, NEW m, GivesUp(s, g, wanted, owned, owned2, flags, living, t, m)
    PROVE  /\ CoherentBut(g, wanted, owned2, flags, living, t)
           /\ Loose(g, owned2, t) /\ SettledKept(s, g) /\ g.pc[t] = s.pc[t]
           /\ Frees(s, g, t, m) \/ \E n \in Threads \ {t} : Hands(s, g, t, m, n)
           /\ \A u \in Threads : g.pc[u] = s.pc[u] \/ g.pc[u] \in {"resume", "cv_resume"}
<1>1. /\ s \in Kernels /\ Sound(s) /\ m \in Mutexes /\ CoherentBut(s, wanted, owned, flags, living, t)
      /\ s.cv[t] = NoCV /\ s.ref[t] = NoRef /\ s.tag[m].owner = t
      /\ \A a \in Mutexes \ {m} : s.tag[a].owner = t <=> a \in owned[t]
      /\ owned2 \in [Threads -> SUBSET Mutexes] /\ owned2[t] = owned[t] \ {m}
  BY DEF GivesUp, CoherentBut
<1>2. /\ g \in Kernels /\ Sound(g) /\ SettledKept(s, g)
      /\ Frees(s, g, t, m) \/ \E n \in Threads : Hands(s, g, t, m, n)
  BY <1>1, GiveUpSound DEF GivesUp
<1>3. ASSUME \A u \in Threads \ {t} : Fits(g, wanted, owned2, flags, u)
      PROVE  CoherentBut(g, wanted, owned2, flags, living, t)
  <2>1. \A u \in Threads : living[u] => Settled(g, u)
    BY <1>1, <1>2 DEF CoherentBut, SettledKept
  <2>2. /\ wanted \in [Threads -> Mutexes \cup {0}] /\ flags \in [CVs -> {0, 1}]
        /\ living \in [Threads -> BOOLEAN]
    BY <1>1 DEF CoherentBut
  <2> QED
    BY <1>1, <1>2, <1>3, <2>1, <2>2 DEF CoherentBut
<1>4. CASE Frees(s, g, t, m)
  <2>1. CoherentBut(g, wanted, owned2, flags, living, t)
    BY <1>3, <1>4, GivesUpFrees
  <2>2. Loose(g, owned2, t)
    BY <1>1, <1>4, Ids DEF Loose, Frees, Free
  <2> QED
    BY <1>2, <1>4, <2>1, <2>2 DEF Frees
<1>5. CASE \E n \in Threads : Hands(s, g, t, m, n)
  <2> PICK n \in Threads : Hands(s, g, t, m, n)
    BY <1>5
  <2>1. n # t
    BY <1>1, Ids DEF Hands, Waiters, NoRef
  <2>2. CoherentBut(g, wanted, owned2, flags, living, t)
    BY <1>3, GivesUpHands
  <2>3. Loose(g, owned2, t)
    <3>1. t \notin Waiters(s, t, m)
      BY <1>1, Ids DEF Waiters, NoRef
    <3> QED
      BY <1>1, <2>1, <3>1 DEF Loose, Hands, HandedRef
  <2> QED
    BY <1>2, <2>1, <2>2, <2>3 DEF Hands
<1> QED
  BY <1>2, <1>4, <1>5

\* A mutex that is given up passes to one of its waiters.
LEMMA GivesUpPasses ==
    ASSUME NEW s, NEW t, NEW m, s.tag[m].owner = t, NEW g, NEW r, r.tag = g.tag,
           Frees(s, g, t, m) \/ \E n \in Threads \ {t} : Hands(s, g, t, m, n)
    PROVE  WordsPass(s, r)
<1>1. CASE Frees(s, g, t, m)
  BY <1>1 DEF Frees, Free, WordsPass
<1>2. CASE \E n \in Threads \ {t} : Hands(s, g, t, m, n)
  BY <1>2 DEF Hands, WordsPass
<1> QED
  BY <1>1, <1>2

\* What the calls that give up a mutex start from.
LEMMA KernelNow ==
    ASSUME KInv, NEW t \in Threads
    PROVE  \E s : /\ s = Kernel /\ s \in Kernels /\ s.tag = tag /\ s.pc = pc /\ s.cv = cv
                  /\ s.ref = ref
                  /\ CoherentBut(s, want, owns, flag, alive, t) /\ Fits(s, want, owns, flag, t)
                  /\ Coherent(s, want, owns, flag, alive)
                  /\ \A u \in Threads : s.pc[u] = "arbitrate_lock" => seen[u] # u
<1> PICK s : s = Kernel
  OBVIOUS
<1>1. Coherent(s, want, owns, flag, alive)
  BY DEF KInv
<1>2. CoherentBut(s, want, owns, flag, alive, t) /\ Fits(s, want, owns, flag, t)
  BY <1>1, CoherentIs
<1>3. s \in Kernels /\ s.tag = tag /\ s.pc = pc /\ s.cv = cv /\ s.ref = ref
  BY <1>1, KernelFields DEF Coherent
<1>4. \A u \in Threads : s.pc[u] = "arbitrate_lock" => seen[u] # u
  BY <1>3 DEF KInv
<1> QED
  BY <1>1, <1>2, <1>3, <1>4

LEMMA ArbitrateUnlockKeeps ==
    ASSUME KInv, NEW t \in Threads, ArbitrateUnlock(t) PROVE KInv' /\ NextOwnerWaits
<1> PICK s : /\ s = Kernel /\ s \in Kernels /\ s.tag = tag /\ s.pc = pc /\ s.cv = cv /\ s.ref = ref
             /\ CoherentBut(s, want, owns, flag, alive, t) /\ Fits(s, want, owns, flag, t)
             /\ \A u \in Threads : s.pc[u] = "arbitrate_lock" => seen[u] # u
  BY KernelNow
<1> PICK m : m = want[t]
  OBVIOUS
<1> PICK g : g = GiveUp(s, t, m)
  OBVIOUS
<1> PICK x : x = RestorePriority(g, t)
  OBVIOUS
<1> PICK r : Placed(x, t, "user", r)
  BY DEF Placed
<1>1. /\ s.pc[t] = "arbitrate_unlock" /\ Returns(t) /\ UNCHANGED <<flag, owns, lifeVars>>
      /\ SetKernel(r)
  <2>1. r = [RestorePriority(GiveUp(Kernel, t, want[t]), t) EXCEPT !.pc[t] = "user"]
    BY DEF Placed
  <2>2. SetKernel(r)
    BY <2>1 DEF ArbitrateUnlock
  <2> QED
    BY <2>2 DEF ArbitrateUnlock
<1>2. /\ want \in [Threads -> Mutexes \cup {0}] /\ owns \in [Threads -> SUBSET Mutexes]
      /\ WaitFits(s, want, flag, t) /\ OwnsFits(s, want, owns, t)
  BY DEF CoherentBut, Fits
<1>3. /\ m \in Mutexes /\ s.cv[t] = NoCV /\ s.ref[t] = NoRef /\ s.tag[m].owner = t
      /\ m \notin owns[t] /\ \A a \in Mutexes \ {m} : s.tag[a].owner = t <=> a \in owns[t]
  <2>1. m \in Mutexes /\ s.cv[t] = NoCV /\ s.ref[t] = NoRef
    BY <1>1, <1>2 DEF WaitFits, Waiting
  <2> QED
    BY <1>1, <1>2, <2>1 DEF OwnsFits
<1>4. owns[t] = owns[t] \ {m}
  BY <1>3
<1>5. GivesUp(s, g, want, owns, owns, flag, alive, t, m)
  BY <1>2, <1>3, <1>4 DEF GivesUp
<1>6. /\ CoherentBut(g, want, owns, flag, alive, t) /\ Loose(g, owns, t)
      /\ Frees(s, g, t, m) \/ \E n \in Threads \ {t} : Hands(s, g, t, m, n)
      /\ \A u \in Threads : g.pc[u] = s.pc[u] \/ g.pc[u] \in {"resume", "cv_resume"}
  BY <1>5, GivesUpSound
<1>7. /\ g \in Kernels /\ Sound(g) /\ g \in Records(TagWords, [Threads -> PcValues])
      /\ flag \in [CVs -> {0, 1}]
  BY <1>6 DEF CoherentBut, Kernels
<1>8. /\ x \in Kernels /\ Sound(x) /\ SettledKept(g, x)
      /\ x.ref = g.ref /\ x.cv = g.cv /\ x.tag = g.tag /\ x.pc = g.pc
  <2>1. HeldAgrees(g, {}) /\ TreesAgree(g) /\ Ascends(g) /\ ~g.panic /\ Clear(g, {}, t)
    BY <1>7 DEF Sound, Clear
  <2>2. x \in Records(TagWords, [Threads -> PcValues]) /\ Restored(g, {}, t, x)
    BY <1>7, <2>1, RestoreSettles
  <2>3. SameLinks(g, x) /\ HeldAgrees(x, {}) /\ TreesAgree(x) /\ SettledKept(g, x)
    BY <2>2 DEF Restored, SettledKept
  <2>4. Ascends(x) /\ ~x.panic
    BY <2>1, <2>3, WaitersSame DEF SameLinks
  <2> QED
    BY <2>2, <2>3, <2>4 DEF Kernels, Sound, SameLinks
<1>9. CoherentBut(x, want, owns, flag, alive, t)
  <2>1. \A u \in Threads \ {t} :
            SameFor(g, x, want, want, owns, owns, flag, flag, u)
    BY <1>2, <1>8 DEF SameFor
  <2>2. Moves(g, x, want, want, owns, owns, flag, flag, alive, t)
    BY <1>2, <1>6, <1>7, <1>8, <2>1 DEF Moves
  <2> QED
    BY <2>2, OthersFit
<1>10. /\ r \in Kernels /\ Sound(r) /\ SettledKept(x, r)
       /\ r.cv = x.cv /\ r.ref = x.ref /\ r.tag = x.tag /\ r.pc[t] = "user"
       /\ \A u \in Threads \ {t} : r.pc[u] = x.pc[u]
  <2>1. "user" \in PcValues
    BY DEF PcValues, InUser
  <2> QED
    BY <1>8, <2>1, PlaceSound
<1>11. /\ want' = [want EXCEPT ![t] = 0] /\ seen' = [seen EXCEPT ![t] = NoThread]
       /\ owns' = owns /\ flag' = flag /\ alive' = alive /\ terminating' = terminating
  BY <1>1 DEF Returns, lifeVars
<1>12. CoherentBut(r, want', owns', flag', alive', t)
  <2>1. \A u \in Threads \ {t} : want'[u] = want[u] /\ owns'[u] = owns[u]
    BY <1>2, <1>11
  <2>2. \A u \in Threads \ {t} :
            SameFor(x, r, want, want', owns, owns', flag, flag', u)
    BY <1>2, <1>10, <1>11, <2>1 DEF SameFor
  <2>3. want' \in [Threads -> Mutexes \cup {0}]
    BY <1>2, <1>11
  <2>4. Moves(x, r, want, want', owns, owns', flag, flag', alive, t)
    BY <1>2, <1>7, <1>9, <1>10, <1>11, <2>2, <2>3 DEF Moves
  <2> QED
    BY <1>11, <2>4, OthersFit
<1>13. Fits(r, want', owns', flag', t)
  <2>1. r.cv[t] = NoCV /\ r.ref[t] = NoRef /\ \A a \in Mutexes : r.tag[a].owner = t <=> a \in owns'[t]
    BY <1>6, <1>8, <1>10, <1>11 DEF Loose
  <2>2. \A a \in owns'[t] : r.tag[a].owner = t
    BY <1>2, <1>11, <2>1
  <2> QED
    BY <1>10, <2>1, <2>2, FitsIdle
<1>14. Coherent(r, want', owns', flag', alive')
  BY <1>12, <1>13, CoherentIs
<1>15. /\ seen \in [Threads -> Threads \cup {NoThread}] /\ terminating \in [Threads -> BOOLEAN]
  BY DEF KInv
<1>16. \A u \in Threads : r.pc[u] = "arbitrate_lock" => seen'[u] # u
  BY <1>6, <1>8, <1>10, <1>11, <1>15
<1>17. seen' \in [Threads -> Threads \cup {NoThread}] /\ terminating' \in [Threads -> BOOLEAN]
  BY <1>11, <1>15
<1>18. WordsPass(s, r)
  <2>1. r.tag = g.tag
    BY <1>8, <1>10
  <2> QED
    BY <1>3, <1>6, <2>1, GivesUpPasses
<1> QED
  BY <1>1, <1>14, <1>16, <1>17, <1>18, CallKeeps

\* The first half of a wait on a condition variable, whatever its timeout is.
WaitBegins(t, m, s, g) ==
    /\ MayWait(t, m) /\ owns' = [owns EXCEPT ![t] = @ \ {m}]
    /\ s = Kernel /\ g = GiveUp(s, t, m)

LEMMA WaitGivesUp ==
    ASSUME KInv, NEW t \in Threads, NEW m \in Mutexes, NEW s, NEW g, WaitBegins(t, m, s, g)
    PROVE  /\ CoherentBut(g, want, owns', flag, alive, t) /\ Loose(g, owns', t)
           /\ g.pc[t] = "user" /\ owns' \in [Threads -> SUBSET Mutexes]
           /\ owns'[t] = owns[t] \ {m} /\ owns[t] \in SUBSET Mutexes
           /\ \A u \in Threads : g.pc[u] = "arbitrate_lock" => seen[u] # u
           /\ \A r : r.tag = g.tag => WordsPass(s, r)
<1>1. /\ s.tag = tag /\ s.pc = pc /\ s.cv = cv /\ s.ref = ref
      /\ CoherentBut(s, want, owns, flag, alive, t) /\ Fits(s, want, owns, flag, t)
      /\ \A u \in Threads : s.pc[u] = "arbitrate_lock" => seen[u] # u
  BY KernelNow DEF WaitBegins
<1>2. /\ s.pc[t] = "user" /\ m \in owns[t]
  BY <1>1 DEF MayWait, WaitBegins
<1>3. /\ want \in [Threads -> Mutexes \cup {0}] /\ owns \in [Threads -> SUBSET Mutexes]
      /\ WaitFits(s, want, flag, t) /\ OwnsFits(s, want, owns, t)
  BY <1>1 DEF CoherentBut, Fits
<1>4. /\ s.cv[t] = NoCV /\ s.ref[t] = NoRef
      /\ \A a \in Mutexes : s.tag[a].owner = t <=> a \in owns[t]
  <2>1. s.cv[t] = NoCV /\ s.ref[t] = NoRef
    BY <1>2, <1>3 DEF WaitFits, Waiting
  <2> QED
    BY <1>2, <1>3, <2>1 DEF OwnsFits, Between
<1>5. /\ owns' \in [Threads -> SUBSET Mutexes] /\ owns'[t] = owns[t] \ {m}
      /\ \A u \in Threads \ {t} : owns'[u] = owns[u]
  BY <1>3 DEF WaitBegins
<1>6. GivesUp(s, g, want, owns, owns', flag, alive, t, m)
  BY <1>1, <1>2, <1>4, <1>5 DEF GivesUp, WaitBegins
<1>7. /\ CoherentBut(g, want, owns', flag, alive, t) /\ Loose(g, owns', t) /\ g.pc[t] = s.pc[t]
      /\ \A u \in Threads : g.pc[u] = s.pc[u] \/ g.pc[u] \in {"resume", "cv_resume"}
      /\ Frees(s, g, t, m) \/ \E n \in Threads \ {t} : Hands(s, g, t, m, n)
  BY <1>6, GivesUpSound
<1>8. \A u \in Threads : g.pc[u] = "arbitrate_lock" => seen[u] # u
  BY <1>1, <1>7
<1>9. ASSUME NEW r, r.tag = g.tag PROVE WordsPass(s, r)
  <2>1. s.tag[m].owner = t
    BY <1>6 DEF GivesUp
  <2> QED
    BY <1>7, <1>9, <2>1, GivesUpPasses
<1> QED
  BY <1>2, <1>3, <1>5, <1>7, <1>8, <1>9

LEMMA WaitProcessWideKeyPollsKeeps ==
    ASSUME KInv, NEW t \in Threads, NEW m \in Mutexes, NEW k \in CVs,
           WaitProcessWideKeyPolls(t, m, k)
    PROVE  KInv' /\ NextOwnerWaits
<1> PICK s : s = Kernel
  OBVIOUS
<1> PICK g : g = GiveUp(s, t, m)
  OBVIOUS
<1>1. /\ MayWait(t, m) /\ SetKernel(g) /\ flag' = [flag EXCEPT ![k] = 1]
      /\ owns' = [owns EXCEPT ![t] = @ \ {m}] /\ want' = want /\ seen' = seen
      /\ alive' = alive /\ terminating' = terminating
  BY DEF WaitProcessWideKeyPolls, lifeVars
<1>2. /\ CoherentBut(g, want, owns', flag, alive, t) /\ Loose(g, owns', t)
      /\ g.pc[t] = "user" /\ owns' \in [Threads -> SUBSET Mutexes]
      /\ \A u \in Threads : g.pc[u] = "arbitrate_lock" => seen[u] # u
      /\ \A r : r.tag = g.tag => WordsPass(s, r)
  <2>1. WaitBegins(t, m, s, g)
    BY <1>1 DEF WaitBegins
  <2> QED
    BY <2>1, WaitGivesUp
<1>3. /\ g \in Kernels /\ Sound(g) /\ flag \in [CVs -> {0, 1}]
      /\ want \in [Threads -> Mutexes \cup {0}]
  BY <1>2 DEF CoherentBut
<1>4. flag' \in [CVs -> {0, 1}] /\ \A j \in CVs : flag[j] = 1 => flag'[j] = 1
  BY <1>1, <1>3
<1>5. CoherentBut(g, want', owns', flag', alive', t)
  <2>1. \A u \in Threads \ {t} :
            SameFor(g, g, want, want', owns', owns', flag, flag', u)
    BY <1>1, <1>2, <1>4 DEF SameFor
  <2>2. SettledKept(g, g)
    BY DEF SettledKept
  <2>3. Moves(g, g, want, want', owns', owns', flag, flag', alive, t)
    BY <1>1, <1>2, <1>3, <1>4, <2>1, <2>2 DEF Moves
  <2> QED
    BY <1>1, <2>3, OthersFit
<1>6. Fits(g, want', owns', flag', t)
  <2>1. /\ g.cv[t] = NoCV /\ g.ref[t] = NoRef
        /\ \A a \in Mutexes : g.tag[a].owner = t <=> a \in owns'[t]
    BY <1>2 DEF Loose
  <2>2. \A a \in owns'[t] : g.tag[a].owner = t
    BY <1>2, <2>1
  <2> QED
    BY <1>2, <2>1, <2>2, FitsIdle
<1>7. Coherent(g, want', owns', flag', alive')
  BY <1>5, <1>6, CoherentIs
<1>8. /\ seen' \in [Threads -> Threads \cup {NoThread}] /\ terminating' \in [Threads -> BOOLEAN]
  BY <1>1 DEF KInv
<1>9. \A u \in Threads : g.pc[u] = "arbitrate_lock" => seen'[u] # u
  BY <1>1, <1>2
<1>10. WordsPass(s, g)
  BY <1>2
<1> QED
  BY <1>1, <1>7, <1>8, <1>9, <1>10, CallKeeps

LEMMA WaitProcessWideKeyKeeps ==
    ASSUME KInv, LockOrder, NEW t \in Threads, NEW m \in Mutexes, NEW k \in CVs,
           WaitProcessWideKey(t, m, k)
    PROVE  KInv' /\ NextOwnerWaits
<1> PICK s : s = Kernel
  OBVIOUS
<1> PICK g : g = GiveUp(s, t, m)
  OBVIOUS
<1> PICK r : EntersTree(g, k, t, "cv_wait", r)
  BY DEF EntersTree
<1>1. /\ MayWait(t, m) /\ SetKernel(r) /\ flag' = [flag EXCEPT ![k] = 1]
      /\ owns' = [owns EXCEPT ![t] = @ \ {m}] /\ want' = [want EXCEPT ![t] = m] /\ seen' = seen
      /\ alive' = alive /\ terminating' = terminating
  <2>1. r = EnterTree(GiveUp(Kernel, t, m), t, k)
    BY DEF EntersTree, EnterTree
  <2>2. SetKernel(r)
    BY <2>1 DEF WaitProcessWideKey
  <2> QED
    BY <2>2 DEF WaitProcessWideKey, lifeVars
<1>2. /\ CoherentBut(g, want, owns', flag, alive, t) /\ Loose(g, owns', t)
      /\ owns' \in [Threads -> SUBSET Mutexes]
      /\ owns'[t] = owns[t] \ {m} /\ owns[t] \in SUBSET Mutexes
      /\ \A u \in Threads : g.pc[u] = "arbitrate_lock" => seen[u] # u
      /\ \A x : x.tag = g.tag => WordsPass(s, x)
  <2>1. WaitBegins(t, m, s, g)
    BY <1>1 DEF WaitBegins
  <2> QED
    BY <2>1, WaitGivesUp
<1>3. /\ g \in Kernels /\ Sound(g) /\ flag \in [CVs -> {0, 1}]
      /\ want \in [Threads -> Mutexes \cup {0}]
      /\ g \in Records(TagWords, [Threads -> PcValues]) /\ g.pc \in [Threads -> PcValues]
      /\ g.cv \in [Threads -> CVs \cup {NoCV}]
  BY <1>2 DEF CoherentBut, Kernels, Records
<1>4. /\ flag' \in [CVs -> {0, 1}] /\ flag'[k] = 1 /\ \A j \in CVs : flag[j] = 1 => flag'[j] = 1
      /\ want' \in [Threads -> Mutexes \cup {0}] /\ want'[t] = m
      /\ \A u \in Threads \ {t} : want'[u] = want[u]
  BY <1>1, <1>3
<1>5. /\ r \in Kernels /\ Sound(r) /\ SettledKept(g, r) /\ r.ref = g.ref /\ r.tag = g.tag
      /\ r.pc[t] = "cv_wait" /\ r.cv[t] = k
      /\ \A u \in Threads \ {t} : r.pc[u] = g.pc[u] /\ r.cv[u] = g.cv[u]
  <2>1. [g.pc EXCEPT ![t] = "cv_wait"] \in [Threads -> PcValues]
    BY <1>3 DEF PcValues, Waiting
  <2>2. g.cv[t] = NoCV
    BY <1>2 DEF Loose
  <2>3. /\ r \in Records(TagWords, [Threads -> PcValues]) /\ Sound(r) /\ SettledKept(g, r)
        /\ r.ref = g.ref /\ r.tag = g.tag
        /\ r.pc = [g.pc EXCEPT ![t] = "cv_wait"] /\ r.cv = [g.cv EXCEPT ![t] = k]
    BY <1>3, <2>1, <2>2, EnterTreeSound
  <2> QED
    BY <1>3, <2>3 DEF Kernels
<1>6. CoherentBut(r, want', owns', flag', alive', t)
  <2>1. \A u \in Threads \ {t} :
            SameFor(g, r, want, want', owns', owns', flag, flag', u)
    BY <1>2, <1>4, <1>5 DEF SameFor
  <2>2. Moves(g, r, want, want', owns', owns', flag, flag', alive, t)
    BY <1>2, <1>4, <1>5, <2>1 DEF Moves
  <2> QED
    BY <1>1, <2>2, OthersFit
<1>7. Fits(r, want', owns', flag', t)
  <2>1. /\ r.ref[t] = NoRef
        /\ \A a \in Mutexes : r.tag[a].owner = t <=> a \in owns'[t]
    BY <1>2, <1>5 DEF Loose
  <2>2. WaitFits(r, want', flag', t)
    BY <1>4, <1>5, <2>1, Ids DEF WaitFits, Waiting
  <2>3. \A a \in owns'[t] : a < want'[t]
    <3>1. \A a \in owns[t] : a <= m
      BY <1>1 DEF MayWait
    <3> QED
      BY <1>2, <1>4, <3>1, Ids
  <2>4. OwnsFits(r, want', owns', t)
    BY <1>2, <1>5, <2>1, <2>3 DEF OwnsFits
  <2> QED
    BY <2>2, <2>4 DEF Fits
<1>8. Coherent(r, want', owns', flag', alive')
  BY <1>6, <1>7, CoherentIs
<1>9. /\ seen' \in [Threads -> Threads \cup {NoThread}] /\ terminating' \in [Threads -> BOOLEAN]
  BY <1>1 DEF KInv
<1>10. \A u \in Threads : r.pc[u] = "arbitrate_lock" => seen'[u] # u
  BY <1>1, <1>2, <1>5
<1>11. WordsPass(s, r)
  BY <1>2, <1>5
<1> QED
  BY <1>1, <1>8, <1>9, <1>10, <1>11, CallKeeps

-----------------------------------------------------------------------------
(* A condition variable is signalled *)

\* Nobody is put before a call of ArbitrateLock.
NoneCalls(s, r) ==
    \A u \in Threads : r.pc[u] = "arbitrate_lock" => s.pc[u] = "arbitrate_lock"

\* Thread w has left the tree of its condition variable, with a mutex to wait for.
Signalled(s, w) ==
    /\ CoherentBut(s, want, owns, flag, alive, w) /\ Loose(s, owns, w)
    /\ s.pc[w] = "cv_wait" /\ want[w] \in Mutexes
    /\ \A a \in owns[w] : a < want[w]

\* The word of the mutex is updated, and says whose it is.
LEMMA UpdateSound ==
    ASSUME NEW s, NEW w \in Threads, Signalled(s, w), NEW m, m = want[w],
           NEW x, Written(s, m, UpdateLockAtomic(s.tag[m], w), x)
    PROVE  /\ x \in Kernels /\ x.cv = s.cv /\ x.ref = s.ref /\ x.pc = s.pc
           /\ CoherentBut(x, want, owns, flag, alive, w) /\ WordsKept(s, x)
           /\ \A a \in Mutexes \ {m} : x.tag[a] = s.tag[a]
           /\ s.tag[m] = Free => x.tag[m] = [owner |-> w, waiters |-> FALSE]
           /\ s.tag[m] # Free =>
                 /\ s.tag[m].owner \in Threads
                 /\ x.tag[m] = [owner |-> s.tag[m].owner, waiters |-> TRUE]
<1>1. /\ s \in Kernels /\ Sound(s) /\ m \in Mutexes /\ CoherentBut(s, want, owns, flag, alive, w)
      /\ want \in [Threads -> Mutexes \cup {0}] /\ owns \in [Threads -> SUBSET Mutexes]
      /\ flag \in [CVs -> {0, 1}]
  BY DEF Signalled, CoherentBut
<1> PICK word : word = UpdateLockAtomic(s.tag[m], w)
  OBVIOUS
<1>2. s.tag[m] = Free => word = [owner |-> w, waiters |-> FALSE]
  BY DEF UpdateLockAtomic
<1>3. s.tag[m] # Free =>
         s.tag[m].owner \in Threads /\ word = [owner |-> s.tag[m].owner, waiters |-> TRUE]
  <2>1. s.tag[m] # Free => s.tag[m].owner \in Threads
    BY <1>1, TagOf
  <2>2. [s.tag[m] EXCEPT !.waiters = TRUE] = [owner |-> s.tag[m].owner, waiters |-> TRUE]
    BY <1>1, WaitBit
  <2> QED
    BY <2>1, <2>2 DEF UpdateLockAtomic
<1>4. word \in {Free} \cup [owner : Threads, waiters : BOOLEAN]
  <2>1. CASE s.tag[m] = Free
    <3>1. word = [owner |-> w, waiters |-> FALSE]
      BY <1>2, <2>1
    <3>2. [owner |-> w, waiters |-> FALSE] \in [owner : Threads, waiters : BOOLEAN]
      OBVIOUS
    <3> QED
      BY <3>1, <3>2
  <2>2. CASE s.tag[m] # Free
    <3> PICK o \in Threads : o = s.tag[m].owner
      BY <1>3, <2>2
    <3>1. word = [owner |-> o, waiters |-> TRUE]
      BY <1>3, <2>2
    <3> QED
      BY <3>1
  <2> QED
    BY <2>1, <2>2
<1>5. /\ x \in Kernels /\ Sound(x) /\ SettledKept(s, x)
      /\ x.cv = s.cv /\ x.ref = s.ref /\ x.pc = s.pc
      /\ x.tag[m] = word /\ \A a \in Mutexes \ {m} : x.tag[a] = s.tag[a]
  BY <1>1, <1>4, WriteSound
<1>6. WordsKept(s, x)
  <2>1. s.tag[m].owner # NoThread => s.tag[m] # Free
    BY DEF Free
  <2> QED
    BY <1>3, <1>5, <2>1 DEF WordsKept
<1>7. CoherentBut(x, want, owns, flag, alive, w)
  <2>1. ASSUME NEW u \in Threads \ {w}
        PROVE  SameFor(s, x, want, want, owns, owns, flag, flag, u)
    <3>1. \A a \in Mutexes : x.tag[a].owner = u <=> s.tag[a].owner = u
      <4>1. s.tag[m] = Free => s.tag[m].owner # u /\ x.tag[m].owner # u
        BY <1>2, <1>5, Ids DEF Free
      <4>2. s.tag[m] # Free => x.tag[m].owner = s.tag[m].owner
        BY <1>3, <1>5
      <4> QED
        BY <1>5, <4>1, <4>2
    <3>2. s.tag[m].waiters => x.tag[m] = s.tag[m]
      <4>1. s.tag[m].waiters =>
               s.tag[m] # Free /\ s.tag[m] = [owner |-> s.tag[m].owner, waiters |-> TRUE]
        BY <1>1, TagOf, WaitBit
      <4> QED
        BY <1>3, <1>5, <4>1
    <3>3. \A a \in Mutexes : s.tag[a].waiters => x.tag[a] = s.tag[a]
      BY <1>5, <3>2
    <3> QED
      BY <1>1, <1>5, <3>1, <3>3 DEF SameFor
  <2>2. Moves(s, x, want, want, owns, owns, flag, flag, alive, w)
    BY <1>1, <1>5, <2>1 DEF Moves
  <2> QED
    BY <2>2, OthersFit
<1> QED
  BY <1>2, <1>3, <1>5, <1>6, <1>7

LEMMA SignalImplSound ==
    ASSUME NEW s, NEW w \in Threads, Signalled(s, w), NEW r, r = SignalImpl(s, w)
    PROVE  /\ Coherent(r, want, owns, flag, alive) /\ r.cv = s.cv
           /\ WordsKept(s, r) /\ NoneCalls(s, r)
<1> PICK m : m = want[w]
  OBVIOUS
<1> PICK x : Written(s, m, UpdateLockAtomic(s.tag[m], w), x)
  BY DEF Written
<1>1. /\ m \in Mutexes /\ s.cv[w] = NoCV /\ s.ref[w] = NoRef /\ s.pc[w] = "cv_wait"
      /\ \A a \in Mutexes : s.tag[a].owner = w <=> a \in owns[w]
      /\ \A a \in owns[w] : a < m
      /\ owns \in [Threads -> SUBSET Mutexes]
  BY DEF Signalled, Loose, CoherentBut
<1>2. /\ x \in Kernels /\ x.cv = s.cv /\ x.ref = s.ref /\ x.pc = s.pc
      /\ CoherentBut(x, want, owns, flag, alive, w) /\ WordsKept(s, x)
      /\ \A a \in Mutexes \ {m} : x.tag[a] = s.tag[a]
      /\ s.tag[m] = Free => x.tag[m] = [owner |-> w, waiters |-> FALSE]
      /\ s.tag[m] # Free =>
            /\ s.tag[m].owner \in Threads
            /\ x.tag[m] = [owner |-> s.tag[m].owner, waiters |-> TRUE]
  BY UpdateSound
<1>3. /\ s.tag[m] = Free => r = Wake(x, w)
      /\ s.tag[m] # Free =>
            r = IF alive[s.tag[m].owner] THEN AddWaiter(x, s.tag[m].owner, w, m)
                ELSE [x EXCEPT !.pc[w] = "exited"]
  <2>1. x = [s EXCEPT !.tag[m] = UpdateLockAtomic(s.tag[m], w)]
    BY Zenon DEF Written
  <2>2. r = IF NobodyHeld(s.tag[m]) THEN Wake(x, w)
            ELSE IF alive[s.tag[m].owner] THEN AddWaiter(x, s.tag[m].owner, w, m)
            ELSE [x EXCEPT !.pc[w] = "exited"]
    BY <2>1, Zenon DEF SignalImpl
  <2> QED
    BY <2>2, Zenon DEF NobodyHeld
<1>4. ~(m \in owns[w])
  BY <1>1, Ids
<1>5. CASE s.tag[m] = Free
  <2>1. Placed(x, w, "cv_resume", r)
    BY <1>1, <1>2, <1>3, <1>5 DEF Wake, Placed
  <2>2. "cv_resume" \in PcValues
    BY DEF PcValues, InUser
  <2>3. /\ CoherentBut(r, want, owns, flag, alive, w)
        /\ r.cv = x.cv /\ r.ref = x.ref /\ r.tag = x.tag /\ r.pc[w] = "cv_resume"
        /\ \A u \in Threads \ {w} : r.pc[u] = x.pc[u]
    BY <1>2, <2>1, <2>2, PlaceSound, PlaceMoves
  <2>4. WaitFits(r, want, flag, w)
    BY <1>1, <1>2, <2>3 DEF WaitFits, Waiting
  <2>5. OwnsFits(r, want, owns, w)
    <3>1. r.tag[m].owner = w /\ \A a \in Mutexes \ {m} : r.tag[a] = s.tag[a]
      BY <1>2, <1>5, <2>3
    <3>2. \A a \in owns[w] : r.tag[a].owner = w
      BY <1>1, <1>4, <3>1
    <3>3. \A a \in Mutexes : r.tag[a].owner = w /\ a \notin owns[w] => a = m
      BY <1>1, <3>1
    <3> QED
      BY <2>3, <3>1, <3>2, <3>3 DEF OwnsFits, Between, Waiting
  <2>6. Coherent(r, want, owns, flag, alive)
    BY <2>3, <2>4, <2>5, CoherentIs DEF Fits
  <2> QED
    BY <1>2, <2>3, <2>6 DEF WordsKept, NoneCalls
<1>6. CASE s.tag[m] # Free /\ alive[s.tag[m].owner]
  <2> PICK o : o = s.tag[m].owner
    OBVIOUS
  <2>1. o \in Threads /\ x.tag[m] = [owner |-> o, waiters |-> TRUE]
    BY <1>2, <1>6
  <2>2. o # w
    BY <1>1, <1>4
  <2>3. \A a \in Mutexes : x.tag[a].owner = w <=> a \in owns[w]
    BY <1>1, <1>2, <1>4, <2>1, <2>2
  <2>4. Loose(x, owns, w)
    BY <1>1, <1>2, <2>3 DEF Loose
  <2>5. Parks(x, want, owns, flag, alive, w, o, r)
    BY <1>1, <1>2, <1>3, <1>6, <2>1, <2>4 DEF Parks
  <2>6. /\ CoherentBut(r, want, owns, flag, alive, w) /\ Parked(r, want, owns, w, o)
        /\ r.tag = x.tag /\ r.pc = x.pc /\ r.cv = x.cv
    BY <2>1, <2>5, ParkSound
  <2>7. r.pc[w] \in Waiting
    BY <1>1, <1>2, <2>6 DEF Waiting
  <2>8. Fits(r, want, owns, flag, w)
    BY <2>1, <2>6, <2>7, ParkedFits
  <2>9. Coherent(r, want, owns, flag, alive)
    BY <2>6, <2>8, CoherentIs
  <2> QED
    BY <1>2, <2>6, <2>9 DEF WordsKept, NoneCalls
<1>7. CASE s.tag[m] # Free /\ ~alive[s.tag[m].owner]
  <2>1. Placed(x, w, "exited", r)
    BY <1>3, <1>7 DEF Placed
  <2>2. "exited" \in PcValues
    BY DEF PcValues
  <2>3. /\ CoherentBut(r, want, owns, flag, alive, w)
        /\ r.cv = x.cv /\ r.ref = x.ref /\ r.tag = x.tag /\ r.pc[w] = "exited"
        /\ \A u \in Threads \ {w} : r.pc[u] = x.pc[u]
    BY <1>2, <2>1, <2>2, PlaceSound, PlaceMoves
  <2>4. \A a \in owns[w] : r.tag[a].owner = w
    BY <1>1, <1>2, <1>4, <2>3
  <2>5. Fits(r, want, owns, flag, w)
    BY <1>1, <1>2, <2>3, <2>4, FitsIdle
  <2>6. Coherent(r, want, owns, flag, alive)
    BY <2>3, <2>5, CoherentIs
  <2> QED
    BY <1>2, <2>3, <2>6 DEF WordsKept, NoneCalls
<1> QED
  BY <1>5, <1>6, <1>7

\* One round of the loop of signal: one thread fewer waits in the tree.
LEMMA SignalOneSound ==
    ASSUME NEW s, NEW k \in CVs, Coherent(s, want, owns, flag, alive), s.tree[k] # <<>>,
           NEW r, r = SignalOne(s, k)
    PROVE  /\ Coherent(r, want, owns, flag, alive) /\ WordsKept(s, r) /\ NoneCalls(s, r)
           /\ Len(r.tree[k]) = Len(s.tree[k]) - 1
<1> PICK w : w = Head(s.tree[k]).thread
  OBVIOUS
<1>1. /\ s \in Kernels /\ Sound(s) /\ s \in Records(TagWords, [Threads -> PcValues])
      /\ TreesAgree(s) /\ s.cv \in [Threads -> CVs \cup {NoCV}]
  BY DEF Coherent, Sound, Kernels, Records
<1>2. w \in Sleepers(s, k)
  BY <1>1, TreeLength
<1>3. w \in Threads /\ s.cv[w] = k
  BY <1>2 DEF Sleepers
<1> PICK x : LeavesTree(s, k, w, x)
  BY DEF LeavesTree
<1>4. /\ x \in Kernels /\ Sound(x) /\ SettledKept(s, x)
      /\ x.ref = s.ref /\ x.tag = s.tag /\ x.pc = s.pc
      /\ x.cv = [s.cv EXCEPT ![w] = NoCV]
  BY <1>1, <1>3, LeaveTreeSound DEF Kernels
<1>5. CoherentBut(s, want, owns, flag, alive, w) /\ Fits(s, want, owns, flag, w)
  BY <1>3, CoherentIs
<1>6. /\ want \in [Threads -> Mutexes \cup {0}] /\ owns \in [Threads -> SUBSET Mutexes]
      /\ flag \in [CVs -> {0, 1}]
      /\ WaitFits(s, want, flag, w) /\ OwnsFits(s, want, owns, w)
  BY <1>5 DEF CoherentBut, Fits
<1>7. CoherentBut(x, want, owns, flag, alive, w)
  <2>1. \A u \in Threads \ {w} : SameFor(s, x, want, want, owns, owns, flag, flag, u)
    BY <1>1, <1>4, <1>6 DEF SameFor
  <2>2. Moves(s, x, want, want, owns, owns, flag, flag, alive, w)
    BY <1>4, <1>5, <1>6, <2>1 DEF Moves
  <2> QED
    BY <1>3, <2>2, OthersFit
<1>8. Signalled(x, w)
  <2>1. s.cv[w] # NoCV
    BY <1>3, Ids
  <2>2. s.pc[w] = "cv_wait" /\ s.ref[w] = NoRef /\ want[w] \in Mutexes
    <3>1. WaitFits(s, want, flag, w)
      BY <1>6
    <3>2. s.pc[w] = "cv_wait" /\ s.ref[w] = NoRef
      BY <2>1, <3>1, Zenon DEF WaitFits
    <3> QED
      BY <3>1, <3>2 DEF WaitFits
  <2>3. \A a \in Mutexes : s.tag[a].owner = w <=> a \in owns[w]
    BY <1>6, <2>2 DEF OwnsFits, Between
  <2>4. \A a \in owns[w] : a < want[w]
    BY <1>6, <2>2 DEF OwnsFits, Waiting
  <2>5. Loose(x, owns, w)
    BY <1>1, <1>3, <1>4, <2>2, <2>3 DEF Loose
  <2> QED
    BY <1>4, <1>7, <2>2, <2>4, <2>5 DEF Signalled
<1>9. r = SignalImpl(x, w)
  <2>1. x = [s EXCEPT !.tree[k] = TreeErase(@, w), !.cv[w] = NoCV]
    BY Zenon DEF LeavesTree
  <2> QED
    BY <2>1 DEF SignalOne
<1>10. /\ Coherent(r, want, owns, flag, alive) /\ r.cv = x.cv
       /\ WordsKept(x, r) /\ NoneCalls(x, r)
  BY <1>3, <1>8, <1>9, SignalImplSound
<1>11. WordsKept(s, r) /\ NoneCalls(s, r)
  BY <1>4, <1>10 DEF WordsKept, NoneCalls
<1>12. Len(r.tree[k]) = Len(s.tree[k]) - 1
  <2>1. r \in Records(TagWords, [Threads -> PcValues]) /\ TreesAgree(r)
    BY <1>10 DEF Coherent, Sound, Kernels
  <2>2. /\ Len(r.tree[k]) = Cardinality(Sleepers(r, k))
        /\ Len(s.tree[k]) = Cardinality(Sleepers(s, k))
    BY <1>1, <2>1, TreeLength
  <2>3. Sleepers(r, k) = Sleepers(s, k) \ {w}
    BY <1>1, <1>3, <1>4, <1>10, Ids DEF Sleepers
  <2>4. IsFiniteSet(Sleepers(s, k))
    BY Ids, FS_Subset DEF Sleepers
  <2>5. Cardinality(Sleepers(s, k) \ {w}) = Cardinality(Sleepers(s, k)) - 1
    BY <1>2, <2>4, FS_RemoveElement
  <2> QED
    BY <2>2, <2>3, <2>5
<1> QED
  BY <1>10, <1>11, <1>12

\* c is what signal has made of s after i rounds.
Progress(s, c, k, i) ==
    /\ Coherent(c, want, owns, flag, alive) /\ WordsKept(s, c) /\ NoneCalls(s, c)
    /\ Len(c.tree[k]) = Len(s.tree[k]) - i

LEMMA SignalGoes ==
    ASSUME NEW s, NEW k \in CVs, Len(s.tree[k]) \in Nat, NEW i \in Nat, i < Len(s.tree[k]),
           NEW c, Progress(s, c, k, i)
    PROVE  c.tree[k] # <<>> /\ Progress(s, SignalOne(c, k), k, i + 1)
<1> PICK r : r = SignalOne(c, k)
  OBVIOUS
<1>1. /\ Coherent(c, want, owns, flag, alive) /\ WordsKept(s, c) /\ NoneCalls(s, c)
      /\ Len(c.tree[k]) = Len(s.tree[k]) - i
  BY DEF Progress
<1>2. c.tree[k] # <<>>
  <2>1. c \in Records(TagWords, [Threads -> PcValues]) /\ TreesAgree(c)
    BY <1>1 DEF Coherent, Sound, Kernels
  <2>2. c.tree[k] = <<>> => Len(c.tree[k]) = 0
    BY <2>1, TreeLength
  <2> QED
    BY <1>1, <2>2
<1>3. /\ Coherent(r, want, owns, flag, alive) /\ WordsKept(c, r) /\ NoneCalls(c, r)
      /\ Len(r.tree[k]) = Len(c.tree[k]) - 1
  BY <1>1, <1>2, SignalOneSound
<1>4. Len(r.tree[k]) = Len(s.tree[k]) - (i + 1)
  BY <1>1, <1>3
<1>5. WordsKept(s, r) /\ NoneCalls(s, r)
  BY <1>1, <1>3 DEF WordsKept, NoneCalls
<1> QED
  BY <1>2, <1>3, <1>4, <1>5 DEF Progress

\* f is the function that signal defines by recursion.
IsSignals(s, k, n, f) ==
    f = [i \in 0..n |-> IF i = 0 THEN s ELSE SignalOne(f[i - 1], k)]

LEMMA SignalsProgress ==
    ASSUME NEW s, NEW k \in CVs, Coherent(s, want, owns, flag, alive),
           Len(s.tree[k]) \in Nat, NEW n \in 0..Len(s.tree[k])
    PROVE  /\ Progress(s, s, k, 0)
           /\ \E F : IsSignals(s, k, n, F)
           /\ \A F : IsSignals(s, k, n, F) => Progress(s, F[n], k, n)
<1>0. n \in Nat /\ 0 \in 0..n /\ n \in 0..n /\ \A i \in 1..n : i - 1 \in 0..n /\ i \in 0..n /\ i # 0
  OBVIOUS
<1>1. Progress(s, s, k, 0)
  BY DEF Progress, WordsKept, NoneCalls
<1> DEFINE D == {c \in Kernels : Coherent(c, want, owns, flag, alive)}
           g == [c \in D |-> IF c.tree[k] = <<>> THEN c ELSE SignalOne(c, k)]
<1>2. s \in D
  BY DEF Coherent
<1>3. g \in [D -> D]
  <2>1. ASSUME NEW c \in D, c.tree[k] # <<>> PROVE SignalOne(c, k) \in D
    <3> PICK r : r = SignalOne(c, k)
      OBVIOUS
    <3>1. Coherent(r, want, owns, flag, alive)
      BY <2>1, SignalOneSound
    <3> QED
      BY <3>1 DEF Coherent
  <2> QED
    BY <2>1
<1>4. PICK F \in [0..n -> D] : IsIteration(g, s, n, F)
  <2> HIDE DEF D, g
  <2>1. n \in Nat
    OBVIOUS
  <2> QED
    BY <1>2, <1>3, <2>1, Iterates
<1>5. \A c \in D : c.tree[k] # <<>> => g[c] = SignalOne(c, k)
  OBVIOUS
<1> HIDE DEF D, g
<1>6. F[0] = s /\ \A i \in 1..n : F[i] = g[F[i - 1]] /\ F[i - 1] \in D
  BY <1>0, <1>4 DEF IsIteration
<1>7. \A i \in 0..n : Progress(s, F[i], k, i)
  <2> DEFINE T == {i \in 0..n : Progress(s, F[i], k, i)}
  <2>1. 0 \in T
    BY <1>1, <1>6
  <2>2. ASSUME NEW i \in 0..(n - 1), i \in T PROVE i + 1 \in T
    <3>1. i \in Nat /\ i < Len(s.tree[k]) /\ i + 1 \in 1..n /\ (i + 1) - 1 = i
      OBVIOUS
    <3>2. F[i].tree[k] # <<>> /\ Progress(s, SignalOne(F[i], k), k, i + 1)
      BY <2>2, <3>1, SignalGoes
    <3>3. F[i + 1] = SignalOne(F[i], k)
      BY <1>5, <1>6, <3>1, <3>2
    <3> QED
      BY <3>1, <3>2, <3>3
  <2> HIDE DEF T
  <2>3. 0..n \subseteq T
    BY <1>0, <2>1, <2>2, UpTo
  <2> QED
    BY <2>3 DEF T
<1>8. \A i \in 1..n : F[i] = SignalOne(F[i - 1], k)
  <2> TAKE i \in 1..n
  <2>1. i - 1 \in 0..n /\ i - 1 \in Nat /\ i - 1 < Len(s.tree[k])
    OBVIOUS
  <2>2. F[i - 1].tree[k] # <<>>
    BY <1>7, <2>1, SignalGoes
  <2> QED
    BY <1>5, <1>6, <2>2
<1>9. IsSignals(s, k, n, F)
  <2>1. F = [i \in 0..n |-> F[i]]
    BY <1>4
  <2>2. \A i \in 0..n : F[i] = IF i = 0 THEN s ELSE SignalOne(F[i - 1], k)
    BY <1>6, <1>8
  <2> QED
    BY <2>1, <2>2 DEF IsSignals
<1>10. ASSUME NEW f, IsSignals(s, k, n, f) PROVE Progress(s, f[n], k, n)
  <2>1. \A i \in 0..n : f[i] = IF i = 0 THEN s ELSE SignalOne(f[i - 1], k)
    BY <1>10 DEF IsSignals
  <2> DEFINE T == {i \in 0..n : Progress(s, f[i], k, i)}
  <2>2. 0 \in T
    BY <1>1, <2>1
  <2>3. ASSUME NEW i \in 0..(n - 1), i \in T PROVE i + 1 \in T
    <3>1. i \in Nat /\ i < Len(s.tree[k]) /\ i + 1 \in 0..n /\ i + 1 # 0 /\ (i + 1) - 1 = i
      OBVIOUS
    <3>2. Progress(s, SignalOne(f[i], k), k, i + 1)
      BY <2>3, <3>1, SignalGoes
    <3>3. f[i + 1] = SignalOne(f[i], k)
      BY <2>1, <3>1
    <3> QED
      BY <3>1, <3>2, <3>3
  <2> HIDE DEF T
  <2>4. 0..n \subseteq T
    BY <1>0, <2>2, <2>3, UpTo
  <2> QED
    BY <1>0, <2>4 DEF T
<1> QED
  BY <1>1, <1>9, <1>10

LEMMA SignalAllSound ==
    ASSUME NEW s, NEW k \in CVs, Coherent(s, want, owns, flag, alive),
           NEW count \in Int, NEW r, r = SignalAll(s, k, count)
    PROVE  Coherent(r, want, owns, flag, alive) /\ WordsKept(s, r) /\ NoneCalls(s, r)
<1>1. Len(s.tree[k]) \in Nat
  BY TreeLength DEF Coherent, Sound, Kernels
<1> DEFINE n == IF count <= 0 THEN Len(s.tree[k]) ELSE Min({count, Len(s.tree[k])})
           after == CHOOSE f : IsSignals(s, k, n, f)
<1>2. n \in 0..Len(s.tree[k])
  <2>1. CASE count <= 0
    BY <1>1, <2>1
  <2>2. CASE ~(count <= 0)
    <3> PICK S : S = {count, Len(s.tree[k])}
      OBVIOUS
    <3>1. S \in SUBSET Int /\ count \in S /\ Len(s.tree[k]) \in S
      BY <1>1
    <3>2. count <= Len(s.tree[k]) => \A y \in S : count <= y
      BY <1>1
    <3>3. ~(count <= Len(s.tree[k])) => \A y \in S : Len(s.tree[k]) <= y
      BY <1>1
    <3>4. (Min(S) = count /\ count <= Len(s.tree[k])) \/ Min(S) = Len(s.tree[k])
      BY <3>1, <3>2, <3>3, MinIs
    <3> QED
      BY <1>1, <2>2, <3>4
  <2> QED
    BY <2>1, <2>2
<1>3. r = after[n]
  BY DEF SignalAll, IsSignals
<1> HIDE DEF n
<1>4. IsSignals(s, k, n, after)
  BY <1>1, <1>2, SignalsProgress
<1> HIDE DEF after
<1>5. Progress(s, after[n], k, n)
  BY <1>1, <1>2, <1>4, SignalsProgress
<1> QED
  BY <1>3, <1>5 DEF Progress

\* The word of the condition variable is cleared when nobody waits in its tree.
LEMMA SignalProcessWideKeyKeeps ==
    ASSUME KInv, NEW t \in Threads, NEW k \in CVs, NEW count \in Counts,
           SignalProcessWideKey(t, k, count)
    PROVE  KInv' /\ NextOwnerWaits
<1> PICK s : /\ s = Kernel /\ s \in Kernels
             /\ Coherent(s, want, owns, flag, alive)
             /\ \A u \in Threads : s.pc[u] = "arbitrate_lock" => seen[u] # u
  BY KernelNow
<1> PICK r : r = SignalAll(s, k, count)
  OBVIOUS
<1>1. /\ SetKernel(r) /\ flag' = FlagAfter(r, k)
      /\ want' = want /\ owns' = owns /\ seen' = seen /\ alive' = alive
      /\ terminating' = terminating
  BY DEF SignalProcessWideKey, guestVars, lifeVars
<1>2. Coherent(r, want, owns, flag, alive) /\ WordsKept(s, r) /\ NoneCalls(s, r)
  <2>1. count \in Int
    BY PriorityAssumption
  <2> QED
    BY <2>1, SignalAllSound
<1>3. /\ r \in Kernels /\ Sound(r) /\ want \in [Threads -> Mutexes \cup {0}]
      /\ owns \in [Threads -> SUBSET Mutexes] /\ flag \in [CVs -> {0, 1}]
      /\ \A u \in Threads : Fits(r, want, owns, flag, u)
      /\ alive \in [Threads -> BOOLEAN] /\ \A u \in Threads : alive[u] => Settled(r, u)
  BY <1>2 DEF Coherent
<1>4. /\ flag' \in [CVs -> {0, 1}]
      /\ \A j \in CVs : flag[j] = 1 => flag'[j] = 1 \/ (j = k /\ r.tree[k] = <<>>)
  BY <1>1, <1>3 DEF FlagAfter
<1>5. r.tree[k] = <<>> => \A u \in Threads : r.cv[u] # k
  <2>1. TreesAgree(r) /\ r \in Records(TagWords, [Threads -> PcValues])
    BY <1>3 DEF Sound, Kernels
  <2>2. r.tree[k] = <<>> => Cardinality(Sleepers(r, k)) = 0
    BY <2>1, TreeLength
  <2>3. IsFiniteSet(Sleepers(r, k))
    BY Ids, FS_Subset DEF Sleepers
  <2>4. r.tree[k] = <<>> => Sleepers(r, k) = {}
    BY <2>2, <2>3, FS_EmptySet
  <2> QED
    BY <2>4 DEF Sleepers
<1>6. \A u \in Threads : Fits(r, want', owns', flag', u)
  <2> TAKE u \in Threads
  <2>1. SameFor(r, r, want, want', owns, owns', flag, flag', u)
    BY <1>1, <1>3, <1>4, <1>5 DEF SameFor
  <2> QED
    BY <1>3, <2>1, FitsSame
<1>7. Coherent(r, want', owns', flag', alive')
  BY <1>1, <1>3, <1>4, <1>6 DEF Coherent
<1>8. /\ seen' \in [Threads -> Threads \cup {NoThread}] /\ terminating' \in [Threads -> BOOLEAN]
  BY <1>1 DEF KInv
<1>9. \A u \in Threads : r.pc[u] = "arbitrate_lock" => seen'[u] # u
  BY <1>1, <1>2 DEF NoneCalls
<1>10. WordsPass(s, r)
  BY <1>2 DEF WordsKept, WordsPass
<1> QED
  BY <1>1, <1>7, <1>8, <1>9, <1>10, CallKeeps

-----------------------------------------------------------------------------
(* Timers, priorities and the end of threads *)

\* A step that changes priorities only.
PrioritiesMove(s, r, wanted, owned, flags, living) ==
    /\ Coherent(s, wanted, owned, flags, living)
    /\ r \in Kernels /\ Sound(r) /\ SettledKept(s, r)
    /\ r.ref = s.ref /\ r.cv = s.cv /\ r.tag = s.tag /\ r.pc = s.pc

LEMMA PrioritiesKeep ==
    ASSUME NEW s, NEW r, NEW wanted, NEW owned, NEW flags, NEW living,
           PrioritiesMove(s, r, wanted, owned, flags, living)
    PROVE  Coherent(r, wanted, owned, flags, living)
<1>1. /\ s \in Kernels /\ owned \in [Threads -> SUBSET Mutexes]
      /\ \A u \in Threads : Fits(s, wanted, owned, flags, u)
      /\ \A u \in Threads : living[u] => Settled(s, u)
  BY DEF PrioritiesMove, Coherent
<1>2. \A u \in Threads : Fits(r, wanted, owned, flags, u)
  <2> TAKE u \in Threads
  <2>1. SameFor(s, r, wanted, wanted, owned, owned, flags, flags, u)
    BY <1>1 DEF SameFor, PrioritiesMove
  <2> QED
    BY <1>1, <2>1, FitsSame
<1>3. \A u \in Threads : living[u] => Settled(r, u)
  BY <1>1 DEF PrioritiesMove, SettledKept
<1> QED
  BY <1>2, <1>3 DEF PrioritiesMove, Coherent

LEMMA SetThreadPriorityKeeps ==
    ASSUME KInv, NEW t \in Threads, NEW u \in Threads, NEW p \in Priorities,
           SetThreadPriority(t, u, p)
    PROVE  KInv' /\ NextOwnerWaits
<1> PICK s : /\ s = Kernel /\ s \in Kernels
             /\ Coherent(s, want, owns, flag, alive)
             /\ \A v \in Threads : s.pc[v] = "arbitrate_lock" => seen[v] # v
  BY KernelNow
<1> PICK r : r = SetBasePriority(s, u, p)
  OBVIOUS
<1>1. /\ SetKernel(r) /\ flag' = flag /\ want' = want /\ owns' = owns /\ seen' = seen
      /\ alive' = alive /\ terminating' = terminating
  BY DEF SetThreadPriority, guestVars, lifeVars
<1>2. /\ r \in Kernels /\ Sound(r) /\ SettledKept(s, r)
      /\ r.ref = s.ref /\ r.cv = s.cv /\ r.tag = s.tag /\ r.pc = s.pc
  <2>1. p \in Int /\ s \in Records(TagWords, [Threads -> PcValues]) /\ Sound(s)
    BY PriorityAssumption DEF Coherent, Kernels
  <2> QED
    BY <2>1, SetBasePrioritySound DEF Kernels
<1>3. Coherent(r, want, owns, flag, alive)
  <2>1. PrioritiesMove(s, r, want, owns, flag, alive)
    BY <1>2 DEF PrioritiesMove
  <2> QED
    BY <2>1, PrioritiesKeep
<1>4. Coherent(r, want', owns', flag', alive')
  BY <1>1, <1>3
<1>5. /\ seen' \in [Threads -> Threads \cup {NoThread}] /\ terminating' \in [Threads -> BOOLEAN]
  BY <1>1 DEF KInv
<1>6. \A v \in Threads : r.pc[v] = "arbitrate_lock" => seen'[v] # v
  BY <1>1, <1>2
<1>7. WordsPass(s, r)
  BY <1>2 DEF WordsPass
<1> QED
  BY <1>1, <1>4, <1>5, <1>6, <1>7, CallKeeps

LEMMA CancelRecords ==
    ASSUME NEW s \in Kernels, Sound(s), NEW t \in Threads, NEW c, c = CancelWait(s, t)
    PROVE  /\ c \in Kernels /\ Sound(c) /\ SettledKept(s, c)
           /\ c.tag = s.tag /\ c.pc = s.pc /\ c.ref[t] = NoRef /\ c.cv[t] = NoCV
           /\ \A u \in Threads \ {t} : c.ref[u] = s.ref[u] /\ c.cv[u] = s.cv[u]
<1>1. s \in Records(TagWords, [Threads -> PcValues])
  BY DEF Kernels
<1>2. /\ c \in Records(TagWords, [Threads -> PcValues]) /\ Sound(c) /\ SettledKept(s, c)
      /\ c.base = s.base /\ c.tag = s.tag /\ c.pc = s.pc
      /\ c.ref = [s.ref EXCEPT ![t] = NoRef]
      /\ c.cv = [s.cv EXCEPT ![t] = NoCV]
  BY <1>1, CancelWaitSound
<1>3. s.ref \in [Threads -> Refs] /\ s.cv \in [Threads -> CVs \cup {NoCV}]
  BY <1>1 DEF Records
<1> QED
  BY <1>2, <1>3 DEF Kernels

\* The wait of t ends without a mutex, and t returns to its guest.
Cancels(s, t, c, r) == c = CancelWait(s, t) /\ Placed(c, t, "user", r)

LEMMA CancelKeeps ==
    ASSUME KInv, NEW t \in Threads, NEW s, Coherent(s, want, owns, flag, alive),
           s.pc[t] \in Waiting, \A u \in Threads : s.pc[u] = "arbitrate_lock" => seen[u] # u,
           NEW c, NEW r, Cancels(s, t, c, r), SetKernel(r), Returns(t),
           UNCHANGED <<flag, owns, alive>>, terminating' \in [Threads -> BOOLEAN],
           s.tag = tag
    PROVE  KInv' /\ NextOwnerWaits
<1>1. /\ CoherentBut(s, want, owns, flag, alive, t)
      /\ WaitFits(s, want, flag, t) /\ OwnsFits(s, want, owns, t)
      /\ s \in Kernels /\ Sound(s) /\ want \in [Threads -> Mutexes \cup {0}]
      /\ owns \in [Threads -> SUBSET Mutexes] /\ flag \in [CVs -> {0, 1}]
  BY CoherentIs DEF CoherentBut, Fits
<1>3. /\ c \in Kernels /\ Sound(c) /\ SettledKept(s, c) /\ c.tag = s.tag /\ c.pc = s.pc
      /\ c.ref[t] = NoRef /\ c.cv[t] = NoCV
      /\ \A u \in Threads \ {t} : c.ref[u] = s.ref[u] /\ c.cv[u] = s.cv[u]
  BY <1>1, CancelRecords DEF Cancels
<1>4. /\ r \in Kernels /\ Sound(r) /\ SettledKept(c, r)
      /\ r.cv = c.cv /\ r.ref = c.ref /\ r.tag = c.tag /\ r.pc[t] = "user"
      /\ \A u \in Threads \ {t} : r.pc[u] = c.pc[u]
  <2>1. "user" \in PcValues /\ Placed(c, t, "user", r)
    BY DEF PcValues, InUser, Cancels
  <2> QED
    BY <1>3, <2>1, PlaceSound
<1>5. /\ want' = [want EXCEPT ![t] = 0] /\ seen' = [seen EXCEPT ![t] = NoThread]
      /\ owns' = owns /\ flag' = flag /\ alive' = alive
  BY DEF Returns
<1>6. CoherentBut(r, want', owns', flag', alive', t)
  <2>1. SettledKept(s, r)
    BY <1>3, <1>4 DEF SettledKept
  <2>2. \A u \in Threads \ {t} : want'[u] = want[u]
    BY <1>1, <1>5
  <2>3. \A u \in Threads \ {t} : SameFor(s, r, want, want', owns, owns', flag, flag', u)
    BY <1>1, <1>3, <1>4, <1>5, <2>2 DEF SameFor
  <2>4. want' \in [Threads -> Mutexes \cup {0}]
    BY <1>1, <1>5
  <2>5. Moves(s, r, want, want', owns, owns', flag, flag', alive, t)
    BY <1>1, <1>4, <1>5, <2>1, <2>3, <2>4 DEF Moves
  <2> QED
    BY <1>5, <2>5, OthersFit
<1>7. Fits(r, want', owns', flag', t)
  <2>1. r.cv[t] = NoCV /\ r.ref[t] = NoRef
    BY <1>3, <1>4
  <2>2. \A m \in Mutexes : s.tag[m].owner = t <=> m \in owns[t]
    BY <1>1 DEF OwnsFits, Waiting, Between
  <2>3. /\ \A m \in owns'[t] : r.tag[m].owner = t
        /\ \A m \in Mutexes : r.tag[m].owner = t => m \in owns'[t]
    BY <1>1, <1>3, <1>4, <1>5, <2>2
  <2> QED
    BY <1>4, <2>1, <2>3, FitsIdle
<1>8. Coherent(r, want', owns', flag', alive')
  BY <1>6, <1>7, CoherentIs
<1>9. seen \in [Threads -> Threads \cup {NoThread}]
  BY DEF KInv
<1>10. \A u \in Threads : r.pc[u] = "arbitrate_lock" => seen'[u] # u
  BY <1>3, <1>4, <1>5, <1>9
<1>11. seen' \in [Threads -> Threads \cup {NoThread}]
  BY <1>5, <1>9
<1>12. WordsPass(Kernel, r)
  BY <1>3, <1>4, KernelFields DEF WordsPass
<1> QED
  BY <1>8, <1>10, <1>11, <1>12, CallKeeps

LEMMA OnTimerKeeps ==
    ASSUME KInv, NEW t \in Threads, OnTimer(t) PROVE KInv' /\ NextOwnerWaits
<1> PICK s : /\ s = Kernel /\ s.pc = pc /\ s.tag = tag /\ Coherent(s, want, owns, flag, alive)
             /\ \A v \in Threads : s.pc[v] = "arbitrate_lock" => seen[v] # v
  BY KernelNow
<1> PICK c : c = CancelWait(s, t)
  OBVIOUS
<1> PICK r : Placed(c, t, "user", r)
  BY DEF Placed
<1>1. s.pc[t] \in Waiting /\ Returns(t) /\ UNCHANGED <<flag, owns, alive>>
  BY DEF OnTimer, Waiting, lifeVars
<1>2. SetKernel(r)
  <2>1. r = [CancelWait(Kernel, t) EXCEPT !.pc[t] = "user"]
    BY DEF Placed
  <2> QED
    BY <2>1 DEF OnTimer
<1>3. terminating' \in [Threads -> BOOLEAN]
  BY DEF OnTimer, lifeVars, KInv
<1>4. Cancels(s, t, c, r)
  BY DEF Cancels
<1> QED
  BY <1>1, <1>2, <1>3, <1>4, CancelKeeps

\* The priority is raised first, and then the wait, if there is one, is cancelled.
LEMMA RequestTerminateKeeps ==
    ASSUME KInv, NEW t \in Threads, RequestTerminate(t) PROVE KInv' /\ NextOwnerWaits
<1> PICK s : /\ s = Kernel /\ s \in Kernels /\ s.pc = pc /\ s.tag = tag
             /\ Coherent(s, want, owns, flag, alive)
             /\ \A v \in Threads : s.pc[v] = "arbitrate_lock" => seen[v] # v
  BY KernelNow
<1> PICK x : x = IncreaseBasePriority(s, t, TermPriority)
  OBVIOUS
<1>1. /\ x \in Kernels /\ Sound(x) /\ SettledKept(s, x)
      /\ x.ref = s.ref /\ x.cv = s.cv /\ x.tag = s.tag /\ x.pc = s.pc
  <2>1. /\ TermPriority \in Int /\ s \in Records(TagWords, [Threads -> PcValues]) /\ Sound(s)
    BY PriorityAssumption DEF Coherent, Kernels
  <2>2. CASE x = SetBasePriority(s, t, TermPriority)
    BY <2>1, <2>2, SetBasePrioritySound DEF Kernels
  <2>3. CASE x = s
    BY <2>1, <2>3 DEF SettledKept
  <2> QED
    BY <2>2, <2>3 DEF IncreaseBasePriority
<1>2. Coherent(x, want, owns, flag, alive)
  <2>1. PrioritiesMove(s, x, want, owns, flag, alive)
    BY <1>1 DEF PrioritiesMove
  <2> QED
    BY <2>1, PrioritiesKeep
<1>3. /\ terminating' \in [Threads -> BOOLEAN] /\ UNCHANGED <<flag, owns, alive>>
      /\ seen \in [Threads -> Threads \cup {NoThread}]
  BY DEF RequestTerminate, KInv
<1>4. \A v \in Threads : x.pc[v] = "arbitrate_lock" => seen[v] # v
  BY <1>1
<1>5. CASE /\ pc[t] \in Waiting /\ Returns(t)
           /\ SetKernel([CancelWait(x, t) EXCEPT !.pc[t] = "user"])
  <2> PICK c : c = CancelWait(x, t)
    OBVIOUS
  <2> PICK r : Placed(c, t, "user", r)
    BY DEF Placed
  <2>1. SetKernel(r)
    <3>1. r = [CancelWait(x, t) EXCEPT !.pc[t] = "user"]
      BY DEF Placed
    <3> QED
      BY <1>5, <3>1
  <2>2. Cancels(x, t, c, r) /\ x.pc[t] \in Waiting /\ x.tag = tag
    BY <1>1, <1>5 DEF Cancels
  <2> QED
    BY <1>2, <1>3, <1>4, <1>5, <2>1, <2>2, CancelKeeps
<1>6. CASE SetKernel(x) /\ want' = want /\ seen' = seen
  <2>1. Coherent(x, want', owns', flag', alive')
    BY <1>2, <1>3, <1>6
  <2>2. /\ seen' \in [Threads -> Threads \cup {NoThread}]
        /\ \A v \in Threads : x.pc[v] = "arbitrate_lock" => seen'[v] # v
    BY <1>3, <1>4, <1>6
  <2>3. WordsPass(s, x)
    BY <1>1 DEF WordsPass
  <2> QED
    BY <1>3, <1>6, <2>1, <2>2, <2>3, CallKeeps
<1> QED
  BY <1>5, <1>6 DEF RequestTerminate

-----------------------------------------------------------------------------
(* A thread is finalized *)

\* Those who wait for t.
WaitersFor(s, t) == {w \in Threads : s.ref[w].owner = t}

LEMMA ReleaseIs ==
    ASSUME NEW s \in Kernels, Sound(s), NEW t \in Threads, NEW r, r = ReleaseWaiters(s, t)
    PROVE  /\ r \in Kernels /\ r.base = s.base /\ r.prio = s.prio /\ r.cv = s.cv
           /\ r.tree = s.tree /\ r.panic = s.panic /\ r.tag = s.tag
           /\ \A m \in Mutexes : r.held[t][m] = {}
           /\ \A u \in Threads \ {t} : r.held[u] = s.held[u]
           /\ \A w \in WaitersFor(s, t) : r.ref[w] = NoRef /\ r.pc[w] = "exited"
           /\ \A w \in Threads \ WaitersFor(s, t) : r.ref[w] = s.ref[w] /\ r.pc[w] = s.pc[w]
<1> PICK R : R = {k.thread : k \in WaiterKeys(s, t)}
  OBVIOUS
<1>1. s \in Records(TagWords, [Threads -> PcValues]) /\ HeldAgrees(s, {})
  BY DEF Kernels, Sound
<1>2. R = WaitersFor(s, t)
  <2>1. ASSUME NEW w \in R PROVE w \in WaitersFor(s, t)
    <3>0. PICK m \in Mutexes : \E k \in s.held[t][m] : w = k.thread
      BY <2>1 DEF WaiterKeys
    <3>1. PICK k \in s.held[t][m] : w = k.thread
      BY <3>0
    <3>2. k \in KeysOf(s, Waiters(s, t, m) \ {})
      BY <1>1, <3>1 DEF HeldAgrees
    <3>3. w \in Waiters(s, t, m)
      BY <3>1, <3>2 DEF KeysOf, KeyOf
    <3> QED
      BY <3>3 DEF Waiters, WaitersFor
  <2>2. ASSUME NEW w \in WaitersFor(s, t) PROVE w \in R
    <3>1. w \in Threads /\ Waits(s, w) /\ s.ref[w].owner = t
      BY <2>2, Ids DEF WaitersFor, Waits
    <3>2. s.ref[w].addr \in Mutexes /\ w \in Waiters(s, s.ref[w].owner, s.ref[w].addr)
      BY <1>1, <3>1, RefOf
    <3> PICK m \in Mutexes : w \in Waiters(s, t, m)
      BY <3>1, <3>2
    <3>3. s.held[t][m] = KeysOf(s, Waiters(s, t, m) \ {})
      BY <1>1 DEF HeldAgrees
    <3>4. KeyOf(s, w) \in WaiterKeys(s, t)
      BY <3>3 DEF KeysOf, WaiterKeys
    <3> QED
      BY <3>4 DEF KeyOf
  <2> QED
    BY <2>1, <2>2
<1> DEFINE helds == [s.held EXCEPT ![t] = [m \in Mutexes |-> {}]]
           refs == [w \in Threads |-> IF w \in R THEN NoRef ELSE s.ref[w]]
           places == [w \in Threads |-> IF w \in R THEN "exited" ELSE s.pc[w]]
<1>3. /\ s.held \in [Threads -> [Mutexes -> SUBSET Keys]] /\ s.ref \in [Threads -> Refs]
      /\ s.pc \in [Threads -> PcValues]
  BY <1>1 DEF Records
<1>4. /\ helds \in [Threads -> [Mutexes -> SUBSET Keys]]
      /\ \A m \in Mutexes : helds[t][m] = {}
      /\ \A u \in Threads \ {t} : helds[u] = s.held[u]
  BY <1>3
<1>5. refs \in [Threads -> Refs]
  BY <1>3 DEF Refs
<1>6. places \in [Threads -> PcValues]
  BY <1>3 DEF PcValues
<1>7. /\ \A w \in R : w \in Threads => refs[w] = NoRef /\ places[w] = "exited"
      /\ \A w \in Threads \ R : refs[w] = s.ref[w] /\ places[w] = s.pc[w]
  OBVIOUS
<1>8. r = [s EXCEPT !.held = helds, !.ref = refs, !.pc = places]
  BY DEF ReleaseWaiters
<1> HIDE DEF helds, refs, places
<1>9. /\ r \in Kernels /\ r.base = s.base /\ r.prio = s.prio /\ r.cv = s.cv
      /\ r.tree = s.tree /\ r.panic = s.panic /\ r.tag = s.tag
      /\ r.held = helds /\ r.ref = refs /\ r.pc = places
  BY <1>1, <1>4, <1>5, <1>6, <1>8 DEF Records, Kernels
<1>10. WaitersFor(s, t) \subseteq Threads
  BY DEF WaitersFor
<1> QED
  BY <1>2, <1>4, <1>7, <1>9, <1>10

\* Sound, and settled but for t itself.
LEMMA ReleaseSound ==
    ASSUME NEW s \in Kernels, Sound(s), NEW t \in Threads, NEW r, r = ReleaseWaiters(s, t)
    PROVE  /\ Sound(r)
           /\ \A u \in Threads \ {t} : Settled(s, u) => Settled(r, u)
<1>1. s \in Records(TagWords, [Threads -> PcValues]) /\ HeldAgrees(s, {}) /\ TreesAgree(s)
      /\ Ascends(s) /\ ~s.panic
  BY DEF Kernels, Sound
<1>2. /\ r \in Kernels /\ r.base = s.base /\ r.prio = s.prio /\ r.cv = s.cv
      /\ r.tree = s.tree /\ r.panic = s.panic
      /\ \A m \in Mutexes : r.held[t][m] = {}
      /\ \A u \in Threads \ {t} : r.held[u] = s.held[u]
      /\ \A w \in WaitersFor(s, t) : r.ref[w] = NoRef
      /\ \A w \in Threads \ WaitersFor(s, t) : r.ref[w] = s.ref[w]
  BY ReleaseIs
<1>3. HeldAgrees(r, {})
  <2>1. \A W : KeysOf(r, W) = KeysOf(s, W)
    BY <1>2 DEF KeysOf, KeyOf
  <2>2. ASSUME NEW o \in Threads, NEW m \in Mutexes
        PROVE  r.held[o][m] = KeysOf(r, Waiters(r, o, m) \ {})
    <3>1. CASE o = t
      <4>1. Waiters(r, t, m) \ {} = {}
        BY <1>2, Ids DEF Waiters, WaitersFor, NoRef
      <4> QED
        BY <1>2, <3>1, <4>1 DEF KeysOf
    <3>2. CASE o # t
      <4>1. Waiters(r, o, m) = Waiters(s, o, m)
        BY <1>2, <3>2, Ids DEF Waiters, WaitersFor, NoRef
      <4> QED
        BY <1>1, <1>2, <2>1, <3>2, <4>1 DEF HeldAgrees
    <3> QED
      BY <3>1, <3>2
  <2> QED
    BY <2>2 DEF HeldAgrees
<1>4. TreesAgree(r)
  BY <1>1, <1>2, TreesSame
<1>5. Ascends(r)
  <2>1. \A w \in Threads : Waits(r, w) => Waits(s, w) /\ r.ref[w] = s.ref[w]
    BY <1>2 DEF Waits, NoRef
  <2>2. \A w \in Threads : Waits(s, w) => s.ref[w].owner \in Threads
    BY <1>1, RefOf
  <2> QED
    BY <1>1, <2>1, <2>2 DEF Ascends
<1>6. \A u \in Threads \ {t} : Settled(s, u) => Settled(r, u)
  BY <1>2, SettledSame
<1> QED
  BY <1>1, <1>2, <1>3, <1>4, <1>5, <1>6 DEF Sound

LEMMA FinalizeKeeps ==
    ASSUME KInv, NEW t \in Threads, Finalize(t) PROVE KInv' /\ NextOwnerWaits
<1> PICK s : /\ s = Kernel /\ s \in Kernels /\ s.pc = pc
             /\ Coherent(s, want, owns, flag, alive)
             /\ \A v \in Threads : s.pc[v] = "arbitrate_lock" => seen[v] # v
  BY KernelNow
<1> PICK r : r = ReleaseWaiters(s, t)
  OBVIOUS
<1>1. /\ SetKernel(r) /\ flag' = flag /\ want' = want /\ owns' = owns /\ seen' = seen
      /\ alive' = [alive EXCEPT ![t] = FALSE] /\ terminating' = terminating
  BY DEF Finalize, guestVars
<1>2. /\ Sound(s) /\ want \in [Threads -> Mutexes \cup {0}]
      /\ owns \in [Threads -> SUBSET Mutexes] /\ flag \in [CVs -> {0, 1}]
      /\ alive \in [Threads -> BOOLEAN]
      /\ \A u \in Threads : Fits(s, want, owns, flag, u)
      /\ \A u \in Threads : alive[u] => Settled(s, u)
  BY DEF Coherent
<1>3. /\ r \in Kernels /\ r.cv = s.cv /\ r.tag = s.tag
      /\ \A w \in WaitersFor(s, t) : r.ref[w] = NoRef /\ r.pc[w] = "exited"
      /\ \A w \in Threads \ WaitersFor(s, t) : r.ref[w] = s.ref[w] /\ r.pc[w] = s.pc[w]
  BY <1>2, ReleaseIs
<1>4. Sound(r) /\ \A u \in Threads \ {t} : Settled(s, u) => Settled(r, u)
  BY <1>2, ReleaseSound
<1>5. ASSUME NEW u \in Threads PROVE Fits(r, want, owns, flag, u)
  <2>1. CASE u \in WaitersFor(s, t)
    <3>1. s.ref[u] # NoRef
      BY <2>1, Ids DEF WaitersFor, NoRef
    <3>2. s.cv[u] = NoCV /\ \A m \in owns[u] : s.tag[m].owner = u
      BY <1>2, <3>1 DEF Fits, WaitFits, OwnsFits
    <3> QED
      BY <1>3, <2>1, <3>2, FitsIdle
  <2>2. CASE u \notin WaitersFor(s, t)
    <3>1. SameFor(s, r, want, want, owns, owns, flag, flag, u)
      BY <1>2, <1>3, <2>2 DEF SameFor
    <3> QED
      BY <1>2, <3>1, FitsSame
  <2> QED
    BY <2>1, <2>2
<1>6. /\ alive' \in [Threads -> BOOLEAN]
      /\ \A u \in Threads : alive'[u] => u # t /\ alive[u]
  BY <1>1, <1>2
<1>7. Coherent(r, want, owns, flag, alive')
  BY <1>2, <1>3, <1>4, <1>5, <1>6 DEF Coherent
<1>8. Coherent(r, want', owns', flag', alive')
  BY <1>1, <1>7
<1>9. /\ seen' \in [Threads -> Threads \cup {NoThread}] /\ terminating' \in [Threads -> BOOLEAN]
  BY <1>1 DEF KInv
<1>10. \A v \in Threads : r.pc[v] = "arbitrate_lock" => seen'[v] # v
  BY <1>1, <1>3
<1>11. WordsPass(s, r)
  BY <1>3 DEF WordsPass
<1> QED
  BY <1>1, <1>8, <1>9, <1>10, <1>11, CallKeeps

-----------------------------------------------------------------------------
(* The invariant and what follows from it *)

\* What guests do by themselves passes no mutex on.
LEMMA GuestPasses ==
    ASSUME KInv, NEW t \in Threads, NEW m \in Mutexes,
           GuestLock(t, m) \/ GuestContend(t, m) \/ GuestUnlock(t, m)
    PROVE  NextOwnerWaits
<1>1. tag \in TagWords
  BY KernelFields DEF KInv, Coherent, Kernels, Records
<1>2. \A a \in Mutexes :
         \/ tag[a].owner = NoThread
         \/ tag'[a].owner \in {NoThread, tag[a].owner}
  <2>1. CASE tag[m] = Free /\ tag' = [tag EXCEPT ![m] = [owner |-> t, waiters |-> FALSE]]
    BY <1>1, <2>1 DEF TagWords, Free
  <2>2. CASE tag' = [tag EXCEPT ![m] = Free] \/ tag' = tag
    BY <1>1, <2>2 DEF TagWords, Free
  <2>3. CASE tag' = [tag EXCEPT ![m].waiters = TRUE]
    <3>1. Kernel \in Kernels /\ Kernel.tag = tag
      BY KernelFields DEF KInv, Coherent
    <3>2. [tag[m] EXCEPT !.waiters = TRUE].owner = tag[m].owner
      BY <3>1, WaitBit
    <3>3. tag'[m] = [tag[m] EXCEPT !.waiters = TRUE] /\ \A a \in Mutexes \ {m} : tag'[a] = tag[a]
      BY <1>1, <2>3 DEF TagWords
    <3> QED
      BY <3>2, <3>3
  <2> QED
    BY <2>1, <2>2, <2>3 DEF GuestLock, GuestContend, GuestUnlock
<1> QED
  BY <1>2 DEF NextOwnerWaits

\* A step that changes no word passes no mutex on.
LEMMA NothingPasses ==
    ASSUME tag' = tag PROVE NextOwnerWaits
  BY DEF NextOwnerWaits

\* Every step keeps the invariant, and does what HandsToHighest says.
LEMMA NextKeeps ==
    ASSUME KInv, LockOrder, [Next]_vars PROVE KInv' /\ NextOwnerWaits
<1>1. ASSUME NEW t \in Threads, GuestStep(t) PROVE KInv' /\ NextOwnerWaits
  <2>1. CASE GuestResume(t)
    <3>1. tag' = tag
      BY <2>1 DEF GuestResume
    <3> QED
      BY <2>1, <3>1, GuestResumeKeeps, NothingPasses
  <2>2. ASSUME NEW m \in Mutexes, GuestLock(t, m) PROVE KInv' /\ NextOwnerWaits
    BY <2>2, GuestLockKeeps, GuestPasses
  <2>3. ASSUME NEW m \in Mutexes, GuestContend(t, m) PROVE KInv' /\ NextOwnerWaits
    BY <2>3, GuestContendKeeps, GuestPasses
  <2>4. ASSUME NEW m \in Mutexes, GuestUnlock(t, m) PROVE KInv' /\ NextOwnerWaits
    BY <2>4, GuestUnlockKeeps, GuestPasses
  <2> QED
    BY <1>1, <2>1, <2>2, <2>3, <2>4 DEF GuestStep
<1>2. ASSUME NEW t \in Threads, SystemCall(t) PROVE KInv' /\ NextOwnerWaits
  <2>1. CASE ArbitrateLockReturns(t) \/ ArbitrateLockFails(t)
    <3>1. tag' = tag
      BY <2>1 DEF ArbitrateLockReturns, ArbitrateLockFails
    <3> QED
      BY <2>1, <3>1, ArbitrateLockEnds, NothingPasses
  <2>2. CASE ArbitrateLockWaits(t)
    BY <2>2, ArbitrateLockWaitsKeeps
  <2>3. CASE ArbitrateUnlock(t)
    BY <2>3, ArbitrateUnlockKeeps
  <2>4. ASSUME NEW m \in Mutexes, NEW k \in CVs, WaitProcessWideKey(t, m, k)
        PROVE  KInv' /\ NextOwnerWaits
    BY <2>4, WaitProcessWideKeyKeeps
  <2>5. ASSUME NEW m \in Mutexes, NEW k \in CVs, WaitProcessWideKeyPolls(t, m, k)
        PROVE  KInv' /\ NextOwnerWaits
    BY <2>5, WaitProcessWideKeyPollsKeeps
  <2>6. ASSUME NEW k \in CVs, NEW count \in Counts, SignalProcessWideKey(t, k, count)
        PROVE  KInv' /\ NextOwnerWaits
    BY <2>6, SignalProcessWideKeyKeeps
  <2>7. ASSUME NEW u \in Threads, NEW p \in Priorities, SetThreadPriority(t, u, p)
        PROVE  KInv' /\ NextOwnerWaits
    BY <2>7, SetThreadPriorityKeeps
  <2> QED
    BY <1>2, <2>1, <2>2, <2>3, <2>4, <2>5, <2>6, <2>7 DEF SystemCall
<1>3. ASSUME NEW t \in Threads, OnTimer(t) PROVE KInv' /\ NextOwnerWaits
  BY <1>3, OnTimerKeeps
<1>4. ASSUME NEW t \in Threads, RequestTerminate(t) PROVE KInv' /\ NextOwnerWaits
  BY <1>4, RequestTerminateKeeps
<1>5. ASSUME NEW t \in Threads, Exit(t) PROVE KInv' /\ NextOwnerWaits
  <2>1. tag' = tag
    BY <1>5 DEF Exit
  <2> QED
    BY <1>5, <2>1, ArbitrateLockEnds, NothingPasses
<1>6. ASSUME NEW t \in Threads, Finalize(t) PROVE KInv' /\ NextOwnerWaits
  BY <1>6, FinalizeKeeps
<1>7. CASE UNCHANGED vars
  <2>1. /\ Kernel' = Kernel /\ tag' = tag /\ pc' = pc
        /\ want' = want /\ owns' = owns /\ seen' = seen /\ flag' = flag /\ alive' = alive
        /\ terminating' = terminating
    BY <1>7 DEF vars, threadVars, guestVars, lifeVars, Kernel
  <2>2. KInv'
    BY <2>1 DEF KInv
  <2> QED
    BY <2>1, <2>2, NothingPasses
<1> QED
  BY <1>1, <1>2, <1>3, <1>4, <1>5, <1>6, <1>7 DEF Next

LEMMA AlwaysKInv == ASSUME LockOrder PROVE Spec => []KInv
<1>1. Init => KInv
  BY InitKInv
<1>2. KInv /\ [Next]_vars => KInv'
  BY NextKeeps
<1> QED
  BY <1>1, <1>2, PTL DEF Spec

\* What the invariant says of the variables.
LEMMA KInvIs ==
    ASSUME KInv
    PROVE  \E s : /\ s = Kernel /\ s \in Kernels /\ Sound(s)
                  /\ s \in Records(TagWords, [Threads -> PcValues])
                  /\ s.base = base /\ s.prio = prio /\ s.held = held /\ s.ref = ref /\ s.cv = cv
                  /\ s.tree = tree /\ s.panic = panic /\ s.tag = tag /\ s.pc = pc
                  /\ \A u \in Threads : WaitFits(s, want, flag, u) /\ OwnsFits(s, want, owns, u)
                  /\ \A u \in Threads : alive[u] => Settled(s, u)
<1> PICK s : s = Kernel
  OBVIOUS
<1>1. Coherent(s, want, owns, flag, alive)
  BY DEF KInv
<1>2. /\ s.base = base /\ s.prio = prio /\ s.held = held /\ s.ref = ref /\ s.cv = cv
      /\ s.tree = tree /\ s.panic = panic /\ s.tag = tag /\ s.pc = pc
  BY KernelFields
<1> QED
  BY <1>1, <1>2 DEF Coherent, Fits, Kernels

\* Every value the kernel and the guests write is one the fields may hold.
THEOREM TypeCorrect == ASSUME LockOrder PROVE Spec => []TypeOK
<1>1. ASSUME KInv PROVE TypeOK
  <2> PICK s : /\ s \in Records(TagWords, [Threads -> PcValues])
               /\ s.base = base /\ s.prio = prio /\ s.held = held /\ s.ref = ref /\ s.cv = cv
               /\ s.tree = tree /\ s.panic = panic /\ s.tag = tag /\ s.pc = pc
    BY <1>1, KInvIs
  <2>1. /\ base \in [Threads -> Int] /\ prio \in [Threads -> Int]
        /\ \A t \in Threads, m \in Mutexes : held[t][m] \subseteq Keys
        /\ ref \in [Threads -> {NoRef} \cup [owner : Threads, addr : Mutexes]]
        /\ cv \in [Threads -> CVs \cup {NoCV}] /\ tree \in [CVs -> Seq(Keys)]
    BY DEF Records, Refs
  <2>2. /\ panic \in BOOLEAN
        /\ tag \in [Mutexes -> {Free} \cup [owner : Threads, waiters : BOOLEAN]]
        /\ pc \in [Threads -> Waiting \cup InUser \cup {"exited"}]
    BY DEF Records, TagWords, PcValues
  <2> QED
    BY <1>1, <2>1, <2>2 DEF TypeOK, KInv, Coherent
<1> QED
  BY <1>1, AlwaysKInv, PTL

\* The kernel hands a mutex to one waiter, and a guest takes one only when its word
\* is free: the word of a mutex names every guest that takes itself to hold it.
THEOREM OneHolder == ASSUME LockOrder PROVE Spec => []MutualExclusion
<1>1. ASSUME KInv PROVE MutualExclusion
  <2> SUFFICES ASSUME NEW t \in Threads, NEW u \in Threads, NEW m \in owns[t] \cap owns[u]
               PROVE  t = u
    BY DEF MutualExclusion
  <2>1. \A v \in Threads : \A a \in owns[v] : tag[a].owner = v
    BY <1>1, KInvIs DEF OwnsFits
  <2> QED
    BY <2>1
<1> QED
  BY <1>1, AlwaysKInv, PTL

\* The owner of a mutex somebody waits for finds the wait bit and calls the kernel,
\* whatever the kernel does between its hand-overs, signals and cancelled waits.
THEOREM CoveredWaits == ASSUME LockOrder PROVE Spec => []WaitersAreCovered
<1>1. ASSUME KInv PROVE WaitersAreCovered
  <2>1. \A t \in Threads : ref[t] # NoRef =>
           ref[t].addr = want[t] /\ tag[want[t]] = [owner |-> ref[t].owner, waiters |-> TRUE]
    BY <1>1, KInvIs DEF WaitFits
  <2> QED
    BY <2>1 DEF WaitersAreCovered
<1> QED
  BY <1>1, AlwaysKInv, PTL

\* restore_priority, which stops where a priority stays the same, and the tests
\* that spare it leave every living thread with the priority of its waiters.
THEOREM InheritedPriorities == ASSUME LockOrder PROVE Spec => []PriorityInherited
<1>1. ASSUME KInv PROVE PriorityInherited
  <2> SUFFICES ASSUME NEW t \in Threads, alive[t]
               PROVE  prio[t] = Min({base[t]} \cup {prio[w] : w \in WaitersOf(t)})
    BY DEF PriorityInherited
  <2> PICK s : /\ s \in Records(TagWords, [Threads -> PcValues]) /\ Sound(s)
               /\ s.base = base /\ s.prio = prio /\ s.ref = ref /\ Settled(s, t)
    BY <1>1, KInvIs
  <2>0. HeldAgrees(s, {})
    BY DEF Sound
  <2>1. {k.prio : k \in WaiterKeys(s, t)} = WaiterPrios(s, {}, t)
    BY <2>0, PriosOfWaiters, Zenon
  <2>2. WaiterPrios(s, {}, t) = {prio[w] : w \in WaitersOf(t)}
    BY DEF WaiterPrios, WaitersOf
  <2> QED
    BY <2>1, <2>2 DEF Settled, InheritedPriority
<1> QED
  BY <1>1, AlwaysKInv, PTL

\* The trees of the owners and of the condition variables hold the threads that
\* wait in them, once, under their present priorities and in their order.
THEOREM AgreeingQueues == ASSUME LockOrder PROVE Spec => []QueuesAgree
<1>1. ASSUME KInv PROVE QueuesAgree
  <2> PICK s : /\ s = Kernel /\ s \in Records(TagWords, [Threads -> PcValues]) /\ Sound(s)
               /\ s.held = held /\ s.ref = ref /\ s.cv = cv /\ s.tree = tree /\ s.pc = pc
               /\ \A u \in Threads : WaitFits(s, want, flag, u)
    BY <1>1, KInvIs
  <2>1. ASSUME NEW o \in Threads, NEW m \in Mutexes
        PROVE  held[o][m] = {KeyOf(Kernel, w) : w \in
                                {u \in Threads : ref[u] = [owner |-> o, addr |-> m]}}
    <3>1. held[o][m] = KeysOf(Kernel, Waiters(s, o, m) \ {})
      BY DEF Sound, HeldAgrees
    <3>2. Waiters(s, o, m) \ {} = {u \in Threads : ref[u] = [owner |-> o, addr |-> m]}
      BY DEF Waiters
    <3> QED
      BY <3>1, <3>2, Zenon DEF KeysOf
  <2>2. ASSUME NEW k \in CVs
        PROVE  /\ {tree[k][i] : i \in 1..Len(tree[k])} =
                     {KeyOf(Kernel, w) : w \in {u \in Threads : cv[u] = k}}
               /\ Len(tree[k]) = Cardinality({u \in Threads : cv[u] = k})
               /\ \A i \in 1..(Len(tree[k]) - 1) : tree[k][i].prio <= tree[k][i + 1].prio
    <3> PICK q : q = tree[k]
      OBVIOUS
    <3>1. q \in Seq(Keys) /\ Range(q) = KeysOf(s, Sleepers(s, k)) /\ InOrder(q, ByPriority)
      BY DEF Records, Sound, TreesAgree
    <3>2. Len(q) \in Nat /\ DOMAIN q = 1..Len(q)
      BY <3>1
    <3>3. {tree[k][i] : i \in 1..Len(tree[k])} = Range(tree[k])
      BY <3>2 DEF Range
    <3>4. Len(q) = Cardinality(Sleepers(s, k))
      BY TreeLength DEF Sound
    <3>5. ASSUME NEW i \in 1..(Len(q) - 1) PROVE q[i].prio <= q[i + 1].prio
      <4>1. i \in DOMAIN q /\ i + 1 \in DOMAIN q /\ i < i + 1
        BY <3>2
      <4>2. <<q[i], q[i + 1]>> \in ByPriority
        BY <3>1, <4>1 DEF InOrder
      <4>3. <<q[i], q[i + 1]>>[1].prio <= <<q[i], q[i + 1]>>[2].prio
        BY <4>2 DEF ByPriority
      <4> QED
        BY <4>3
    <3>6. Sleepers(s, k) = {u \in Threads : cv[u] = k}
      BY DEF Sleepers
    <3>7. {tree[k][i] : i \in 1..Len(tree[k])} = KeysOf(Kernel, {u \in Threads : cv[u] = k})
      BY <3>1, <3>3, <3>6
    <3>8. {tree[k][i] : i \in 1..Len(tree[k])} =
             {KeyOf(Kernel, w) : w \in {u \in Threads : cv[u] = k}}
      BY <3>7, Zenon DEF KeysOf
    <3>9. Len(tree[k]) = Cardinality({u \in Threads : cv[u] = k})
      BY <3>4, <3>6
    <3>10. \A i \in 1..(Len(tree[k]) - 1) : tree[k][i].prio <= tree[k][i + 1].prio
      BY <3>5
    <3> QED
      BY <3>8, <3>9, <3>10, Zenon
  <2>3. ASSUME NEW t \in Threads
        PROVE  /\ cv[t] # NoCV => pc[t] = "cv_wait"
               /\ ref[t] # NoRef <=> pc[t] \in Waiting /\ cv[t] = NoCV
    BY DEF WaitFits
  <2> QED
    BY <2>1, <2>2, <2>3, Zenon DEF QueuesAgree
<1> QED
  BY <1>1, AlwaysKInv, PTL

\* The word of a condition variable is cleared only when its tree is empty.
THEOREM NoSignalIsLost == ASSUME LockOrder PROVE Spec => []SignalsAreNotLost
<1>1. ASSUME KInv PROVE SignalsAreNotLost
  <2> SUFFICES ASSUME NEW k \in CVs, tree[k] # <<>> PROVE flag[k] = 1
    BY DEF SignalsAreNotLost
  <2> PICK s : /\ s \in Records(TagWords, [Threads -> PcValues]) /\ Sound(s) /\ s.tree = tree
               /\ \A u \in Threads : WaitFits(s, want, flag, u)
    BY <1>1, KInvIs
  <2>1. Head(s.tree[k]).thread \in Sleepers(s, k)
    BY TreeLength DEF Sound
  <2> PICK w \in Threads : s.cv[w] = k
    BY <2>1 DEF Sleepers
  <2> QED
    BY Ids DEF WaitFits
<1> QED
  BY <1>1, AlwaysKInv, PTL

\* restore_priority and the hand-overs never remove a waiter from a lock info that
\* is not there: the expect of remove_waiter_impl holds.
THEOREM LockInfoThere == ASSUME LockOrder PROVE Spec => []LockInfoFound
<1>1. ASSUME KInv PROVE LockInfoFound
  <2>1. ~panic
    BY <1>1, KInvIs DEF Sound
  <2> QED
    BY <2>1 DEF LockInfoFound
<1> QED
  BY <1>1, AlwaysKInv, PTL

\* signal_to_address and the wait on a condition variable hand a mutex to the first
\* waiter of the tree, which is one of the highest present priority.
THEOREM HighestIsNext == ASSUME LockOrder PROVE Spec => HandsToHighest
<1>1. ASSUME KInv, [Next]_vars PROVE NextOwnerWaits
  BY <1>1, NextKeeps
<1> QED
  BY <1>1, AlwaysKInv, PTL DEF Spec, HandsToHighest, NextOwnerWaits
=============================================================================
