---------------------- MODULE PriorityInheritance_proofs -----------------------
(***************************************************************************)
(* Facts about the lock waiters of KThread: what each of its methods does  *)
(* to the trees of waiters, and that restore_priority, which moves threads *)
(* from place to place in these trees on its way along the owners, always  *)
(* finds them there and leaves every thread with the priority it should    *)
(* have.                                                                   *)
(*                                                                         *)
(* The chain of owners ends because the mutexes along it have ascending    *)
(* addresses (Ascends).  Methods detach waiters from a tree before or      *)
(* after they clear their back pointers, with a restore_priority in        *)
(* between; X is the set of such waiters, and the chain never meets them.  *)
(***************************************************************************)
EXTENDS PriorityInheritance, ListLemmas, FiniteSetTheorems

\* Distinct numbers, and no thread is null.
LEMMA Ids ==
    /\ IsFiniteSet(Threads) /\ Cardinality(Threads) \in Nat
    /\ \A t \in Threads : t \in Nat /\ t # NoThread
    /\ \A m \in Mutexes : m \in Nat /\ m # 0
    /\ \A k \in CVs : k \in Nat /\ k # NoCV
<1>1. Cardinality(Threads) \in Nat
  BY IdsAssumption, FS_CardinalityType
<1> QED
  BY <1>1, IdsAssumption

Refs == {NoRef} \cup [owner : Threads, addr : Mutexes]

\* The records: KThread's fields, and two that its methods leave alone.
Records(Tags, Places) ==
    [base : [Threads -> Int], prio : [Threads -> Int],
     held : [Threads -> [Mutexes -> SUBSET Keys]], ref : [Threads -> Refs],
     cv : [Threads -> CVs \cup {NoCV}], tree : [CVs -> Seq(Keys)],
     panic : BOOLEAN, tag : Tags, pc : Places]

\* A strict order has a minimal element in every finite set.
LEMMA FiniteMinimal ==
    ASSUME NEW S, IsFiniteSet(S), S # {}, NEW R,
           \A x \in S : <<x, x>> \notin R,
           \A x, y, z \in S : <<x, y>> \in R /\ <<y, z>> \in R => <<x, z>> \in R
    PROVE  \E x \in S : \A y \in S : <<y, x>> \notin R
<1> DEFINE lower == [x \in S |-> {y \in S : <<y, x>> \in R}]
           size == [x \in S |-> Cardinality(lower[x])]
           Sizes == {size[x] : x \in S}
<1>1. \A x, y \in S : y \in lower[x] <=> <<y, x>> \in R
  OBVIOUS
<1>2. \A x \in S : lower[x] \in SUBSET S
  OBVIOUS
<1>3. \A x \in S : size[x] = Cardinality(lower[x])
  OBVIOUS
<1> HIDE DEF lower, size
<1>4. \A x \in S : IsFiniteSet(lower[x]) /\ size[x] \in Nat
  BY <1>2, <1>3, FS_Subset, FS_CardinalityType
<1>5. PICK x \in S : \A y \in S : size[x] <= size[y]
  <2>1. Sizes \in SUBSET Nat /\ \E n : n \in Sizes
    BY <1>4
  <2>2. \E n \in Sizes : \A k \in Sizes : n <= k
    <3> HIDE DEF Sizes
    <3> QED
      BY <2>1, LeastNumber
  <2> QED
    BY <2>2
<1>6. ASSUME NEW y \in S, <<y, x>> \in R PROVE FALSE
  <2>1. lower[y] \in SUBSET lower[x] /\ lower[x] # lower[y]
    BY <1>1, <1>2, <1>6
  <2>2. size[y] <= size[x] /\ (size[x] = size[y] => lower[x] = lower[y])
    BY <1>3, <1>4, <2>1, FS_Subset
  <2> QED
    BY <1>4, <1>5, <2>1, <2>2
<1> QED
  BY <1>6

\* The least of a finite set of numbers.
LEMMA MinOf ==
    ASSUME NEW S \in SUBSET Int, IsFiniteSet(S), S # {}
    PROVE  Min(S) \in S /\ \A y \in S : Min(S) <= y
<1> DEFINE R == {p \in S \X S : p[1] < p[2]}
<1>1. \A x, y \in S : <<x, y>> \in R <=> x < y
  OBVIOUS
<1>2. \E x \in S : \A y \in S : <<y, x>> \notin R
  <2>1. /\ \A x \in S : <<x, x>> \notin R
        /\ \A x, y, z \in S : <<x, y>> \in R /\ <<y, z>> \in R => <<x, z>> \in R
    <3> HIDE DEF R
    <3> QED
      BY <1>1
  <2> HIDE DEF R
  <2> QED
    BY <2>1, FiniteMinimal
<1> HIDE DEF R
<1>3. PICK x \in S : \A y \in S : <<y, x>> \notin R
  BY <1>2
<1>4. \A y \in S : x <= y
  <2> TAKE y \in S
  <2>1. x \in Int /\ y \in Int /\ ~(y < x)
    BY <1>1, <1>3
  <2> QED
    BY <2>1
<1> QED
  BY <1>4 DEF Min

\* A number of a set that is below all others is the least.
LEMMA MinIs ==
    ASSUME NEW S \in SUBSET Int, NEW n \in S, \A y \in S : n <= y
    PROVE  Min(S) = n
<1>1. Min(S) \in S /\ \A y \in S : Min(S) <= y
  BY DEF Min
<1>2. Min(S) \in Int /\ n \in Int /\ Min(S) <= n /\ n <= Min(S)
  BY <1>1
<1> QED
  BY <1>2

\* The first waiter of a tree is there and before all others.
LEMMA HighestIsFirst ==
    ASSUME NEW keys \in SUBSET Keys, IsFiniteSet(keys), keys # {}
    PROVE  /\ Highest(keys) \in keys
           /\ \A j \in keys : Before(Highest(keys), j)
<1> DEFINE Less2(x, y) == x.prio < y.prio \/ (x.prio = y.prio /\ x.thread < y.thread)
           R == {p \in keys \X keys : Less2(p[1], p[2])}
<1>1. \A x \in keys : x.prio \in Int /\ x.thread \in Nat
  BY Ids DEF Keys
<1>2. \A x, y \in keys : <<x, y>> \in R <=> Less2(x, y)
  OBVIOUS
<1>3. PICK x \in keys : \A y \in keys : <<y, x>> \notin R
  <2>1. /\ \A y \in keys : <<y, y>> \notin R
        /\ \A u, v, w \in keys : <<u, v>> \in R /\ <<v, w>> \in R => <<u, w>> \in R
    <3> HIDE DEF R
    <3> QED
      BY <1>1, <1>2
  <2> HIDE DEF R
  <2> QED
    BY <2>1, FiniteMinimal
<1> HIDE DEF R
<1>4. \A y \in keys : Before(x, y)
  <2> TAKE y \in keys
  <2>1. ~Less2(y, x) /\ x.prio \in Int /\ y.prio \in Int /\ x.thread \in Nat /\ y.thread \in Nat
    BY <1>1, <1>2, <1>3
  <2> QED
    BY <2>1 DEF Before
<1> QED
  BY <1>4 DEF Highest

-----------------------------------------------------------------------------
(* What the methods keep *)

\* The threads that wait for mutex m of thread o, and the threads in the tree of
\* condition variable k.
Waiters(s, o, m) == {w \in Threads : s.ref[w] = [owner |-> o, addr |-> m]}
Sleepers(s, k) == {w \in Threads : s.cv[w] = k}

\* The keys of the threads in W.
KeysOf(s, W) == {KeyOf(s, w) : w \in W}

\* The trees of each owner hold its waiters, under their present priority, but
\* for the detached threads X.
HeldAgrees(s, X) ==
    \A o \in Threads, m \in Mutexes :
        s.held[o][m] = KeysOf(s, Waiters(s, o, m) \ X)

\* The order of a condition variable tree; no thread is in it twice.
ByPriority == {p \in Keys \X Keys : p[1].prio <= p[2].prio /\ p[1].thread # p[2].thread}

TreesAgree(s) ==
    \A k \in CVs :
        /\ Range(s.tree[k]) = KeysOf(s, Sleepers(s, k))
        /\ InOrder(s.tree[k], ByPriority)

Waits(s, w) == s.ref[w].owner # NoThread

\* Who waits for a thread that waits itself waits for a mutex of a lower address.
Ascends(s) ==
    \A w \in Threads : Waits(s, w) =>
        (Waits(s, s.ref[w].owner) => s.ref[w].addr < s.ref[s.ref[w].owner].addr)

\* The thread has the priority that restore_priority would give it.
Settled(s, t) == s.prio[t] = InheritedPriority(s, t)

Sound(s) == HeldAgrees(s, {}) /\ TreesAgree(s) /\ Ascends(s) /\ ~s.panic

\* A thread waits for a mutex of a thread, or for nothing.
LEMMA RefOf ==
    ASSUME NEW Tags, NEW Places, NEW s \in Records(Tags, Places), NEW w \in Threads
    PROVE  /\ Waits(s, w) => /\ s.ref[w].owner \in Threads /\ s.ref[w].addr \in Mutexes
                             /\ s.ref[w] = [owner |-> s.ref[w].owner, addr |-> s.ref[w].addr]
                             /\ w \in Waiters(s, s.ref[w].owner, s.ref[w].addr)
           /\ ~Waits(s, w) => s.ref[w] = NoRef
           /\ \A o \in Threads, m \in Mutexes :
                 w \in Waiters(s, o, m) => Waits(s, w) /\ s.ref[w].owner = o /\ s.ref[w].addr = m
<1>1. s.ref[w] \in Refs
  BY DEF Records
<1>2. CASE s.ref[w] = NoRef
  BY <1>2, Ids DEF Waits, NoRef, Waiters
<1>3. CASE s.ref[w] \in [owner : Threads, addr : Mutexes]
  BY <1>3, Ids DEF Waits, NoRef, Waiters
<1> QED
  BY <1>1, <1>2, <1>3 DEF Refs

\* Keys are keys, and tell threads apart.
LEMMA KeyType ==
    ASSUME NEW Tags, NEW Places, NEW s \in Records(Tags, Places)
    PROVE  /\ \A t \in Threads : KeyOf(s, t) \in Keys /\ s.prio[t] \in Int
           /\ \A t, u \in Threads : KeyOf(s, t) = KeyOf(s, u) => t = u
           /\ \A t \in Threads : KeyOf(s, t).prio = s.prio[t] /\ KeyOf(s, t).thread = t
  BY DEF Records, KeyOf, Keys

\* The priorities of a thread's waiters.
WaiterPrios(s, X, t) == {s.prio[w] : w \in {u \in Threads \ X : s.ref[u].owner = t}}

LEMMA PriosOfWaiters ==
    ASSUME NEW Tags, NEW Places, NEW s \in Records(Tags, Places), NEW X, HeldAgrees(s, X),
           NEW t \in Threads
    PROVE  /\ {k.prio : k \in WaiterKeys(s, t)} = WaiterPrios(s, X, t)
           /\ {s.base[t]} \cup WaiterPrios(s, X, t) \in SUBSET Int
           /\ IsFiniteSet({s.base[t]} \cup WaiterPrios(s, X, t))
<1> DEFINE W == {u \in Threads \ X : s.ref[u].owner = t}
<1>1. ASSUME NEW k \in WaiterKeys(s, t) PROVE \E w \in W : k.prio = s.prio[w]
  <2>1. PICK m \in Mutexes : k \in s.held[t][m]
    BY DEF WaiterKeys
  <2>2. PICK w \in Waiters(s, t, m) \ X : k = KeyOf(s, w)
    BY <2>1 DEF HeldAgrees, KeysOf
  <2>3. w \in W
    BY <2>2 DEF Waiters
  <2> QED
    BY <2>2, <2>3, KeyType
<1>2. ASSUME NEW w \in W PROVE \E k \in WaiterKeys(s, t) : k.prio = s.prio[w]
  <2>1. Waits(s, w)
    BY Ids DEF Waits
  <2>2. s.ref[w].addr \in Mutexes /\ w \in Waiters(s, t, s.ref[w].addr) \ X
    BY <2>1, RefOf
  <2>3. KeyOf(s, w) \in s.held[t][s.ref[w].addr]
    BY <2>2 DEF HeldAgrees, KeysOf
  <2> QED
    BY <2>2, <2>3, KeyType DEF WaiterKeys
<1>3. IsFiniteSet(W)
  BY Ids, FS_Subset
<1>4. IsFiniteSet({s.prio[w] : w \in W})
  <2> DEFINE f == [w \in W |-> s.prio[w]]
             P == {s.prio[w] : w \in W}
  <2>1. f \in Surjection(W, P)
    BY DEF Surjection
  <2> QED
    BY <1>3, <2>1, FS_Surjection
<1>5. IsFiniteSet({s.base[t]} \cup {s.prio[w] : w \in W})
  BY <1>4, FS_Singleton, FS_Union
<1>6. s.base[t] \in Int /\ \A w \in W : s.prio[w] \in Int
  BY DEF Records
<1>7. WaiterPrios(s, X, t) = {s.prio[w] : w \in W}
  BY DEF WaiterPrios
<1>8. {k.prio : k \in WaiterKeys(s, t)} = {s.prio[w] : w \in W}
  <2> HIDE DEF W
  <2> QED
    BY <1>1, <1>2
<1> QED
  BY <1>5, <1>6, <1>7, <1>8

\* What it is to be settled: as high as the waiters and the base priority, and no
\* higher.
LEMMA SettledMeans ==
    ASSUME NEW Tags, NEW Places, NEW s \in Records(Tags, Places), NEW X, HeldAgrees(s, X),
           NEW t \in Threads
    PROVE  /\ InheritedPriority(s, t) \in Int
           /\ Settled(s, t) <=>
                /\ s.prio[t] <= s.base[t]
                /\ \A w \in Threads \ X : s.ref[w].owner = t => s.prio[t] <= s.prio[w]
                /\ \/ s.prio[t] = s.base[t]
                   \/ \E w \in Threads \ X : s.ref[w].owner = t /\ s.prio[w] = s.prio[t]
<1> DEFINE P == WaiterPrios(s, X, t)
           S == {s.base[t]} \cup P
<1>1. S \in SUBSET Int /\ IsFiniteSet(S) /\ S # {}
  BY PriosOfWaiters
<1>2. InheritedPriority(s, t) = Min(S)
  BY PriosOfWaiters DEF InheritedPriority
<1>3. \A n : n \in P <=> \E w \in Threads \ X : s.ref[w].owner = t /\ s.prio[w] = n
  BY DEF WaiterPrios
<1>4. s.base[t] \in Int /\ s.prio[t] \in Int
  BY DEF Records
<1> HIDE DEF P
<1>5. Min(S) \in S /\ (\A y \in S : Min(S) <= y) /\ Min(S) \in Int
  <2> HIDE DEF S
  <2> QED
    BY <1>1, MinOf
<1>6. s.prio[t] = Min(S) <=> s.prio[t] \in S /\ \A y \in S : s.prio[t] <= y
  <2>1. ASSUME s.prio[t] \in S, \A y \in S : s.prio[t] <= y PROVE s.prio[t] = Min(S)
    <3> HIDE DEF S
    <3> QED
      BY <1>1, <2>1, MinIs
  <2> QED
    BY <1>5, <2>1
<1> QED
  BY <1>2, <1>3, <1>5, <1>6 DEF Settled

\* Two records hold the same trees for u if they do so for every mutex.
LEMMA HeldSame ==
    ASSUME NEW Tags, NEW Places, NEW s \in Records(Tags, Places),
           NEW r \in Records(Tags, Places), NEW u \in Threads,
           \A b \in Mutexes : r.held[u][b] = s.held[u][b]
    PROVE  r.held[u] = s.held[u]
<1>1. r.held[u] \in [Mutexes -> SUBSET Keys] /\ s.held[u] \in [Mutexes -> SUBSET Keys]
  BY DEF Records
<1> QED
  BY <1>1

\* What settles a thread are its own fields.
LEMMA SettledSame ==
    ASSUME NEW s, NEW r, NEW t,
           r.base[t] = s.base[t], r.prio[t] = s.prio[t], r.held[t] = s.held[t]
    PROVE  Settled(r, t) <=> Settled(s, t)
  BY DEF Settled, InheritedPriority, WaiterKeys

-----------------------------------------------------------------------------
(* The trees of condition variables *)

\* erase_by_thread_id takes one thread out and keeps the order.
LEMMA TreeEraseKey ==
    ASSUME NEW q \in Seq(Keys), InOrder(q, ByPriority), NEW t
    PROVE  /\ TreeErase(q, t) \in Seq(Keys)
           /\ Range(TreeErase(q, t)) = {k \in Range(q) : k.thread # t}
           /\ InOrder(TreeErase(q, t), ByPriority)
<1> DEFINE S == {k \in Range(q) : k.thread # t}
<1>1. /\ Kept(q, S) \in Seq(Keys) /\ Range(Kept(q, S)) = Range(q) \cap S
      /\ InOrder(Kept(q, S), ByPriority)
  <2> HIDE DEF S
  <2> QED
    BY KeptProperties
<1>2. Range(q) \cap S = S
  OBVIOUS
<1> QED
  BY <1>1, <1>2 DEF TreeErase

\* insert puts a new thread behind those of its priority.
LEMMA TreeInsertKey ==
    ASSUME NEW q \in Seq(Keys), InOrder(q, ByPriority), NEW key \in Keys,
           \A k \in Range(q) : k.thread # key.thread,
           \A j, k \in Range(q) : j.thread = k.thread => j = k
    PROVE  /\ TreeInsert(q, key) \in Seq(Keys)
           /\ Range(TreeInsert(q, key)) = Range(q) \cup {key}
           /\ InOrder(TreeInsert(q, key), ByPriority)
<1> DEFINE S == {k \in Range(q) : k.prio <= key.prio}
<1>1. \A k \in Range(q) : k \in Keys
  BY DEF Range
<1>2. \A k \in Range(q) : k.prio \in Int /\ key.prio \in Int
  BY <1>1 DEF Keys
<1>3. \A j \in Range(q) \cap S : <<j, key>> \in ByPriority
  BY <1>1 DEF ByPriority
<1>4. \A k \in Range(q) \ S : <<key, k>> \in ByPriority
  BY <1>1, <1>2 DEF ByPriority
<1>5. \A j \in Range(q) \cap S, k \in Range(q) \ S : <<j, k>> \in ByPriority
  <2> TAKE j \in Range(q) \cap S, k \in Range(q) \ S
  <2>1. j # k /\ j.thread # k.thread /\ j.prio <= k.prio
    BY <1>2
  <2> QED
    BY <1>1, <2>1 DEF ByPriority
<1> HIDE DEF S
<1>6. /\ PutAfter(q, S, key) \in Seq(Keys)
      /\ Range(PutAfter(q, S, key)) = Range(q) \cup {key}
      /\ InOrder(PutAfter(q, S, key), ByPriority)
  BY <1>3, <1>4, <1>5, PutAfterProperties
<1> QED
  BY <1>6 DEF TreeInsert, S

\* A thread leaves the tree it is in.
LEMMA TreeWithout ==
    ASSUME NEW Tags, NEW Places, NEW s \in Records(Tags, Places), TreesAgree(s),
           NEW t \in Threads, NEW k \in CVs
    PROVE  /\ TreeErase(s.tree[k], t) \in Seq(Keys)
           /\ Range(TreeErase(s.tree[k], t)) = KeysOf(s, Sleepers(s, k) \ {t})
           /\ InOrder(TreeErase(s.tree[k], t), ByPriority)
           /\ \A j \in Range(TreeErase(s.tree[k], t)) : j.thread # t
<1>1. s.tree[k] \in Seq(Keys) /\ InOrder(s.tree[k], ByPriority)
      /\ Range(s.tree[k]) = KeysOf(s, Sleepers(s, k))
  BY DEF Records, TreesAgree
<1>2. {j \in Range(s.tree[k]) : j.thread # t} = KeysOf(s, Sleepers(s, k) \ {t})
  <2>1. \A w \in Sleepers(s, k) : w \in Threads /\ KeyOf(s, w).thread = w
    BY KeyType DEF Sleepers
  <2> QED
    BY <1>1, <2>1 DEF KeysOf
<1>3. Range(TreeErase(s.tree[k], t)) = {j \in Range(s.tree[k]) : j.thread # t}
  BY <1>1, TreeEraseKey
<1> QED
  BY <1>1, <1>2, <1>3, TreeEraseKey

\* And a thread that is not in it joins it, also with a priority that is not its own
\* yet.
LEMMA TreeWith ==
    ASSUME NEW Tags, NEW Places, NEW s \in Records(Tags, Places), NEW q \in Seq(Keys),
           NEW W \in SUBSET Threads, Range(q) = KeysOf(s, W), InOrder(q, ByPriority),
           NEW key \in Keys, key.thread \notin W
    PROVE  /\ TreeInsert(q, key) \in Seq(Keys)
           /\ Range(TreeInsert(q, key)) = KeysOf(s, W) \cup {key}
           /\ InOrder(TreeInsert(q, key), ByPriority)
<1>1. \A w \in W : KeyOf(s, w).thread = w
  BY KeyType
<1>2. \A j \in Range(q) : j.thread # key.thread
  BY <1>1 DEF KeysOf
<1>3. \A i, j \in Range(q) : i.thread = j.thread => i = j
  BY <1>1 DEF KeysOf
<1>4. /\ TreeInsert(q, key) \in Seq(Keys)
      /\ Range(TreeInsert(q, key)) = Range(q) \cup {key}
      /\ InOrder(TreeInsert(q, key), ByPriority)
  BY <1>2, <1>3, TreeInsertKey
<1> QED
  BY <1>4

\* Fields that no change of priorities touches.
SameLinks(s, r) ==
    /\ r.base = s.base /\ r.ref = s.ref /\ r.cv = s.cv /\ r.tag = s.tag /\ r.pc = s.pc
    /\ r.panic = s.panic

\* Only thread t's priority changes, to p.
PrioSet(s, r, t, p) ==
    r.prio[t] = p /\ \A w \in Threads \ {t} : r.prio[w] = s.prio[w]

\* The keys of a set of threads in which one at most changed its priority.
LEMMA KeysAfter ==
    ASSUME NEW s, NEW r, NEW t \in Threads, NEW p, PrioSet(s, r, t, p),
           NEW W \in SUBSET Threads
    PROVE  /\ KeyOf(r, t) = [prio |-> p, thread |-> t]
           /\ t \notin W => KeysOf(r, W) = KeysOf(s, W)
           /\ t \in W => KeysOf(r, W) = KeysOf(s, W \ {t}) \cup {KeyOf(r, t)}
<1>1. KeyOf(r, t) = [prio |-> p, thread |-> t] /\ \A w \in Threads \ {t} : KeyOf(r, w) = KeyOf(s, w)
  BY DEF KeyOf, PrioSet
<1> QED
  BY <1>1 DEF KeysOf

\* A thread's priority changes, and its key in the condition variable tree with it.
LEMMA Rekeys ==
    ASSUME NEW Tags, NEW Places, NEW s \in Records(Tags, Places), TreesAgree(s),
           NEW t \in Threads, NEW p \in Int
    PROVE  LET r == [Rekey(s, t, p) EXCEPT !.prio[t] = p] IN
           /\ r \in Records(Tags, Places) /\ SameLinks(s, r) /\ r.held = s.held
           /\ PrioSet(s, r, t, p)
           /\ TreesAgree(r)
<1> DEFINE key == [prio |-> p, thread |-> t]
           r == [Rekey(s, t, p) EXCEPT !.prio[t] = p]
           f == [s.prio EXCEPT ![t] = p]
<1>1. f \in [Threads -> Int] /\ f[t] = p /\ \A w \in Threads \ {t} : f[w] = s.prio[w]
  BY DEF Records
<1>2. CASE s.cv[t] = NoCV
  <2>1. r = [s EXCEPT !.prio = f]
    BY <1>2 DEF Rekey
  <2>2. /\ r \in Records(Tags, Places) /\ SameLinks(s, r) /\ r.held = s.held
        /\ r.tree = s.tree /\ PrioSet(s, r, t, p)
    <3> HIDE DEF f, r
    <3> QED
      BY <1>1, <2>1 DEF Records, SameLinks, PrioSet
  <2> HIDE DEF r
  <2>3. ASSUME NEW k \in CVs PROVE Range(r.tree[k]) = KeysOf(r, Sleepers(r, k))
    <3>1. Sleepers(r, k) = Sleepers(s, k) /\ Sleepers(s, k) \in SUBSET Threads
          /\ t \notin Sleepers(s, k)
      BY <1>2, <2>2, Ids DEF SameLinks, Sleepers
    <3>2. KeysOf(r, Sleepers(s, k)) = KeysOf(s, Sleepers(s, k))
      <4>1. \A w \in Threads \ {t} : KeyOf(r, w) = KeyOf(s, w)
        BY <2>2 DEF PrioSet, KeyOf
      <4> QED
        BY <3>1, <4>1 DEF KeysOf
    <3> QED
      BY <2>2, <3>1, <3>2 DEF TreesAgree
  <2>4. TreesAgree(r)
    BY <2>2, <2>3 DEF TreesAgree
  <2> QED
    BY <2>2, <2>4 DEF r
<1>3. CASE s.cv[t] # NoCV
  <2>1. PICK c \in CVs : c = s.cv[t]
    BY <1>3 DEF Records
  <2> DEFINE q == TreeErase(s.tree[c], t)
             W == Sleepers(s, c) \ {t}
             new == TreeInsert(q, key)
             trees == [s.tree EXCEPT ![c] = new]
  <2>2. q \in Seq(Keys) /\ InOrder(q, ByPriority) /\ Range(q) = KeysOf(s, W)
    BY TreeWithout
  <2>3. W \in SUBSET Threads /\ key \in Keys /\ key.thread \notin W
    BY DEF Sleepers, Keys
  <2>4. new \in Seq(Keys) /\ InOrder(new, ByPriority) /\ Range(new) = KeysOf(s, W) \cup {key}
    <3> HIDE DEF q, W, key
    <3> QED
      BY <2>2, <2>3, TreeWith
  <2>5. r = [[s EXCEPT !.tree = trees] EXCEPT !.prio = f]
    BY <1>3, <2>1 DEF Rekey, Records
  <2> HIDE DEF new
  <2>6. trees \in [CVs -> Seq(Keys)]
    BY <2>4 DEF Records
  <2>7. /\ r \in Records(Tags, Places) /\ SameLinks(s, r) /\ r.held = s.held
        /\ PrioSet(s, r, t, p) /\ r.tree = trees
    <3> HIDE DEF f, trees, r
    <3> QED
      BY <1>1, <2>5, <2>6 DEF Records, SameLinks, PrioSet
  <2>8. \A k \in CVs : r.tree[k] = IF k = c THEN new ELSE s.tree[k]
    BY <2>7 DEF Records
  <2> HIDE DEF r
  <2>9. ASSUME NEW k \in CVs
        PROVE  Range(r.tree[k]) = KeysOf(r, Sleepers(r, k)) /\ InOrder(r.tree[k], ByPriority)
    <3>1. Sleepers(r, k) = Sleepers(s, k) /\ Sleepers(s, k) \in SUBSET Threads
      BY <2>7 DEF SameLinks, Sleepers
    <3>2. /\ KeyOf(r, t) = key
          /\ t \notin Sleepers(s, k) => KeysOf(r, Sleepers(s, k)) = KeysOf(s, Sleepers(s, k))
          /\ t \in Sleepers(s, k) =>
                KeysOf(r, Sleepers(s, k)) = KeysOf(s, Sleepers(s, k) \ {t}) \cup {KeyOf(r, t)}
      <4>1. PrioSet(s, r, t, p) /\ Sleepers(s, k) \in SUBSET Threads
        BY <2>7, <3>1
      <4> HIDE DEF key, q, W
      <4>2. /\ KeyOf(r, t) = [prio |-> p, thread |-> t]
            /\ t \notin Sleepers(s, k) => KeysOf(r, Sleepers(s, k)) = KeysOf(s, Sleepers(s, k))
            /\ t \in Sleepers(s, k) =>
                  KeysOf(r, Sleepers(s, k)) = KeysOf(s, Sleepers(s, k) \ {t}) \cup {KeyOf(r, t)}
        BY <4>1, KeysAfter
      <4>3. KeyOf(r, t) = key
        BY <4>2 DEF key
      <4> QED
        BY <4>2, <4>3
    <3>3. CASE k = c
      <4>1. t \in Sleepers(s, k) /\ r.tree[k] = new /\ Sleepers(s, k) \ {t} = W
        BY <2>1, <2>8, <3>3 DEF Sleepers
      <4>2. KeysOf(r, Sleepers(s, k)) = KeysOf(s, W) \cup {KeyOf(r, t)}
        <5> HIDE DEF W
        <5> QED
          BY <3>2, <4>1
      <4>3. Range(new) = KeysOf(s, W) \cup {KeyOf(r, t)}
        BY <2>4, <3>2
      <4> HIDE DEF key, W
      <4> QED
        BY <2>4, <3>1, <4>1, <4>2, <4>3
    <3>4. CASE k # c
      <4>1. r.tree[k] = s.tree[k] /\ t \notin Sleepers(s, k)
        BY <2>1, <2>8, <3>4 DEF Sleepers
      <4>2. KeysOf(r, Sleepers(s, k)) = KeysOf(s, Sleepers(s, k))
        BY <3>2, <4>1
      <4> QED
        BY <3>1, <4>1, <4>2 DEF TreesAgree
    <3> QED
      BY <3>3, <3>4
  <2>10. TreesAgree(r)
    BY <2>9 DEF TreesAgree
  <2> QED
    BY <2>7, <2>10 DEF r
<1> QED
  BY <1>2, <1>3

-----------------------------------------------------------------------------
(* restore_priority *)

\* The trees depend on the priorities and on who is in them.
LEMMA TreesSame ==
    ASSUME NEW s, NEW r, TreesAgree(s), r.tree = s.tree, r.cv = s.cv, r.prio = s.prio
    PROVE  TreesAgree(r)
<1>1. \A k \in CVs : Sleepers(r, k) = Sleepers(s, k) /\ Sleepers(s, k) \in SUBSET Threads
  BY DEF Sleepers
<1>2. \A w \in Threads : KeyOf(r, w) = KeyOf(s, w)
  BY DEF KeyOf
<1> QED
  BY <1>1, <1>2 DEF TreesAgree, KeysOf

\* So do the waiters.
LEMMA WaitersSame ==
    ASSUME NEW s, NEW r, r.ref = s.ref
    PROVE  /\ \A o \in Threads, m \in Mutexes : Waiters(r, o, m) = Waiters(s, o, m)
           /\ \A w \in Threads : Waits(r, w) <=> Waits(s, w)
           /\ Ascends(s) => Ascends(r)
  BY DEF Waiters, Waits, Ascends

\* What a round at thread v leaves behind: v is settled, and so is everybody but
\* the owner v waits for, where the next round looks.
Round(s, X, v, r, at) ==
    /\ SameLinks(s, r) /\ HeldAgrees(r, X) /\ TreesAgree(r)
    /\ at \in {NoThread, s.ref[v].owner}
    /\ \A u \in Threads \ {v} : r.prio[u] = s.prio[u]
    /\ Settled(r, v)
    /\ \A u \in Threads \ {v, at} : Settled(s, u) => Settled(r, u)

LEMMA RoundSettles ==
    ASSUME NEW Tags, NEW Places, NEW s \in Records(Tags, Places),
           NEW X \in SUBSET Threads, HeldAgrees(s, X), TreesAgree(s), Ascends(s), ~s.panic,
           NEW v \in Threads \ X
    PROVE  /\ RestoreRound(s, v).s \in Records(Tags, Places)
           /\ Round(s, X, v, RestoreRound(s, v).s, RestoreRound(s, v).at)
<1> DEFINE p == InheritedPriority(s, v)
           o == s.ref[v].owner
           m == s.ref[v].addr
           removed == IF o = NoThread THEN s ELSE RemoveWaiterImpl(s, o, m, KeyOf(s, v))
           set == [Rekey(removed, v, p) EXCEPT !.prio[v] = p]
           added == IF o = NoThread THEN set ELSE AddWaiterImpl(set, o, m, KeyOf(set, v))
<1>1. RestoreRound(s, v) = IF p = s.prio[v] THEN [s |-> s, at |-> NoThread]
                           ELSE IF removed.panic THEN [s |-> removed, at |-> NoThread]
                           ELSE [s |-> added, at |-> o]
  BY DEF RestoreRound
<1>2. p \in Int
  BY SettledMeans
<1>3. CASE p = s.prio[v]
  <2>1. RestoreRound(s, v).s = s /\ RestoreRound(s, v).at = NoThread
    BY <1>1, <1>3
  <2>2. Settled(s, v) /\ SameLinks(s, s)
    BY <1>3 DEF Settled, SameLinks
  <2> QED
    BY <2>1, <2>2 DEF Round
<1>4. CASE p # s.prio[v] /\ o = NoThread
  <2>1. RestoreRound(s, v).s = set /\ RestoreRound(s, v).at = NoThread /\ removed = s
    BY <1>1, <1>4
  <2>2. /\ set \in Records(Tags, Places) /\ SameLinks(s, set) /\ set.held = s.held
        /\ PrioSet(s, set, v, p) /\ TreesAgree(set)
    <3> HIDE DEF p
    <3> QED
      BY <1>2, <2>1, Rekeys
  <2> HIDE DEF set, removed, added
  <2>3. set.prio[v] = p /\ \A u \in Threads \ {v} : set.prio[u] = s.prio[u]
    BY <2>2 DEF PrioSet
  <2>4. HeldAgrees(set, X)
    <3>1. \A a \in Threads, b \in Mutexes : v \notin Waiters(s, a, b)
      BY <1>4, Ids DEF Waiters
    <3>2. \A w \in Threads \ {v} : KeyOf(set, w) = KeyOf(s, w)
      BY <2>3 DEF KeyOf
    <3>3. \A a \in Threads, b \in Mutexes :
             KeysOf(set, Waiters(s, a, b) \ X) = KeysOf(s, Waiters(s, a, b) \ X)
      BY <3>1, <3>2, Zenon DEF KeysOf, Waiters
    <3> QED
      BY <2>2, <3>3, WaitersSame DEF HeldAgrees, SameLinks
  <2>5. Settled(set, v)
    BY <2>2, <2>3 DEF Settled, InheritedPriority, WaiterKeys, SameLinks
  <2>6. \A u \in Threads \ {v} : Settled(s, u) => Settled(set, u)
    BY <2>2, <2>3, SettledSame DEF SameLinks
  <2> QED
    BY <2>1, <2>2, <2>3, <2>4, <2>5, <2>6 DEF Round
<1>5. CASE p # s.prio[v] /\ o # NoThread
  <2>1. /\ o \in Threads /\ m \in Mutexes /\ v \in Waiters(s, o, m) /\ o # v
        /\ \A a \in Threads, b \in Mutexes : v \in Waiters(s, a, b) => a = o /\ b = m
    <3>1. Waits(s, v)
      BY <1>5 DEF Waits
    <3>2. o \in Threads /\ m \in Mutexes /\ v \in Waiters(s, o, m)
      BY <3>1, RefOf
    <3>3. \A a \in Threads, b \in Mutexes : v \in Waiters(s, a, b) => a = o /\ b = m
      BY DEF Waiters
    <3>4. m \in Nat /\ (o = v => m < m)
      BY <3>1, <3>2, Ids DEF Ascends
    <3> QED
      BY <3>2, <3>3, <3>4
  <2> DEFINE W == Waiters(s, o, m) \ X
             without == [s.held EXCEPT ![o][m] = @ \ {KeyOf(s, v)}]
  <2>2. /\ KeyOf(s, v) \in s.held[o][m] /\ s.held[o][m] \in SUBSET Keys
        /\ s.held[o][m] \ {KeyOf(s, v)} = KeysOf(s, W \ {v})
    <3>1. s.held[o][m] = KeysOf(s, W) /\ v \in W
      BY <2>1 DEF HeldAgrees
    <3>2. \A w \in W : KeyOf(s, w) = KeyOf(s, v) => w = v
      BY KeyType DEF Waiters
    <3>3. s.held[o][m] \in SUBSET Keys
      BY <2>1 DEF Records
    <3> QED
      BY <3>1, <3>2, <3>3 DEF KeysOf
  <2>3. /\ without \in [Threads -> [Mutexes -> SUBSET Keys]]
        /\ \A a \in Threads, b \in Mutexes :
              without[a][b] = IF a = o /\ b = m THEN KeysOf(s, W \ {v}) ELSE s.held[a][b]
    BY <2>1, <2>2 DEF Records
  <2>4. removed = [s EXCEPT !.held = without, !.panic = s.panic \/ s.held[o][m] = {}]
    BY <1>5 DEF RemoveWaiterImpl
  <2>5. /\ removed \in Records(Tags, Places) /\ SameLinks(s, removed) /\ removed.held = without
        /\ removed.prio = s.prio /\ removed.tree = s.tree /\ ~removed.panic
    <3> HIDE DEF without, removed
    <3>1. s.held[o][m] # {} /\ s.panic = FALSE
      BY <2>2 DEF Records
    <3>2. ~(s.panic \/ s.held[o][m] = {})
      BY <3>1
    <3>3. (s.panic \/ s.held[o][m] = {}) = FALSE
      BY <3>2, Zenon
    <3>4. removed = [s EXCEPT !.held = without, !.panic = FALSE]
      BY <2>4, <3>3, Zenon
    <3> QED
      BY <2>3, <3>1, <3>4 DEF Records, SameLinks
  <2>6. TreesAgree(removed)
    BY <2>5, TreesSame DEF SameLinks
  <2>7. /\ set \in Records(Tags, Places) /\ SameLinks(removed, set) /\ set.held = removed.held
        /\ PrioSet(removed, set, v, p) /\ TreesAgree(set)
    <3> HIDE DEF p, removed
    <3> QED
      BY <1>2, <2>5, <2>6, Rekeys
  <2> DEFINE with == [set.held EXCEPT ![o][m] = @ \cup {KeyOf(set, v)}]
  <2> HIDE DEF set, removed, without
  <2>8. /\ with \in [Threads -> [Mutexes -> SUBSET Keys]]
        /\ \A a \in Threads, b \in Mutexes :
              with[a][b] = IF a = o /\ b = m THEN KeysOf(s, W \ {v}) \cup {KeyOf(set, v)}
                           ELSE s.held[a][b]
    <3>1. KeyOf(set, v) \in Keys
      BY <2>7, KeyType
    <3>2. set.held = without
      BY <2>5, <2>7
    <3> DEFINE key == KeyOf(set, v)
    <3>3. with = [without EXCEPT ![o][m] = @ \cup {key}]
      BY <3>2
    <3> HIDE DEF key, with, o, m, W
    <3>4. with \in [Threads -> [Mutexes -> SUBSET Keys]]
      BY <2>1, <2>3, <3>1, <3>3 DEF key
    <3>5. \A a \in Threads, b \in Mutexes :
             with[a][b] = IF a = o /\ b = m THEN without[a][b] \cup {key} ELSE without[a][b]
      BY <2>1, <2>3, <3>3
    <3>6. \A a \in Threads, b \in Mutexes :
             with[a][b] = IF a = o /\ b = m THEN KeysOf(s, W \ {v}) \cup {key} ELSE s.held[a][b]
      <4> TAKE a \in Threads, b \in Mutexes
      <4>1. CASE a = o /\ b = m
        BY <2>3, <3>5, <4>1
      <4>2. CASE ~(a = o /\ b = m)
        BY <2>3, <3>5, <4>2
      <4> QED
        BY <4>1, <4>2
    <3> QED
      BY <3>4, <3>6 DEF key
  <2>9. RestoreRound(s, v).s = added /\ RestoreRound(s, v).at = o
        /\ added = [set EXCEPT !.held = with]
    BY <1>1, <1>5, <2>5 DEF AddWaiterImpl
  <2>10. /\ added \in Records(Tags, Places) /\ SameLinks(s, added) /\ added.held = with
         /\ added.prio = set.prio /\ added.tree = set.tree /\ added.cv = set.cv
    <3> HIDE DEF with, added
    <3> QED
      BY <2>5, <2>7, <2>8, <2>9 DEF Records, SameLinks
  <2> HIDE DEF added, with
  <2>11. TreesAgree(added)
    BY <2>7, <2>10, TreesSame
  <2>12. added.prio[v] = p /\ \A u \in Threads \ {v} : added.prio[u] = s.prio[u]
    BY <2>5, <2>7, <2>10 DEF PrioSet
  <2>13. HeldAgrees(added, X)
    <3>1. KeyOf(added, v) = KeyOf(set, v) /\ \A w \in Threads \ {v} : KeyOf(added, w) = KeyOf(s, w)
      BY <2>10, <2>12 DEF KeyOf
    <3>2. ASSUME NEW a \in Threads, NEW b \in Mutexes
          PROVE  added.held[a][b] = KeysOf(added, Waiters(s, a, b) \ X)
      <4>1. CASE a = o /\ b = m
        <5>1. added.held[a][b] = KeysOf(s, W \ {v}) \cup {KeyOf(set, v)}
          BY <2>8, <2>10, <4>1
        <5>2. v \in W /\ W \in SUBSET Threads
          BY <2>1 DEF Waiters
        <5> QED
          BY <3>1, <4>1, <5>1, <5>2 DEF KeysOf
      <4>2. CASE ~(a = o /\ b = m)
        <5>1. added.held[a][b] = KeysOf(s, Waiters(s, a, b) \ X)
          BY <2>8, <2>10, <4>2 DEF HeldAgrees
        <5>2. v \notin Waiters(s, a, b) /\ Waiters(s, a, b) \in SUBSET Threads
          BY <2>1, <4>2 DEF Waiters
        <5> QED
          BY <3>1, <5>1, <5>2 DEF KeysOf
      <4> QED
        BY <4>1, <4>2
    <3> QED
      BY <2>10, <3>2, WaitersSame DEF HeldAgrees, SameLinks
  <2>14. \A u \in Threads \ {o} : added.held[u] = s.held[u]
    <3> TAKE u \in Threads \ {o}
    <3>1. \A b \in Mutexes : added.held[u][b] = s.held[u][b]
      BY <2>8, <2>10
    <3> QED
      BY <2>10, <3>1, HeldSame
  <2>15. Settled(added, v)
    <3>1. added.held[v] = s.held[v] /\ added.base = s.base
      BY <2>1, <2>10, <2>14 DEF SameLinks
    <3> QED
      BY <2>12, <3>1 DEF Settled, InheritedPriority, WaiterKeys
  <2>16. \A u \in Threads \ {v, o} : Settled(s, u) => Settled(added, u)
    BY <2>10, <2>12, <2>14, SettledSame DEF SameLinks
  <2> QED
    BY <2>9, <2>10, <2>11, <2>12, <2>13, <2>15, <2>16 DEF Round
<1> QED
  BY <1>3, <1>4, <1>5

\* The chain of owners that starts at v goes up, away from the threads X.
Clear(s, X, v) ==
    \A x \in X : Waits(s, x) /\ (Waits(s, v) => s.ref[x].addr < s.ref[v].addr)

\* The threads from which the chain may have come to v.
Below(s, v) ==
    {u \in Threads : Waits(s, u) /\ (Waits(s, v) => s.ref[u].addr < s.ref[v].addr)}

\* What n rounds from thread t have reached.
Going(R, s, X, t, n, c) ==
    /\ c.s \in R /\ SameLinks(s, c.s) /\ HeldAgrees(c.s, X) /\ TreesAgree(c.s)
    /\ \A x \in X : c.s.prio[x] = s.prio[x]
    /\ \A u \in Threads \ {c.at} : u = t \/ Settled(s, u) => Settled(c.s, u)
    /\ \/ c.at = NoThread
       \/ c.at \in Threads /\ Clear(s, X, c.at) /\ n <= Cardinality(Below(s, c.at))

LEMMA ChainClimbs ==
    ASSUME NEW Tags, NEW Places, NEW s \in Records(Tags, Places),
           NEW X \in SUBSET Threads, Ascends(s),
           NEW v \in Threads, Clear(s, X, v)
    PROVE  /\ v \notin X
           /\ Cardinality(Below(s, v)) \in 0..Cardinality(Threads)
           /\ s.ref[v].owner # NoThread =>
                /\ s.ref[v].owner \in Threads /\ Clear(s, X, s.ref[v].owner)
                /\ Cardinality(Below(s, v)) + 1 <= Cardinality(Below(s, s.ref[v].owner))
<1>1. \A w \in Threads : Waits(s, w) => s.ref[w].addr \in Nat /\ s.ref[w].owner \in Threads
  BY RefOf, Ids
<1>2. v \notin X
  <2>1. ASSUME v \in X PROVE FALSE
    <3>1. Waits(s, v) /\ s.ref[v].addr < s.ref[v].addr
      BY <2>1 DEF Clear
    <3> QED
      BY <1>1, <3>1
  <2> QED
    BY <2>1
<1>3. \A w \in Threads : /\ IsFiniteSet(Below(s, w)) /\ Cardinality(Below(s, w)) \in Nat
                         /\ Cardinality(Below(s, w)) <= Cardinality(Threads)
  <2> TAKE w \in Threads
  <2>1. Below(s, w) \in SUBSET Threads
    BY DEF Below
  <2> QED
    BY <2>1, Ids, FS_Subset, FS_CardinalityType
<1>4. ASSUME s.ref[v].owner # NoThread
      PROVE  /\ s.ref[v].owner \in Threads /\ Clear(s, X, s.ref[v].owner)
             /\ Cardinality(Below(s, v)) + 1 <= Cardinality(Below(s, s.ref[v].owner))
  <2>1. Waits(s, v)
    BY <1>4 DEF Waits
  <2>2. PICK o \in Threads : o = s.ref[v].owner
    BY <1>1, <2>1
  <2>3. Waits(s, o) => s.ref[v].addr < s.ref[o].addr
    BY <2>1, <2>2 DEF Ascends
  <2>4. Clear(s, X, o)
    BY <1>1, <2>1, <2>3 DEF Clear
  <2>5. /\ Below(s, v) \in SUBSET Below(s, o)
        /\ v \in Below(s, o) /\ v \notin Below(s, v)
    BY <1>1, <2>1, <2>3 DEF Below
  <2>6. /\ Cardinality(Below(s, v)) <= Cardinality(Below(s, o))
        /\ Cardinality(Below(s, v)) # Cardinality(Below(s, o))
    BY <1>3, <2>5, FS_Subset
  <2> QED
    BY <1>3, <2>2, <2>4, <2>6
<1> QED
  BY <1>2, <1>3, <1>4

LEMMA RoundGoes ==
    ASSUME NEW Tags, NEW Places, NEW s \in Records(Tags, Places),
           NEW X \in SUBSET Threads, Ascends(s), ~s.panic, NEW t, NEW n \in Nat, NEW c,
           Going(Records(Tags, Places), s, X, t, n, c)
    PROVE  Going(Records(Tags, Places), s, X, t, n + 1, NextRound(c))
<1>1. CASE c.at = NoThread
  BY <1>1 DEF Going, NextRound
<1>2. CASE c.at # NoThread
  <2>1. PICK v \in Threads : v = c.at /\ Clear(s, X, v) /\ n <= Cardinality(Below(s, v))
    BY <1>2 DEF Going
  <2>2. /\ c.s \in Records(Tags, Places) /\ SameLinks(s, c.s) /\ HeldAgrees(c.s, X)
        /\ TreesAgree(c.s) /\ \A x \in X : c.s.prio[x] = s.prio[x]
    BY DEF Going
  <2>3. v \notin X /\ Ascends(c.s) /\ ~c.s.panic
    BY <2>1, <2>2, ChainClimbs, WaitersSame DEF SameLinks
  <2> DEFINE d == RestoreRound(c.s, v)
  <2>4. d.s \in Records(Tags, Places) /\ Round(c.s, X, v, d.s, d.at)
    <3>1. v \in Threads \ X
      BY <2>3
    <3> QED
      BY <2>2, <2>3, <3>1, RoundSettles
  <2>5. NextRound(c) = d
    BY <1>2, <2>1 DEF NextRound
  <2> HIDE DEF d
  <2>6. SameLinks(s, d.s) /\ HeldAgrees(d.s, X) /\ TreesAgree(d.s)
    BY <2>2, <2>4 DEF Round, SameLinks
  <2>7. \A x \in X : d.s.prio[x] = s.prio[x]
    BY <2>2, <2>3, <2>4 DEF Round
  <2>8. \A u \in Threads \ {d.at} : u = t \/ Settled(s, u) => Settled(d.s, u)
    BY <2>1, <2>4 DEF Round, Going
  <2>9. \/ d.at = NoThread
        \/ d.at \in Threads /\ Clear(s, X, d.at) /\ n + 1 <= Cardinality(Below(s, d.at))
    <3>1. d.at \in {NoThread, s.ref[v].owner}
      BY <2>2, <2>4 DEF Round, SameLinks
    <3>2. CASE d.at # NoThread
      <4>1. d.at = s.ref[v].owner /\ s.ref[v].owner # NoThread
        BY <3>1, <3>2
      <4>2. /\ Cardinality(Below(s, v)) \in 0..Cardinality(Threads)
            /\ s.ref[v].owner \in Threads /\ Clear(s, X, s.ref[v].owner)
            /\ Cardinality(Below(s, v)) + 1 <= Cardinality(Below(s, s.ref[v].owner))
        BY <2>1, <4>1, ChainClimbs
      <4>3. Cardinality(Below(s, s.ref[v].owner)) \in 0..Cardinality(Threads)
        BY <4>2, ChainClimbs
      <4> QED
        BY <2>1, <4>1, <4>2, <4>3, Ids
    <3> QED
      BY <3>2
  <2> QED
    BY <2>4, <2>5, <2>6, <2>7, <2>8, <2>9 DEF Going
<1> QED
  BY <1>1, <1>2

\* f is the function that restore_priority defines by recursion.
IsChain(s, t, f) ==
    f = [n \in 0..MaxRounds |->
           IF n = 0 THEN [s |-> s, at |-> t] ELSE NextRound(f[n - 1])]

\* What restore_priority leaves behind: everybody who was settled still is, and so
\* is t.
Restored(s, X, t, r) ==
    /\ SameLinks(s, r) /\ HeldAgrees(r, X) /\ TreesAgree(r)
    /\ \A x \in X : r.prio[x] = s.prio[x]
    /\ \A u \in Threads : u = t \/ Settled(s, u) => Settled(r, u)

\* A round yields a record and the thread where the next one is.
LEMMA RoundIsRecord ==
    ASSUME NEW s, NEW v
    PROVE  RestoreRound(s, v) = [s |-> RestoreRound(s, v).s, at |-> RestoreRound(s, v).at]
<1>1. ASSUME NEW r, NEW at, RestoreRound(s, v) = [s |-> r, at |-> at]
      PROVE  RestoreRound(s, v) = [s |-> RestoreRound(s, v).s, at |-> RestoreRound(s, v).at]
  BY <1>1
<1>2. \E r, at : RestoreRound(s, v) = [s |-> r, at |-> at]
  BY DEF RestoreRound
<1> QED
  BY <1>1, <1>2

LEMMA RestoreSettles ==
    ASSUME NEW Tags, NEW Places, NEW s \in Records(Tags, Places),
           NEW X \in SUBSET Threads, HeldAgrees(s, X), TreesAgree(s), Ascends(s), ~s.panic,
           NEW t \in Threads, Clear(s, X, t)
    PROVE  /\ RestorePriority(s, t) \in Records(Tags, Places)
           /\ Restored(s, X, t, RestorePriority(s, t))
<1> DEFINE R == Records(Tags, Places)
           D == {c \in [s : R, at : Threads \cup {NoThread}] :
                    \E n \in Nat : Going(R, s, X, t, n, c)}
           first == [s |-> s, at |-> t]
           g == [c \in D |-> NextRound(c)]
<1>1. Cardinality(Below(s, t)) \in Nat /\ MaxRounds \in Nat
  BY Ids, ChainClimbs DEF MaxRounds
<1>2. first.s = s /\ first.at = t /\ first \in [s : R, at : Threads \cup {NoThread}]
  OBVIOUS
<1>3. Going(R, s, X, t, 0, first)
  <2> HIDE DEF first
  <2> QED
    BY <1>1, <1>2 DEF Going, SameLinks
<1>4. ASSUME NEW c \in D PROVE NextRound(c) \in D
  <2>1. PICK n \in Nat : Going(R, s, X, t, n, c)
    OBVIOUS
  <2>2. Going(R, s, X, t, n + 1, NextRound(c)) /\ n + 1 \in Nat
    <3> HIDE DEF D, first, g
    <3> QED
      BY <2>1, RoundGoes
  <2>3. NextRound(c) = [s |-> NextRound(c).s, at |-> NextRound(c).at]
    <3>1. c = [s |-> c.s, at |-> c.at]
      OBVIOUS
    <3> HIDE DEF D, R, first, g
    <3>2. CASE c.at = NoThread
      BY <3>1, <3>2 DEF NextRound
    <3>3. CASE c.at # NoThread
      <4>1. NextRound(c) = RestoreRound(c.s, c.at)
        BY <3>3 DEF NextRound
      <4> QED
        BY <4>1, RoundIsRecord
    <3> QED
      BY <3>2, <3>3
  <2>4. NextRound(c).s \in R /\ NextRound(c).at \in Threads \cup {NoThread}
    BY <2>2 DEF Going
  <2>5. NextRound(c) \in [s : R, at : Threads \cup {NoThread}]
    BY <2>3, <2>4
  <2> QED
    BY <2>2, <2>5
<1>5. PICK F \in [0..MaxRounds -> D] : IsIteration(g, first, MaxRounds, F)
  <2>1. first \in D /\ g \in [D -> D]
    BY <1>2, <1>3, <1>4
  <2> HIDE DEF D, g, first
  <2> QED
    BY <1>1, <2>1, Iterates
<1>6. IsChain(s, t, F)
  <2>1. \A i \in 0..MaxRounds : i # 0 => g[F[i - 1]] = NextRound(F[i - 1])
    <3>1. \A i \in 0..MaxRounds : i # 0 => F[i - 1] \in D
      BY <1>1
    <3> HIDE DEF D
    <3> QED
      BY <3>1
  <2> HIDE DEF D, g
  <2> QED
    BY <1>5, <2>1 DEF IsIteration, IsChain
<1> DEFINE after == CHOOSE f : IsChain(s, t, f)
<1>7. IsChain(s, t, after)
  BY <1>6
<1>8. RestorePriority(s, t) = after[MaxRounds].s
  BY DEF RestorePriority, IsChain
<1> HIDE DEF after, first
<1>9. \A i \in 0..MaxRounds : after[i] = IF i = 0 THEN first ELSE NextRound(after[i - 1])
  BY <1>7 DEF IsChain, first
<1>10. Going(R, s, X, t, MaxRounds, after[MaxRounds])
  <2> DEFINE T == {n \in 0..MaxRounds : Going(R, s, X, t, n, after[n])}
  <2>1. 0 \in T
    BY <1>1, <1>3, <1>9
  <2>2. ASSUME NEW n \in 0..(MaxRounds - 1), n \in T PROVE n + 1 \in T
    <3>1. n \in Nat /\ n + 1 \in 0..MaxRounds /\ n + 1 # 0 /\ (n + 1) - 1 = n
      BY <1>1
    <3>2. after[n + 1] = NextRound(after[n])
      BY <1>9, <3>1
    <3>3. Going(R, s, X, t, n, after[n])
      BY <2>2
    <3>4. Going(R, s, X, t, n + 1, NextRound(after[n]))
      BY <3>1, <3>3, RoundGoes
    <3> QED
      BY <3>1, <3>2, <3>4
  <2> HIDE DEF T
  <2>3. 0..MaxRounds \subseteq T
    BY <1>1, <2>1, <2>2, UpTo
  <2> QED
    BY <1>1, <2>3 DEF T
<1>11. after[MaxRounds].at = NoThread
  <2>1. ASSUME after[MaxRounds].at # NoThread PROVE FALSE
    <3>1. PICK v \in Threads : Clear(s, X, v) /\ MaxRounds <= Cardinality(Below(s, v))
      BY <1>10, <2>1 DEF Going
    <3>2. Cardinality(Below(s, v)) \in 0..Cardinality(Threads)
      BY <3>1, ChainClimbs
    <3> QED
      BY <3>1, <3>2, Ids DEF MaxRounds
  <2> QED
    BY <2>1
<1>12. \A u \in Threads : u # NoThread
  BY Ids
<1> QED
  BY <1>8, <1>10, <1>11, <1>12 DEF Going, Restored

-----------------------------------------------------------------------------
(* A thread begins to wait *)

SettledKept(s, r) == \A u \in Threads : Settled(s, u) => Settled(r, u)

\* add_waiter_with_process: w, which waits for nothing, waits for m of o now. The
\* chain stays ascending when m is above the mutexes that w holds and others want,
\* and below the one that o waits for.
LEMMA AddWaiterSound ==
    ASSUME NEW Tags, NEW Places, NEW s \in Records(Tags, Places), Sound(s),
           NEW o \in Threads, NEW w \in Threads, NEW m \in Mutexes,
           o # w, ~Waits(s, w), Waits(s, o) => m < s.ref[o].addr,
           \A u \in Threads : s.ref[u].owner = w => s.ref[u].addr < m,
           NEW r, r = AddWaiter(s, o, w, m)
    PROVE  /\ r \in Records(Tags, Places) /\ Sound(r) /\ SettledKept(s, r)
           /\ r.base = s.base /\ r.cv = s.cv /\ r.tag = s.tag /\ r.pc = s.pc
           /\ r.ref = [s.ref EXCEPT ![w] = [owner |-> o, addr |-> m]]
<1> DEFINE key == KeyOf(s, w)
           held == [s.held EXCEPT ![o][m] = @ \cup {key}]
           ref == [s.ref EXCEPT ![w] = [owner |-> o, addr |-> m]]
           added == [AddWaiterImpl(s, o, m, key) EXCEPT !.ref[w] = [owner |-> o, addr |-> m]]
<1>1. added = [[s EXCEPT !.held = held] EXCEPT !.ref = ref]
  BY DEF AddWaiterImpl
<1>2. key \in Keys /\ key = KeyOf(s, w)
  BY KeyType
<1>3. /\ held \in [Threads -> [Mutexes -> SUBSET Keys]]
      /\ \A a \in Threads, b \in Mutexes :
            held[a][b] = IF a = o /\ b = m THEN s.held[a][b] \cup {key} ELSE s.held[a][b]
  <2> HIDE DEF key
  <2> QED
    BY <1>2 DEF Records
<1>4. /\ ref \in [Threads -> Refs] /\ ref[w] = [owner |-> o, addr |-> m]
      /\ \A u \in Threads \ {w} : ref[u] = s.ref[u]
  BY DEF Records, Refs
<1> HIDE DEF held, ref, key
<1>5. /\ added \in Records(Tags, Places)
      /\ added.held = held /\ added.ref = ref /\ added.base = s.base /\ added.prio = s.prio
      /\ added.cv = s.cv /\ added.tag = s.tag /\ added.pc = s.pc /\ added.tree = s.tree
      /\ added.panic = s.panic
  <2> HIDE DEF added
  <2> QED
    BY <1>1, <1>3, <1>4 DEF Records
<1>6. r = IF s.prio[w] < s.prio[o] THEN RestorePriority(added, o) ELSE added
  BY DEF AddWaiter, key
<1> HIDE DEF added
<1>7. HeldAgrees(s, {}) /\ TreesAgree(s) /\ Ascends(s) /\ ~s.panic
  BY DEF Sound
<1>8. \A a \in Threads, b \in Mutexes :
         Waiters(added, a, b) = IF a = o /\ b = m THEN Waiters(s, a, b) \cup {w} ELSE Waiters(s, a, b)
  <2> TAKE a \in Threads, b \in Mutexes
  <2>1. w \notin Waiters(s, a, b)
    BY RefOf
  <2> QED
    BY <1>4, <1>5, <2>1 DEF Waiters
<1>9. HeldAgrees(added, {})
  <2>1. \A u \in Threads : KeyOf(added, u) = KeyOf(s, u)
    BY <1>5 DEF KeyOf
  <2>2. ASSUME NEW a \in Threads, NEW b \in Mutexes
        PROVE  added.held[a][b] = KeysOf(added, Waiters(added, a, b) \ {})
    <3>1. s.held[a][b] = KeysOf(s, Waiters(s, a, b))
      BY <1>7 DEF HeldAgrees
    <3>2. Waiters(added, a, b) \in SUBSET Threads
      BY DEF Waiters
    <3>3. KeysOf(added, Waiters(added, a, b)) = KeysOf(s, Waiters(added, a, b))
      BY <2>1, <3>2 DEF KeysOf
    <3>4. KeysOf(s, Waiters(s, a, b) \cup {w}) = KeysOf(s, Waiters(s, a, b)) \cup {KeyOf(s, w)}
      BY DEF KeysOf
    <3>5. added.held[a][b] = KeysOf(s, Waiters(added, a, b))
      <4>1. CASE a = o /\ b = m
        <5>1. Waiters(added, a, b) = Waiters(s, a, b) \cup {w}
          BY <1>8, <4>1
        <5>2. added.held[a][b] = s.held[a][b] \cup {key}
          BY <1>3, <1>5, <4>1
        <5> QED
          BY <1>2, <3>1, <3>4, <5>1, <5>2
      <4>2. CASE ~(a = o /\ b = m)
        <5>1. Waiters(added, a, b) = Waiters(s, a, b)
          BY <1>8, <4>2
        <5>2. added.held[a][b] = s.held[a][b]
          BY <1>3, <1>5, <4>2
        <5> QED
          BY <3>1, <5>1, <5>2
      <4> QED
        BY <4>1, <4>2
    <3>6. Waiters(added, a, b) \ {} = Waiters(added, a, b)
      OBVIOUS
    <3> QED
      BY <3>3, <3>5, <3>6
  <2> QED
    BY <2>2 DEF HeldAgrees
<1>10. TreesAgree(added)
  BY <1>5, <1>7, TreesSame
<1>11. \A u \in Threads : Waits(added, u) <=> Waits(s, u) \/ u = w
  BY <1>4, <1>5, Ids DEF Waits
<1>12. Ascends(added)
  <2> SUFFICES ASSUME NEW u \in Threads, Waits(added, u), NEW x \in Threads,
                      x = added.ref[u].owner, Waits(added, x)
               PROVE  added.ref[u].addr < added.ref[x].addr
    BY <1>5, RefOf DEF Ascends
  <2>1. CASE u = w
    <3>1. x = o /\ Waits(s, o) /\ added.ref[o] = s.ref[o] /\ added.ref[u].addr = m
      BY <1>4, <1>5, <1>11, <2>1
    <3> QED
      BY <3>1
  <2>2. CASE u # w /\ x = w
    <3>1. added.ref[u] = s.ref[u] /\ added.ref[x].addr = m
      BY <1>4, <1>5, <2>2
    <3> QED
      BY <2>2, <3>1
  <2>3. CASE u # w /\ x # w
    <3>1. added.ref[u] = s.ref[u] /\ added.ref[x] = s.ref[x] /\ Waits(s, u) /\ Waits(s, x)
      BY <1>4, <1>5, <1>11, <2>3
    <3> QED
      BY <1>7, <3>1 DEF Ascends
  <2> QED
    BY <2>1, <2>2, <2>3
<1>13. \A u \in Threads \ {o} : Settled(s, u) => Settled(added, u)
  <2> TAKE u \in Threads \ {o}
  <2>1. \A b \in Mutexes : added.held[u][b] = s.held[u][b]
    BY <1>3, <1>5
  <2>2. added.held[u] = s.held[u]
    BY <1>5, <2>1, HeldSame
  <2> QED
    BY <1>5, <2>2, SettledSame
<1>14. CASE s.prio[w] < s.prio[o]
  <2>1. Clear(added, {}, o) /\ ~added.panic
    BY <1>5, <1>7 DEF Clear
  <2>2. r \in Records(Tags, Places) /\ Restored(added, {}, o, r)
    BY <1>5, <1>6, <1>9, <1>10, <1>12, <1>14, <2>1, RestoreSettles
  <2>3. SettledKept(s, r)
    BY <1>13, <2>2 DEF Restored, SettledKept
  <2>4. Sound(r)
    BY <1>12, <2>1, <2>2, WaitersSame DEF Restored, SameLinks, Sound
  <2> QED
    BY <1>5, <2>2, <2>3, <2>4 DEF Restored, SameLinks, ref
<1>15. CASE ~(s.prio[w] < s.prio[o])
  <2>1. r = added
    BY <1>6, <1>15
  <2>2. ASSUME Settled(s, o) PROVE Settled(added, o)
    <3>1. s.prio[o] \in Int /\ s.prio[w] \in Int
      BY KeyType
    <3>2. \A u \in Threads : added.ref[u].owner = o <=> s.ref[u].owner = o \/ u = w
      BY <1>4, <1>5
    <3>3. /\ s.prio[o] <= s.base[o]
          /\ \A u \in Threads : s.ref[u].owner = o => s.prio[o] <= s.prio[u]
          /\ \/ s.prio[o] = s.base[o]
             \/ \E u \in Threads : s.ref[u].owner = o /\ s.prio[u] = s.prio[o]
      BY <1>7, <2>2, SettledMeans
    <3>4. s.prio[o] <= s.prio[w]
      BY <1>15, <3>1
    <3> QED
      BY <1>5, <1>9, <3>2, <3>3, <3>4, SettledMeans
  <2>3. Sound(added)
    BY <1>5, <1>7, <1>9, <1>10, <1>12 DEF Sound
  <2> QED
    BY <1>5, <1>13, <2>1, <2>2, <2>3 DEF SettledKept, ref
<1> QED
  BY <1>14, <1>15

-----------------------------------------------------------------------------
(* A thread ceases to wait *)

\* The test before restore_priority: when o does not inherit from h, the first of
\* the detached waiters X, then o remains settled without them.
LEMMA NotInherited ==
    ASSUME NEW Tags, NEW Places, NEW s \in Records(Tags, Places), HeldAgrees(s, {}),
           NEW r \in Records(Tags, Places), NEW X \in SUBSET Threads, HeldAgrees(r, X),
           r.base = s.base, r.prio = s.prio, r.ref = s.ref,
           NEW o \in Threads, NEW h \in X, s.ref[h].owner = o,
           \A x \in X : s.prio[h] <= s.prio[x],
           ~InheritedFrom(s, o, s.prio[h]), Settled(s, o)
    PROVE  Settled(r, o)
<1>1. /\ s.prio[o] <= s.base[o]
      /\ \A u \in Threads : s.ref[u].owner = o => s.prio[o] <= s.prio[u]
      /\ \/ s.prio[o] = s.base[o]
         \/ \E u \in Threads : s.ref[u].owner = o /\ s.prio[u] = s.prio[o]
  BY SettledMeans
<1>2. s.base[o] \in Int /\ \A u \in Threads : s.prio[u] \in Int
  BY DEF Records
<1>3. h \in Threads
  OBVIOUS
<1>4. \/ s.prio[o] = s.base[o]
      \/ \E u \in Threads \ X : s.ref[u].owner = o /\ s.prio[u] = s.prio[o]
  <2>1. CASE s.prio[o] # s.base[o]
    <3>1. s.prio[o] # s.prio[h] /\ s.prio[o] <= s.prio[h]
      BY <1>1, <1>2, <1>3, <2>1 DEF InheritedFrom
    <3>2. PICK u \in Threads : s.ref[u].owner = o /\ s.prio[u] = s.prio[o]
      BY <1>1, <2>1
    <3>3. u \in X => s.prio[h] <= s.prio[u]
      OBVIOUS
    <3>4. u \notin X
      BY <1>2, <1>3, <3>1, <3>2, <3>3
    <3> QED
      BY <3>2, <3>4
  <2> QED
    BY <2>1
<1> QED
  BY <1>1, <1>4, SettledMeans

\* Waiters X of o leave its trees: restore_priority runs if o inherited from the first.
LEMMA DetachSound ==
    ASSUME NEW Tags, NEW Places, NEW s \in Records(Tags, Places), Sound(s),
           NEW r \in Records(Tags, Places), NEW X \in SUBSET Threads, HeldAgrees(r, X),
           SameLinks(s, r), r.prio = s.prio, r.tree = s.tree,
           NEW o \in Threads, \A u \in Threads \ {o} : r.held[u] = s.held[u],
           NEW h \in X, \A x \in X : s.ref[x].owner = o /\ s.prio[h] <= s.prio[x],
           NEW d, d = IF InheritedFrom(s, o, s.prio[h]) THEN RestorePriority(r, o) ELSE r
    PROVE  /\ d \in Records(Tags, Places) /\ SameLinks(s, d) /\ HeldAgrees(d, X)
           /\ TreesAgree(d) /\ SettledKept(s, d) /\ \A x \in X : d.prio[x] = s.prio[x]
<1>1. HeldAgrees(s, {}) /\ TreesAgree(s) /\ Ascends(s) /\ ~s.panic
  BY DEF Sound
<1>2. TreesAgree(r) /\ Ascends(r) /\ ~r.panic
  BY <1>1, TreesSame, WaitersSame DEF SameLinks
<1>3. \A u \in Threads \ {o} : Settled(s, u) => Settled(r, u)
  BY SettledSame DEF SameLinks
<1>4. CASE InheritedFrom(s, o, s.prio[h])
  <2>1. Clear(r, X, o)
    <3>1. \A x \in X : s.ref[x].owner = o /\ o # NoThread
      BY Ids
    <3>2. \A x \in X : Waits(s, x) /\ (Waits(s, o) => s.ref[x].addr < s.ref[o].addr)
      BY <1>1, <3>1 DEF Ascends, Waits
    <3> QED
      BY <3>2 DEF Clear, SameLinks, Waits
  <2>2. d \in Records(Tags, Places) /\ Restored(r, X, o, d)
    BY <1>2, <1>4, <2>1, RestoreSettles
  <2>3. SettledKept(s, d)
    BY <1>3, <2>2 DEF Restored, SettledKept
  <2> QED
    BY <2>2, <2>3 DEF Restored, SameLinks
<1>5. CASE ~InheritedFrom(s, o, s.prio[h])
  <2>1. d = r
    BY <1>5
  <2>2. ASSUME Settled(s, o) PROVE Settled(r, o)
    <3>1. r.base = s.base /\ r.ref = s.ref
      BY DEF SameLinks
    <3>2. s.ref[h].owner = o /\ \A x \in X : s.prio[h] <= s.prio[x]
      BY Zenon
    <3> QED
      BY <1>1, <1>5, <2>2, <3>1, <3>2, NotInherited
  <2> QED
    BY <1>2, <1>3, <2>1, <2>2 DEF SettledKept
<1> QED
  BY <1>4, <1>5

\* Who is in a tree is finite, and its highest key is that of a waiter.
LEMMA FirstWaiter ==
    ASSUME NEW Tags, NEW Places, NEW s \in Records(Tags, Places), HeldAgrees(s, {}),
           NEW o \in Threads, NEW m \in Mutexes, s.held[o][m] # {},
           NEW n, n = Highest(s.held[o][m]).thread
    PROVE  /\ n \in Waiters(s, o, m)
           /\ Highest(s.held[o][m]) = KeyOf(s, n) /\ Highest(s.held[o][m]).prio = s.prio[n]
           /\ \A w \in Waiters(s, o, m) : s.prio[n] <= s.prio[w]
           /\ s.held[o][m] \ {Highest(s.held[o][m])} = KeysOf(s, Waiters(s, o, m) \ {n})
<1> DEFINE W == Waiters(s, o, m)
           keys == s.held[o][m]
<1>1. keys = KeysOf(s, W) /\ W \in SUBSET Threads
  BY DEF HeldAgrees, Waiters
<1>2. IsFiniteSet(keys) /\ keys \in SUBSET Keys
  <2> DEFINE f == [w \in W |-> KeyOf(s, w)]
  <2>1. f \in Surjection(W, keys)
    BY <1>1 DEF Surjection, KeysOf
  <2>2. IsFiniteSet(W)
    BY <1>1, Ids, FS_Subset
  <2>3. keys \in SUBSET Keys
    BY DEF Records
  <2> HIDE DEF W, keys, f
  <2> QED
    BY <2>1, <2>2, <2>3, FS_Surjection
<1> HIDE DEF keys, W
<1>3. Highest(keys) \in keys /\ \A j \in keys : Before(Highest(keys), j)
  BY <1>2, HighestIsFirst DEF keys
<1>4. PICK w \in W : Highest(keys) = KeyOf(s, w)
  BY <1>1, <1>3 DEF KeysOf
<1>5. \A u \in W : KeyOf(s, u).thread = u /\ KeyOf(s, u).prio = s.prio[u] /\ s.prio[u] \in Int
  BY <1>1, KeyType
<1>6. w = n
  BY <1>4, <1>5 DEF keys
<1>7. \A u \in W : s.prio[n] <= s.prio[u]
  <2> TAKE u \in W
  <2>1. Before(KeyOf(s, n), KeyOf(s, u))
    BY <1>1, <1>3, <1>4, <1>6 DEF KeysOf
  <2> QED
    BY <1>4, <1>5, <1>6, <2>1 DEF Before
<1>8. keys \ {Highest(keys)} = KeysOf(s, W \ {n})
  <2>1. \A u \in W : KeyOf(s, u) = KeyOf(s, n) => u = n
    BY <1>5, <1>6
  <2> QED
    BY <1>1, <1>4, <1>6, <2>1 DEF KeysOf
<1>9. n \in W /\ Highest(keys) = KeyOf(s, n) /\ Highest(keys).prio = s.prio[n]
  BY <1>4, <1>5, <1>6
<1> QED
  BY <1>7, <1>8, <1>9, Zenon DEF keys, W

\* What the threads wait for after the waiters W for m have been handed over to n,
\* the first of them.
HandedRef(s, W, n, m) ==
    [w \in Threads |-> IF w = n THEN NoRef
                       ELSE IF w \in W THEN [owner |-> n, addr |-> m] ELSE s.ref[w]]

\* The lock info of m with the waiters rest goes to n, who waits no more.
IsTransferred(s, n, m, rest, r) ==
    r = [TransferLockInfo(s, n, m, rest) EXCEPT !.ref[n] = NoRef]

\* The first waiter becomes the owner the others wait for.
LEMMA TransferSound ==
    ASSUME NEW Tags, NEW Places, NEW s \in Records(Tags, Places), Ascends(s), ~s.panic,
           NEW o \in Threads, NEW m \in Mutexes, NEW W, W = Waiters(s, o, m),
           HeldAgrees(s, W), TreesAgree(s),
           NEW n \in W, \A w \in W : s.prio[n] <= s.prio[w],
           NEW rest, rest = KeysOf(s, W \ {n}),
           NEW r, IsTransferred(s, n, m, rest, r)
    PROVE  /\ r \in Records(Tags, Places) /\ Sound(r) /\ SettledKept(s, r)
           /\ r.base = s.base /\ r.cv = s.cv /\ r.tag = s.tag /\ r.pc = s.pc
           /\ r.ref = HandedRef(s, W, n, m)
<1> DEFINE held == [s.held EXCEPT ![n][m] = rest]
           moved == [w \in Threads |-> IF \E k \in rest : k.thread = w
                                       THEN [owner |-> n, addr |-> m] ELSE s.ref[w]]
           ref == [moved EXCEPT ![n] = NoRef]
<1>1. /\ n \in Threads /\ W \in SUBSET Threads /\ n # NoThread
      /\ \A w \in W : s.ref[w] = [owner |-> o, addr |-> m] /\ Waits(s, w)
  BY RefOf, Ids DEF Waiters
<1>2. rest \in SUBSET Keys
  BY <1>1, KeyType DEF KeysOf
<1>3. \A w \in Threads : (\E k \in rest : k.thread = w) <=> w \in W \ {n}
  <2>1. \A w \in W : KeyOf(s, w).thread = w
    BY <1>1, KeyType
  <2> QED
    BY <2>1 DEF KeysOf
<1>4. ref = HandedRef(s, W, n, m)
  <2>1. ref = [w \in Threads |-> IF w = n THEN NoRef ELSE moved[w]]
    OBVIOUS
  <2>2. \A w \in Threads : moved[w] = IF w \in W \ {n} THEN [owner |-> n, addr |-> m] ELSE s.ref[w]
    BY <1>3
  <2> HIDE DEF moved
  <2> QED
    BY <2>1, <2>2 DEF HandedRef
<1>5. /\ ref \in [Threads -> Refs] /\ ref[n] = NoRef
      /\ \A w \in W \ {n} : ref[w] = [owner |-> n, addr |-> m]
      /\ \A u \in Threads \ W : ref[u] = s.ref[u]
  <2>1. ref \in [Threads -> Refs]
    <3>1. \A w \in Threads : s.ref[w] \in Refs
      BY DEF Records
    <3> HIDE DEF ref
    <3> QED
      BY <1>1, <1>4, <3>1 DEF HandedRef, Refs
  <2> HIDE DEF ref
  <2> QED
    BY <1>1, <1>4, <2>1 DEF HandedRef
<1>6. /\ held \in [Threads -> [Mutexes -> SUBSET Keys]]
      /\ \A a \in Threads, b \in Mutexes : held[a][b] = IF a = n /\ b = m THEN rest ELSE s.held[a][b]
  BY <1>1, <1>2 DEF Records
<1>7. r = [[s EXCEPT !.held = held] EXCEPT !.ref = ref]
  BY DEF IsTransferred, TransferLockInfo
<1> HIDE DEF held, moved, ref
<1>8. /\ r \in Records(Tags, Places)
      /\ r.held = held /\ r.ref = ref /\ r.base = s.base /\ r.prio = s.prio /\ r.cv = s.cv
      /\ r.tag = s.tag /\ r.pc = s.pc /\ r.tree = s.tree /\ r.panic = s.panic
  BY <1>5, <1>6, <1>7 DEF Records
<1>9. n # o /\ \A u \in Threads : s.ref[u] # [owner |-> n, addr |-> m]
  <2>1. m \in Nat /\ s.ref[n].addr = m /\ s.ref[n].owner = o
    BY <1>1, Ids
  <2>2. n # o
    <3>1. n = o => m < m
      BY <1>1, <2>1 DEF Ascends
    <3> QED
      BY <2>1, <3>1
  <2>3. ASSUME NEW u \in Threads, s.ref[u] = [owner |-> n, addr |-> m] PROVE FALSE
    <3>1. Waits(s, u) /\ s.ref[u].owner = n /\ s.ref[u].addr = m
      BY <1>1, <2>3 DEF Waits
    <3>2. m < m
      BY <1>1, <2>1, <3>1 DEF Ascends
    <3> QED
      BY <2>1, <3>2
  <2> QED
    BY <2>2, <2>3
<1>10. HeldAgrees(r, {})
  <2>1. \A A \in SUBSET Threads : KeysOf(r, A) = KeysOf(s, A)
    BY <1>8 DEF KeysOf, KeyOf
  <2>2. ASSUME NEW a \in Threads, NEW b \in Mutexes PROVE r.held[a][b] = KeysOf(r, Waiters(r, a, b))
    <3>1. Waiters(r, a, b) \in SUBSET Threads
      BY DEF Waiters
    <3>2. CASE a = n /\ b = m
      <4>1. Waiters(r, a, b) = W \ {n}
        BY <1>1, <1>5, <1>8, <1>9, <3>2 DEF Waiters, NoRef
      <4> QED
        BY <1>6, <1>8, <2>1, <3>1, <3>2, <4>1
    <3>3. CASE ~(a = n /\ b = m)
      <4>1. Waiters(r, a, b) = Waiters(s, a, b) \ W
        <5>1. ASSUME NEW w \in Threads PROVE w \in Waiters(r, a, b) <=> w \in Waiters(s, a, b) \ W
          <6>1. CASE w = n
            BY <1>5, <1>8, <6>1, Ids DEF Waiters, NoRef
          <6>2. CASE w \in W \ {n}
            BY <1>5, <1>8, <3>3, <6>2 DEF Waiters
          <6>3. CASE w \notin W
            BY <1>5, <1>8, <6>3 DEF Waiters
          <6> QED
            BY <6>1, <6>2, <6>3
        <5> QED
          BY <5>1 DEF Waiters
      <4>2. r.held[a][b] = KeysOf(s, Waiters(s, a, b) \ W)
        BY <1>6, <1>8, <3>3 DEF HeldAgrees
      <4> QED
        BY <2>1, <3>1, <4>1, <4>2
    <3> QED
      BY <3>2, <3>3
  <2>3. \A a \in Threads, b \in Mutexes : Waiters(r, a, b) \ {} = Waiters(r, a, b)
    OBVIOUS
  <2> QED
    BY <2>2, <2>3 DEF HeldAgrees
<1>11. TreesAgree(r)
  BY <1>8, TreesSame
<1>12. Ascends(r)
  <2>1. \A u \in Threads : Waits(r, u) <=> Waits(s, u) /\ u # n
    BY <1>1, <1>5, <1>8 DEF Waits, NoRef
  <2> SUFFICES ASSUME NEW u \in Threads, Waits(r, u), NEW x \in Threads,
                      x = r.ref[u].owner, Waits(r, x)
               PROVE  r.ref[u].addr < r.ref[x].addr
    BY <1>8, RefOf DEF Ascends
  <2>2. x # n /\ u # n /\ Waits(s, u) /\ Waits(s, x)
    BY <2>1
  <2>3. u \notin W
    BY <1>5, <1>8, <2>2
  <2>4. r.ref[u] = s.ref[u] /\ r.ref[x].addr = s.ref[x].addr
    BY <1>1, <1>5, <1>8, <2>2, <2>3
  <2> QED
    BY <2>2, <2>4 DEF Ascends
<1>13. \A u \in Threads \ {n} : Settled(s, u) => Settled(r, u)
  <2> TAKE u \in Threads \ {n}
  <2>1. \A b \in Mutexes : r.held[u][b] = s.held[u][b]
    BY <1>6, <1>8
  <2>2. r \in Records(Tags, Places) /\ u \in Threads
    BY <1>8
  <2>3. r.held[u] = s.held[u]
    BY <2>1, <2>2, HeldSame
  <2> QED
    BY <1>8, <2>3, SettledSame
<1>14. ASSUME Settled(s, n) PROVE Settled(r, n)
  <2>1. /\ s.prio[n] <= s.base[n]
        /\ \A w \in Threads \ W : s.ref[w].owner = n => s.prio[n] <= s.prio[w]
        /\ \/ s.prio[n] = s.base[n]
           \/ \E w \in Threads \ W : s.ref[w].owner = n /\ s.prio[w] = s.prio[n]
    BY <1>1, <1>14, SettledMeans
  <2>2. \A w \in Threads : r.ref[w].owner = n <=> w \in W \ {n} \/ (w \notin W /\ s.ref[w].owner = n)
    BY <1>1, <1>5, <1>8 DEF NoRef
  <2>3. /\ r.prio[n] <= r.base[n]
        /\ \A w \in Threads \ {} : r.ref[w].owner = n => r.prio[n] <= r.prio[w]
        /\ \/ r.prio[n] = r.base[n]
           \/ \E w \in Threads \ {} : r.ref[w].owner = n /\ r.prio[w] = r.prio[n]
    BY <1>1, <1>8, <2>1, <2>2
  <2>4. r \in Records(Tags, Places) /\ n \in Threads
    BY <1>1, <1>8
  <2> QED
    BY <1>10, <2>3, <2>4, SettledMeans
<1> QED
  BY <1>4, <1>8, <1>10, <1>11, <1>12, <1>13, <1>14 DEF Sound, SettledKept

\* What signal_to_address and wait do for the waiters of m: n, the first, waits no
\* more, and the others wait for n.
LEMMA HandOverSound ==
    ASSUME NEW Tags, NEW Places, NEW s \in Records(Tags, Places), Sound(s),
           NEW o \in Threads, NEW m \in Mutexes, s.held[o][m] # {},
           NEW n, n = Highest(s.held[o][m]).thread
    PROVE  /\ HandOver(s, o, m) \in Records(Tags, Places)
           /\ Sound(HandOver(s, o, m)) /\ SettledKept(s, HandOver(s, o, m))
           /\ HandOver(s, o, m).base = s.base /\ HandOver(s, o, m).cv = s.cv
           /\ HandOver(s, o, m).tag = s.tag /\ HandOver(s, o, m).pc = s.pc
           /\ HandOver(s, o, m).ref = HandedRef(s, Waiters(s, o, m), n, m)
<1>1. HeldAgrees(s, {}) /\ TreesAgree(s) /\ Ascends(s) /\ ~s.panic
  BY DEF Sound
<1>2. PICK W \in SUBSET Threads : W = Waiters(s, o, m)
  BY DEF Waiters
<1>3. /\ n \in W /\ Highest(s.held[o][m]).prio = s.prio[n]
      /\ \A w \in W : s.prio[n] <= s.prio[w]
      /\ s.held[o][m] \ {Highest(s.held[o][m])} = KeysOf(s, W \ {n})
  <2>1. /\ n \in Waiters(s, o, m) /\ Highest(s.held[o][m]).prio = s.prio[n]
        /\ \A w \in Waiters(s, o, m) : s.prio[n] <= s.prio[w]
        /\ s.held[o][m] \ {Highest(s.held[o][m])} = KeysOf(s, Waiters(s, o, m) \ {n})
    BY <1>1, FirstWaiter
  <2> QED
    BY <1>2, <2>1, Zenon
<1> DEFINE none == [s.held EXCEPT ![o][m] = {}]
           detached == [s EXCEPT !.held[o][m] = {}]
           d == IF InheritedFrom(s, o, s.prio[n]) THEN RestorePriority(detached, o) ELSE detached
<1>4. /\ none \in [Threads -> [Mutexes -> SUBSET Keys]]
      /\ \A a \in Threads, b \in Mutexes : none[a][b] = IF a = o /\ b = m THEN {} ELSE s.held[a][b]
      /\ \A u \in Threads \ {o} : none[u] = s.held[u]
  BY DEF Records
<1>5. detached = [s EXCEPT !.held = none]
  OBVIOUS
<1> HIDE DEF none, detached
<1>6. /\ detached \in Records(Tags, Places) /\ SameLinks(s, detached)
      /\ detached.held = none /\ detached.prio = s.prio /\ detached.tree = s.tree
  BY <1>4, <1>5 DEF Records, SameLinks
<1>7. HeldAgrees(detached, W)
  <2>1. \A A \in SUBSET Threads : KeysOf(detached, A) = KeysOf(s, A)
    BY <1>6 DEF KeysOf, KeyOf
  <2>2. \A a \in Threads, b \in Mutexes : Waiters(detached, a, b) = Waiters(s, a, b)
    BY <1>6, WaitersSame DEF SameLinks
  <2>3. ASSUME NEW a \in Threads, NEW b \in Mutexes
        PROVE  detached.held[a][b] = KeysOf(detached, Waiters(detached, a, b) \ W)
    <3>1. Waiters(s, a, b) \in SUBSET Threads
      BY DEF Waiters
    <3>2. CASE a = o /\ b = m
      <4>1. Waiters(s, a, b) \ W = {}
        BY <1>2, <3>2
      <4>2. KeysOf(detached, {}) = {}
        BY DEF KeysOf
      <4> QED
        BY <1>4, <1>6, <2>2, <3>2, <4>1, <4>2
    <3>3. CASE ~(a = o /\ b = m)
      <4>1. Waiters(s, a, b) \ W = Waiters(s, a, b) \ {}
        BY <1>2, <3>3 DEF Waiters
      <4>2. detached.held[a][b] = KeysOf(s, Waiters(s, a, b) \ {})
        BY <1>1, <1>4, <1>6, <3>3 DEF HeldAgrees
      <4>3. Waiters(s, a, b) \ {} \in SUBSET Threads
        BY <3>1
      <4> QED
        BY <2>1, <2>2, <4>1, <4>2, <4>3
    <3> QED
      BY <3>2, <3>3
  <2> QED
    BY <2>3 DEF HeldAgrees
<1>8. /\ d \in Records(Tags, Places) /\ SameLinks(s, d) /\ HeldAgrees(d, W)
      /\ TreesAgree(d) /\ SettledKept(s, d) /\ \A w \in W : d.prio[w] = s.prio[w]
  <2>1. \A w \in W : s.ref[w].owner = o /\ s.prio[n] <= s.prio[w]
    BY <1>2, <1>3 DEF Waiters
  <2>2. \A u \in Threads \ {o} : detached.held[u] = s.held[u]
    BY <1>4, <1>6
  <2> QED
    BY <1>3, <1>6, <1>7, <2>1, <2>2, DetachSound
<1>9. RemoveWaiterByKey(s, o, m) = d
  BY <1>3 DEF RemoveWaiterByKey, detached
<1> DEFINE rest == s.held[o][m] \ {Highest(s.held[o][m])}
           given == [TransferLockInfo(d, n, m, rest) EXCEPT !.ref[n] = NoRef]
<1>10. HandOver(s, o, m) = RestorePriority(given, o)
  BY <1>9 DEF HandOver
<1>11. IsTransferred(d, n, m, rest, given)
  BY DEF IsTransferred
<1> HIDE DEF d, given, rest
<1>12. /\ given \in Records(Tags, Places) /\ Sound(given) /\ SettledKept(d, given)
       /\ given.base = d.base /\ given.cv = d.cv /\ given.tag = d.tag /\ given.pc = d.pc
       /\ given.ref = HandedRef(d, W, n, m)
  <2>1. Ascends(d) /\ ~d.panic /\ W = Waiters(d, o, m)
    BY <1>1, <1>2, <1>8, WaitersSame DEF SameLinks
  <2>2. rest = KeysOf(d, W \ {n})
    <3>1. \A w \in W : KeyOf(d, w) = KeyOf(s, w)
      BY <1>8 DEF KeyOf
    <3> QED
      BY <1>3, <3>1 DEF KeysOf, rest
  <2>3. \A w \in W : d.prio[n] <= d.prio[w]
    BY <1>3, <1>8
  <2> QED
    BY <1>3, <1>8, <1>11, <2>1, <2>2, <2>3, TransferSound
<1>13. given.ref = HandedRef(s, Waiters(s, o, m), n, m)
  BY <1>2, <1>8, <1>12 DEF HandedRef, SameLinks
<1>14. HeldAgrees(given, {}) /\ TreesAgree(given) /\ Ascends(given) /\ ~given.panic
  BY <1>12 DEF Sound
<1>15. PICK r : r = RestorePriority(given, o)
  OBVIOUS
<1>16. r \in Records(Tags, Places) /\ Restored(given, {}, o, r)
  <2>1. Clear(given, {}, o)
    BY DEF Clear
  <2> QED
    BY <1>12, <1>14, <1>15, <2>1, RestoreSettles
<1>17. Sound(r) /\ SettledKept(s, r)
  BY <1>8, <1>12, <1>14, <1>16, WaitersSame DEF Restored, SameLinks, Sound, SettledKept
<1>18. /\ r.base = s.base /\ r.cv = s.cv /\ r.tag = s.tag /\ r.pc = s.pc
       /\ r.ref = HandedRef(s, Waiters(s, o, m), n, m)
  BY <1>8, <1>12, <1>13, <1>16 DEF Restored, SameLinks
<1> QED
  BY <1>10, <1>15, <1>16, <1>17, <1>18

\* What is sound depends on neither the words nor where the threads are.
LEMMA SoundSame ==
    ASSUME NEW s, NEW r, r.base = s.base, r.prio = s.prio, r.held = s.held, r.ref = s.ref,
           r.cv = s.cv, r.tree = s.tree, r.panic = s.panic
    PROVE  (Sound(s) => Sound(r)) /\ SettledKept(s, r)
<1>1. \A u \in Threads : KeyOf(r, u) = KeyOf(s, u)
  BY DEF KeyOf
<1>2. \A o \in Threads, m \in Mutexes : Waiters(r, o, m) = Waiters(s, o, m)
  BY DEF Waiters
<1>3. HeldAgrees(s, {}) => HeldAgrees(r, {})
  <2>1. \A o \in Threads, m \in Mutexes :
           KeysOf(r, Waiters(s, o, m) \ {}) = KeysOf(s, Waiters(s, o, m) \ {})
    BY <1>1 DEF KeysOf, Waiters
  <2> QED
    BY <1>2, <2>1 DEF HeldAgrees
<1>4. SettledKept(s, r)
  BY SettledSame DEF SettledKept
<1> QED
  BY <1>3, <1>4, TreesSame, WaitersSame DEF Sound

\* r is s after thread w has left the tree of condition variable k.
LeavesTree(s, k, w, r) ==
    r = [s EXCEPT !.tree[k] = TreeErase(@, w), !.cv[w] = NoCV]

LEMMA LeaveTreeSound ==
    ASSUME NEW Tags, NEW Places, NEW s \in Records(Tags, Places), Sound(s),
           NEW w \in Threads, NEW k \in CVs, s.cv[w] = k, NEW r, LeavesTree(s, k, w, r)
    PROVE  /\ r \in Records(Tags, Places) /\ Sound(r) /\ SettledKept(s, r)
           /\ r.base = s.base /\ r.prio = s.prio /\ r.ref = s.ref /\ r.tag = s.tag /\ r.pc = s.pc
           /\ r.cv = [s.cv EXCEPT ![w] = NoCV]
<1> DEFINE q == TreeErase(s.tree[k], w)
           trees == [s.tree EXCEPT ![k] = q]
           cvs == [s.cv EXCEPT ![w] = NoCV]
<1>1. TreesAgree(s)
  BY DEF Sound
<1>2. /\ q \in Seq(Keys) /\ Range(q) = KeysOf(s, Sleepers(s, k) \ {w})
      /\ InOrder(q, ByPriority)
  BY <1>1, TreeWithout
<1>3. r = [s EXCEPT !.tree = trees, !.cv = cvs]
  BY DEF LeavesTree
<1> HIDE DEF q
<1>4. trees \in [CVs -> Seq(Keys)] /\ \A c \in CVs : trees[c] = IF c = k THEN q ELSE s.tree[c]
  BY <1>2 DEF Records
<1>5. /\ cvs \in [Threads -> CVs \cup {NoCV}]
      /\ cvs[w] = NoCV /\ \A u \in Threads \ {w} : cvs[u] = s.cv[u]
  BY DEF Records
<1> HIDE DEF trees, cvs
<1>6. /\ r \in Records(Tags, Places) /\ r.tree = trees /\ r.cv = cvs
      /\ r.base = s.base /\ r.prio = s.prio /\ r.held = s.held /\ r.ref = s.ref
      /\ r.tag = s.tag /\ r.pc = s.pc /\ r.panic = s.panic
  BY <1>3, <1>4, <1>5 DEF Records
<1>7. TreesAgree(r)
  <2>1. \A A \in SUBSET Threads : KeysOf(r, A) = KeysOf(s, A)
    BY <1>6 DEF KeysOf, KeyOf
  <2>2. ASSUME NEW c \in CVs
        PROVE  Range(r.tree[c]) = KeysOf(r, Sleepers(r, c)) /\ InOrder(r.tree[c], ByPriority)
    <3>1. Sleepers(r, c) = Sleepers(s, c) \ {w} /\ Sleepers(r, c) \in SUBSET Threads
      BY <1>5, <1>6, Ids DEF Sleepers
    <3>2. CASE c = k
      BY <1>2, <1>4, <1>6, <2>1, <3>1, <3>2
    <3>3. CASE c # k
      <4>1. Sleepers(s, c) \ {w} = Sleepers(s, c)
        BY <3>3 DEF Sleepers
      <4> QED
        BY <1>1, <1>4, <1>6, <2>1, <3>1, <3>3, <4>1 DEF TreesAgree
    <3> QED
      BY <3>2, <3>3
  <2> QED
    BY <2>2 DEF TreesAgree
<1>8. HeldAgrees(r, {}) /\ Ascends(r) /\ ~r.panic
  <2>1. \A o \in Threads, m \in Mutexes : Waiters(r, o, m) = Waiters(s, o, m)
    BY <1>6, WaitersSame
  <2>2. \A o \in Threads, m \in Mutexes :
           KeysOf(r, Waiters(s, o, m) \ {}) = KeysOf(s, Waiters(s, o, m) \ {})
    BY <1>6 DEF KeysOf, KeyOf, Waiters
  <2> QED
    BY <1>6, <2>1, <2>2, WaitersSame DEF HeldAgrees, Sound
<1>9. SettledKept(s, r)
  BY <1>6, SettledSame DEF SettledKept
<1> QED
  BY <1>6, <1>7, <1>8, <1>9 DEF Sound, cvs

\* r is s after thread t has entered the tree of condition variable k.
EntersTree(s, k, t, place, r) ==
    r = [s EXCEPT !.cv[t] = k, !.tree[k] = TreeInsert(@, KeyOf(s, t)), !.pc[t] = place]

LEMMA EnterTreeSound ==
    ASSUME NEW Tags, NEW Places, NEW s \in Records(Tags, Places), Sound(s),
           NEW t \in Threads, NEW k \in CVs, s.cv[t] = NoCV,
           NEW place, [s.pc EXCEPT ![t] = place] \in Places,
           NEW r, EntersTree(s, k, t, place, r)
    PROVE  /\ r \in Records(Tags, Places) /\ Sound(r) /\ SettledKept(s, r)
           /\ r.base = s.base /\ r.prio = s.prio /\ r.ref = s.ref /\ r.tag = s.tag
           /\ r.pc = [s.pc EXCEPT ![t] = place] /\ r.cv = [s.cv EXCEPT ![t] = k]
<1> DEFINE q == TreeInsert(s.tree[k], KeyOf(s, t))
           trees == [s.tree EXCEPT ![k] = q]
           cvs == [s.cv EXCEPT ![t] = k]
           places == [s.pc EXCEPT ![t] = place]
<1>1. TreesAgree(s)
  BY DEF Sound
<1>2. t \notin Sleepers(s, k) /\ Sleepers(s, k) \in SUBSET Threads
  BY Ids DEF Sleepers
<1>3. /\ q \in Seq(Keys) /\ Range(q) = KeysOf(s, Sleepers(s, k)) \cup {KeyOf(s, t)}
      /\ InOrder(q, ByPriority)
  <2>1. s.tree[k] \in Seq(Keys) /\ Range(s.tree[k]) = KeysOf(s, Sleepers(s, k))
        /\ InOrder(s.tree[k], ByPriority)
    BY <1>1 DEF TreesAgree, Records
  <2>2. KeyOf(s, t) \in Keys /\ KeyOf(s, t).thread \notin Sleepers(s, k)
    BY <1>2, KeyType
  <2> QED
    BY <1>2, <2>1, <2>2, TreeWith
<1>4. r = [s EXCEPT !.cv = cvs, !.tree = trees, !.pc = places]
  BY DEF EntersTree
<1> HIDE DEF q
<1>5. trees \in [CVs -> Seq(Keys)] /\ \A c \in CVs : trees[c] = IF c = k THEN q ELSE s.tree[c]
  BY <1>3 DEF Records
<1>6. /\ cvs \in [Threads -> CVs \cup {NoCV}]
      /\ cvs[t] = k /\ \A u \in Threads \ {t} : cvs[u] = s.cv[u]
  BY DEF Records
<1>7. places \in Places
  OBVIOUS
<1> HIDE DEF trees, cvs, places
<1>8. /\ r \in Records(Tags, Places) /\ r.tree = trees /\ r.cv = cvs /\ r.pc = places
      /\ r.base = s.base /\ r.prio = s.prio /\ r.held = s.held /\ r.ref = s.ref
      /\ r.tag = s.tag /\ r.panic = s.panic
  BY <1>4, <1>5, <1>6, <1>7 DEF Records
<1>9. TreesAgree(r)
  <2>1. \A A \in SUBSET Threads : KeysOf(r, A) = KeysOf(s, A)
    BY <1>8 DEF KeysOf, KeyOf
  <2>2. ASSUME NEW c \in CVs
        PROVE  Range(r.tree[c]) = KeysOf(r, Sleepers(r, c)) /\ InOrder(r.tree[c], ByPriority)
    <3>1. CASE c = k
      <4>1. Sleepers(r, c) = Sleepers(s, k) \cup {t}
        BY <1>6, <1>8, <3>1 DEF Sleepers
      <4>2. KeysOf(s, Sleepers(s, k) \cup {t}) = KeysOf(s, Sleepers(s, k)) \cup {KeyOf(s, t)}
        BY DEF KeysOf
      <4>3. Sleepers(s, k) \cup {t} \in SUBSET Threads
        BY <1>2
      <4> QED
        BY <1>3, <1>5, <1>8, <2>1, <3>1, <4>1, <4>2, <4>3
    <3>2. CASE c # k
      <4>1. Sleepers(r, c) = Sleepers(s, c) /\ Sleepers(s, c) \in SUBSET Threads
        BY <1>6, <1>8, <3>2, Ids DEF Sleepers
      <4> QED
        BY <1>1, <1>5, <1>8, <2>1, <3>2, <4>1 DEF TreesAgree
    <3> QED
      BY <3>1, <3>2
  <2> QED
    BY <2>2 DEF TreesAgree
<1>10. HeldAgrees(r, {}) /\ Ascends(r) /\ ~r.panic
  <2>1. \A o \in Threads, m \in Mutexes : Waiters(r, o, m) = Waiters(s, o, m)
    BY <1>8, WaitersSame
  <2>2. \A o \in Threads, m \in Mutexes :
           KeysOf(r, Waiters(s, o, m) \ {}) = KeysOf(s, Waiters(s, o, m) \ {})
    BY <1>8 DEF KeysOf, KeyOf, Waiters
  <2> QED
    BY <1>8, <2>1, <2>2, WaitersSame DEF HeldAgrees, Sound
<1>11. SettledKept(s, r)
  BY <1>8, SettledSame DEF SettledKept
<1> QED
  BY <1>8, <1>9, <1>10, <1>11 DEF Sound, cvs, places

\* remove_waiter_by_thread_id takes w out of the tree that it is in; its back
\* pointer still stands.
LEMMA RemoveWaiterSound ==
    ASSUME NEW Tags, NEW Places, NEW s \in Records(Tags, Places), Sound(s),
           NEW w \in Threads, Waits(s, w),
           NEW d, d = RemoveWaiterByThreadId(s, s.ref[w].owner, w)
    PROVE  /\ d \in Records(Tags, Places) /\ SameLinks(s, d) /\ HeldAgrees(d, {w})
           /\ TreesAgree(d) /\ SettledKept(s, d)
<1>1. HeldAgrees(s, {}) /\ TreesAgree(s) /\ Ascends(s) /\ ~s.panic
  BY DEF Sound
<1>2. PICK o \in Threads, m \in Mutexes :
         o = s.ref[w].owner /\ m = s.ref[w].addr /\ w \in Waiters(s, o, m)
  <2>1. /\ s.ref[w].owner \in Threads /\ s.ref[w].addr \in Mutexes
        /\ w \in Waiters(s, s.ref[w].owner, s.ref[w].addr)
    BY RefOf
  <2> QED
    BY <2>1
<1>3. \A a \in Threads, b \in Mutexes : w \in Waiters(s, a, b) => a = o /\ b = m
  BY <1>2 DEF Waiters
<1>4. \A a \in Threads, b \in Mutexes : \A k \in s.held[a][b] :
         k.thread = w => a = o /\ b = m /\ k = KeyOf(s, w)
  <2> TAKE a \in Threads, b \in Mutexes
  <2> TAKE k \in s.held[a][b]
  <2>1. PICK u \in Waiters(s, a, b) : k = KeyOf(s, u)
    BY <1>1 DEF HeldAgrees, KeysOf
  <2>2. k.thread = u /\ u \in Threads
    BY <2>1, KeyType DEF Waiters
  <2> QED
    BY <1>3, <2>1, <2>2
<1>5. KeyOf(s, w) \in s.held[o][m] /\ KeyOf(s, w).thread = w /\ KeyOf(s, w).prio = s.prio[w]
  BY <1>1, <1>2, KeyType DEF HeldAgrees, KeysOf
<1>6. (CHOOSE a \in Mutexes : \E k \in s.held[o][a] : k.thread = w) = m
  BY <1>4, <1>5
<1>7. (CHOOSE k \in s.held[o][m] : k.thread = w) = KeyOf(s, w)
  BY <1>4, <1>5
<1>8. ~(\A k \in WaiterKeys(s, o) : k.thread # w)
  BY <1>5 DEF WaiterKeys
<1> DEFINE less == [s.held EXCEPT ![o][m] = @ \ {KeyOf(s, w)}]
           removed == [s EXCEPT !.held[o][m] = @ \ {KeyOf(s, w)}]
<1>9. d = IF InheritedFrom(s, o, s.prio[w]) THEN RestorePriority(removed, o) ELSE removed
  <2>1. d = RemoveWaiterByThreadId(s, o, w)
    BY <1>2
  <2> DEFINE at == CHOOSE a \in Mutexes : \E k \in s.held[o][a] : k.thread = w
             key == CHOOSE k \in s.held[o][at] : k.thread = w
  <2>2. at = m
    BY <1>6
  <2>3. key = KeyOf(s, w)
    BY <1>7, <2>2
  <2>4. d = IF InheritedFrom(s, o, key.prio)
            THEN RestorePriority([s EXCEPT !.held[o][at] = @ \ {key}], o)
            ELSE [s EXCEPT !.held[o][at] = @ \ {key}]
    BY <1>8, <2>1, Zenon DEF RemoveWaiterByThreadId
  <2> HIDE DEF at, key
  <2> QED
    BY <1>5, <2>2, <2>3, <2>4
<1>10. /\ less \in [Threads -> [Mutexes -> SUBSET Keys]]
       /\ \A a \in Threads, b \in Mutexes :
             less[a][b] = IF a = o /\ b = m THEN s.held[a][b] \ {KeyOf(s, w)} ELSE s.held[a][b]
       /\ \A u \in Threads \ {o} : less[u] = s.held[u]
  BY DEF Records
<1>11. removed = [s EXCEPT !.held = less]
  OBVIOUS
<1> HIDE DEF less, removed
<1>12. /\ removed \in Records(Tags, Places) /\ SameLinks(s, removed)
       /\ removed.held = less /\ removed.prio = s.prio /\ removed.tree = s.tree
  BY <1>10, <1>11 DEF Records, SameLinks
<1>13. HeldAgrees(removed, {w})
  <2>1. \A A \in SUBSET Threads : KeysOf(removed, A) = KeysOf(s, A)
    BY <1>12 DEF KeysOf, KeyOf
  <2>2. \A a \in Threads, b \in Mutexes : Waiters(removed, a, b) = Waiters(s, a, b)
    BY <1>12, WaitersSame DEF SameLinks
  <2>3. ASSUME NEW a \in Threads, NEW b \in Mutexes
        PROVE  removed.held[a][b] = KeysOf(removed, Waiters(removed, a, b) \ {w})
    <3>1. Waiters(s, a, b) \in SUBSET Threads /\ s.held[a][b] = KeysOf(s, Waiters(s, a, b))
      BY <1>1 DEF Waiters, HeldAgrees
    <3>2. Waiters(s, a, b) \ {w} \in SUBSET Threads
      BY <3>1
    <3>3. CASE a = o /\ b = m
      <4>1. \A u \in Waiters(s, a, b) : KeyOf(s, u) = KeyOf(s, w) => u = w
        BY <3>1, KeyType
      <4>2. KeysOf(s, Waiters(s, a, b)) \ {KeyOf(s, w)} = KeysOf(s, Waiters(s, a, b) \ {w})
        BY <4>1 DEF KeysOf
      <4> QED
        BY <1>10, <1>12, <2>1, <2>2, <3>1, <3>2, <3>3, <4>2
    <3>4. CASE ~(a = o /\ b = m)
      <4>1. Waiters(s, a, b) \ {w} = Waiters(s, a, b)
        BY <1>3, <3>4
      <4> QED
        BY <1>10, <1>12, <2>1, <2>2, <3>1, <3>4, <4>1
    <3> QED
      BY <3>3, <3>4
  <2> QED
    BY <2>3 DEF HeldAgrees
<1>14. /\ \A u \in Threads \ {o} : removed.held[u] = s.held[u]
       /\ s.prio[w] <= s.prio[w] /\ \A x \in {w} : s.ref[x].owner = o /\ s.prio[w] <= s.prio[x]
       /\ {w} \in SUBSET Threads /\ w \in {w}
  <2>1. s.prio[w] \in Int
    BY KeyType
  <2> QED
    BY <1>2, <1>10, <1>12, <2>1
<1> QED
  BY <1>9, <1>12, <1>13, <1>14, DetachSound

\* The cancel_wait of both wait queues.
LEMMA CancelWaitSound ==
    ASSUME NEW Tags, NEW Places, NEW s \in Records(Tags, Places), Sound(s),
           NEW w \in Threads, NEW r, r = CancelWait(s, w)
    PROVE  /\ r \in Records(Tags, Places) /\ Sound(r) /\ SettledKept(s, r)
           /\ r.base = s.base /\ r.tag = s.tag /\ r.pc = s.pc
           /\ r.ref = [s.ref EXCEPT ![w] = NoRef]
           /\ r.cv = [s.cv EXCEPT ![w] = NoCV]
<1>1. HeldAgrees(s, {}) /\ TreesAgree(s) /\ Ascends(s) /\ ~s.panic
  BY DEF Sound
<1> DEFINE left == IF s.ref[w].owner = NoThread THEN s
                   ELSE RemoveWaiterByThreadId(s, s.ref[w].owner, w)
           unref == [left EXCEPT !.ref[w] = NoRef]
           refs == [s.ref EXCEPT ![w] = NoRef]
<1>2. /\ left \in Records(Tags, Places) /\ SameLinks(s, left) /\ HeldAgrees(left, {w})
      /\ TreesAgree(left) /\ SettledKept(s, left)
  <2>1. CASE s.ref[w].owner = NoThread
    <3>1. HeldAgrees(s, {w})
      <4>1. \A a \in Threads, b \in Mutexes : w \notin Waiters(s, a, b)
        BY <2>1, Ids DEF Waiters
      <4>2. \A a \in Threads, b \in Mutexes : Waiters(s, a, b) \ {w} = Waiters(s, a, b) \ {}
        BY <4>1
      <4> QED
        BY <1>1, <4>2 DEF HeldAgrees
    <3>2. left = s /\ SettledKept(s, s) /\ SameLinks(s, s)
      BY <2>1 DEF SettledKept, SameLinks
    <3> QED
      BY <1>1, <3>1, <3>2
  <2>2. CASE s.ref[w].owner # NoThread
    <3>1. Waits(s, w)
      BY <2>2 DEF Waits
    <3> QED
      BY <2>2, <3>1, RemoveWaiterSound
  <2> QED
    BY <2>1, <2>2
<1> HIDE DEF left
<1>3. unref = [left EXCEPT !.ref = refs]
  BY <1>2 DEF SameLinks
<1>4. refs \in [Threads -> Refs] /\ refs[w] = NoRef /\ \A u \in Threads \ {w} : refs[u] = s.ref[u]
  BY DEF Records, Refs
<1>5. CancelWait(s, w) = IF unref.cv[w] = NoCV THEN unref
                         ELSE [unref EXCEPT !.tree[unref.cv[w]] = TreeErase(@, w), !.cv[w] = NoCV]
  BY DEF CancelWait, left
<1> HIDE DEF refs, unref
<1>6. /\ unref \in Records(Tags, Places) /\ unref.ref = refs /\ unref.base = s.base
      /\ unref.prio = left.prio /\ unref.held = left.held /\ unref.cv = s.cv
      /\ unref.tag = s.tag /\ unref.pc = s.pc /\ unref.tree = left.tree /\ ~unref.panic
      /\ left.cv = s.cv /\ left.base = s.base /\ left.ref = s.ref
  BY <1>1, <1>2, <1>3, <1>4 DEF Records, SameLinks
<1>7. HeldAgrees(unref, {})
  <2>1. \A A \in SUBSET Threads : KeysOf(unref, A) = KeysOf(left, A)
    BY <1>6 DEF KeysOf, KeyOf
  <2>2. \A a \in Threads, b \in Mutexes :
           Waiters(unref, a, b) \ {} = Waiters(left, a, b) \ {w} /\ Waiters(unref, a, b) \ {} \in SUBSET Threads
    BY <1>4, <1>6, Ids DEF Waiters, NoRef
  <2> QED
    BY <1>2, <1>6, <2>1, <2>2 DEF HeldAgrees
<1>8. Ascends(unref)
  <2>1. \A u \in Threads : Waits(unref, u) <=> Waits(s, u) /\ u # w
    BY <1>4, <1>6 DEF Waits, NoRef
  <2>2. \A u \in Threads : Waits(s, u) => s.ref[u].owner \in Threads
    BY RefOf
  <2> QED
    BY <1>1, <1>4, <1>6, <2>1, <2>2 DEF Ascends
<1>9. Sound(unref)
  BY <1>2, <1>6, <1>7, <1>8, TreesSame DEF Sound
<1>10. SettledKept(s, unref)
  BY <1>2, <1>6, SettledSame DEF SettledKept
<1>11. CASE s.cv[w] = NoCV
  <2>1. r = unref
    BY <1>5, <1>6, <1>11
  <2>2. s.cv = [s.cv EXCEPT ![w] = NoCV]
    BY <1>11 DEF Records
  <2> QED
    BY <1>6, <1>9, <1>10, <2>1, <2>2 DEF refs
<1>12. CASE s.cv[w] # NoCV
  <2>1. PICK k \in CVs : k = s.cv[w]
    BY <1>12 DEF Records
  <2>2. LeavesTree(unref, k, w, r)
    BY <1>5, <1>6, <1>12, <2>1 DEF LeavesTree
  <2>3. /\ r \in Records(Tags, Places) /\ Sound(r) /\ SettledKept(unref, r)
        /\ r.base = unref.base /\ r.prio = unref.prio /\ r.ref = unref.ref
        /\ r.tag = unref.tag /\ r.pc = unref.pc
        /\ r.cv = [unref.cv EXCEPT ![w] = NoCV]
    BY <1>6, <1>9, <2>1, <2>2, LeaveTreeSound
  <2>4. SettledKept(s, r)
    BY <1>10, <2>3 DEF SettledKept
  <2> QED
    BY <1>6, <2>3, <2>4 DEF refs
<1> QED
  BY <1>11, <1>12

\* set_base_priority_with_process settles the thread.
LEMMA SetBasePrioritySound ==
    ASSUME NEW Tags, NEW Places, NEW s \in Records(Tags, Places), Sound(s),
           NEW t \in Threads, NEW p \in Int,
           NEW r, r = SetBasePriority(s, t, p)
    PROVE  /\ r \in Records(Tags, Places) /\ Sound(r) /\ SettledKept(s, r)
           /\ r.ref = s.ref /\ r.cv = s.cv /\ r.tag = s.tag /\ r.pc = s.pc
<1> DEFINE bases == [s.base EXCEPT ![t] = p]
           set == [s EXCEPT !.base[t] = p]
<1>1. bases \in [Threads -> Int] /\ \A u \in Threads \ {t} : bases[u] = s.base[u]
  BY DEF Records
<1>2. set = [s EXCEPT !.base = bases]
  OBVIOUS
<1>3. r = RestorePriority(set, t)
  BY DEF SetBasePriority
<1> HIDE DEF bases, set
<1>4. /\ set \in Records(Tags, Places) /\ set.base = bases
      /\ set.prio = s.prio /\ set.held = s.held /\ set.ref = s.ref /\ set.cv = s.cv
      /\ set.tag = s.tag /\ set.pc = s.pc /\ set.tree = s.tree /\ set.panic = s.panic
  BY <1>1, <1>2 DEF Records
<1>5. HeldAgrees(set, {}) /\ TreesAgree(set) /\ Ascends(set) /\ ~set.panic
  <2>1. \A o \in Threads, m \in Mutexes : Waiters(set, o, m) = Waiters(s, o, m)
    BY <1>4, WaitersSame
  <2>2. \A o \in Threads, m \in Mutexes :
           KeysOf(set, Waiters(s, o, m) \ {}) = KeysOf(s, Waiters(s, o, m) \ {})
    BY <1>4 DEF KeysOf, KeyOf, Waiters
  <2> QED
    BY <1>4, <2>1, <2>2, TreesSame, WaitersSame DEF HeldAgrees, Sound
<1>6. \A u \in Threads \ {t} : Settled(s, u) => Settled(set, u)
  BY <1>1, <1>4, SettledSame
<1>7. r \in Records(Tags, Places) /\ Restored(set, {}, t, r)
  <2>1. Clear(set, {}, t)
    BY DEF Clear
  <2> QED
    BY <1>3, <1>4, <1>5, <2>1, RestoreSettles
<1>8. Sound(r) /\ SettledKept(s, r)
  BY <1>5, <1>6, <1>7, WaitersSame DEF Restored, SameLinks, Sound, SettledKept
<1> QED
  BY <1>4, <1>7, <1>8 DEF Restored, SameLinks

-----------------------------------------------------------------------------
(* How long the tree of a condition variable is *)

\* One entry for each thread that waits in it.
LEMMA TreeLength ==
    ASSUME NEW Tags, NEW Places, NEW s \in Records(Tags, Places), TreesAgree(s),
           NEW k \in CVs
    PROVE  /\ Len(s.tree[k]) = Cardinality(Sleepers(s, k)) /\ Len(s.tree[k]) \in Nat
           /\ s.tree[k] # <<>> => /\ Head(s.tree[k]).thread \in Sleepers(s, k)
                                  /\ Len(s.tree[k]) # 0
           /\ s.tree[k] = <<>> => Len(s.tree[k]) = 0
<1> PICK q : q = s.tree[k]
  OBVIOUS
<1> PICK W : W = Sleepers(s, k)
  OBVIOUS
<1>1. /\ q \in Seq(Keys) /\ Range(q) = KeysOf(s, W) /\ InOrder(q, ByPriority)
      /\ W \subseteq Threads
  BY DEF Records, TreesAgree, Sleepers
<1>2. Len(q) \in Nat /\ DOMAIN q = 1..Len(q) /\ \A i \in 1..Len(q) : q[i] \in Keys
  BY <1>1
<1>3. Range(q) = {q[i] : i \in 1..Len(q)}
  BY <1>2 DEF Range
<1>4. \A i \in 1..Len(q) : q[i].thread \in W
  <2> TAKE i \in 1..Len(q)
  <2>1. q[i] \in KeysOf(s, W)
    BY <1>1, <1>3
  <2>2. PICK w \in W : q[i] = KeyOf(s, w)
    BY <2>1 DEF KeysOf
  <2> QED
    BY <2>2 DEF KeyOf
<1>5. \A w \in W : \E i \in 1..Len(q) : q[i].thread = w
  <2> TAKE w \in W
  <2>1. KeyOf(s, w) \in Range(q)
    BY <1>1 DEF KeysOf
  <2>2. PICK i \in 1..Len(q) : q[i] = KeyOf(s, w)
    BY <1>3, <2>1
  <2> QED
    BY <2>2 DEF KeyOf
<1>6. \A i, j \in 1..Len(q) : q[i].thread = q[j].thread => i = j
  <2>1. \A i, j \in 1..Len(q) : i < j => q[i].thread # q[j].thread
    <3> TAKE i, j \in 1..Len(q)
    <3> SUFFICES ASSUME i < j PROVE q[i].thread # q[j].thread
      OBVIOUS
    <3>1. <<q[i], q[j]>> \in ByPriority
      BY <1>1, <1>2 DEF InOrder
    <3>2. <<q[i], q[j]>>[1].thread # <<q[i], q[j]>>[2].thread
      BY <3>1 DEF ByPriority
    <3> QED
      BY <3>2
  <2> QED
    BY <1>2, <2>1
<1> DEFINE f == [i \in 1..Len(q) |-> q[i].thread]
<1>7. f \in Bijection(1..Len(q), W)
  <2>1. f \in [1..Len(q) -> W]
    BY <1>4
  <2>2. \A i, j \in 1..Len(q) : f[i] = f[j] => i = j
    BY <1>6
  <2>3. \A w \in W : \E i \in 1..Len(q) : f[i] = w
    BY <1>5
  <2> HIDE DEF f
  <2>4. IsInjective(f)
    BY <2>1, <2>2 DEF IsInjective
  <2> QED
    BY <2>1, <2>3, <2>4 DEF Bijection, Injection, Surjection
<1>8. Cardinality(W) = Len(q)
  <2>1. ExistsBijection(1..Len(q), W)
    BY <1>7 DEF ExistsBijection
  <2> QED
    BY <1>2, <2>1, FS_CountingElements
<1>9. q # <<>> => Head(q).thread \in W /\ Len(q) # 0
  <2>1. q # <<>> => Len(q) # 0 /\ Head(q) = q[1]
    BY <1>1
  <2> QED
    BY <1>2, <1>4, <2>1
<1> QED
  BY <1>1, <1>2, <1>8, <1>9
=============================================================================
