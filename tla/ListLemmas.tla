------------------------------ MODULE ListLemmas ------------------------------
(***************************************************************************)
(* Facts about the waiter lists and wait queues of the kernel: sequences   *)
(* from which one entry is removed by its position, by position(..) and    *)
(* remove(index) in the source, and to which others are appended; and the  *)
(* ordered trees of ListFilter.                                            *)
(*                                                                         *)
(* What Kept computes is proved by induction over the length of the list.  *)
(* The induction is stated for sets of numbers, by way of the least        *)
(* number of a set, which needs no operator as a parameter.                *)
(***************************************************************************)
EXTENDS Integers, ListFilter, SequenceTheorems, WellFoundedInduction, TLAPS

\* No entry is twice in the list.
NoDuplicates(s) == \A i, j \in DOMAIN s : s[i] = s[j] => i = j

\* Vec::remove(index) closes the gap and keeps the order of the others.
LEMMA RemoveAtProperties ==
    ASSUME NEW S, NEW s \in Seq(S), NEW i \in 1..Len(s)
    PROVE  /\ RemoveAt(s, i) \in Seq(S)
           /\ Len(RemoveAt(s, i)) = Len(s) - 1
           /\ \A j \in 1..(Len(s) - 1) : RemoveAt(s, i)[j] = IF j < i THEN s[j] ELSE s[j + 1]
<1> DEFINE a == SubSeq(s, 1, i - 1)
           b == SubSeq(s, i + 1, Len(s))
<1>1. Len(s) \in Nat /\ \A j \in 1..Len(s) : s[j] \in S
  BY LenProperties, ElementOfSeq
<1>2. a \in Seq(S) /\ Len(a) = i - 1 /\ \A j \in 1..(i - 1) : a[j] = s[j]
  <2>1. \A j \in 1..(i - 1) : s[j] \in S
    BY <1>1
  <2>2. /\ a \in Seq(S)
        /\ Len(a) = IF 1 <= i - 1 THEN (i - 1) - 1 + 1 ELSE 0
        /\ \A j \in 1..((i - 1) - 1 + 1) : a[j] = s[1 + j - 1]
    BY <1>1, <2>1, SubSeqProperties
  <2> QED
    BY <1>1, <2>2
<1>3. b \in Seq(S) /\ Len(b) = Len(s) - i /\ \A j \in 1..(Len(s) - i) : b[j] = s[i + j]
  <2>1. \A j \in (i + 1)..Len(s) : s[j] \in S
    BY <1>1
  <2>2. /\ b \in Seq(S)
        /\ Len(b) = IF i + 1 <= Len(s) THEN Len(s) - (i + 1) + 1 ELSE 0
        /\ \A j \in 1..(Len(s) - (i + 1) + 1) : b[j] = s[(i + 1) + j - 1]
    BY <1>1, <2>1, SubSeqProperties
  <2> QED
    BY <1>1, <2>2
<1> HIDE DEF a, b
<1>4. /\ a \o b \in Seq(S)
      /\ Len(a \o b) = Len(a) + Len(b)
      /\ \A j \in 1..(Len(a) + Len(b)) :
            (a \o b)[j] = IF j <= Len(a) THEN a[j] ELSE b[j - Len(a)]
  BY <1>2, <1>3, ConcatProperties
<1>5. RemoveAt(s, i) = a \o b
  BY DEF RemoveAt, a, b
<1>6. ASSUME NEW j \in 1..(Len(s) - 1)
      PROVE  (a \o b)[j] = IF j < i THEN s[j] ELSE s[j + 1]
  <2>1. CASE j < i
    BY <1>1, <1>2, <1>3, <1>4, <2>1
  <2>2. CASE j >= i
    <3>1. (a \o b)[j] = b[j - (i - 1)]
      BY <1>1, <1>2, <1>3, <1>4, <2>2
    <3>2. j - (i - 1) \in 1..(Len(s) - i) /\ i + (j - (i - 1)) = j + 1
      BY <1>1, <2>2
    <3> QED
      BY <1>1, <1>3, <2>2, <3>1, <3>2
  <2>3. j < i \/ j >= i
    BY <1>1
  <2> QED
    BY <2>1, <2>2, <2>3
<1> QED
  BY <1>1, <1>2, <1>3, <1>4, <1>5, <1>6

\* Removing a position of a list without duplicates removes that entry alone.
LEMMA RemoveAtMembers ==
    ASSUME NEW S, NEW s \in Seq(S), NEW i \in 1..Len(s), NoDuplicates(s)
    PROVE  /\ NoDuplicates(RemoveAt(s, i))
           /\ \A e : Contains(RemoveAt(s, i), e) <=> Contains(s, e) /\ e # s[i]
<1> DEFINE r == RemoveAt(s, i)
<1>1. r \in Seq(S) /\ Len(r) = Len(s) - 1 /\ Len(s) \in Nat /\ Len(r) \in Nat
  BY RemoveAtProperties, LenProperties
<1>2. \A j \in 1..(Len(s) - 1) : r[j] = IF j < i THEN s[j] ELSE s[j + 1]
  BY RemoveAtProperties
<1>3. DOMAIN s = 1..Len(s) /\ DOMAIN r = 1..(Len(s) - 1)
  BY <1>1, LenProperties
<1> HIDE DEF r
<1>4. NoDuplicates(r)
  <2> SUFFICES ASSUME NEW j \in 1..(Len(s) - 1), NEW k \in 1..(Len(s) - 1), r[j] = r[k]
               PROVE  j = k
    BY <1>3 DEF NoDuplicates
  <2> DEFINE p == IF j < i THEN j ELSE j + 1
             q == IF k < i THEN k ELSE k + 1
  <2>1. p \in 1..Len(s) /\ q \in 1..Len(s)
    BY <1>1
  <2>2. s[p] = r[j] /\ s[q] = r[k]
    BY <1>2
  <2>3. p = q
    BY <1>3, <2>1, <2>2 DEF NoDuplicates
  <2> QED
    BY <1>1, <2>3
<1>5. ASSUME NEW e, Contains(r, e) PROVE Contains(s, e) /\ e # s[i]
  <2>1. PICK j \in 1..(Len(s) - 1) : r[j] = e
    BY <1>1, <1>5 DEF Contains
  <2> DEFINE p == IF j < i THEN j ELSE j + 1
  <2>2. p \in 1..Len(s) /\ p # i /\ s[p] = e
    BY <1>1, <1>2, <2>1
  <2> HIDE DEF p
  <2> QED
    BY <1>3, <2>2 DEF Contains, NoDuplicates
<1>6. ASSUME NEW e, Contains(s, e), e # s[i] PROVE Contains(r, e)
  <2>1. PICK p \in 1..Len(s) : s[p] = e
    BY <1>6 DEF Contains
  <2> DEFINE j == IF p < i THEN p ELSE p - 1
  <2>2. p # i
    BY <1>6, <2>1
  <2>3. j \in 1..Len(r) /\ p = IF j < i THEN j ELSE j + 1
    BY <1>1, <2>2
  <2>4. r[j] = e
    BY <1>1, <1>2, <2>1, <2>3
  <2> QED
    BY <2>3, <2>4 DEF Contains
<1> QED
  BY <1>4, <1>5, <1>6 DEF r

\* push_back of an entry that is not in the list.
LEMMA AppendMembers ==
    ASSUME NEW S, NEW s \in Seq(S), NEW x \in S
    PROVE  /\ \A e : Contains(Append(s, x), e) <=> Contains(s, e) \/ e = x
           /\ NoDuplicates(s) /\ ~Contains(s, x) => NoDuplicates(Append(s, x))
<1> DEFINE a == Append(s, x)
<1>1. /\ Len(s) \in Nat /\ DOMAIN s = 1..Len(s)
      /\ Len(a) = Len(s) + 1 /\ DOMAIN a = 1..(Len(s) + 1)
      /\ \A i \in 1..Len(s) : a[i] = s[i]
      /\ a[Len(s) + 1] = x
  BY AppendProperties, LenProperties
<1> HIDE DEF a
<1>2. \A i \in 1..(Len(s) + 1) : i \in 1..Len(s) \/ i = Len(s) + 1
  BY <1>1
<1>3. \A e : Contains(a, e) <=> Contains(s, e) \/ e = x
  BY <1>1, <1>2 DEF Contains
<1>4. NoDuplicates(s) /\ ~Contains(s, x) => NoDuplicates(a)
  BY <1>1, <1>2 DEF Contains, NoDuplicates
<1> QED
  BY <1>3, <1>4 DEF a

\* remove(0) of a list without duplicates removes its first entry alone.
LEMMA TailMembers ==
    ASSUME NEW S, NEW s \in Seq(S), s # <<>>
    PROVE  /\ Head(s) \in S /\ Contains(s, Head(s))
           /\ NoDuplicates(s) => /\ NoDuplicates(Tail(s))
                                 /\ \A e : Contains(Tail(s), e) <=> Contains(s, e) /\ e # Head(s)
<1>1. /\ Head(s) \in S /\ Tail(s) \in Seq(S) /\ Len(Tail(s)) = Len(s) - 1
      /\ \A i \in 1..Len(Tail(s)) : Tail(s)[i] = s[i + 1]
  BY HeadTailProperties
<1>2. Len(s) \in Nat /\ Len(s) # 0 /\ DOMAIN s = 1..Len(s) /\ DOMAIN Tail(s) = 1..Len(Tail(s))
  BY <1>1, LenProperties, EmptySeq
<1>3. Head(s) = s[1] /\ 1 \in 1..Len(s)
  BY <1>2
<1>4. ASSUME NoDuplicates(s) PROVE NoDuplicates(Tail(s))
  <2> SUFFICES ASSUME NEW i \in 1..Len(Tail(s)), NEW j \in 1..Len(Tail(s)), Tail(s)[i] = Tail(s)[j]
               PROVE  i = j
    BY <1>2 DEF NoDuplicates
  <2>1. s[i + 1] = s[j + 1] /\ i + 1 \in 1..Len(s) /\ j + 1 \in 1..Len(s)
    BY <1>1, <1>2
  <2>2. i + 1 = j + 1
    BY <1>2, <1>4, <2>1 DEF NoDuplicates
  <2> QED
    BY <1>1, <1>2, <2>2
<1>5. ASSUME NoDuplicates(s), NEW e, Contains(Tail(s), e) PROVE Contains(s, e) /\ e # Head(s)
  <2>1. PICK i \in 1..Len(Tail(s)) : Tail(s)[i] = e
    BY <1>5 DEF Contains
  <2>2. i + 1 \in 1..Len(s) /\ i + 1 # 1 /\ s[i + 1] = e
    BY <1>1, <1>2, <2>1
  <2> QED
    BY <1>2, <1>3, <1>5, <2>2 DEF Contains, NoDuplicates
<1>6. ASSUME NEW e, Contains(s, e), e # Head(s) PROVE Contains(Tail(s), e)
  <2>1. PICK i \in 1..Len(s) : s[i] = e
    BY <1>6 DEF Contains
  <2>2. i # 1
    BY <1>3, <1>6, <2>1
  <2>3. i - 1 \in 1..Len(Tail(s)) /\ (i - 1) + 1 = i
    BY <1>1, <1>2, <2>2
  <2>4. Tail(s)[i - 1] = e
    BY <1>1, <2>1, <2>3
  <2> QED
    BY <2>3, <2>4 DEF Contains
<1>7. Contains(s, Head(s))
  BY <1>3 DEF Contains
<1> QED
  BY <1>1, <1>4, <1>5, <1>6, <1>7
-----------------------------------------------------------------------------
Less == {p \in Nat \X Nat : p[1] < p[2]}

\* A set of natural numbers that is not empty has a least element.
LEMMA LeastNumber ==
    ASSUME NEW T \in SUBSET Nat, NEW n \in T
    PROVE  \E m \in T : \A k \in T : m <= k
<1>1. IsWellFoundedOn(Less, Nat)
  BY NatLessThanWellFounded DEF OpToRel, Less
<1>2. PICK m \in T : \A k \in T : ~(<<k, m>> \in Less)
  BY <1>1, WFMin
<1>3. ASSUME NEW k \in T PROVE m <= k
  <2>1. k \in Nat /\ m \in Nat
    OBVIOUS
  <2>2. <<k, m>> \in Nat \X Nat /\ <<k, m>>[1] = k /\ <<k, m>>[2] = m
    BY <2>1
  <2>3. ~(k < m)
    BY <1>2, <2>2 DEF Less
  <2> QED
    BY <2>1, <2>3
<1> QED
  BY <1>3

\* Induction up to a bound.
LEMMA UpTo ==
    ASSUME NEW N \in Nat, NEW T, 0 \in T, \A n \in 0..(N - 1) : n \in T => n + 1 \in T
    PROVE  0..N \subseteq T
<1> DEFINE U == {n \in 0..N : n \notin T}
<1> SUFFICES ASSUME NEW n \in U PROVE FALSE
  OBVIOUS
<1>1. PICK m \in U : \A k \in U : m <= k
  <2>1. U \in SUBSET Nat
    OBVIOUS
  <2> HIDE DEF U
  <2> QED
    BY <2>1, LeastNumber
<1>2. m # 0 /\ m \in 0..N
  OBVIOUS
<1>3. m - 1 \in 0..(N - 1) /\ (m - 1) + 1 = m
  BY <1>2
<1>4. m - 1 \in T
  BY <1>1, <1>3
<1> QED
  BY <1>1, <1>3, <1>4
\* F applies g again and again, n times, starting with x.
IsIteration(g, x, n, F) ==
    F = [i \in 0..n |-> IF i = 0 THEN x ELSE g[F[i - 1]]]

\* A step that stays in D can be iterated.
LEMMA Iterates ==
    ASSUME NEW D, NEW g \in [D -> D], NEW x \in D, NEW N \in Nat
    PROVE  \E F \in [0..N -> D] : IsIteration(g, x, N, F)
<1> DEFINE T == {n \in 0..N : \E F \in [0..n -> D] : IsIteration(g, x, n, F)}
<1>1. 0 \in T
  <2> DEFINE F == [i \in 0..0 |-> x]
  <2>1. F \in [0..0 -> D] /\ IsIteration(g, x, 0, F)
    BY DEF IsIteration
  <2> QED
    BY <2>1
<1>2. ASSUME NEW n \in 0..(N - 1), n \in T PROVE n + 1 \in T
  <2>1. PICK G \in [0..n -> D] : IsIteration(g, x, n, G)
    BY <1>2
  <2> DEFINE F == [i \in 0..(n + 1) |-> IF i = n + 1 THEN g[G[n]] ELSE G[i]]
  <2>2. F \in [0..(n + 1) -> D] /\ F[n + 1] = g[G[n]] /\ \A i \in 0..n : F[i] = G[i]
    BY <2>1
  <2>3. F = [i \in 0..(n + 1) |-> F[i]]
    OBVIOUS
  <2> HIDE DEF F
  <2>4. ASSUME NEW i \in 0..(n + 1) PROVE F[i] = IF i = 0 THEN x ELSE g[F[i - 1]]
    <3>1. CASE i = n + 1
      <4>1. i # 0 /\ i - 1 = n /\ F[n] = G[n]
        BY <2>2, <3>1
      <4> QED
        BY <2>2, <3>1, <4>1
    <3>2. CASE i \in 0..n
      <4>1. G[i] = IF i = 0 THEN x ELSE g[G[i - 1]]
        BY <2>1, <3>2 DEF IsIteration
      <4>2. i # 0 => i - 1 \in 0..n
        BY <3>2
      <4> QED
        BY <2>2, <3>2, <4>1, <4>2
    <3> QED
      BY <3>1, <3>2
  <2>5. F = [i \in 0..(n + 1) |-> IF i = 0 THEN x ELSE g[F[i - 1]]]
    BY <2>3, <2>4
  <2>6. IsIteration(g, x, n + 1, F)
    BY <2>5 DEF IsIteration
  <2> QED
    BY <2>2, <2>6
<1> HIDE DEF T
<1>3. N \in T
  <2>1. \A n \in 0..(N - 1) : n \in T => n + 1 \in T
    BY <1>2
  <2>2. 0..N \subseteq T
    BY <1>1, <2>1, UpTo
  <2> QED
    BY <2>2
<1> QED
  BY <1>3 DEF T

\* F is the function that Kept defines by recursion, up to n.
IsFilter(q, S, n, F) ==
    F = [i \in 0..n |->
           IF i = 0 THEN <<>>
           ELSE IF q[i] \in S THEN Append(F[i - 1], q[i]) ELSE F[i - 1]]

\* The recursion of Kept has a solution.
LEMMA KeptUnfolds ==
    ASSUME NEW q, NEW S, Len(q) \in Nat
    PROVE  \E F : IsFilter(q, S, Len(q), F) /\ Kept(q, S) = F[Len(q)]
<1> DEFINE T == {n \in 0..Len(q) : \E F : IsFilter(q, S, n, F)}
<1>1. 0 \in T
  <2> DEFINE F == [i \in 0..0 |-> <<>>]
  <2>1. IsFilter(q, S, 0, F)
    BY DEF IsFilter
  <2> QED
    BY <2>1
<1>2. ASSUME NEW n \in 0..(Len(q) - 1), n \in T PROVE n + 1 \in T
  <2>1. PICK G : IsFilter(q, S, n, G)
    BY <1>2
  <2> DEFINE last == IF q[n + 1] \in S THEN Append(G[n], q[n + 1]) ELSE G[n]
             F == [i \in 0..(n + 1) |-> IF i = n + 1 THEN last ELSE G[i]]
  <2>2. \A i \in 0..n : F[i] = G[i]
    OBVIOUS
  <2>3. F[n + 1] = last
    OBVIOUS
  <2>4. F = [i \in 0..(n + 1) |-> F[i]]
    OBVIOUS
  <2>5. F[n] = G[n]
    BY <2>2
  <2> HIDE DEF F
  <2>6. ASSUME NEW i \in 0..(n + 1)
        PROVE  F[i] = IF i = 0 THEN <<>>
                      ELSE IF q[i] \in S THEN Append(F[i - 1], q[i]) ELSE F[i - 1]
    <3>1. CASE i = n + 1
      <4>1. i # 0 /\ i - 1 = n
        BY <3>1
      <4> QED
        BY <2>3, <2>5, <3>1, <4>1
    <3>2. CASE i \in 0..n
      <4>1. G[i] = IF i = 0 THEN <<>>
                   ELSE IF q[i] \in S THEN Append(G[i - 1], q[i]) ELSE G[i - 1]
        BY <2>1, <3>2 DEF IsFilter
      <4>2. CASE i = 0
        BY <2>2, <3>2, <4>1, <4>2
      <4>3. CASE i # 0
        <5>1. F[i - 1] = G[i - 1]
          BY <2>2, <3>2, <4>3
        <5> QED
          BY <2>2, <3>2, <4>1, <4>3, <5>1
      <4> QED
        BY <4>2, <4>3
    <3> QED
      BY <3>1, <3>2
  <2>7. F = [i \in 0..(n + 1) |->
               IF i = 0 THEN <<>>
               ELSE IF q[i] \in S THEN Append(F[i - 1], q[i]) ELSE F[i - 1]]
    BY <2>4, <2>6
  <2>8. IsFilter(q, S, n + 1, F)
    BY <2>7 DEF IsFilter
  <2> QED
    BY <2>8
<1> HIDE DEF T
<1>3. Len(q) \in T
  <2>1. \A n \in 0..(Len(q) - 1) : n \in T => n + 1 \in T
    BY <1>2
  <2>2. 0..Len(q) \subseteq T
    BY <1>1, <2>1, UpTo
  <2> QED
    BY <2>2
<1> DEFINE F == CHOOSE F : IsFilter(q, S, Len(q), F)
<1>4. IsFilter(q, S, Len(q), F)
  BY <1>3 DEF T
<1>5. Kept(q, S) = F[Len(q)]
  BY DEF Kept, IsFilter
<1> QED
  BY <1>4, <1>5

\* r selects the entries of q up to n that are in S, all of them, in their order:
\* f tells where each of them is in q.
Selects(f, r, q, S, n) ==
    /\ f \in [1..Len(r) -> 1..n]
    /\ \A i, j \in 1..Len(r) : i < j => f[i] < f[j]
    /\ \A i \in 1..Len(r) : r[i] = q[f[i]] /\ q[f[i]] \in S
    /\ \A k \in 1..n : q[k] \in S => \E i \in 1..Len(r) : f[i] = k

\* One more entry of q.
LEMMA SelectsOneMore ==
    ASSUME NEW A, NEW q, NEW S, NEW r \in Seq(A), NEW n \in Nat, NEW f,
           Selects(f, r, q, S, n), q[n + 1] \in A
    PROVE  LET s == IF q[n + 1] \in S THEN Append(r, q[n + 1]) ELSE r
           IN s \in Seq(A) /\ \E g : Selects(g, s, q, S, n + 1)
<1>1. Len(r) \in Nat
  BY LenProperties
<1>2. \A k \in 1..(n + 1) : k \in 1..n \/ k = n + 1
  OBVIOUS
<1>3. CASE q[n + 1] \notin S
  <2>1. f \in [1..Len(r) -> 1..(n + 1)]
    BY DEF Selects
  <2>2. Selects(f, r, q, S, n + 1)
    BY <1>2, <1>3, <2>1 DEF Selects
  <2> QED
    BY <1>3, <2>2
<1>4. CASE q[n + 1] \in S
  <2> DEFINE s == Append(r, q[n + 1])
             g == [i \in 1..(Len(r) + 1) |-> IF i = Len(r) + 1 THEN n + 1 ELSE f[i]]
  <2>1. /\ s \in Seq(A)
        /\ Len(s) = Len(r) + 1
        /\ \A i \in 1..Len(r) : s[i] = r[i]
        /\ s[Len(r) + 1] = q[n + 1]
    BY AppendProperties
  <2>2. \A i \in 1..(Len(r) + 1) : i \in 1..Len(r) \/ i = Len(r) + 1
    BY <1>1
  <2>3. \A i \in 1..Len(r) : f[i] \in 1..n /\ g[i] = f[i]
    BY <1>1 DEF Selects
  <2>4. g[Len(r) + 1] = n + 1
    BY <1>1
  <2>5. g \in [1..Len(s) -> 1..(n + 1)]
    <3>1. ASSUME NEW i \in 1..(Len(r) + 1)
          PROVE  (IF i = Len(r) + 1 THEN n + 1 ELSE f[i]) \in 1..(n + 1)
      <4> HIDE DEF g, s
      <4>1. i \in 1..Len(r) => f[i] \in 1..(n + 1)
        BY <2>3
      <4> QED
        BY <2>2, <4>1
    <3>2. g \in [1..(Len(r) + 1) -> 1..(n + 1)]
      <4> HIDE DEF s
      <4> QED
        BY <3>1
    <3> HIDE DEF g, s
    <3> QED
      BY <2>1, <3>2
  <2> HIDE DEF g, s
  <2>6. \A i, j \in 1..Len(s) : i < j => g[i] < g[j]
    <3> SUFFICES ASSUME NEW i \in 1..(Len(r) + 1), NEW j \in 1..(Len(r) + 1), i < j
                 PROVE  g[i] < g[j]
      BY <2>1
    <3>1. i \in 1..Len(r)
      BY <1>1
    <3>2. CASE j \in 1..Len(r)
      BY <2>3, <3>1, <3>2 DEF Selects
    <3>3. CASE j = Len(r) + 1
      BY <1>1, <2>3, <2>4, <3>1, <3>3
    <3> QED
      BY <2>2, <3>2, <3>3
  <2>7. ASSUME NEW i \in 1..Len(s) PROVE s[i] = q[g[i]] /\ q[g[i]] \in S
    <3>1. CASE i \in 1..Len(r)
      BY <2>1, <2>3, <3>1 DEF Selects
    <3>2. CASE i = Len(r) + 1
      BY <1>4, <2>1, <2>4, <3>2
    <3> QED
      BY <2>1, <2>2, <3>1, <3>2
  <2>8. ASSUME NEW k \in 1..(n + 1), q[k] \in S PROVE \E i \in 1..Len(s) : g[i] = k
    <3>1. CASE k \in 1..n
      <4>1. PICK i \in 1..Len(r) : f[i] = k
        BY <2>8, <3>1 DEF Selects
      <4>2. i \in 1..(Len(r) + 1) /\ g[i] = k
        BY <1>1, <2>3, <4>1
      <4> QED
        BY <2>1, <4>2
    <3>2. CASE k = n + 1
      BY <1>1, <2>1, <2>4, <3>2
    <3> QED
      BY <1>2, <3>1, <3>2
  <2>9. Selects(g, s, q, S, n + 1)
    BY <2>5, <2>6, <2>7, <2>8 DEF Selects
  <2> QED
    BY <1>4, <2>1, <2>9 DEF s
<1> QED
  BY <1>3, <1>4

\* Kept selects from the whole list.
LEMMA KeptSelects ==
    ASSUME NEW A, NEW q \in Seq(A), NEW S
    PROVE  Kept(q, S) \in Seq(A) /\ \E f : Selects(f, Kept(q, S), q, S, Len(q))
<1>1. Len(q) \in Nat /\ \A k \in 1..Len(q) : q[k] \in A
  BY LenProperties, ElementOfSeq
<1>2. PICK F : IsFilter(q, S, Len(q), F) /\ Kept(q, S) = F[Len(q)]
  BY <1>1, KeptUnfolds
<1>3. \A i \in 0..Len(q) :
        F[i] = IF i = 0 THEN <<>>
               ELSE IF q[i] \in S THEN Append(F[i - 1], q[i]) ELSE F[i - 1]
  BY <1>2 DEF IsFilter
<1> DEFINE T == {n \in 0..Len(q) : F[n] \in Seq(A) /\ \E f : Selects(f, F[n], q, S, n)}
<1>4. 0 \in T
  <2>1. <<>> \in Seq(A) /\ Len(<<>>) = 0
    BY EmptySeq
  <2>2. Selects([i \in 1..0 |-> i], <<>>, q, S, 0)
    <3> DEFINE f == [i \in 1..0 |-> i]
    <3>1. f \in [1..0 -> 1..0]
      OBVIOUS
    <3>2. \A i \in 1..0 : FALSE
      OBVIOUS
    <3> HIDE DEF f
    <3>3. Selects(f, <<>>, q, S, 0)
      BY <2>1, <3>1, <3>2 DEF Selects
    <3> QED
      BY <3>3 DEF f
  <2>3. F[0] = <<>>
    BY <1>1, <1>3
  <2>4. F[0] \in Seq(A) /\ \E f : Selects(f, F[0], q, S, 0)
    BY <2>1, <2>2, <2>3
  <2>5. 0 \in 0..Len(q)
    BY <1>1
  <2> QED
    BY <2>4, <2>5
<1>5. ASSUME NEW n \in 0..(Len(q) - 1), n \in T PROVE n + 1 \in T
  <2>1. n \in Nat /\ n + 1 \in 1..Len(q) /\ n + 1 \in 0..Len(q) /\ (n + 1) - 1 = n /\ n + 1 # 0
    BY <1>1
  <2>2. PICK f : Selects(f, F[n], q, S, n)
    BY <1>5
  <2>3. F[n + 1] = IF q[n + 1] \in S THEN Append(F[n], q[n + 1]) ELSE F[n]
    BY <1>3, <2>1
  <2>4. F[n] \in Seq(A) /\ q[n + 1] \in A
    BY <1>1, <1>5, <2>1
  <2>5. F[n + 1] \in Seq(A) /\ \E g : Selects(g, F[n + 1], q, S, n + 1)
    BY <2>1, <2>2, <2>3, <2>4, SelectsOneMore
  <2> QED
    BY <2>1, <2>5
<1> HIDE DEF T
<1>6. Len(q) \in T
  <2>1. \A n \in 0..(Len(q) - 1) : n \in T => n + 1 \in T
    BY <1>5
  <2>2. 0..Len(q) \subseteq T
    BY <1>1, <1>4, <2>1, UpTo
  <2> QED
    BY <1>1, <2>2
<1> QED
  BY <1>2, <1>6 DEF T

\* Every entry is related by R to the entries after it.
InOrder(q, R) == \A i, j \in DOMAIN q : i < j => <<q[i], q[j]>> \in R

\* What is kept of a list: the entries of S, in an order the list had, with the
\* first entry of the list at the front if it is one of them.
LEMMA KeptProperties ==
    ASSUME NEW A, NEW q \in Seq(A), NEW S
    PROVE  /\ Kept(q, S) \in Seq(A)
           /\ Range(Kept(q, S)) = Range(q) \cap S
           /\ \A R : InOrder(q, R) => InOrder(Kept(q, S), R)
           /\ q # <<>> /\ Head(q) \in S => Kept(q, S) # <<>> /\ Head(Kept(q, S)) = Head(q)
<1> DEFINE r == Kept(q, S)
<1>1. r \in Seq(A) /\ \E f : Selects(f, r, q, S, Len(q))
  BY KeptSelects
<1>2. PICK f : Selects(f, r, q, S, Len(q))
  BY <1>1
<1>3. /\ Len(q) \in Nat /\ DOMAIN q = 1..Len(q)
      /\ Len(r) \in Nat /\ DOMAIN r = 1..Len(r)
  BY <1>1, LenProperties
<1> HIDE DEF r
<1>4. /\ \A i \in 1..Len(r) : f[i] \in 1..Len(q) /\ r[i] = q[f[i]] /\ q[f[i]] \in S
      /\ \A i, j \in 1..Len(r) : i < j => f[i] < f[j]
      /\ \A k \in 1..Len(q) : q[k] \in S => \E i \in 1..Len(r) : f[i] = k
  BY <1>2 DEF Selects
<1>5. Range(r) = Range(q) \cap S
  <2>1. ASSUME NEW i \in 1..Len(r) PROVE r[i] \in Range(q) \cap S
    BY <1>3, <1>4 DEF Range
  <2>2. ASSUME NEW k \in 1..Len(q), q[k] \in S PROVE q[k] \in Range(r)
    <3>1. PICK i \in 1..Len(r) : f[i] = k
      BY <1>4, <2>2
    <3>2. r[i] = q[k]
      BY <1>4, <3>1
    <3> QED
      BY <1>3, <3>2 DEF Range
  <2> QED
    BY <1>3, <2>1, <2>2 DEF Range
<1>6. ASSUME NEW R, InOrder(q, R) PROVE InOrder(r, R)
  <2> SUFFICES ASSUME NEW i \in 1..Len(r), NEW j \in 1..Len(r), i < j
               PROVE  <<r[i], r[j]>> \in R
    BY <1>3 DEF InOrder
  <2>1. f[i] \in 1..Len(q) /\ f[j] \in 1..Len(q) /\ f[i] < f[j]
    BY <1>4
  <2>2. <<q[f[i]], q[f[j]]>> \in R
    BY <1>3, <1>6, <2>1 DEF InOrder
  <2> QED
    BY <1>4, <2>2
<1>7. ASSUME q # <<>>, Head(q) \in S PROVE r # <<>> /\ Head(r) = Head(q)
  <2>1. Len(q) # 0 /\ Head(q) = q[1]
    BY <1>3, <1>7, EmptySeq
  <2>2. PICK i \in 1..Len(r) : f[i] = 1
    BY <1>3, <1>4, <1>7, <2>1
  <2>3. 1 \in 1..Len(r)
    BY <1>3
  <2>4. f[1] \in 1..Len(q) /\ (i # 1 => f[1] < f[i])
    BY <1>3, <1>4, <2>3
  <2>5. i = 1
    BY <1>3, <2>2, <2>4
  <2>6. r[1] = q[1]
    BY <1>4, <2>2, <2>5
  <2>7. r # <<>> /\ Head(r) = r[1]
    BY <1>1, <2>3, EmptySeq DEF r
  <2> QED
    BY <2>1, <2>6, <2>7
<1> QED
  BY <1>1, <1>5, <1>6, <1>7 DEF r

\* Where an entry goes that is put into a list: after those of S, which must be
\* before the others in the order the list is kept in.
LEMMA PutAfterProperties ==
    ASSUME NEW A, NEW q \in Seq(A), NEW S, NEW x \in A
    PROVE  /\ PutAfter(q, S, x) \in Seq(A)
           /\ Range(PutAfter(q, S, x)) = Range(q) \cup {x}
           /\ \A R : /\ InOrder(q, R)
                     /\ \A v \in Range(q) \cap S : <<v, x>> \in R
                     /\ \A w \in Range(q) \ S : <<x, w>> \in R
                     /\ \A v \in Range(q) \cap S, w \in Range(q) \ S : <<v, w>> \in R
                     => InOrder(PutAfter(q, S, x), R)
           /\ PutAfter(q, S, x) # <<>>
           /\ q # <<>> /\ Head(q) \in S => Head(PutAfter(q, S, x)) = Head(q)
           /\ Range(q) \cap S = {} => Head(PutAfter(q, S, x)) = x
<1> DEFINE a == Kept(q, S)
           b == Kept(q, Range(q) \ S)
           ax == a \o <<x>>
           r == ax \o b
<1>1. /\ a \in Seq(A) /\ Range(a) = Range(q) \cap S
      /\ \A R : InOrder(q, R) => InOrder(a, R)
      /\ q # <<>> /\ Head(q) \in S => a # <<>> /\ Head(a) = Head(q)
  BY KeptProperties
<1>2. /\ b \in Seq(A) /\ Range(b) = Range(q) \ S
      /\ \A R : InOrder(q, R) => InOrder(b, R)
  BY KeptProperties
<1> HIDE DEF a, b
<1>3. <<x>> \in Seq(A) /\ Len(<<x>>) = 1 /\ <<x>>[1] = x
  OBVIOUS
<1>4. /\ ax \in Seq(A) /\ Len(ax) = Len(a) + 1
      /\ \A i \in 1..Len(a) + 1 : ax[i] = IF i <= Len(a) THEN a[i] ELSE <<x>>[i - Len(a)]
  BY <1>1, <1>3, ConcatProperties
<1>5. /\ r \in Seq(A) /\ Len(r) = Len(ax) + Len(b)
      /\ \A i \in 1..Len(ax) + Len(b) : r[i] = IF i <= Len(ax) THEN ax[i] ELSE b[i - Len(ax)]
  BY <1>2, <1>4, ConcatProperties
<1>6. /\ Len(a) \in Nat /\ DOMAIN a = 1..Len(a)
      /\ Len(b) \in Nat /\ DOMAIN b = 1..Len(b)
      /\ DOMAIN r = 1..Len(r)
  BY <1>1, <1>2, <1>5, LenProperties
<1> HIDE DEF ax, r
<1>7. /\ Len(r) = Len(a) + 1 + Len(b)
      /\ \A i \in 1..Len(a) : r[i] = a[i]
      /\ r[Len(a) + 1] = x
      /\ \A i \in 1..Len(b) : r[Len(a) + 1 + i] = b[i]
  <2>1. ASSUME NEW i \in 1..Len(a) PROVE r[i] = a[i]
    BY <1>4, <1>5, <1>6
  <2>2. r[Len(a) + 1] = x
    <3>1. ax[Len(a) + 1] = <<x>>[(Len(a) + 1) - Len(a)]
      BY <1>4, <1>6
    <3>2. (Len(a) + 1) - Len(a) = 1
      BY <1>6
    <3> QED
      BY <1>3, <1>4, <1>5, <1>6, <3>1, <3>2
  <2>3. ASSUME NEW i \in 1..Len(b) PROVE r[Len(a) + 1 + i] = b[i]
    <3> DEFINE k == Len(a) + 1 + i
    <3>1. k \in 1..(Len(ax) + Len(b)) /\ ~(k <= Len(ax)) /\ k - Len(ax) = i
      BY <1>4, <1>6
    <3>2. r[k] = IF k <= Len(ax) THEN ax[k] ELSE b[k - Len(ax)]
      BY <1>5, <3>1
    <3> QED
      BY <3>1, <3>2
  <2> QED
    BY <1>4, <1>5, <1>6, <2>1, <2>2, <2>3
<1>8. \A i \in 1..Len(r) :
        \/ i \in 1..Len(a) /\ r[i] = a[i]
        \/ i = Len(a) + 1 /\ r[i] = x
        \/ i - (Len(a) + 1) \in 1..Len(b) /\ r[i] = b[i - (Len(a) + 1)]
  <2> SUFFICES ASSUME NEW i \in 1..Len(r), i > Len(a) + 1
               PROVE  i - (Len(a) + 1) \in 1..Len(b) /\ r[i] = b[i - (Len(a) + 1)]
    BY <1>6, <1>7
  <2>1. i - (Len(a) + 1) \in 1..Len(b) /\ Len(a) + 1 + (i - (Len(a) + 1)) = i
    BY <1>6, <1>7
  <2> QED
    BY <1>7, <2>1
<1>9. Range(r) = Range(q) \cup {x}
  <2>1. ASSUME NEW i \in 1..Len(r) PROVE r[i] \in Range(q) \cup {x}
    <3>1. CASE i \in 1..Len(a) /\ r[i] = a[i]
      BY <1>1, <1>6, <3>1 DEF Range
    <3>2. CASE i - (Len(a) + 1) \in 1..Len(b) /\ r[i] = b[i - (Len(a) + 1)]
      BY <1>2, <1>6, <3>2 DEF Range
    <3> QED
      BY <1>8, <3>1, <3>2
  <2>2. ASSUME NEW v \in Range(q) PROVE v \in Range(r)
    <3>1. CASE v \in S
      <4>1. PICK i \in 1..Len(a) : a[i] = v
        BY <1>1, <1>6, <3>1 DEF Range
      <4> QED
        BY <1>6, <1>7, <4>1 DEF Range
    <3>2. CASE v \notin S
      <4>1. PICK i \in 1..Len(b) : b[i] = v
        BY <1>2, <1>6, <3>2 DEF Range
      <4>2. Len(a) + 1 + i \in 1..Len(r)
        BY <1>6, <1>7
      <4> QED
        BY <1>6, <1>7, <4>1, <4>2 DEF Range
    <3> QED
      BY <3>1, <3>2
  <2>3. x \in Range(r)
    BY <1>6, <1>7 DEF Range
  <2> QED
    BY <1>6, <2>1, <2>2, <2>3 DEF Range
<1>10. ASSUME NEW R, InOrder(q, R),
              \A v \in Range(q) \cap S : <<v, x>> \in R,
              \A w \in Range(q) \ S : <<x, w>> \in R,
              \A v \in Range(q) \cap S, w \in Range(q) \ S : <<v, w>> \in R
       PROVE  InOrder(r, R)
  <2> SUFFICES ASSUME NEW i \in 1..Len(r), NEW j \in 1..Len(r), i < j
               PROVE  <<r[i], r[j]>> \in R
    BY <1>6 DEF InOrder
  <2>1. InOrder(a, R) /\ InOrder(b, R)
    BY <1>1, <1>2, <1>10
  <2>2. \A k \in 1..Len(a) : a[k] \in Range(q) \cap S
    BY <1>1, <1>6 DEF Range
  <2>3. \A k \in 1..Len(b) : b[k] \in Range(q) \ S
    BY <1>2, <1>6 DEF Range
  <2>4. CASE i \in 1..Len(a) /\ r[i] = a[i]
    <3>1. CASE j \in 1..Len(a) /\ r[j] = a[j]
      BY <1>6, <2>1, <2>4, <3>1 DEF InOrder
    <3>2. CASE r[j] = x
      BY <1>10, <2>2, <2>4, <3>2
    <3>3. CASE j - (Len(a) + 1) \in 1..Len(b) /\ r[j] = b[j - (Len(a) + 1)]
      BY <1>10, <2>2, <2>3, <2>4, <3>3
    <3> QED
      BY <1>8, <3>1, <3>2, <3>3
  <2>5. CASE i = Len(a) + 1 /\ r[i] = x
    <3>1. j - (Len(a) + 1) \in 1..Len(b) /\ r[j] = b[j - (Len(a) + 1)]
      BY <1>6, <1>8, <2>5
    <3> QED
      BY <1>10, <2>3, <2>5, <3>1
  <2>6. CASE i - (Len(a) + 1) \in 1..Len(b) /\ r[i] = b[i - (Len(a) + 1)]
    <3>1. j - (Len(a) + 1) \in 1..Len(b) /\ r[j] = b[j - (Len(a) + 1)]
      <4>1. j > Len(a) + 1
        BY <1>6, <2>6
      <4> QED
        BY <1>6, <1>8, <4>1
    <3>2. i - (Len(a) + 1) < j - (Len(a) + 1)
      BY <1>6
    <3> QED
      BY <1>6, <2>1, <2>6, <3>1, <3>2 DEF InOrder
  <2> QED
    BY <1>8, <2>4, <2>5, <2>6
<1>11. r # <<>> /\ Head(r) = r[1]
  BY <1>5, <1>6, <1>7, EmptySeq
<1>12. ASSUME q # <<>>, Head(q) \in S PROVE Head(r) = Head(q)
  <2>1. a # <<>> /\ Head(a) = Head(q) /\ Head(a) = a[1]
    BY <1>1, <1>12
  <2>2. Len(a) # 0
    BY <1>1, <2>1, EmptySeq
  <2> QED
    BY <1>6, <1>7, <1>11, <2>1, <2>2
<1>13. ASSUME Range(q) \cap S = {} PROVE Head(r) = x
  <2>1. Len(a) = 0
    <3> SUFFICES ASSUME Len(a) # 0 PROVE FALSE
      OBVIOUS
    <3>1. 1 \in DOMAIN a
      BY <1>6
    <3> QED
      BY <1>1, <1>13, <3>1 DEF Range
  <2> QED
    BY <1>7, <1>11, <2>1
<1>14. r = PutAfter(q, S, x)
  BY DEF PutAfter, r, ax, a, b
<1> QED
  BY <1>5, <1>9, <1>10, <1>11, <1>12, <1>13, <1>14

-----------------------------------------------------------------------------
(* Lists as sets *)

\* The entries of a list; a list is empty if it has none.
LEMMA RangeOf ==
    ASSUME NEW A, NEW q \in Seq(A)
    PROVE  /\ Range(q) \in SUBSET A
           /\ q = <<>> <=> Range(q) = {}
           /\ \A x : x \in Range(q) <=> \E i \in 1..Len(q) : q[i] = x
<1>1. Len(q) \in Nat /\ DOMAIN q = 1..Len(q) /\ \A i \in 1..Len(q) : q[i] \in A
  BY LenProperties, ElementOfSeq
<1>2. \A x : x \in Range(q) <=> \E i \in 1..Len(q) : q[i] = x
  BY <1>1 DEF Range
<1>3. q = <<>> <=> Len(q) = 0
  BY EmptySeq
<1>4. Len(q) # 0 => 1 \in 1..Len(q)
  BY <1>1
<1>5. Len(q) = 0 => 1..Len(q) = {}
  OBVIOUS
<1>6. Range(q) = {} <=> Len(q) = 0
  BY <1>2, <1>4, <1>5
<1> QED
  BY <1>1, <1>2, <1>3, <1>6

\* The empty list.
LEMMA EmptyList == Range(<<>>) = {} /\ NoDuplicates(<<>>) /\ \A A : <<>> \in Seq(A)
<1>1. Len(<<>>) = 0 /\ DOMAIN <<>> = {} /\ \A A : <<>> \in Seq(A)
  BY EmptySeq
<1> QED
  BY <1>1 DEF Range, NoDuplicates

\* Vec::push.
LEMMA RangeAppend ==
    ASSUME NEW A, NEW q \in Seq(A), NEW x \in A
    PROVE  /\ Append(q, x) \in Seq(A) /\ Append(q, x) # <<>>
           /\ Range(Append(q, x)) = Range(q) \cup {x}
           /\ NoDuplicates(q) /\ x \notin Range(q) => NoDuplicates(Append(q, x))
<1> DEFINE a == Append(q, x)
<1>1. /\ Len(q) \in Nat /\ a \in Seq(A) /\ Len(a) = Len(q) + 1 /\ DOMAIN a = 1..(Len(q) + 1)
      /\ \A i \in 1..Len(q) : a[i] = q[i]
      /\ a[Len(q) + 1] = x /\ DOMAIN q = 1..Len(q)
  BY AppendProperties, LenProperties
<1> HIDE DEF a
<1>2. \A i \in 1..(Len(q) + 1) : i \in 1..Len(q) \/ i = Len(q) + 1
  BY <1>1
<1>3. 1..Len(q) \subseteq 1..(Len(q) + 1) /\ Len(q) + 1 \in 1..(Len(q) + 1)
  BY <1>1
<1>4. Range(a) = Range(q) \cup {x}
  BY <1>1, <1>2, <1>3 DEF Range
<1>5. NoDuplicates(q) /\ x \notin Range(q) => NoDuplicates(a)
  BY <1>1, <1>2 DEF NoDuplicates, Range
<1>6. a # <<>>
  BY <1>4, EmptyList
<1> QED
  BY <1>1, <1>4, <1>5, <1>6 DEF a

\* Vec::extend.
LEMMA RangeConcat ==
    ASSUME NEW A, NEW a \in Seq(A), NEW b \in Seq(A)
    PROVE  /\ a \o b \in Seq(A)
           /\ Range(a \o b) = Range(a) \cup Range(b)
           /\ NoDuplicates(a) /\ NoDuplicates(b) /\ Range(a) \cap Range(b) = {}
                => NoDuplicates(a \o b)
<1> DEFINE c == a \o b
           m == Len(a)
           n == Len(b)
<1>1. /\ m \in Nat /\ n \in Nat /\ DOMAIN a = 1..m /\ DOMAIN b = 1..n
      /\ c \in Seq(A) /\ Len(c) = m + n /\ DOMAIN c = 1..(m + n)
      /\ \A i \in 1..(m + n) : c[i] = IF i <= m THEN a[i] ELSE b[i - m]
  BY ConcatProperties, LenProperties
<1> HIDE DEF c, m, n
<1>2. /\ \A i \in 1..m : i \in 1..(m + n) /\ c[i] = a[i]
      /\ \A j \in 1..n : m + j \in 1..(m + n) /\ c[m + j] = b[j]
      /\ \A i \in 1..(m + n) : \/ i \in 1..m /\ c[i] = a[i]
                               \/ i - m \in 1..n /\ i = m + (i - m) /\ c[i] = b[i - m]
  BY <1>1
<1>3. Range(c) = Range(a) \cup Range(b)
  <2>1. \A i \in 1..m : a[i] \in Range(c)
    BY <1>1, <1>2 DEF Range
  <2>2. \A j \in 1..n : b[j] \in Range(c)
    BY <1>1, <1>2 DEF Range
  <2>3. \A i \in 1..(m + n) : c[i] \in Range(a) \cup Range(b)
    BY <1>1, <1>2 DEF Range
  <2> QED
    BY <1>1, <2>1, <2>2, <2>3 DEF Range
<1>4. ASSUME NoDuplicates(a), NoDuplicates(b), Range(a) \cap Range(b) = {}
      PROVE  NoDuplicates(c)
  <2> SUFFICES ASSUME NEW i \in 1..(m + n), NEW j \in 1..(m + n), c[i] = c[j] PROVE i = j
    BY <1>1 DEF NoDuplicates
  <2>1. CASE i \in 1..m /\ j \in 1..m
    BY <1>1, <1>2, <1>4, <2>1 DEF NoDuplicates
  <2>2. CASE i - m \in 1..n /\ j - m \in 1..n
    <3>1. c[i] = b[i - m] /\ c[j] = b[j - m]
      <4>1. i \notin 1..m /\ j \notin 1..m
        BY <1>1, <2>2
      <4> QED
        BY <1>2, <4>1
    <3>2. i - m = j - m
      BY <1>1, <1>4, <2>2, <3>1 DEF NoDuplicates
    <3> QED
      BY <1>1, <3>2
  <2>3. CASE (i \in 1..m) # (j \in 1..m)
    <3>1. PICK k \in 1..m, l \in 1..(m + n) : l \notin 1..m /\ c[k] = c[l]
      BY <2>3
    <3>2. c[k] = a[k] /\ l - m \in 1..n /\ c[l] = b[l - m]
      BY <1>2, <3>1
    <3>3. c[k] \in Range(a) /\ c[k] \in Range(b)
      BY <1>1, <3>1, <3>2 DEF Range
    <3> QED
      BY <1>4, <3>3
  <2> QED
    BY <1>2, <2>1, <2>2, <2>3
<1> QED
  BY <1>1, <1>3, <1>4 DEF c

\* Lists of one and of two entries.
LEMMA ShortLists ==
    ASSUME NEW A, NEW x \in A, NEW y \in A
    PROVE  /\ <<x>> \in Seq(A) /\ Range(<<x>>) = {x} /\ NoDuplicates(<<x>>)
           /\ <<x, y>> \in Seq(A) /\ Range(<<x, y>>) = {x, y}
           /\ x # y => NoDuplicates(<<x, y>>)
<1> DEFINE one == <<x>>
           two == Append(one, y)
<1>1. one \in Seq(A) /\ Range(one) = {x} /\ NoDuplicates(one)
  BY DEF Range, NoDuplicates
<1>2. <<x, y>> = two
  OBVIOUS
<1>3. two \in Seq(A) /\ Range(two) = {x, y} /\ (x # y => NoDuplicates(two))
  <2> HIDE DEF one
  <2> QED
    BY <1>1, RangeAppend
<1> QED
  BY <1>1, <1>2, <1>3

\* VecDeque::pop_front.
LEMMA RangeTail ==
    ASSUME NEW A, NEW q \in Seq(A), q # <<>>
    PROVE  /\ Head(q) \in A /\ Head(q) \in Range(q) /\ Tail(q) \in Seq(A)
           /\ Range(q) = Range(Tail(q)) \cup {Head(q)}
           /\ NoDuplicates(q) => NoDuplicates(Tail(q)) /\ Head(q) \notin Range(Tail(q))
<1> DEFINE t == Tail(q)
<1>1. /\ Len(q) \in Nat /\ Len(q) # 0 /\ DOMAIN q = 1..Len(q) /\ Head(q) = q[1] /\ Head(q) \in A
      /\ t \in Seq(A) /\ Len(t) = Len(q) - 1 /\ DOMAIN t = 1..(Len(q) - 1)
      /\ \A i \in 1..(Len(q) - 1) : t[i] = q[i + 1]
  BY HeadTailProperties, LenProperties, EmptySeq
<1> HIDE DEF t
<1>2. /\ 1 \in 1..Len(q)
      /\ \A i \in 1..(Len(q) - 1) : i + 1 \in 1..Len(q) /\ i + 1 # 1
      /\ \A i \in 1..Len(q) : i = 1 \/ (i - 1 \in 1..(Len(q) - 1) /\ (i - 1) + 1 = i)
  BY <1>1
<1>3. \A i \in 1..Len(q) : i = 1 \/ (i - 1 \in 1..(Len(q) - 1) /\ t[i - 1] = q[i])
  BY <1>1, <1>2
<1>4. Range(q) = Range(t) \cup {Head(q)} /\ Head(q) \in Range(q)
  <2>1. \A i \in 1..(Len(q) - 1) : t[i] \in Range(q)
    BY <1>1, <1>2 DEF Range
  <2>2. \A i \in 1..Len(q) : q[i] \in Range(t) \cup {Head(q)}
    BY <1>1, <1>3 DEF Range
  <2>3. Head(q) \in Range(q)
    BY <1>1, <1>2 DEF Range
  <2> QED
    BY <1>1, <2>1, <2>2, <2>3 DEF Range
<1>5. ASSUME NoDuplicates(q) PROVE NoDuplicates(t) /\ Head(q) \notin Range(t)
  <2>1. \A i, j \in 1..(Len(q) - 1) : t[i] = t[j] => i = j
    <3> SUFFICES ASSUME NEW i \in 1..(Len(q) - 1), NEW j \in 1..(Len(q) - 1), t[i] = t[j]
                 PROVE  i = j
      OBVIOUS
    <3>1. q[i + 1] = q[j + 1] /\ i + 1 \in 1..Len(q) /\ j + 1 \in 1..Len(q)
      BY <1>1, <1>2
    <3>2. i + 1 = j + 1
      BY <1>1, <1>5, <3>1 DEF NoDuplicates
    <3> QED
      BY <1>1, <3>2
  <2>2. \A i \in 1..(Len(q) - 1) : t[i] # q[1]
    BY <1>1, <1>2, <1>5 DEF NoDuplicates
  <2> QED
    BY <1>1, <2>1, <2>2 DEF NoDuplicates, Range
<1> QED
  BY <1>1, <1>4, <1>5 DEF t

\* Vec::retain leaves a list without duplicates without them.
LEMMA KeptDistinct ==
    ASSUME NEW A, NEW q \in Seq(A), NEW S, NoDuplicates(q)
    PROVE  NoDuplicates(Kept(q, S))
<1> DEFINE R == {p \in A \X A : p[1] # p[2]}
           r == Kept(q, S)
<1>1. /\ r \in Seq(A) /\ Len(r) \in Nat /\ DOMAIN r = 1..Len(r)
      /\ Len(q) \in Nat /\ DOMAIN q = 1..Len(q) /\ \A i \in 1..Len(q) : q[i] \in A
  BY KeptProperties, LenProperties, ElementOfSeq
<1>2. InOrder(q, R)
  BY <1>1 DEF InOrder, NoDuplicates
<1>3. InOrder(r, R)
  <2> HIDE DEF R
  <2> QED
    BY <1>2, KeptProperties
<1> HIDE DEF r
<1>4. \A i, j \in 1..Len(r) : i < j => r[i] # r[j]
  BY <1>1, <1>3 DEF InOrder
<1>5. \A i, j \in 1..Len(r) : i = j \/ i < j \/ j < i
  BY <1>1
<1>6. NoDuplicates(r)
  BY <1>1, <1>4, <1>5 DEF NoDuplicates
<1> QED
  BY <1>6 DEF r

\* F is the function that Fresh defines by recursion, up to n.
IsFresh(q, S, n, F) ==
    F = [i \in 0..n |->
           IF i = 0 THEN <<>>
           ELSE IF q[i] \in S \cup Range(F[i - 1]) THEN F[i - 1] ELSE Append(F[i - 1], q[i])]

\* The recursion of Fresh has a solution.
LEMMA FreshUnfolds ==
    ASSUME NEW q, NEW S, Len(q) \in Nat
    PROVE  \E F : IsFresh(q, S, Len(q), F) /\ Fresh(q, S) = F[Len(q)]
<1> DEFINE T == {n \in 0..Len(q) : \E F : IsFresh(q, S, n, F)}
<1>1. 0 \in T
  <2> DEFINE F == [i \in 0..0 |-> <<>>]
  <2>1. IsFresh(q, S, 0, F)
    BY DEF IsFresh
  <2> QED
    BY <2>1
<1>2. ASSUME NEW n \in 0..(Len(q) - 1), n \in T PROVE n + 1 \in T
  <2>1. PICK G : IsFresh(q, S, n, G)
    BY <1>2
  <2> DEFINE next(r, x) == IF x \in S \cup Range(r) THEN r ELSE Append(r, x)
             F == [i \in 0..(n + 1) |-> IF i = n + 1 THEN next(G[n], q[n + 1]) ELSE G[i]]
  <2>2. \A i \in 0..n : F[i] = G[i]
    OBVIOUS
  <2>3. F[n + 1] = next(G[n], q[n + 1])
    OBVIOUS
  <2>4. F = [i \in 0..(n + 1) |-> F[i]]
    OBVIOUS
  <2>5. F[n] = G[n]
    BY <2>2
  <2>6. \A i \in 0..n : G[i] = IF i = 0 THEN <<>> ELSE next(G[i - 1], q[i])
    BY <2>1 DEF IsFresh
  <2> HIDE DEF F, next
  <2>7. ASSUME NEW i \in 0..(n + 1)
        PROVE  F[i] = IF i = 0 THEN <<>> ELSE next(F[i - 1], q[i])
    <3>1. CASE i = n + 1
      <4>1. i # 0 /\ i - 1 = n
        BY <3>1
      <4> QED
        BY <2>3, <2>5, <3>1, <4>1
    <3>2. CASE i \in 0..n
      <4>1. CASE i = 0
        BY <2>2, <2>6, <3>2, <4>1
      <4>2. CASE i # 0
        <5>1. F[i - 1] = G[i - 1]
          BY <2>2, <3>2, <4>2
        <5> QED
          BY <2>2, <2>6, <3>2, <4>2, <5>1
      <4> QED
        BY <4>1, <4>2
    <3> QED
      BY <3>1, <3>2
  <2>8. F = [i \in 0..(n + 1) |-> IF i = 0 THEN <<>> ELSE next(F[i - 1], q[i])]
    BY <2>4, <2>7
  <2>9. IsFresh(q, S, n + 1, F)
    BY <2>8 DEF IsFresh, next
  <2> QED
    BY <2>9
<1> HIDE DEF T
<1>3. Len(q) \in T
  <2>1. \A n \in 0..(Len(q) - 1) : n \in T => n + 1 \in T
    BY <1>2
  <2>2. 0..Len(q) \subseteq T
    BY <1>1, <2>1, UpTo
  <2> QED
    BY <2>2
<1> DEFINE F == CHOOSE F : IsFresh(q, S, Len(q), F)
<1>4. IsFresh(q, S, Len(q), F)
  BY <1>3 DEF T
<1>5. Fresh(q, S) = F[Len(q)]
  BY DEF Fresh, IsFresh
<1> QED
  BY <1>4, <1>5

\* What is fresh in a list: its entries outside S, once each.
LEMMA FreshProperties ==
    ASSUME NEW A, NEW q \in Seq(A), NEW S
    PROVE  /\ Fresh(q, S) \in Seq(A)
           /\ Range(Fresh(q, S)) = Range(q) \ S
           /\ NoDuplicates(Fresh(q, S))
<1>1. Len(q) \in Nat /\ \A k \in 1..Len(q) : q[k] \in A
  BY LenProperties, ElementOfSeq
<1>2. PICK F : IsFresh(q, S, Len(q), F) /\ Fresh(q, S) = F[Len(q)]
  BY <1>1, FreshUnfolds
<1>3. /\ F[0] = <<>>
      /\ \A n \in 0..(Len(q) - 1) :
            F[n + 1] = IF q[n + 1] \in S \cup Range(F[n]) THEN F[n] ELSE Append(F[n], q[n + 1])
  <2>1. \A i \in 0..Len(q) :
            F[i] = IF i = 0 THEN <<>>
                   ELSE IF q[i] \in S \cup Range(F[i - 1]) THEN F[i - 1]
                        ELSE Append(F[i - 1], q[i])
    BY <1>2 DEF IsFresh
  <2>2. 0 \in 0..Len(q)
    BY <1>1
  <2>3. \A n \in 0..(Len(q) - 1) : n + 1 \in 0..Len(q) /\ n + 1 # 0 /\ (n + 1) - 1 = n
    BY <1>1
  <2> QED
    BY <2>1, <2>2, <2>3
<1> DEFINE Seen(n) == {x \in Range(q) : \E k \in 1..n : q[k] = x}
           T == {n \in 0..Len(q) : /\ F[n] \in Seq(A) /\ NoDuplicates(F[n])
                                   /\ Range(F[n]) = Seen(n) \ S}
<1>4. 0 \in T
  <2>1. Seen(0) = {}
    OBVIOUS
  <2>2. F[0] \in Seq(A) /\ NoDuplicates(F[0]) /\ Range(F[0]) = {}
    BY <1>3, EmptyList
  <2>3. 0 \in 0..Len(q)
    BY <1>1
  <2> HIDE DEF Seen
  <2> QED
    BY <2>1, <2>2, <2>3
<1>5. ASSUME NEW n \in 0..(Len(q) - 1), n \in T PROVE n + 1 \in T
  <2>1. n \in Nat /\ n + 1 \in 1..Len(q) /\ n + 1 \in 0..Len(q)
    BY <1>1
  <2>2. Seen(n + 1) = Seen(n) \cup {q[n + 1]}
    <3>1. \A k \in 1..(n + 1) : k \in 1..n \/ k = n + 1
      BY <2>1
    <3>2. q[n + 1] \in Range(q)
      BY <2>1, RangeOf
    <3>3. 1..n \subseteq 1..(n + 1) /\ n + 1 \in 1..(n + 1)
      BY <2>1
    <3> QED
      BY <3>1, <3>2, <3>3
  <2>3. q[n + 1] \in A
    BY <1>1, <2>1
  <2> HIDE DEF Seen
  <2>4. F[n] \in Seq(A) /\ NoDuplicates(F[n]) /\ Range(F[n]) = Seen(n) \ S
    BY <1>5
  <2>5. CASE q[n + 1] \in S \cup Range(F[n])
    BY <1>3, <2>1, <2>2, <2>4, <2>5
  <2>6. CASE q[n + 1] \notin S \cup Range(F[n])
    <3>1. F[n + 1] = Append(F[n], q[n + 1])
      BY <1>3, <2>6
    <3>2. /\ F[n + 1] \in Seq(A) /\ NoDuplicates(F[n + 1])
          /\ Range(F[n + 1]) = Range(F[n]) \cup {q[n + 1]}
      BY <2>3, <2>4, <2>6, <3>1, RangeAppend
    <3> QED
      BY <2>1, <2>2, <2>4, <2>6, <3>2
  <2> QED
    BY <2>5, <2>6
<1>6. Seen(Len(q)) = Range(q)
  BY RangeOf
<1> HIDE DEF T, Seen
<1>7. Len(q) \in T
  <2>1. \A n \in 0..(Len(q) - 1) : n \in T => n + 1 \in T
    BY <1>5
  <2>2. 0..Len(q) \subseteq T
    BY <1>1, <1>4, <2>1, UpTo
  <2> QED
    BY <1>1, <2>2
<1> QED
  BY <1>2, <1>6, <1>7 DEF T
=============================================================================
