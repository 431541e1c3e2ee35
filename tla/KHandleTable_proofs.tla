------------------------- MODULE KHandleTable_proofs -------------------------
(***************************************************************************)
(* Proofs about KHandleTable, for any number of threads, any table size    *)
(* and any width of the index and linear id fields.                        *)
(*                                                                         *)
(* The safety properties are proved together, as one inductive invariant:  *)
(* that an allocation succeeds needs the free list, that the free list     *)
(* stays sound when an entry is freed needs the reservations (an unused    *)
(* entry that looks empty may be reserved), and both need what the info    *)
(* word of a filled entry is.                                              *)
(***************************************************************************)
EXTENDS KHandleTable, FiniteSetTheorems, TLAPS

-----------------------------------------------------------------------------
(* Handles *)

\* Division with remainder has one result.
LEMMA DivisionUnique ==
    ASSUME NEW n \in Nat \ {0}, NEW p \in Int, NEW q \in Int,
           NEW r \in 0..(n - 1), NEW s \in 0..(n - 1), n * p + r = n * q + s
    PROVE  p = q /\ r = s
<1>1. n * (q - p) = r - s /\ n * (p - q) = s - r
  OBVIOUS
<1>2. p < q => n * (q - p) >= n
  OBVIOUS
<1>3. q < p => n * (p - q) >= n
  OBVIOUS
<1> QED
  BY <1>1, <1>2, <1>3

\* Quotient and remainder.
LEMMA Division ==
    ASSUME NEW n \in Nat \ {0}, NEW a \in Nat
    PROVE  a = n * (a \div n) + (a % n) /\ a % n \in 0..(n - 1) /\ a \div n \in Nat
  OBVIOUS

\* decode_handle gives back what encode_handle was given.
LEMMA DecodeEncode ==
    ASSUME NEW i \in 0..(Span - 1), NEW l \in 0..(Span - 1)
    PROVE  /\ EncodeHandle(i, l) \in Handles
           /\ IndexOf(EncodeHandle(i, l)) = i
           /\ LinearIdOf(EncodeHandle(i, l)) = l
           /\ ReservedBits(EncodeHandle(i, l)) = 0
           /\ l # 0 => EncodeHandle(i, l) # 0
<1> DEFINE h == EncodeHandle(i, l)
<1>1. Span \in Nat \ {0} /\ h = Span * l + i
  BY HTAssumption DEF EncodeHandle
<1>2. Span * l >= 0 /\ (l # 0 => Span * l >= Span) /\ Span * l <= Span * (Span - 1)
  BY <1>1
<1>3. h \in Nat /\ h < Span * Span /\ (l # 0 => h # 0)
  <2>1. Span * (Span - 1) = Span * Span - Span
    BY <1>1
  <2>2. Span * l \in Int /\ Span * Span \in Int
    BY <1>1
  <2> HIDE DEF h
  <2> QED
    BY <1>1, <1>2, <2>1, <2>2
<1>4. h \in Handles
  <2>1. Span * Span \in Nat /\ 2 * Span * Span = Span * Span + Span * Span
    BY <1>1
  <2> HIDE DEF h
  <2> QED
    BY <1>3, <2>1 DEF Handles
<1>5. h % Span = i /\ h \div Span = l
  <2> HIDE DEF h
  <2>1. h = Span * (h \div Span) + (h % Span) /\ h % Span \in 0..(Span - 1) /\ h \div Span \in Nat
    BY <1>1, <1>3, Division
  <2> DEFINE q == h \div Span
             r == h % Span
  <2>2. Span * q + r = Span * l + i /\ q \in Int /\ r \in 0..(Span - 1)
    BY <1>1, <2>1
  <2> HIDE DEF q, r
  <2>3. q = l /\ r = i
    BY <1>1, <2>2, DivisionUnique
  <2> QED
    BY <2>3 DEF q, r
<1>6. l % Span = l
  BY <1>1
<1>7. h \div (Span * Span) = 0
  <2> HIDE DEF h
  <2>1. Span * Span \in Nat \ {0}
    BY <1>1
  <2> DEFINE n == Span * Span
  <2>2. n \in Nat \ {0} /\ h \in Nat /\ h < n
    BY <1>3, <2>1
  <2> HIDE DEF n
  <2>3. h = n * (h \div n) + (h % n) /\ h % n \in 0..(n - 1) /\ h \div n \in Nat
    BY <2>2, Division
  <2>4. n * (h \div n) + (h % n) = n * 0 + h
    BY <2>2, <2>3
  <2>5. h \div n = 0
    BY <2>2, <2>3, <2>4, DivisionUnique
  <2> QED
    BY <2>5 DEF n
<1> HIDE DEF h
<1>8. /\ IndexOf(h) = i /\ LinearIdOf(h) = l /\ ReservedBits(h) = 0
  BY <1>5, <1>6, <1>7 DEF IndexOf, LinearIdOf, ReservedBits
<1> QED
  BY <1>3, <1>4, <1>8 DEF h

\* A handle with no reserved bits is the encoding of its fields.
LEMMA EncodeDecode ==
    ASSUME NEW h \in Handles
    PROVE  /\ IndexOf(h) \in 0..(Span - 1)
           /\ LinearIdOf(h) \in 0..(Span - 1)
           /\ ReservedBits(h) = 0 => h = EncodeHandle(IndexOf(h), LinearIdOf(h))
<1>1. Span \in Nat \ {0} /\ h \in Nat
  <2>1. Span \in Nat \ {0}
    BY HTAssumption
  <2>2. 2 * Span * Span \in Nat
    BY <2>1
  <2> QED
    BY <2>1, <2>2 DEF Handles
<1> DEFINE q == h \div Span
<1>2. h = Span * q + (h % Span) /\ h % Span \in 0..(Span - 1) /\ q \in Nat
  BY <1>1, Division
<1>3. q = Span * (q \div Span) + (q % Span) /\ q % Span \in 0..(Span - 1) /\ q \div Span \in Nat
  <2> HIDE DEF q
  <2> QED
    BY <1>1, <1>2, Division
<1>4. ASSUME ReservedBits(h) = 0 PROVE q % Span = q
  <2> DEFINE n == Span * Span
  <2>1. n \in Nat \ {0}
    BY <1>1
  <2>2. h \in 0..(n - 1)
    <3>1. h \div n = 0
      BY <1>4 DEF ReservedBits
    <3> HIDE DEF n
    <3>2. h = n * (h \div n) + (h % n) /\ h % n \in 0..(n - 1)
      BY <1>1, <2>1, Division
    <3> QED
      BY <1>1, <2>1, <3>1, <3>2
  <2> HIDE DEF q
  <2>3. q >= Span => Span * q >= Span * Span
    BY <1>1, <1>2
  <2>4. q < Span
    <3> SUFFICES ASSUME q >= Span PROVE FALSE
      BY <1>1, <1>2
    <3>1. Span * q \in Int /\ Span * q >= n
      BY <1>1, <1>2, <2>3
    <3> HIDE DEF n
    <3> QED
      BY <1>1, <1>2, <2>1, <2>2, <3>1
  <2> QED
    BY <1>1, <1>2, <2>4
<1>5. q * Span = Span * q
  <2> HIDE DEF q
  <2> QED
    BY <1>1, <1>2
<1> QED
  BY <1>2, <1>3, <1>4, <1>5 DEF IndexOf, LinearIdOf, EncodeHandle

-----------------------------------------------------------------------------
(* The inductive invariant *)

\* The life of the table: it has entries only while the process runs, and
\* nothing was issued before that.
Opened ==
    /\ phase # "running" => tableSize = 0
    /\ phase = "new" => recent = <<>> /\ \A t \in Threads : mine[t] = 0

\* A filled entry is in the table and its info word is a linear id.
FilledEntries ==
    phase # "terminated" =>
        \A i \in Indices : objects[i] # Null =>
            i < tableSize /\ infos[i] \in MinLinearId..MaxLinearId

\* The linear id issued d allocations ago.
IssuedBefore(d) ==
    IF nextLinearId - d >= MinLinearId THEN nextLinearId - d
    ELSE nextLinearId - d + MaxLinearId

\* The handles of the history carry the linear ids before the next one, in order.
LinearIdsInOrder ==
    /\ Len(recent) <= MaxLinearId
    /\ \A k \in 1..Len(recent) :
          LinearIdOf(recent[k]) = IssuedBefore(Len(recent) + 1 - k)

Inv ==
    /\ TypeOK
    /\ Opened
    /\ FilledEntries
    /\ ReservationsHold
    /\ FreeListSound
    /\ LinearIdsInOrder

\* What FreeListSound says of the list.
Listed(list) ==
    /\ list \in [0..(tableSize - count) -> -1..(tableSize - 1)]
    /\ IsFreeList(list)
    /\ IsInjective(list)
    /\ \A i \in 0..(tableSize - 1) :
          i \in UsedIndices <=> \A k \in DOMAIN list : list[k] # i

\* The constants as the provers need them.
LEMMA Constants ==
    /\ Span \in Nat /\ Span >= 2
    /\ MaxTableSize \in Nat /\ MaxTableSize >= 1 /\ MaxTableSize <= Span
    /\ MaxLinearId \in Nat /\ MaxLinearId = Span - 1
    /\ 0 \in Handles
    /\ Null \notin Objects
<1>1. Span \in Nat /\ Span >= 2 /\ Null \notin Objects
  BY HTAssumption
<1>2. 2 * Span * Span \in Nat /\ 2 * Span * Span >= 1
  <2>1. Span * Span >= 1 /\ Span * Span \in Nat
    BY <1>1
  <2>2. 2 * Span * Span = Span * Span + Span * Span
    BY <1>1
  <2> QED
    BY <2>1, <2>2
<1>3. 0 \in Handles
  BY <1>2 DEF Handles
<1> QED
  BY <1>1, <1>3, HTAssumption DEF MaxLinearId

\* The entries in use are entries of the table.
LEMMA UsedInTable ==
    ASSUME TypeOK, FilledEntries, ReservationsHold, phase = "running"
    PROVE  UsedIndices \subseteq 0..(tableSize - 1)
<1>1. ASSUME NEW t \in Threads, mine[t] # 0 PROVE IndexOf(mine[t]) \in 0..(tableSize - 1)
  <2>1. IndexOf(mine[t]) \in 0..(Span - 1)
    BY EncodeDecode DEF TypeOK
  <2>2. IndexOf(mine[t]) < tableSize
    BY <1>1 DEF ReservationsHold, CanRegister, WellFormed
  <2> QED
    BY <2>1, <2>2, Constants DEF TypeOK
<1>2. ASSUME NEW i \in Indices, objects[i] # Null PROVE i \in 0..(tableSize - 1)
  BY <1>2, Constants DEF FilledEntries, Indices, TypeOK
<1> QED
  BY <1>1, <1>2 DEF UsedIndices, ReservedIndices

\* The list that FreeListSound speaks of.
LEMMA FreeListIs ==
    ASSUME FreeListSound, phase = "running"
    PROVE  (\E list : Listed(list)) /\ count = Cardinality(UsedIndices)
  BY DEF FreeListSound, Listed

\* While there is room the head of the free list is an entry nobody uses, and
\* its link is an entry or the end.
LEMMA HeadIsFree ==
    ASSUME TypeOK, FreeListSound, phase = "running", count < tableSize
    PROVE  /\ freeHead \in 0..(tableSize - 1)
           /\ freeHead \notin UsedIndices
           /\ infos[freeHead] \in -1..(tableSize - 1)
<1>1. PICK list : Listed(list)
  BY FreeListIs
<1> DEFINE n == tableSize - count
<1>2. n \in Nat /\ n >= 1 /\ tableSize \in Nat
  BY Constants DEF TypeOK
<1>3. 0 \in 0..n /\ 1 \in 0..n /\ 0 \in 0..(n - 1)
  BY <1>2
<1>4. list[0] # -1 /\ list[0] = freeHead /\ infos[freeHead] = list[0 + 1]
  BY <1>1, <1>3 DEF Listed, IsFreeList
<1>5. list[0] \in -1..(tableSize - 1) /\ list[1] \in -1..(tableSize - 1) /\ 0 \in DOMAIN list
  BY <1>1, <1>3 DEF Listed
<1>6. freeHead \in 0..(tableSize - 1)
  BY <1>2, <1>4, <1>5
<1>7. freeHead \notin UsedIndices
  BY <1>1, <1>4, <1>5, <1>6 DEF Listed
<1> QED
  BY <1>4, <1>5, <1>6, <1>7

\* Taking the head of the free list leaves a sound list.
LEMMA Pop ==
    ASSUME TypeOK, TypeOK', FreeListSound, phase = "running", count < tableSize,
           freeHead' = infos[freeHead], count' = count + 1, tableSize' = tableSize,
           \A i \in 0..(tableSize - 1) : i # freeHead => infos'[i] = infos[i],
           UsedIndices \subseteq 0..(tableSize - 1),
           UsedIndices' = UsedIndices \cup {freeHead}
    PROVE  FreeListSound'
<1>1. PICK list : Listed(list)
  BY FreeListIs
<1> DEFINE n == tableSize - count
<1>2. n \in Nat /\ n >= 1 /\ tableSize \in Nat /\ tableSize' - count' = n - 1
  <2>1. tableSize \in Nat /\ count \in Nat
    BY Constants DEF TypeOK
  <2> QED
    BY <2>1
<1> HIDE DEF n
<1>3. list \in [0..n -> -1..(tableSize - 1)] /\ list[0] = freeHead /\ list[n] = -1
  BY <1>1 DEF Listed, IsFreeList, n
<1>4. \A k \in 0..(n - 1) : list[k] # -1 /\ list[k + 1] = infos[list[k]]
  BY <1>1 DEF Listed, IsFreeList, n
<1>5. \A j, k \in 0..n : list[j] = list[k] => j = k
  BY <1>1, <1>3 DEF Listed, IsInjective
<1>6. \A i \in 0..(tableSize - 1) : i \in UsedIndices <=> \A k \in 0..n : list[k] # i
  BY <1>1, <1>3 DEF Listed
<1>7. PICK rest \in [0..(n - 1) -> -1..(tableSize - 1)] :
          \A k \in 0..(n - 1) : rest[k] = list[k + 1] /\ k + 1 \in 0..n
  <2>1. \A k \in 0..(n - 1) : k + 1 \in 0..n
    BY <1>2
  <2>2. [k \in 0..(n - 1) |-> list[k + 1]] \in [0..(n - 1) -> -1..(tableSize - 1)]
    BY <1>3, <2>1
  <2> QED
    BY <2>1, <2>2
<1>8. rest[0] = freeHead' /\ rest[n - 1] = -1
  BY <1>2, <1>3, <1>4, <1>7
<1>9. \A k \in 0..(n - 2) : rest[k] # -1 /\ rest[k + 1] = infos'[rest[k]]
  <2> SUFFICES ASSUME NEW k \in 0..(n - 2)
               PROVE  rest[k] # -1 /\ rest[k + 1] = infos'[rest[k]]
    OBVIOUS
  <2>1. k \in 0..(n - 1) /\ k + 1 \in 0..(n - 1) /\ k + 1 \in 0..n /\ 0 \in 0..n /\ k + 1 # 0
    BY <1>2
  <2>2. rest[k] = list[k + 1] /\ rest[k + 1] = list[k + 1 + 1]
    BY <1>7, <2>1
  <2>3. rest[k] # -1 /\ rest[k + 1] = infos[rest[k]]
    BY <1>4, <2>1, <2>2
  <2>4. rest[k] # freeHead
    BY <1>3, <1>5, <2>1, <2>2
  <2>5. rest[k] \in -1..(tableSize - 1)
    BY <1>7, <2>1
  <2>6. rest[k] \in 0..(tableSize - 1)
    BY <1>2, <2>3, <2>5
  <2> QED
    BY <2>3, <2>4, <2>6
<1>10. IsFreeList(rest)'
  <2>1. n - 1 - 1 = n - 2
    BY <1>2
  <2> QED
    BY <1>2, <1>8, <1>9, <2>1 DEF IsFreeList
<1>11. IsInjective(rest)
  <2>1. ASSUME NEW j \in 0..(n - 1), NEW k \in 0..(n - 1), rest[j] = rest[k] PROVE j = k
    <3>1. j + 1 \in 0..n /\ k + 1 \in 0..n /\ list[j + 1] = list[k + 1]
      BY <1>7, <2>1
    <3>2. j + 1 = k + 1
      BY <1>5, <3>1
    <3> QED
      BY <1>2, <3>2
  <2> QED
    BY <1>7, <2>1 DEF IsInjective
<1>12. \A i \in 0..(tableSize - 1) :
          i \in UsedIndices' <=> \A k \in 0..(n - 1) : rest[k] # i
  <2> SUFFICES ASSUME NEW i \in 0..(tableSize - 1)
               PROVE  i \in UsedIndices' <=> \A k \in 0..(n - 1) : rest[k] # i
    OBVIOUS
  <2>1. (\A k \in 0..n : list[k] # i) <=> list[0] # i /\ \A k \in 0..(n - 1) : list[k + 1] # i
    <3>1. ASSUME NEW k \in 0..n PROVE k = 0 \/ (k - 1 \in 0..(n - 1) /\ k - 1 + 1 = k)
      BY <1>2
    <3>2. 0 \in 0..n
      BY <1>2
    <3> QED
      BY <1>7, <3>1, <3>2
  <2>2. freeHead # i => (i \in UsedIndices' <=> i \in UsedIndices)
    OBVIOUS
  <2>3. \A k \in 0..(n - 1) : list[k + 1] # list[0]
    BY <1>2, <1>5, <1>7
  <2> QED
    BY <1>3, <1>6, <1>7, <2>1, <2>2, <2>3
<1>13. count' = Cardinality(UsedIndices')
  <2>1. IsFiniteSet(UsedIndices)
    <3>1. IsFiniteSet(0..(tableSize - 1))
      BY <1>2, FS_Interval
    <3> QED
      BY <3>1, FS_Subset
  <2>2. freeHead \notin UsedIndices
    BY HeadIsFree
  <2> QED
    BY <2>1, <2>2, FreeListIs, FS_AddElement
<1> QED
  <2>1. /\ rest \in [0..(tableSize' - count') -> -1..(tableSize' - 1)]
        /\ DOMAIN rest = 0..(n - 1)
    BY <1>2, <1>7
  <2>2. \A i \in 0..(tableSize' - 1) :
           i \in UsedIndices' <=> \A k \in DOMAIN rest : rest[k] # i
    BY <1>12, <2>1
  <2> QED
    BY <1>10, <1>11, <1>13, <2>1, <2>2 DEF FreeListSound

\* Putting an entry that was in use at the head of the free list leaves a sound
\* list.
LEMMA Push ==
    ASSUME TypeOK, TypeOK', FreeListSound, phase = "running",
           NEW e \in 0..(tableSize - 1), FreeEntry(e), tableSize' = tableSize,
           UsedIndices \subseteq 0..(tableSize - 1),
           e \in UsedIndices, UsedIndices' = UsedIndices \ {e}
    PROVE  FreeListSound'
<1>1. PICK list : Listed(list)
  BY FreeListIs
<1> DEFINE n == tableSize - count
<1>2. n \in Nat /\ tableSize \in Nat /\ tableSize' - count' = n + 1 /\ freeHead' = e
  BY Constants DEF TypeOK, FreeEntry
<1> HIDE DEF n
<1>3. list \in [0..n -> -1..(tableSize - 1)] /\ list[0] = freeHead /\ list[n] = -1
  BY <1>1 DEF Listed, IsFreeList, n
<1>4. \A k \in 0..(n - 1) : list[k] # -1 /\ list[k + 1] = infos[list[k]]
  BY <1>1 DEF Listed, IsFreeList, n
<1>5. \A j, k \in 0..n : list[j] = list[k] => j = k
  BY <1>1, <1>3 DEF Listed, IsInjective
<1>6. \A i \in 0..(tableSize - 1) : i \in UsedIndices <=> \A k \in 0..n : list[k] # i
  BY <1>1, <1>3 DEF Listed
<1>7. PICK more \in [0..(n + 1) -> -1..(tableSize - 1)] :
          /\ more[0] = e
          /\ \A k \in 1..(n + 1) : more[k] = list[k - 1] /\ k - 1 \in 0..n
  <2> DEFINE f == [k \in 0..(n + 1) |-> IF k = 0 THEN e ELSE list[k - 1]]
  <2>1. \A k \in 0..(n + 1) : k = 0 \/ k - 1 \in 0..n
    BY <1>2
  <2>2. 0 \in 0..(n + 1) /\ \A k \in 1..(n + 1) : k \in 0..(n + 1) /\ k # 0 /\ k - 1 \in 0..n
    BY <1>2
  <2>3. e \in -1..(tableSize - 1)
    BY <1>2
  <2>4. f \in [0..(n + 1) -> -1..(tableSize - 1)]
    BY <1>3, <2>1, <2>3
  <2>5. f[0] = e /\ \A k \in 1..(n + 1) : f[k] = list[k - 1]
    BY <2>2
  <2> QED
    BY <2>2, <2>4, <2>5
<1>8. \A k \in 0..n : list[k] # e
  BY <1>6
<1>9. infos'[e] = freeHead /\ \A i \in 0..(tableSize - 1) : i # e => infos'[i] = infos[i]
  BY Constants DEF FreeEntry, TypeOK, Indices
<1>10. \A k \in 0..n : more[k] # -1 /\ more[k + 1] = infos'[more[k]]
  <2> SUFFICES ASSUME NEW k \in 0..n
               PROVE  more[k] # -1 /\ more[k + 1] = infos'[more[k]]
    OBVIOUS
  <2>1. CASE k = 0
    BY <1>2, <1>3, <1>7, <1>9, <2>1
  <2>2. CASE k # 0
    <3>1. k \in 1..(n + 1) /\ k + 1 \in 1..(n + 1) /\ k - 1 \in 0..(n - 1) /\ k - 1 + 1 = k
          /\ k + 1 - 1 = k /\ k - 1 \in 0..n
      BY <1>2, <2>2
    <3>2. more[k] = list[k - 1] /\ more[k + 1] = list[k]
      BY <1>7, <3>1
    <3>3. more[k] # -1 /\ more[k + 1] = infos[more[k]] /\ more[k] # e
      BY <1>4, <1>8, <3>1, <3>2
    <3>4. more[k] \in -1..(tableSize - 1)
      BY <1>3, <3>1, <3>2
    <3>5. more[k] \in 0..(tableSize - 1)
      BY <1>2, <3>3, <3>4
    <3> QED
      BY <1>9, <3>3, <3>5
  <2> QED
    BY <2>1, <2>2
<1>11. IsFreeList(more)'
  <2>1. n + 1 - 1 = n /\ n + 1 \in 1..(n + 1)
    BY <1>2
  <2>2. more[n + 1] = -1
    <3>1. more[n + 1] = list[n + 1 - 1]
      BY <1>2, <1>7, <2>1
    <3> QED
      BY <1>3, <2>1, <3>1
  <2> QED
    BY <1>2, <1>7, <1>10, <2>1, <2>2 DEF IsFreeList
<1>12. IsInjective(more)
  <2>1. \A k \in 0..(n + 1) : k = 0 \/ (k \in 1..(n + 1))
    BY <1>2
  <2>2. ASSUME NEW j \in 1..(n + 1), NEW k \in 1..(n + 1), more[j] = more[k] PROVE j = k
    <3>1. j - 1 \in 0..n /\ k - 1 \in 0..n /\ list[j - 1] = list[k - 1]
      BY <1>7, <2>2
    <3>2. j - 1 = k - 1
      BY <1>5, <3>1
    <3> QED
      BY <1>2, <3>2
  <2>3. \A k \in 1..(n + 1) : more[k] # more[0]
    BY <1>7, <1>8
  <2> QED
    BY <1>7, <2>1, <2>2, <2>3 DEF IsInjective
<1>13. \A i \in 0..(tableSize - 1) :
          i \in UsedIndices' <=> \A k \in 0..(n + 1) : more[k] # i
  <2> SUFFICES ASSUME NEW i \in 0..(tableSize - 1)
               PROVE  i \in UsedIndices' <=> \A k \in 0..(n + 1) : more[k] # i
    OBVIOUS
  <2>1. (\A k \in 0..(n + 1) : more[k] # i) <=> e # i /\ \A k \in 0..n : list[k] # i
    <3>1. ASSUME NEW k \in 0..n
          PROVE  k + 1 \in 0..(n + 1) /\ k + 1 \in 1..(n + 1) /\ k + 1 - 1 = k
      BY <1>2
    <3>2. ASSUME NEW k \in 0..(n + 1) PROVE k = 0 \/ k \in 1..(n + 1)
      BY <1>2
    <3>3. 0 \in 0..(n + 1)
      BY <1>2
    <3> QED
      BY <1>7, <3>1, <3>2, <3>3
  <2> QED
    BY <1>6, <2>1
<1>14. count' = Cardinality(UsedIndices')
  <2>1. IsFiniteSet(UsedIndices)
    <3>1. IsFiniteSet(0..(tableSize - 1))
      BY <1>2, FS_Interval
    <3> QED
      BY <3>1, FS_Subset
  <2> QED
    BY <2>1, FreeListIs, FS_RemoveElement DEF FreeEntry
<1> QED
  <2>1. /\ more \in [0..(tableSize' - count') -> -1..(tableSize' - 1)]
        /\ DOMAIN more = 0..(n + 1)
    BY <1>2, <1>7
  <2>2. \A i \in 0..(tableSize' - 1) :
           i \in UsedIndices' <=> \A k \in DOMAIN more : more[k] # i
    BY <1>13, <2>1
  <2> QED
    BY <1>11, <1>12, <1>14, <2>1, <2>2 DEF FreeListSound

-----------------------------------------------------------------------------
(* The steps *)

\* A filled entry is in use, and a reserved one, and there are no others.
LEMMA InUseIs ==
    ASSUME NEW i
    PROVE  i \in UsedIndices <=>
              \/ i \in Indices /\ objects[i] # Null
              \/ \E t \in Threads : mine[t] # 0 /\ IndexOf(mine[t]) = i
  BY DEF UsedIndices, ReservedIndices

\* The history after an allocation: the linear ids move one back, and the oldest
\* handle leaves when there are more than MAX_LINEAR_ID.
LEMMA HistoryStep ==
    ASSUME TypeOK, LinearIdsInOrder, AllocateEntry,
           NewHandle \in Handles, LinearIdOf(NewHandle) = nextLinearId
    PROVE  recent' \in Seq(Handles) /\ LinearIdsInOrder'
<1> DEFINE all == Append(recent, NewHandle)
<1>0. PICK n \in Nat : n = Len(recent)
  BY DEF TypeOK
<1>1. /\ recent \in Seq(Handles) /\ n \in Nat /\ n <= MaxLinearId
      /\ nextLinearId \in 1..MaxLinearId /\ MaxLinearId \in Nat
      /\ \A k \in 1..n : LinearIdOf(recent[k]) = IssuedBefore(n + 1 - k)
  BY <1>0, Constants DEF TypeOK, LinearIdsInOrder, MinLinearId
<1>2. nextLinearId' = IF nextLinearId + 1 > MaxLinearId THEN 1 ELSE nextLinearId + 1
  BY DEF AllocateEntry, AllocateLinearId, MinLinearId
<1>3. \A d \in 1..(MaxLinearId - 1) : IssuedBefore(d + 1)' = IssuedBefore(d)
  BY <1>1, <1>2 DEF IssuedBefore, MinLinearId
<1>4. IssuedBefore(1)' = nextLinearId
  BY <1>1, <1>2 DEF IssuedBefore, MinLinearId
<1>5. /\ all \in Seq(Handles) /\ Len(all) = n + 1
      /\ all[n + 1] = NewHandle /\ \A k \in 1..n : all[k] = recent[k]
  BY <1>0, <1>1
<1>6. \A k \in 1..(n + 1) : n + 2 - k <= MaxLinearId =>
         LinearIdOf(all[k]) = IssuedBefore(n + 2 - k)'
  <2> SUFFICES ASSUME NEW k \in 1..(n + 1), n + 2 - k <= MaxLinearId
               PROVE  LinearIdOf(all[k]) = IssuedBefore(n + 2 - k)'
    OBVIOUS
  <2>1. CASE k = n + 1
    <3>1. n + 2 - k = 1
      BY <1>1, <2>1
    <3> QED
      BY <1>4, <1>5, <2>1, <3>1
  <2>2. CASE k # n + 1
    <3>1. k \in 1..n /\ n + 1 - k \in 1..(MaxLinearId - 1) /\ n + 2 - k = (n + 1 - k) + 1
      BY <1>1, <2>2
    <3>2. LinearIdOf(all[k]) = IssuedBefore(n + 1 - k)
      BY <1>1, <1>5, <3>1
    <3> QED
      BY <1>3, <3>1, <3>2
  <2> QED
    BY <2>1, <2>2
<1>7. recent' = IF n + 1 > MaxLinearId THEN Tail(all) ELSE all
  BY <1>5 DEF AllocateEntry
<1> HIDE DEF all
<1>8. CASE n + 1 <= MaxLinearId
  <2>1. recent' = all /\ Len(recent') = n + 1
    BY <1>1, <1>5, <1>7, <1>8
  <2>2. \A k \in 1..(n + 1) : n + 2 - k <= MaxLinearId /\ n + 1 + 1 - k = n + 2 - k
    BY <1>1, <1>8
  <2> QED
    BY <1>5, <1>6, <1>8, <2>1, <2>2, Constants DEF LinearIdsInOrder, MaxLinearId
<1>9. CASE n + 1 > MaxLinearId
  <2>1. recent' = Tail(all) /\ n = MaxLinearId
    BY <1>1, <1>7, <1>9
  <2>2. all # <<>> /\ 1..(Len(all) - 1) = 1..n
    BY <1>1, <1>5
  <2>3. /\ Tail(all) \in Seq(Handles) /\ Len(Tail(all)) = n
        /\ \A k \in 1..n : Tail(all)[k] = all[k + 1]
    BY <1>1, <1>5, <2>2
  <2>4. \A k \in 1..n : LinearIdOf(Tail(all)[k]) = IssuedBefore(n + 1 - k)'
    <3> SUFFICES ASSUME NEW k \in 1..n
                 PROVE  LinearIdOf(Tail(all)[k]) = IssuedBefore(n + 1 - k)'
      OBVIOUS
    <3>1. k + 1 \in 1..(n + 1) /\ n + 2 - (k + 1) = n + 1 - k /\ n + 1 - k <= MaxLinearId
      BY <1>1, <2>1
    <3>2. LinearIdOf(all[k + 1]) = IssuedBefore(n + 2 - (k + 1))'
      BY <1>6, <3>1
    <3> QED
      BY <2>3, <3>1, <3>2
  <2> QED
    BY <1>1, <2>1, <2>3, <2>4 DEF LinearIdsInOrder, MaxLinearId
<1> QED
  BY <1>1, <1>8, <1>9

\* An allocation: the handle it makes, what it does to the types, and that it
\* needs a running process.
LEMMA Allocation ==
    ASSUME Inv, AllocateEntry, UNCHANGED <<tableSize, phase>>
    PROVE  /\ phase = "running"
           /\ freeHead \in 0..(tableSize - 1) /\ freeHead \in Indices
           /\ freeHead \notin UsedIndices
           /\ NewHandle \in Handles /\ NewHandle # 0 /\ ReservedBits(NewHandle) = 0
           /\ IndexOf(NewHandle) = freeHead
           /\ LinearIdOf(NewHandle) = nextLinearId
           /\ nextLinearId \in MinLinearId..MaxLinearId
           /\ infos' \in [Indices -> -1..MaxLinearId]
           /\ infos'[freeHead] = nextLinearId
           /\ \A i \in Indices : i # freeHead => infos'[i] = infos[i]
           /\ freeHead' \in Indices \cup {-1}
           /\ count' \in 0..tableSize' /\ maxCount' \in 0..MaxTableSize
           /\ nextLinearId' \in MinLinearId..MaxLinearId
           /\ tableSize' \in 0..MaxTableSize
           /\ recent' \in Seq(Handles)
           /\ LinearIdsInOrder'
<1> USE DEF Inv
<1>1. count < tableSize /\ phase = "running"
  BY Constants DEF AllocateEntry, Opened, TypeOK
<1>2. /\ tableSize \in 0..MaxTableSize /\ count \in 0..tableSize
      /\ maxCount \in 0..MaxTableSize /\ nextLinearId \in MinLinearId..MaxLinearId
      /\ infos \in [Indices -> -1..MaxLinearId]
  BY DEF TypeOK
<1>3. freeHead \in 0..(tableSize - 1) /\ freeHead \notin UsedIndices
      /\ infos[freeHead] \in -1..(tableSize - 1)
  BY <1>1, HeadIsFree
<1>4. freeHead \in Indices /\ infos[freeHead] \in Indices \cup {-1}
  BY <1>2, <1>3, Constants DEF Indices
<1>5. freeHead \in 0..(Span - 1) /\ nextLinearId \in 0..(Span - 1) /\ nextLinearId # 0
  BY <1>2, <1>3, Constants DEF MinLinearId
<1>6. /\ NewHandle \in Handles /\ NewHandle # 0 /\ ReservedBits(NewHandle) = 0
      /\ IndexOf(NewHandle) = freeHead /\ LinearIdOf(NewHandle) = nextLinearId
  BY <1>5, DecodeEncode DEF NewHandle
<1>7. /\ infos' \in [Indices -> -1..MaxLinearId] /\ infos'[freeHead] = nextLinearId
      /\ \A i \in Indices : i # freeHead => infos'[i] = infos[i]
  <2>1. nextLinearId \in -1..MaxLinearId
    BY <1>2 DEF MinLinearId
  <2>2. infos' = [infos EXCEPT ![freeHead] = nextLinearId]
    BY DEF AllocateEntry
  <2> QED
    BY <1>2, <1>4, <2>1, <2>2
<1>8. /\ count' \in 0..tableSize' /\ maxCount' \in 0..MaxTableSize
      /\ tableSize' \in 0..MaxTableSize /\ freeHead' \in Indices \cup {-1}
  BY <1>1, <1>2, <1>4, Constants DEF AllocateEntry
<1>9. nextLinearId' \in MinLinearId..MaxLinearId
  BY <1>2, Constants DEF AllocateEntry, AllocateLinearId, MinLinearId
<1>10. recent' \in Seq(Handles) /\ LinearIdsInOrder'
  BY <1>6, HistoryStep
<1> QED
  BY <1>1, <1>2, <1>3, <1>4, <1>6, <1>7, <1>8, <1>9, <1>10

\* add() keeps the invariant.
LEMMA AddStep ==
    ASSUME Inv, NEW o \in Objects, Add(o)
    PROVE  Inv'
<1>1. AllocateEntry /\ UNCHANGED <<tableSize, mine, phase>>
      /\ objects' = [objects EXCEPT ![freeHead] = o]
  BY DEF Add
<1> DEFINE head == freeHead
<1>2. /\ phase = "running" /\ freeHead \in 0..(tableSize - 1) /\ freeHead \in Indices
      /\ freeHead \notin UsedIndices
      /\ infos'[freeHead] = nextLinearId /\ nextLinearId \in MinLinearId..MaxLinearId
      /\ \A i \in Indices : i # freeHead => infos'[i] = infos[i]
      /\ LinearIdsInOrder'
  BY <1>1, Allocation
<1>3. TypeOK'
  <2>1. objects' \in [Indices -> Objects \cup {Null}]
    BY <1>1 DEF Inv, TypeOK
  <2>2. mine' \in [Threads -> Handles] /\ phase' \in {"new", "running", "terminated"}
    BY <1>1 DEF Inv, TypeOK
  <2> QED
    BY <1>1, <2>1, <2>2, Allocation DEF TypeOK
<1>4. /\ objects'[freeHead] = o /\ o # Null
      /\ \A i \in Indices : i # freeHead => objects'[i] = objects[i]
  BY <1>1, <1>2, Constants DEF Inv, TypeOK
<1>5. Opened'
  BY <1>1, <1>2 DEF Opened
<1>6. FilledEntries'
  <2> SUFFICES ASSUME NEW i \in Indices, objects'[i] # Null
               PROVE  i < tableSize' /\ infos'[i] \in MinLinearId..MaxLinearId
    BY DEF FilledEntries
  <2>1. CASE i = freeHead
    BY <1>1, <1>2, <2>1, Constants DEF Inv, TypeOK
  <2>2. CASE i # freeHead
    BY <1>1, <1>2, <1>4, <2>2 DEF Inv, FilledEntries
  <2> QED
    BY <2>1, <2>2
<1>7. \A t \in Threads : mine[t] # 0 =>
         IndexOf(mine[t]) # freeHead /\ IndexOf(mine[t]) \in Indices
  <2> SUFFICES ASSUME NEW t \in Threads, mine[t] # 0
               PROVE  IndexOf(mine[t]) # freeHead /\ IndexOf(mine[t]) \in Indices
    OBVIOUS
  <2>1. IndexOf(mine[t]) \in UsedIndices
    BY InUseIs
  <2>2. IndexOf(mine[t]) \in 0..(tableSize - 1)
    BY <1>2, <2>1, UsedInTable DEF Inv
  <2> QED
    BY <1>2, <2>1, <2>2, Constants DEF Inv, TypeOK, Indices
<1>8. ReservationsHold'
  BY <1>1, <1>2, <1>4, <1>7
     DEF Inv, ReservationsHold, CanRegister, WellFormed
<1>9. FreeListSound'
  <2>1. UsedIndices' = UsedIndices \cup {freeHead}
    <3>1. UsedIndices' = {i \in Indices : objects'[i] # Null} \cup ReservedIndices
      BY <1>1 DEF UsedIndices, ReservedIndices
    <3>2. {i \in Indices : objects'[i] # Null} = {i \in Indices : objects[i] # Null} \cup {freeHead}
      BY <1>2, <1>4
    <3> QED
      BY <3>1, <3>2 DEF UsedIndices
  <2>2. UsedIndices \subseteq 0..(tableSize - 1)
    BY <1>2, UsedInTable DEF Inv
  <2>3. \A i \in 0..(tableSize - 1) : i # freeHead => infos'[i] = infos[i]
    BY <1>2, Constants DEF Inv, TypeOK, Indices
  <2> QED
    BY <1>1, <1>2, <1>3, <2>1, <2>2, <2>3, Pop DEF Inv, AllocateEntry
<1> QED
  BY <1>2, <1>3, <1>5, <1>6, <1>8, <1>9 DEF Inv

\* reserve() keeps the invariant.
LEMMA ReserveStep ==
    ASSUME Inv, NEW t \in Threads, Reserve(t)
    PROVE  Inv'
<1>1. /\ AllocateEntry /\ UNCHANGED <<objects, tableSize, phase>>
      /\ mine[t] = 0 /\ mine' = [mine EXCEPT ![t] = NewHandle]
  BY DEF Reserve
<1>2. /\ phase = "running" /\ freeHead \in 0..(tableSize - 1) /\ freeHead \in Indices
      /\ freeHead \notin UsedIndices
      /\ NewHandle \in Handles /\ NewHandle # 0 /\ ReservedBits(NewHandle) = 0
      /\ IndexOf(NewHandle) = freeHead /\ LinearIdOf(NewHandle) = nextLinearId
      /\ infos'[freeHead] = nextLinearId /\ nextLinearId \in MinLinearId..MaxLinearId
      /\ \A i \in Indices : i # freeHead => infos'[i] = infos[i]
      /\ LinearIdsInOrder'
  BY <1>1, Allocation
<1>3. TypeOK'
  <2>1. mine' \in [Threads -> Handles] /\ objects' \in [Indices -> Objects \cup {Null}]
    BY <1>1, <1>2 DEF Inv, TypeOK
  <2> QED
    BY <1>1, <2>1, Allocation DEF TypeOK, Inv
<1>4. mine'[t] = NewHandle /\ \A u \in Threads : u # t => mine'[u] = mine[u]
  BY <1>1 DEF Inv, TypeOK
<1>5. objects[freeHead] = Null
  BY <1>2, InUseIs
<1>6. Opened'
  BY <1>1, <1>2 DEF Opened
<1>7. FilledEntries'
  <2> SUFFICES ASSUME NEW i \in Indices, objects[i] # Null
               PROVE  i < tableSize /\ infos'[i] \in MinLinearId..MaxLinearId
    BY <1>1 DEF FilledEntries
  <2> QED
    BY <1>2, <1>5 DEF Inv, FilledEntries
<1>8. \A u \in Threads : mine[u] # 0 =>
         IndexOf(mine[u]) # freeHead /\ IndexOf(mine[u]) \in Indices
  <2> SUFFICES ASSUME NEW u \in Threads, mine[u] # 0
               PROVE  IndexOf(mine[u]) # freeHead /\ IndexOf(mine[u]) \in Indices
    OBVIOUS
  <2>1. IndexOf(mine[u]) \in UsedIndices
    BY InUseIs
  <2>2. IndexOf(mine[u]) \in 0..(tableSize - 1)
    BY <1>2, <2>1, UsedInTable DEF Inv
  <2> QED
    BY <1>2, <2>1, <2>2, Constants DEF Inv, TypeOK, Indices
<1>9. ReservationsHold'
  <2> SUFFICES ASSUME NEW v \in Threads, NEW u \in Threads, mine'[v] # 0
               PROVE  /\ CanRegister(mine[v])'
                      /\ mine'[v] = mine'[u] => v = u
    BY DEF ReservationsHold
  <2>1. CanRegister(mine[v])'
    <3>1. CASE v = t
      <4>1. freeHead < tableSize' /\ nextLinearId # 0
        BY <1>1, <1>2, Constants DEF Inv, TypeOK, MinLinearId
      <4> QED
        BY <1>1, <1>2, <1>4, <1>5, <3>1, <4>1 DEF CanRegister, WellFormed
    <3>2. CASE v # t
      <4>1. mine'[v] = mine[v] /\ mine[v] # 0 /\ CanRegister(mine[v])
        BY <1>2, <1>4, <3>2 DEF Inv, ReservationsHold
      <4>2. infos'[IndexOf(mine[v])] = infos[IndexOf(mine[v])]
        BY <1>2, <1>8, <4>1
      <4> QED
        BY <1>1, <4>1, <4>2 DEF CanRegister, WellFormed
    <3> QED
      BY <3>1, <3>2
  <2>2. ASSUME mine'[v] = mine'[u] PROVE v = u
    BY <1>2, <1>4, <1>8, <2>2 DEF Inv, ReservationsHold
  <2> QED
    BY <2>1, <2>2
<1>10. FreeListSound'
  <2>1. UsedIndices' = UsedIndices \cup {freeHead}
    <3>1. ReservedIndices' = ReservedIndices \cup {freeHead}
      BY <1>1, <1>2, <1>4 DEF ReservedIndices
    <3>2. UsedIndices' = {i \in Indices : objects[i] # Null} \cup ReservedIndices'
      BY <1>1 DEF UsedIndices
    <3> QED
      BY <3>1, <3>2 DEF UsedIndices
  <2>2. UsedIndices \subseteq 0..(tableSize - 1)
    BY <1>2, UsedInTable DEF Inv
  <2>3. \A i \in 0..(tableSize - 1) : i # freeHead => infos'[i] = infos[i]
    BY <1>2, Constants DEF Inv, TypeOK, Indices
  <2> QED
    BY <1>1, <1>2, <1>3, <2>1, <2>2, <2>3, Pop DEF Inv, AllocateEntry
<1> QED
  BY <1>2, <1>3, <1>6, <1>7, <1>9, <1>10 DEF Inv

\* What freeing an entry of the table does to the types and to the other entries.
LEMMA Freed ==
    ASSUME Inv, NEW e \in Indices, FreeEntry(e), UNCHANGED <<tableSize, maxCount, nextLinearId>>
    PROVE  /\ infos' \in [Indices -> -1..MaxLinearId]
           /\ objects' \in [Indices -> Objects \cup {Null}]
           /\ freeHead' \in Indices \cup {-1}
           /\ count' \in 0..tableSize' /\ tableSize' \in 0..MaxTableSize
           /\ maxCount' \in 0..MaxTableSize /\ nextLinearId' \in MinLinearId..MaxLinearId
           /\ objects'[e] = Null
           /\ \A i \in Indices : i # e => infos'[i] = infos[i] /\ objects'[i] = objects[i]
<1>1. freeHead \in -1..MaxLinearId
  BY Constants DEF Inv, TypeOK, Indices
<1> QED
  BY <1>1, Constants DEF Inv, TypeOK, FreeEntry

\* remove() keeps the invariant.
LEMMA RemoveStep ==
    ASSUME Inv, NEW h \in Handles, Remove(h)
    PROVE  Inv'
<1> DEFINE e == IndexOf(h)
<1>1. /\ IsValidHandle(h) /\ FreeEntry(e)
      /\ UNCHANGED <<tableSize, maxCount, nextLinearId, mine, phase, recent>>
  BY DEF Remove
<1>2. e \in 0..(tableSize - 1) /\ e \in Indices /\ objects[e] # Null /\ phase = "running"
  <2>1. e \in 0..(Span - 1) /\ e < tableSize /\ objects[e] # Null
    BY <1>1, EncodeDecode DEF IsValidHandle, WellFormed
  <2> HIDE DEF e
  <2> QED
    BY <2>1, Constants DEF Indices, Inv, Opened, TypeOK
<1> HIDE DEF e
<1>3. /\ objects'[e] = Null
      /\ \A i \in Indices : i # e => infos'[i] = infos[i] /\ objects'[i] = objects[i]
  BY <1>1, <1>2, Freed
<1>4. TypeOK'
  BY <1>1, <1>2, Freed DEF Inv, TypeOK
<1>5. \A t \in Threads : mine[t] # 0 => IndexOf(mine[t]) # e /\ IndexOf(mine[t]) \in Indices
  <2> SUFFICES ASSUME NEW t \in Threads, mine[t] # 0
               PROVE  IndexOf(mine[t]) # e /\ IndexOf(mine[t]) \in Indices
    OBVIOUS
  <2>1. objects[IndexOf(mine[t])] = Null
    BY <1>2 DEF Inv, ReservationsHold, CanRegister
  <2>2. IndexOf(mine[t]) \in UsedIndices
    BY InUseIs
  <2>3. IndexOf(mine[t]) \in 0..(tableSize - 1)
    BY <1>2, <2>2, UsedInTable DEF Inv
  <2> QED
    BY <1>2, <2>1, <2>3, Constants DEF Inv, TypeOK, Indices
<1>6. Opened' /\ LinearIdsInOrder'
  BY <1>1 DEF Inv, Opened, LinearIdsInOrder, IssuedBefore
<1>7. FilledEntries'
  BY <1>1, <1>3 DEF Inv, FilledEntries
<1>8. ReservationsHold'
  BY <1>1, <1>3, <1>5 DEF Inv, ReservationsHold, CanRegister, WellFormed
<1>9. FreeListSound'
  <2>1. e \in UsedIndices
    BY <1>2, InUseIs
  <2>2. UsedIndices' = UsedIndices \ {e}
    <3>1. UsedIndices' = {i \in Indices : objects'[i] # Null} \cup ReservedIndices
      BY <1>1 DEF UsedIndices, ReservedIndices
    <3>2. {i \in Indices : objects'[i] # Null} = {i \in Indices : objects[i] # Null} \ {e}
      BY <1>2, <1>3
    <3>3. e \notin ReservedIndices
      BY <1>5 DEF ReservedIndices
    <3> QED
      BY <3>1, <3>2, <3>3 DEF UsedIndices
  <2>3. UsedIndices \subseteq 0..(tableSize - 1)
    BY <1>2, UsedInTable DEF Inv
  <2> QED
    BY <1>1, <1>2, <1>4, <2>1, <2>2, <2>3, Push DEF Inv
<1> QED
  BY <1>4, <1>6, <1>7, <1>8, <1>9 DEF Inv

\* unreserve() keeps the invariant.
LEMMA UnreserveStep ==
    ASSUME Inv, NEW t \in Threads, Unreserve(t)
    PROVE  Inv'
<1> DEFINE e == IndexOf(mine[t])
<1>1. /\ mine[t] # 0 /\ FreeEntry(e) /\ mine' = [mine EXCEPT ![t] = 0]
      /\ UNCHANGED <<tableSize, maxCount, nextLinearId, phase, recent>>
  BY DEF Unreserve
<1>2. phase = "running"
  BY <1>1, Constants DEF Inv, Opened, TypeOK, FreeEntry
<1>3. /\ e \in UsedIndices /\ e \in 0..(tableSize - 1) /\ e \in Indices /\ objects[e] = Null
  <2>1. e \in UsedIndices
    BY <1>1, InUseIs
  <2>2. objects[e] = Null
    BY <1>1, <1>2 DEF Inv, ReservationsHold, CanRegister
  <2>3. e \in 0..(tableSize - 1)
    BY <1>2, <2>1, UsedInTable DEF Inv
  <2> HIDE DEF e
  <2> QED
    BY <2>1, <2>2, <2>3, Constants DEF Inv, TypeOK, Indices
<1>4. \A u \in Threads : u # t /\ mine[u] # 0 =>
         IndexOf(mine[u]) # e /\ IndexOf(mine[u]) \in Indices
  <2> SUFFICES ASSUME NEW u \in Threads, u # t, mine[u] # 0
               PROVE  IndexOf(mine[u]) # e /\ IndexOf(mine[u]) \in Indices
    OBVIOUS
  <2>1. CanRegister(mine[u]) /\ CanRegister(mine[t]) /\ mine[u] # mine[t]
    BY <1>1, <1>2 DEF Inv, ReservationsHold
  <2>2. \A v \in Threads : CanRegister(mine[v]) =>
           mine[v] = EncodeHandle(IndexOf(mine[v]), infos[IndexOf(mine[v])])
    <3> SUFFICES ASSUME NEW v \in Threads, CanRegister(mine[v])
                 PROVE  mine[v] = EncodeHandle(IndexOf(mine[v]), infos[IndexOf(mine[v])])
      OBVIOUS
    <3>1. mine[v] \in Handles /\ ReservedBits(mine[v]) = 0
          /\ infos[IndexOf(mine[v])] = LinearIdOf(mine[v])
      BY DEF Inv, TypeOK, CanRegister, WellFormed
    <3> QED
      BY <3>1, EncodeDecode
  <2>3. IndexOf(mine[u]) \in UsedIndices
    BY InUseIs
  <2>4. IndexOf(mine[u]) \in 0..(tableSize - 1)
    BY <1>2, <2>3, UsedInTable DEF Inv
  <2>5. IndexOf(mine[u]) \in Indices
    BY <2>4, Constants DEF Inv, TypeOK, Indices
  <2> QED
    BY <2>1, <2>2, <2>5
<1>5. mine'[t] = 0 /\ \A u \in Threads : u # t => mine'[u] = mine[u]
  BY <1>1 DEF Inv, TypeOK
<1>6. ReservedIndices' = ReservedIndices \ {e}
  BY <1>1, <1>4, <1>5 DEF ReservedIndices
<1> HIDE DEF e
<1>7. /\ objects'[e] = Null
      /\ \A i \in Indices : i # e => infos'[i] = infos[i] /\ objects'[i] = objects[i]
  BY <1>1, <1>3, Freed
<1>8. TypeOK'
  <2>1. mine' \in [Threads -> Handles]
    BY <1>1, Constants DEF Inv, TypeOK
  <2> QED
    BY <1>1, <1>3, <2>1, Freed DEF Inv, TypeOK
<1>9. Opened' /\ LinearIdsInOrder'
  BY <1>1, <1>2 DEF Inv, Opened, LinearIdsInOrder, IssuedBefore
<1>10. FilledEntries'
  BY <1>1, <1>7 DEF Inv, FilledEntries
<1>11. ReservationsHold'
  <2> SUFFICES ASSUME NEW v \in Threads, NEW u \in Threads, mine'[v] # 0
               PROVE  /\ CanRegister(mine[v])'
                      /\ mine'[v] = mine'[u] => v = u
    BY DEF ReservationsHold
  <2>1. v # t /\ mine'[v] = mine[v]
    BY <1>5
  <2>2. CanRegister(mine[v])'
    BY <1>1, <1>2, <1>4, <1>7, <2>1 DEF Inv, ReservationsHold, CanRegister, WellFormed
  <2>3. ASSUME mine'[v] = mine'[u] PROVE v = u
    BY <1>2, <1>5, <2>1, <2>3 DEF Inv, ReservationsHold
  <2> QED
    BY <2>2, <2>3
<1>12. FreeListSound'
  <2>1. UsedIndices' = UsedIndices \ {e}
    <3>1. {i \in Indices : objects'[i] # Null} = {i \in Indices : objects[i] # Null} \ {e}
      BY <1>3, <1>7
    <3> QED
      BY <1>6, <3>1 DEF UsedIndices
  <2>2. UsedIndices \subseteq 0..(tableSize - 1)
    BY <1>2, UsedInTable DEF Inv
  <2> QED
    BY <1>1, <1>2, <1>3, <1>8, <2>1, <2>2, Push DEF Inv
<1> QED
  BY <1>8, <1>9, <1>10, <1>11, <1>12 DEF Inv

\* register() keeps the invariant.
LEMMA RegisterStep ==
    ASSUME Inv, NEW t \in Threads, NEW o \in Objects, Register(t, o)
    PROVE  Inv'
<1> DEFINE e == IndexOf(mine[t])
<1>1. /\ mine[t] # 0 /\ CanRegister(mine[t])
      /\ objects' = [objects EXCEPT ![e] = o] /\ mine' = [mine EXCEPT ![t] = 0]
      /\ UNCHANGED <<infos, freeHead, tableSize, count, maxCount, nextLinearId, phase, recent>>
  BY DEF Register
<1>2. /\ e \in 0..(tableSize - 1) /\ e \in Indices /\ phase = "running"
      /\ infos[e] \in MinLinearId..MaxLinearId /\ objects[e] = Null
  <2>1. /\ e \in 0..(Span - 1) /\ e < tableSize /\ objects[e] = Null
        /\ infos[e] = LinearIdOf(mine[t]) /\ LinearIdOf(mine[t]) # 0
        /\ LinearIdOf(mine[t]) \in 0..(Span - 1)
    BY <1>1, EncodeDecode DEF CanRegister, WellFormed, Inv, TypeOK
  <2> HIDE DEF e
  <2> QED
    BY <2>1, Constants DEF Indices, Inv, Opened, TypeOK, MinLinearId
<1>3. mine'[t] = 0 /\ \A u \in Threads : u # t => mine'[u] = mine[u]
  BY <1>1 DEF Inv, TypeOK
<1>4. \A u \in Threads : u # t /\ mine[u] # 0 => IndexOf(mine[u]) # e
  <2> SUFFICES ASSUME NEW u \in Threads, u # t, mine[u] # 0 PROVE IndexOf(mine[u]) # e
    OBVIOUS
  <2>1. CanRegister(mine[u]) /\ mine[u] # mine[t]
    BY <1>1, <1>2 DEF Inv, ReservationsHold
  <2>2. \A v \in Threads : CanRegister(mine[v]) =>
           mine[v] = EncodeHandle(IndexOf(mine[v]), infos[IndexOf(mine[v])])
    <3> SUFFICES ASSUME NEW v \in Threads, CanRegister(mine[v])
                 PROVE  mine[v] = EncodeHandle(IndexOf(mine[v]), infos[IndexOf(mine[v])])
      OBVIOUS
    <3>1. mine[v] \in Handles /\ ReservedBits(mine[v]) = 0
          /\ infos[IndexOf(mine[v])] = LinearIdOf(mine[v])
      BY DEF Inv, TypeOK, CanRegister, WellFormed
    <3> QED
      BY <3>1, EncodeDecode
  <2> QED
    BY <1>1, <2>1, <2>2
<1>5. UsedIndices' = UsedIndices
  <2>1. objects'[e] = o /\ o # Null /\ \A i \in Indices : i # e => objects'[i] = objects[i]
    BY <1>1, <1>2, Constants DEF Inv, TypeOK
  <2>2. {i \in Indices : objects'[i] # Null} = {i \in Indices : objects[i] # Null} \cup {e}
    BY <1>2, <2>1
  <2>3. ReservedIndices' = ReservedIndices \ {e} /\ e \in ReservedIndices
    BY <1>1, <1>3, <1>4 DEF ReservedIndices
  <2> QED
    BY <2>2, <2>3 DEF UsedIndices
<1> HIDE DEF e
<1>6. TypeOK'
  <2>1. mine' \in [Threads -> Handles] /\ objects' \in [Indices -> Objects \cup {Null}]
    BY <1>1, <1>2, Constants DEF Inv, TypeOK
  <2> QED
    BY <1>1, <2>1 DEF Inv, TypeOK
<1>7. Opened' /\ LinearIdsInOrder'
  BY <1>1, <1>2 DEF Inv, Opened, LinearIdsInOrder, IssuedBefore
<1>8. FilledEntries'
  <2> SUFFICES ASSUME NEW i \in Indices, objects'[i] # Null
               PROVE  i < tableSize /\ infos[i] \in MinLinearId..MaxLinearId
    BY <1>1 DEF FilledEntries
  <2>1. i # e => objects'[i] = objects[i]
    BY <1>1 DEF Inv, TypeOK
  <2>2. e < tableSize
    BY <1>2, Constants DEF Inv, TypeOK
  <2> QED
    BY <1>2, <2>1, <2>2 DEF Inv, FilledEntries
<1>9. ReservationsHold'
  <2> SUFFICES ASSUME NEW v \in Threads, NEW u \in Threads, mine'[v] # 0
               PROVE  /\ CanRegister(mine[v])'
                      /\ mine'[v] = mine'[u] => v = u
    BY DEF ReservationsHold
  <2>1. v # t /\ mine'[v] = mine[v] /\ mine[v] # 0
    BY <1>3
  <2>2. CanRegister(mine[v])'
    <3>1. CanRegister(mine[v]) /\ IndexOf(mine[v]) # e
      BY <1>2, <1>4, <2>1 DEF Inv, ReservationsHold
    <3>2. IndexOf(mine[v]) \in Indices
      BY <1>2, <2>1, InUseIs, UsedInTable, Constants DEF Inv, TypeOK, Indices
    <3>3. objects'[IndexOf(mine[v])] = objects[IndexOf(mine[v])]
      BY <1>1, <3>1, <3>2 DEF Inv, TypeOK
    <3> QED
      BY <1>1, <2>1, <3>1, <3>3 DEF CanRegister, WellFormed
  <2>3. ASSUME mine'[v] = mine'[u] PROVE v = u
    BY <1>2, <1>3, <2>1, <2>3 DEF Inv, ReservationsHold
  <2> QED
    BY <2>2, <2>3
<1>10. FreeListSound'
  <2>1. PICK list : Listed(list)
    BY <1>2, FreeListIs DEF Inv
  <2>2. /\ list \in [0..(tableSize' - count') -> -1..(tableSize' - 1)]
        /\ IsFreeList(list)' /\ IsInjective(list)
    BY <1>1, <2>1 DEF Listed, IsFreeList
  <2>3. \A i \in 0..(tableSize' - 1) :
           i \in UsedIndices' <=> \A k \in DOMAIN list : list[k] # i
    BY <1>1, <1>5, <2>1 DEF Listed
  <2>4. count' = Cardinality(UsedIndices')
    BY <1>1, <1>2, <1>5, FreeListIs DEF Inv
  <2> QED
    BY <2>2, <2>3, <2>4 DEF FreeListSound
<1> QED
  BY <1>6, <1>7, <1>8, <1>9, <1>10 DEF Inv

\* initialize(): the entries are linked from the last to the first.
LEMMA InitializeStep ==
    ASSUME Inv, NEW size \in Sizes, Initialize(size)
    PROVE  Inv'
<1>0. PICK n \in 1..MaxTableSize : n = IF size <= 0 THEN MaxTableSize ELSE size
  <2>1. size \in Int
    BY HTAssumption
  <2> QED
    BY <2>1, Constants DEF Initialize
<1>1. /\ phase = "new" /\ phase' = "running" /\ tableSize' = n /\ maxCount' = 0
      /\ nextLinearId' = MinLinearId /\ count' = 0 /\ freeHead' = n - 1
      /\ UNCHANGED <<mine, recent>>
      /\ objects' = [i \in Indices |-> IF i < n THEN Null ELSE objects[i]]
      /\ infos' = [i \in Indices |-> IF i < n THEN i - 1 ELSE infos[i]]
  BY <1>0 DEF Initialize
<1>2. /\ tableSize = 0 /\ recent = <<>> /\ \A t \in Threads : mine[t] = 0
      /\ \A i \in Indices : objects[i] = Null
  BY <1>1, Constants DEF Inv, Opened, FilledEntries, TypeOK, Indices
<1>3. TypeOK'
  <2>1. n \in Nat /\ n >= 1 /\ n <= MaxTableSize /\ MinLinearId \in MinLinearId..MaxLinearId
    BY <1>0, Constants DEF MinLinearId
  <2>2. objects' \in [Indices -> Objects \cup {Null}]
    BY <1>1, <1>2
  <2>3. infos' \in [Indices -> -1..MaxLinearId]
    <3>1. \A i \in Indices : i - 1 \in -1..MaxLinearId /\ infos[i] \in -1..MaxLinearId
      BY Constants DEF Inv, TypeOK, Indices
    <3> QED
      BY <1>1, <3>1
  <2>4. freeHead' \in Indices \cup {-1} /\ count' \in 0..tableSize' /\ maxCount' \in 0..MaxTableSize
        /\ tableSize' \in 0..MaxTableSize
    BY <1>1, <2>1, Constants DEF Indices
  <2>5. mine' \in [Threads -> Handles] /\ recent' \in Seq(Handles)
    BY <1>1 DEF Inv, TypeOK
  <2> QED
    BY <1>1, <2>1, <2>2, <2>3, <2>4, <2>5 DEF TypeOK
<1>4. Opened' /\ ReservationsHold'
  BY <1>1, <1>2 DEF Opened, ReservationsHold
<1>5. \A i \in Indices : objects'[i] = Null
  BY <1>1, <1>2
<1>6. FilledEntries'
  BY <1>5 DEF FilledEntries
<1>7. LinearIdsInOrder'
  <2>1. Len(recent) = 0
    BY <1>2
  <2> QED
    BY <1>1, <2>1, Constants DEF LinearIdsInOrder, MaxLinearId
<1>8. UsedIndices' = {}
  BY <1>1, <1>2, <1>5 DEF UsedIndices, ReservedIndices
<1>9. FreeListSound'
  <2> DEFINE list == [k \in 0..n |-> n - 1 - k]
  <2>1. n \in Nat /\ n >= 1 /\ n <= MaxTableSize
    BY <1>0, Constants
  <2>2. list \in [0..n -> -1..(n - 1)] /\ list[0] = n - 1 /\ list[n] = -1
    BY <2>1
  <2>3. \A k \in 0..(n - 1) :
           /\ list[k] = n - 1 - k /\ list[k + 1] = n - 1 - (k + 1)
           /\ list[k] \in 0..(n - 1)
    BY <2>1
  <2>4. \A i \in 0..(n - 1) : infos'[i] = i - 1
    BY <1>1, <2>1, Constants DEF Indices
  <2>5. \A k \in 0..(n - 1) : list[k] # -1 /\ list[k + 1] = infos'[list[k]]
    <3> SUFFICES ASSUME NEW k \in 0..(n - 1)
                 PROVE  list[k] # -1 /\ list[k + 1] = infos'[list[k]]
      OBVIOUS
    <3> HIDE DEF list
    <3>1. infos'[list[k]] = list[k] - 1
      BY <2>3, <2>4
    <3> QED
      BY <2>1, <2>3, <3>1
  <2>6. IsInjective(list)
    BY <2>1 DEF IsInjective
  <2>7. \A i \in 0..(n - 1) : \E k \in DOMAIN list : list[k] = i
    <3> SUFFICES ASSUME NEW i \in 0..(n - 1) PROVE \E k \in DOMAIN list : list[k] = i
      OBVIOUS
    <3>1. n - 1 - i \in 0..n /\ n - 1 - (n - 1 - i) = i
      BY <2>1
    <3> QED
      BY <3>1
  <2>8. IsFreeList(list)'
    <3>1. tableSize' - count' = n
      BY <1>1, <2>1
    <3> QED
      BY <1>1, <2>2, <2>5, <3>1 DEF IsFreeList
  <2>9. tableSize' - count' = n /\ tableSize' = n
    BY <1>1, <2>1
  <2>10. count' = Cardinality(UsedIndices')
    BY <1>1, <1>8, FS_EmptySet
  <2> HIDE DEF list
  <2>11. \A i \in 0..(n - 1) : i \in UsedIndices' <=> \A k \in DOMAIN list : list[k] # i
    BY <1>8, <2>7
  <2> QED
    BY <2>2, <2>6, <2>8, <2>9, <2>10, <2>11 DEF FreeListSound
<1> QED
  BY <1>3, <1>4, <1>6, <1>7, <1>9 DEF Inv

\* finalize() keeps the invariant: a terminated table promises nothing.
LEMMA FinalizeStep ==
    ASSUME Inv, Finalize
    PROVE  Inv'
<1>1. /\ phase' = "terminated" /\ tableSize' = 0 /\ count' = 0
      /\ objects' = [i \in Indices |-> IF i < tableSize THEN Null ELSE objects[i]]
      /\ UNCHANGED <<infos, freeHead, maxCount, nextLinearId, mine, recent>>
  BY DEF Finalize
<1>2. TypeOK'
  <2>1. objects' \in [Indices -> Objects \cup {Null}]
    BY <1>1 DEF Inv, TypeOK
  <2>2. count' \in 0..tableSize' /\ tableSize' \in 0..MaxTableSize
    BY <1>1, Constants
  <2> QED
    BY <1>1, <2>1, <2>2 DEF Inv, TypeOK
<1>3. Opened' /\ FilledEntries' /\ ReservationsHold' /\ FreeListSound' /\ LinearIdsInOrder'
  BY <1>1 DEF Inv, Opened, FilledEntries, ReservationsHold, FreeListSound, LinearIdsInOrder,
              IssuedBefore
<1> QED
  BY <1>2, <1>3 DEF Inv

-----------------------------------------------------------------------------
(* The invariant *)

LEMMA InitInv ==
    ASSUME Init
    PROVE  Inv
<1>1. TypeOK
  <2>1. 0 \in -1..MaxLinearId /\ MinLinearId \in MinLinearId..MaxLinearId
        /\ <<>> \in Seq(Handles)
    BY Constants DEF MinLinearId
  <2> QED
    BY <2>1, Constants DEF Init, TypeOK
<1>2. Opened /\ FilledEntries /\ ReservationsHold /\ FreeListSound
  BY DEF Init, Opened, FilledEntries, ReservationsHold, FreeListSound
<1>3. LinearIdsInOrder
  <2>1. recent = <<>> /\ Len(recent) = 0
    BY DEF Init
  <2> QED
    BY <2>1, Constants DEF LinearIdsInOrder
<1> QED
  BY <1>1, <1>2, <1>3 DEF Inv

LEMMA InvStep ==
    ASSUME Inv, [Next]_vars
    PROVE  Inv'
<1>1. ASSUME NEW size \in Sizes, Initialize(size) PROVE Inv'
  BY <1>1, InitializeStep
<1>2. ASSUME NEW o \in Objects, Add(o) PROVE Inv'
  BY <1>2, AddStep
<1>3. ASSUME NEW h \in Handles, Remove(h) PROVE Inv'
  BY <1>3, RemoveStep
<1>4. ASSUME NEW t \in Threads, Reserve(t) PROVE Inv'
  BY <1>4, ReserveStep
<1>5. ASSUME NEW t \in Threads, Unreserve(t) PROVE Inv'
  BY <1>5, UnreserveStep
<1>6. ASSUME NEW t \in Threads, NEW o \in Objects, Register(t, o) PROVE Inv'
  BY <1>6, RegisterStep
<1>7. CASE Finalize
  BY <1>7, FinalizeStep
<1>8. CASE UNCHANGED vars
  <2>1. TypeOK' /\ Opened' /\ FilledEntries' /\ LinearIdsInOrder'
    BY <1>8 DEF vars, table, Inv, TypeOK, Opened, FilledEntries, LinearIdsInOrder, IssuedBefore
  <2>2. ReservationsHold'
    BY <1>8 DEF vars, table, Inv, ReservationsHold, CanRegister, WellFormed
  <2>3. FreeListSound'
    BY <1>8 DEF vars, table, Inv, FreeListSound, IsFreeList, UsedIndices, ReservedIndices
  <2> QED
    BY <2>1, <2>2, <2>3 DEF Inv
<1> QED
  BY <1>1, <1>2, <1>3, <1>4, <1>5, <1>6, <1>7, <1>8 DEF Next

LEMMA Invariant == Spec => []Inv
  BY InitInv, InvStep, PTL DEF Spec

\* The table's fields keep their ranges: no link leaves the table, the count
\* stays between 0 and the size, and the next linear id never leaves 1..0x7FFF,
\* though allocate_linear_id adds before it wraps.
THEOREM TypeCorrect == Spec => []TypeOK
<1>1. Inv => TypeOK
  BY DEF Inv
<1> QED
  BY <1>1, Invariant, PTL

\* Whatever the order in which entries are filled, reserved, registered, given
\* back and freed, the list that starts at free_head_index holds each unused
\* entry of the table once and ends, and count is the number of the others.
THEOREM FreeListSoundHolds == Spec => []FreeListSound
<1>1. Inv => FreeListSound
  BY DEF Inv
<1> QED
  BY <1>1, Invariant, PTL

\* While the process runs, a reserved handle is nobody else's and register()
\* accepts it, whatever the other threads did since reserve().
THEOREM ReservationsHoldAlways == Spec => []ReservationsHold
<1>1. Inv => ReservationsHold
  BY DEF Inv
<1> QED
  BY <1>1, Invariant, PTL

\* Among the last MAX_LINEAR_ID handles issued no two are equal, so a handle
\* that was closed is not issued again before 0x7FFF others were.
THEOREM NoEarlyReuseHolds == Spec => []NoEarlyReuse
<1>1. ASSUME Inv PROVE NoEarlyReuse
  <2> DEFINE n == Len(recent)
  <2>1. /\ n \in Nat /\ n <= MaxLinearId /\ MaxLinearId \in Nat
        /\ nextLinearId \in 1..MaxLinearId /\ DOMAIN recent = 1..n
    BY <1>1, Constants DEF Inv, TypeOK, LinearIdsInOrder, MinLinearId
  <2>2. \A k \in 1..n : LinearIdOf(recent[k]) = IssuedBefore(n + 1 - k)
    BY <1>1 DEF Inv, LinearIdsInOrder
  <2> HIDE DEF n
  <2>3. ASSUME NEW j \in 1..n, NEW k \in 1..n, recent[j] = recent[k] PROVE j = k
    <3>1. IssuedBefore(n + 1 - j) = IssuedBefore(n + 1 - k)
      BY <2>2, <2>3
    <3>2. n + 1 - j \in 1..MaxLinearId /\ n + 1 - k \in 1..MaxLinearId
      BY <2>1
    <3>3. n + 1 - j = n + 1 - k
      BY <2>1, <3>1, <3>2 DEF IssuedBefore, MinLinearId
    <3> QED
      BY <2>1, <3>3
  <2> QED
    BY <2>1, <2>3 DEF NoEarlyReuse, IsInjective
<1> QED
  BY <1>1, Invariant, PTL

-----------------------------------------------------------------------------
(* The table implements a map from handles to objects *)

\* What the refinement mapping makes of a state of the table.
Valid == {h \in Handles : IsValidHandle(h)}
Map == [h \in Valid |-> objects[IndexOf(h)]]
Held == IF phase = "running" THEN {mine[t] : t \in Threads} \ {0} ELSE {}

\* A handle that is valid or held names an entry in use, and is the only one
\* that does.
LEMMA HandleOfEntry ==
    ASSUME Inv, NEW h \in Valid \cup Held
    PROVE  /\ phase = "running" /\ h \in Handles /\ IndexOf(h) \in UsedIndices
           /\ IndexOf(h) \in 0..(tableSize - 1) /\ IndexOf(h) \in Indices
           /\ h = EncodeHandle(IndexOf(h), infos[IndexOf(h)])
           /\ h \in Valid <=> objects[IndexOf(h)] # Null
<1>1. /\ phase = "running" /\ h \in Handles /\ WellFormed(h) /\ infos[IndexOf(h)] = LinearIdOf(h)
      /\ \/ h \in Valid /\ objects[IndexOf(h)] # Null
         \/ objects[IndexOf(h)] = Null /\ \E t \in Threads : mine[t] # 0 /\ h = mine[t]
  <2>1. CASE h \in Valid
    <3>1. IsValidHandle(h) /\ h \in Handles
      BY <2>1 DEF Valid
    <3>2. IndexOf(h) \in 0..(Span - 1) /\ IndexOf(h) < tableSize
      BY <3>1, EncodeDecode DEF IsValidHandle, WellFormed
    <3>3. phase = "running"
      BY <3>2, Constants DEF Inv, Opened
    <3> QED
      BY <2>1, <3>1, <3>3 DEF IsValidHandle
  <2>2. CASE h \in Held
    <3>1. phase = "running" /\ \E t \in Threads : mine[t] # 0 /\ h = mine[t]
      BY <2>2 DEF Held
    <3> QED
      BY <3>1 DEF Inv, ReservationsHold, CanRegister, TypeOK
  <2> QED
    BY <2>1, <2>2
<1>2. IndexOf(h) \in 0..(Span - 1) /\ IndexOf(h) < tableSize
      /\ h = EncodeHandle(IndexOf(h), infos[IndexOf(h)])
  BY <1>1, EncodeDecode DEF WellFormed
<1>3. IndexOf(h) \in 0..(tableSize - 1) /\ IndexOf(h) \in Indices
  BY <1>2, Constants DEF Inv, TypeOK, Indices
<1>4. IndexOf(h) \in UsedIndices
  BY <1>1, <1>3, InUseIs
<1>5. h \in Valid <=> objects[IndexOf(h)] # Null
  BY <1>1 DEF Valid, IsValidHandle
<1> QED
  BY <1>1, <1>2, <1>3, <1>4, <1>5

\* There are no more handles in use than count says.
LEMMA InUseCounted ==
    ASSUME Inv, phase = "running"
    PROVE  IsFiniteSet(Valid \cup Held) /\ Cardinality(Valid \cup Held) <= count
<1> DEFINE F == [i \in UsedIndices |-> EncodeHandle(i, infos[i])]
           T == {F[i] : i \in UsedIndices}
<1>1. IsFiniteSet(UsedIndices) /\ Cardinality(UsedIndices) = count
  <2>1. UsedIndices \subseteq 0..(tableSize - 1)
    BY UsedInTable DEF Inv
  <2>2. IsFiniteSet(0..(tableSize - 1))
    BY FS_Interval, Constants DEF Inv, TypeOK
  <2> QED
    BY <2>1, <2>2, FS_Subset, FreeListIs DEF Inv
<1>2. F \in Surjection(UsedIndices, T)
  BY DEF Surjection
<1>3. Valid \cup Held \subseteq T
  BY HandleOfEntry
<1> HIDE DEF F, T
<1>4. IsFiniteSet(T) /\ Cardinality(T) <= Cardinality(UsedIndices)
  BY <1>1, <1>2, FS_Surjection
<1>5. IsFiniteSet(Valid \cup Held) /\ Cardinality(Valid \cup Held) <= Cardinality(T)
  BY <1>3, <1>4, FS_Subset
<1>6. /\ Cardinality(T) \in Nat /\ Cardinality(Valid \cup Held) \in Nat
      /\ Cardinality(UsedIndices) \in Nat
  BY <1>1, <1>4, <1>5, FS_CardinalityType
<1> QED
  BY <1>1, <1>4, <1>5, <1>6

\* When a handle becomes valid the map gains it.
LEMMA MapGains ==
    ASSUME NEW h \in Handles, NEW o, Valid' = Valid \cup {h},
           objects'[IndexOf(h)] = o,
           \A k \in Valid : k # h => objects'[IndexOf(k)] = objects[IndexOf(k)]
    PROVE  Map' = [k \in DOMAIN Map \cup {h} |-> IF k = h THEN o ELSE Map[k]]
  BY DEF Map

\* When a handle stops being valid the map loses it.
LEMMA MapLoses ==
    ASSUME NEW h \in Handles, Valid' = Valid \ {h},
           \A k \in Valid : k # h => objects'[IndexOf(k)] = objects[IndexOf(k)]
    PROVE  Map' = [k \in DOMAIN Map \ {h} |-> Map[k]]
  BY DEF Map

\* When the same handles are valid for the same objects the map is the same.
LEMMA MapKept ==
    ASSUME Valid' = Valid, \A k \in Valid : objects'[IndexOf(k)] = objects[IndexOf(k)]
    PROVE  Map' = Map
  BY DEF Map

\* A change of one entry changes the validity of no handle of another.
LEMMA ValidElsewhere ==
    ASSUME Inv, NEW e \in Indices, tableSize' = tableSize,
           \A i \in Indices : i # e => infos'[i] = infos[i] /\ objects'[i] = objects[i],
           NEW h \in Handles, IndexOf(h) # e
    PROVE  h \in Valid' <=> h \in Valid
<1>1. IndexOf(h) \in 0..(Span - 1)
  BY EncodeDecode
<1>2. IndexOf(h) < tableSize => IndexOf(h) \in Indices
  BY <1>1, Constants DEF Inv, TypeOK, Indices
<1>3. IsValidHandle(h)' <=> IsValidHandle(h)
  BY <1>2 DEF IsValidHandle, WellFormed
<1>4. h \in Valid' <=> IsValidHandle(h)'
  BY DEF Valid
<1> QED
  BY <1>3, <1>4 DEF Valid

\* HandleMap counts as this module does.
LEMMA SameCardinality ==
    ASSUME NEW S
    PROVE  Abstract!Cardinality(S) = Cardinality(S)
  BY DEF Cardinality, Abstract!Cardinality

\* add() is Add of the handle it returns.
LEMMA AddRefines ==
    ASSUME Inv, NEW o \in Objects, Add(o)
    PROVE  Abstract!Next
<1>1. PICK h \in Handles : h = NewHandle
  BY Allocation DEF Add
<1>2. /\ AllocateEntry /\ UNCHANGED <<tableSize, mine, phase>>
      /\ objects' = [objects EXCEPT ![freeHead] = o]
  BY DEF Add
<1>3. /\ phase = "running" /\ freeHead \in Indices /\ freeHead \in 0..(tableSize - 1)
      /\ freeHead \notin UsedIndices /\ h # 0 /\ ReservedBits(h) = 0
      /\ IndexOf(h) = freeHead /\ LinearIdOf(h) = nextLinearId
      /\ infos'[freeHead] = nextLinearId /\ nextLinearId \in MinLinearId..MaxLinearId
      /\ \A i \in Indices : i # freeHead => infos'[i] = infos[i] /\ objects'[i] = objects[i]
      /\ objects'[freeHead] = o
  BY <1>1, <1>2, Allocation DEF Inv, TypeOK
<1>4. h \notin Valid \cup Held
  BY <1>3, HandleOfEntry
<1>5. Valid' = Valid \cup {h}
  <2>1. \A k \in Valid' : k \in Handles
    BY DEF Valid
  <2>2. \A k \in Handles : IndexOf(k) # freeHead => (k \in Valid' <=> k \in Valid)
    BY <1>2, <1>3, ValidElsewhere
  <2>3. ASSUME NEW k \in Valid', IndexOf(k) = freeHead PROVE k = h
    <3>1. k \in Handles /\ ReservedBits(k) = 0 /\ LinearIdOf(k) = nextLinearId
      BY <1>3, <2>3 DEF Valid, IsValidHandle, WellFormed
    <3> QED
      BY <1>1, <1>3, <2>3, <3>1, EncodeDecode
  <2>4. h \in Valid'
    <3>1. nextLinearId # 0 /\ freeHead < tableSize /\ o # Null
      BY <1>3, Constants DEF Inv, TypeOK, MinLinearId
    <3> QED
      BY <1>2, <1>3, <3>1 DEF Valid, IsValidHandle, WellFormed
  <2>5. Valid \subseteq Handles /\ \A k \in Valid : IndexOf(k) # freeHead
    BY <1>3, HandleOfEntry DEF Valid
  <2> QED
    BY <2>1, <2>2, <2>3, <2>4, <2>5
<1>6. Map' = [k \in DOMAIN Map \cup {h} |-> IF k = h THEN o ELSE Map[k]]
  <2>1. \A k \in Valid : objects'[IndexOf(k)] = objects[IndexOf(k)]
    BY <1>3, HandleOfEntry
  <2> QED
    BY <1>3, <1>5, <2>1, MapGains
<1>7. Abstract!Cardinality(Valid \cup Held) < tableSize
  <2>1. Cardinality(Valid \cup Held) \in Nat /\ Cardinality(Valid \cup Held) <= count
    BY <1>3, InUseCounted, FS_CardinalityType
  <2> QED
    BY <1>2, <2>1, Constants, SameCardinality DEF Inv, TypeOK, AllocateEntry
<1>8. DOMAIN Map = Valid /\ Held' = Held
  BY <1>2 DEF Map, Held
<1>9. Abstract!Add(h, o)
  BY <1>2, <1>4, <1>6, <1>7, <1>8
     DEF Abstract!Add, Abstract!HasRoom, Abstract!InUse, Map, Held, Valid
<1> QED
  BY <1>9 DEF Abstract!Next

\* remove() is Remove of the handle it is given.
LEMMA RemoveRefines ==
    ASSUME Inv, NEW h \in Handles, Remove(h)
    PROVE  Abstract!Next
<1> DEFINE e == IndexOf(h)
<1>1. h \in Valid /\ FreeEntry(e)
      /\ UNCHANGED <<tableSize, maxCount, nextLinearId, mine, phase>>
  BY DEF Remove, Valid
<1>2. e \in Indices
  BY <1>1, HandleOfEntry
<1>3. /\ objects'[e] = Null
      /\ \A i \in Indices : i # e => infos'[i] = infos[i] /\ objects'[i] = objects[i]
  BY <1>1, <1>2, Freed
<1>4. \A k \in Valid : k # h => IndexOf(k) # e
  BY <1>1, HandleOfEntry
<1>5. Valid' = Valid \ {h}
  <2>1. \A k \in Handles : IndexOf(k) # e => (k \in Valid' <=> k \in Valid)
    BY <1>1, <1>2, <1>3, ValidElsewhere
  <2>2. \A k \in Valid' : k \in Handles /\ IndexOf(k) # e
    BY <1>3 DEF Valid, IsValidHandle
  <2>3. Valid \subseteq Handles
    BY DEF Valid
  <2> QED
    BY <1>4, <2>1, <2>2, <2>3
<1>6. Map' = [k \in DOMAIN Map \ {h} |-> Map[k]]
  <2>1. \A k \in Valid : k # h => objects'[IndexOf(k)] = objects[IndexOf(k)]
    BY <1>3, <1>4, HandleOfEntry
  <2> QED
    BY <1>5, <2>1, MapLoses
<1>7. Held' = Held /\ h \in DOMAIN Map
  BY <1>1 DEF Held, Map
<1>8. Abstract!Remove(h)
  BY <1>1, <1>6, <1>7 DEF Abstract!Remove, Map, Held, Valid
<1> QED
  BY <1>8 DEF Abstract!Next

\* reserve() is Reserve of the handle it returns.
LEMMA ReserveRefines ==
    ASSUME Inv, NEW t \in Threads, Reserve(t)
    PROVE  Abstract!Next
<1>1. PICK h \in Handles : h = NewHandle
  BY Allocation DEF Reserve
<1>2. /\ AllocateEntry /\ UNCHANGED <<objects, tableSize, phase>>
      /\ mine[t] = 0 /\ mine' = [mine EXCEPT ![t] = h]
  BY <1>1 DEF Reserve
<1>3. /\ phase = "running" /\ freeHead \in Indices /\ freeHead \notin UsedIndices /\ h # 0
      /\ IndexOf(h) = freeHead /\ objects[freeHead] = Null
      /\ \A i \in Indices : i # freeHead => infos'[i] = infos[i] /\ objects'[i] = objects[i]
  BY <1>1, <1>2, Allocation, InUseIs
<1>4. h \notin Valid \cup Held
  BY <1>3, HandleOfEntry
<1>5. Valid' = Valid
  <2>1. \A k \in Handles : IndexOf(k) # freeHead => (k \in Valid' <=> k \in Valid)
    BY <1>2, <1>3, ValidElsewhere
  <2>2. \A k \in Valid \cup Valid' : k \in Handles /\ IndexOf(k) # freeHead
    BY <1>2, <1>3 DEF Valid, IsValidHandle
  <2> QED
    BY <2>1, <2>2
<1>6. Map' = Map
  BY <1>2, <1>5, MapKept
<1>7. Held' = Held \cup {h}
  <2>1. {mine'[u] : u \in Threads} \ {0} = ({mine[u] : u \in Threads} \ {0}) \cup {h}
    <3>1. mine'[t] = h /\ \A u \in Threads : u # t => mine'[u] = mine[u]
      BY <1>2 DEF Inv, TypeOK
    <3> QED
      BY <1>2, <1>3, <3>1
  <2> QED
    BY <1>2, <1>3, <2>1 DEF Held
<1>8. Abstract!Cardinality(Valid \cup Held) < tableSize
  <2>1. Cardinality(Valid \cup Held) \in Nat /\ Cardinality(Valid \cup Held) <= count
    BY <1>3, InUseCounted, FS_CardinalityType
  <2> QED
    BY <1>2, <2>1, Constants, SameCardinality DEF Inv, TypeOK, AllocateEntry
<1>9. DOMAIN Map = Valid
  BY DEF Map
<1>10. Abstract!Reserve(h)
  BY <1>2, <1>4, <1>6, <1>7, <1>8, <1>9
     DEF Abstract!Reserve, Abstract!HasRoom, Abstract!InUse, Map, Held, Valid
<1> QED
  BY <1>10 DEF Abstract!Next

\* The handle a thread gives up leaves the held ones: nobody else holds it.
LEMMA HeldLoses ==
    ASSUME Inv, phase = "running", phase' = phase,
           NEW t \in Threads, mine[t] # 0, mine' = [mine EXCEPT ![t] = 0]
    PROVE  Held' = Held \ {mine[t]} /\ mine[t] \in Held
<1>1. mine'[t] = 0 /\ \A u \in Threads : u # t => mine'[u] = mine[u]
  BY DEF Inv, TypeOK
<1>2. \A u \in Threads : u # t => mine[u] # mine[t]
  BY DEF Inv, ReservationsHold
<1>3. {mine'[u] : u \in Threads} \ {0} = ({mine[u] : u \in Threads} \ {0}) \ {mine[t]}
  BY <1>1, <1>2
<1> QED
  BY <1>3 DEF Held

\* register() is Register of the reserved handle.
LEMMA RegisterRefines ==
    ASSUME Inv, NEW t \in Threads, NEW o \in Objects, Register(t, o)
    PROVE  Abstract!Next
<1>1. PICK h \in Handles : h = mine[t]
  BY DEF Inv, TypeOK
<1> DEFINE e == IndexOf(h)
<1>2. /\ h # 0 /\ CanRegister(h)
      /\ objects' = [objects EXCEPT ![e] = o] /\ mine' = [mine EXCEPT ![t] = 0]
      /\ UNCHANGED <<infos, tableSize, phase>>
  BY <1>1 DEF Register
<1>3. phase = "running" /\ e \in Indices /\ WellFormed(h) /\ infos[e] = LinearIdOf(h)
  <2>1. e \in 0..(Span - 1) /\ e < tableSize
    BY <1>2, EncodeDecode DEF CanRegister, WellFormed
  <2> HIDE DEF e
  <2>2. phase = "running" /\ e \in Indices
    BY <2>1, Constants DEF Inv, Opened, TypeOK, Indices
  <2> QED
    BY <1>2, <2>2 DEF CanRegister, e
<1>4. Held' = Held \ {h} /\ h \in Held
  BY <1>1, <1>2, <1>3, HeldLoses
<1>5. /\ objects'[e] = o /\ o # Null
      /\ \A i \in Indices : i # e => infos'[i] = infos[i] /\ objects'[i] = objects[i]
  BY <1>2, <1>3, Constants DEF Inv, TypeOK
<1>6. Valid' = Valid \cup {h}
  <2>1. \A k \in Handles : IndexOf(k) # e => (k \in Valid' <=> k \in Valid)
    BY <1>2, <1>3, <1>5, ValidElsewhere
  <2>2. ASSUME NEW k \in Valid \cup Valid', IndexOf(k) = e PROVE k = h
    <3>1. k \in Handles /\ ReservedBits(k) = 0 /\ LinearIdOf(k) = LinearIdOf(h)
      BY <1>2, <1>3, <2>2 DEF Valid, IsValidHandle, WellFormed
    <3> QED
      BY <1>3, <2>2, <3>1, EncodeDecode DEF WellFormed
  <2>3. h \in Valid'
    BY <1>2, <1>3, <1>5 DEF Valid, IsValidHandle, WellFormed
  <2>4. Valid \subseteq Handles /\ Valid' \subseteq Handles
    BY DEF Valid
  <2> QED
    BY <2>1, <2>2, <2>3, <2>4
<1>7. \A k \in Valid : IndexOf(k) # e
  <2>1. objects[e] = Null
    BY <1>2 DEF CanRegister
  <2> QED
    BY <2>1 DEF Valid, IsValidHandle
<1>8. Map' = [k \in DOMAIN Map \cup {h} |-> IF k = h THEN o ELSE Map[k]]
  <2>1. \A k \in Valid : objects'[IndexOf(k)] = objects[IndexOf(k)]
    BY <1>5, <1>7, HandleOfEntry
  <2> QED
    BY <1>5, <1>6, <2>1, MapGains
<1>9. Abstract!Register(h, o)
  BY <1>2, <1>4, <1>8 DEF Abstract!Register, Map, Held, Valid
<1> QED
  BY <1>9 DEF Abstract!Next

\* unreserve() is Unreserve of the reserved handle.
LEMMA UnreserveRefines ==
    ASSUME Inv, NEW t \in Threads, Unreserve(t)
    PROVE  Abstract!Next
<1>1. PICK h \in Handles : h = mine[t]
  BY DEF Inv, TypeOK
<1> DEFINE e == IndexOf(h)
<1>2. /\ h # 0 /\ FreeEntry(e) /\ mine' = [mine EXCEPT ![t] = 0]
      /\ UNCHANGED <<tableSize, maxCount, nextLinearId, phase>>
  BY <1>1 DEF Unreserve
<1>3. phase = "running"
  BY <1>2, Constants DEF Inv, Opened, TypeOK, FreeEntry
<1>4. Held' = Held \ {h} /\ h \in Held
  BY <1>1, <1>2, <1>3, HeldLoses
<1>5. e \in Indices /\ objects[e] = Null
  BY <1>1, <1>2, <1>3, <1>4, HandleOfEntry DEF Inv, ReservationsHold, CanRegister
<1>6. /\ objects'[e] = Null
      /\ \A i \in Indices : i # e => infos'[i] = infos[i] /\ objects'[i] = objects[i]
  BY <1>2, <1>5, Freed
<1>7. Valid' = Valid
  <2>1. \A k \in Handles : IndexOf(k) # e => (k \in Valid' <=> k \in Valid)
    BY <1>2, <1>5, <1>6, ValidElsewhere
  <2>2. \A k \in Valid \cup Valid' : k \in Handles /\ IndexOf(k) # e
    BY <1>5, <1>6 DEF Valid, IsValidHandle
  <2> QED
    BY <2>1, <2>2
<1>8. Map' = Map
  <2>1. \A k \in Valid : objects'[IndexOf(k)] = objects[IndexOf(k)]
    <3>1. \A k \in Valid : IndexOf(k) # e /\ IndexOf(k) \in Indices
      BY <1>5, HandleOfEntry DEF Valid, IsValidHandle
    <3> QED
      BY <1>6, <3>1
  <2> QED
    BY <1>7, <2>1, MapKept
<1>9. Abstract!Unreserve(h)
  BY <1>2, <1>4, <1>8 DEF Abstract!Unreserve, Map, Held, Valid
<1> QED
  BY <1>9 DEF Abstract!Next

\* initialize() is Open of the size it settles on.
LEMMA InitializeRefines ==
    ASSUME Inv, NEW size \in Sizes, Initialize(size)
    PROVE  Abstract!Next
<1>1. PICK n \in 1..MaxTableSize : n = IF size <= 0 THEN MaxTableSize ELSE size
  <2>1. size \in Int
    BY HTAssumption
  <2> QED
    BY <2>1, Constants DEF Initialize
<1>2. /\ phase = "new" /\ tableSize' = n /\ mine' = mine
      /\ objects' = [i \in Indices |-> IF i < n THEN Null ELSE objects[i]]
  BY <1>1 DEF Initialize
<1>3. /\ tableSize = 0 /\ \A t \in Threads : mine[t] = 0
      /\ \A i \in Indices : objects[i] = Null
  BY <1>2, Constants DEF Inv, Opened, FilledEntries, TypeOK, Indices
<1>4. Valid = {} /\ Valid' = {}
  <2>1. Valid = {}
    <3>1. \A h \in Handles : IndexOf(h) \in 0..(Span - 1)
      BY EncodeDecode
    <3> QED
      BY <1>3, <3>1, Constants DEF Valid, IsValidHandle, WellFormed
  <2>2. ASSUME NEW h \in Handles, IsValidHandle(h)' PROVE FALSE
    <3>1. IndexOf(h) \in 0..(Span - 1) /\ IndexOf(h) < n
      BY <1>2, <2>2, EncodeDecode DEF IsValidHandle, WellFormed
    <3>2. IndexOf(h) \in Indices
      BY <3>1, Constants DEF Indices
    <3> QED
      BY <1>2, <2>2, <3>1, <3>2 DEF IsValidHandle
  <2> QED
    BY <2>1, <2>2 DEF Valid
<1>5. Held = {} /\ Held' = {}
  BY <1>2, <1>3 DEF Held
<1>6. Map' = Map /\ DOMAIN Map = {}
  BY <1>4 DEF Map
<1>7. n \in 1..Abstract!Cardinality(Handles)
  <2>1. Span * Span \in Nat /\ Span * Span >= Span /\ 2 * Span * Span = Span * Span + Span * Span
    BY Constants
  <2>2. 2 * Span * Span - 1 \in Int /\ 2 * Span * Span >= Span
    BY <2>1, Constants
  <2>3. Cardinality(Handles) = 2 * Span * Span
    <3> DEFINE last == 2 * Span * Span - 1
    <3>1. last \in Int /\ last >= 0 /\ last - 0 + 1 = 2 * Span * Span
      BY <2>1, Constants
    <3>2. Cardinality(0..last) = last - 0 + 1
      <4> HIDE DEF last
      <4> QED
        BY <3>1, FS_Interval
    <3> QED
      BY <3>1, <3>2 DEF Handles
  <2> QED
    BY <2>1, <2>2, <2>3, Constants, SameCardinality
<1>8. Abstract!Open(n)
  BY <1>2, <1>4, <1>5, <1>6 DEF Abstract!Open, Abstract!InUse, Map, Held, Valid
<1> QED
  BY <1>7, <1>8 DEF Abstract!Next

\* finalize() is Close.
LEMMA FinalizeRefines ==
    ASSUME Inv, Finalize
    PROVE  Abstract!Next
<1>1. phase' = "terminated" /\ tableSize' = 0
  BY DEF Finalize
<1>2. Valid' = {}
  <2>1. \A h \in Handles : IndexOf(h) \in 0..(Span - 1)
    BY EncodeDecode
  <2> QED
    BY <1>1, <2>1, Constants DEF Valid, IsValidHandle, WellFormed
<1>3. Held' = {} /\ Map' = [h \in {} |-> 0]
  BY <1>1, <1>2 DEF Held, Map
<1>4. Abstract!Close
  BY <1>1, <1>3 DEF Abstract!Close, Map, Held, Valid
<1> QED
  BY <1>4 DEF Abstract!Next

\* The handle table is a map from handles to objects with room for as many as it
\* was opened for: each method is one operation of the map or changes no answer
\* of get_object, and closing or filling one handle never changes another's object.
THEOREM RefinesHandleMapHolds == Spec => RefinesHandleMap
<1>1. ASSUME Init PROVE Abstract!Init
  <2>1. tableSize = 0 /\ phase = "new"
    BY <1>1 DEF Init
  <2>2. Valid = {}
    <3>1. \A h \in Handles : IndexOf(h) \in 0..(Span - 1)
      BY EncodeDecode
    <3> QED
      BY <2>1, <3>1, Constants DEF Valid, IsValidHandle, WellFormed
  <2>3. Held = {} /\ Map = [h \in {} |-> 0]
    BY <2>1, <2>2 DEF Held, Map
  <2> QED
    BY <2>1, <2>3 DEF Abstract!Init, Map, Held, Valid
<1>2. ASSUME Inv, [Next]_vars PROVE [Abstract!Next]_(Abstract!vars)
  <2>1. CASE UNCHANGED vars
    BY <2>1 DEF vars, table, Abstract!vars, IsValidHandle, WellFormed
  <2>2. CASE Next
    <3>1. Abstract!Next
      BY <1>2, <2>2, AddRefines, RemoveRefines, ReserveRefines, RegisterRefines,
         UnreserveRefines, InitializeRefines, FinalizeRefines DEF Next
    <3> QED
      BY <3>1
  <2> QED
    BY <1>2, <2>1, <2>2
<1> QED
  BY <1>1, <1>2, Invariant, PTL DEF Spec, RefinesHandleMap, Abstract!Spec
=============================================================================
