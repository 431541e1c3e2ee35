----------------------------- MODULE KHandleTable -----------------------------
(***************************************************************************)
(* The handle table of a process (k_handle_table.rs): an array of entries  *)
(* whose info word is a linear id while the entry is in use and the link   *)
(* of the free list while it is not, handles packed from an index and a    *)
(* linear id, and the reservation that ConnectToNamedPort and              *)
(* ConnectToPort make before they create a session (svc_port.rs).          *)
(*                                                                         *)
(* One method call is one step.  The threads of a process call them from   *)
(* several cores: between a reserve() and its register() or unreserve()    *)
(* others add and close handles, and the process may be terminated.        *)
(*                                                                         *)
(* A definition named Mut... is a faulty variant of the one it precedes.   *)
(***************************************************************************)
EXTENDS Integers, Sequences, FiniteSets, Functions

CONSTANTS
    Threads,       \* threads of the process
    Objects,       \* object ids
    Null,          \* object id 0
    MaxTableSize,  \* MAX_TABLE_SIZE
    Span,          \* 2^15: the range of the index and linear id fields
    Sizes,         \* table sizes the capabilities of a process ask for
    Finalizes      \* whether the process is terminated at some time

MinLinearId == 1
MaxLinearId == Span - 1

ASSUME HTAssumption ==
    /\ Null \notin Objects
    /\ MaxTableSize \in 1..Span
    /\ Span \in Nat \ {0, 1}
    /\ Sizes \subseteq Int
    /\ Finalizes \in BOOLEAN

VARIABLES
    infos,         \* entry_infos: linear_id or next_free_index, as one word
    objects,       \* objects
    freeHead,      \* free_head_index
    tableSize,     \* table_size
    count,         \* count
    maxCount,      \* max_count
    nextLinearId,  \* next_linear_id
    mine,          \* the handle each thread has reserved, or 0
    phase,         \* of the process: "new", "running" or "terminated"
    recent         \* history: the last MaxLinearId handles issued

table == <<infos, objects, freeHead, tableSize, count, maxCount, nextLinearId>>
vars == <<table, mine, phase, recent>>

Indices == 0..(MaxTableSize - 1)
Handles == 0..(2 * Span * Span - 1)

TypeOK ==
    /\ infos \in [Indices -> -1..MaxLinearId]
    /\ objects \in [Indices -> Objects \cup {Null}]
    /\ freeHead \in Indices \cup {-1}
    /\ tableSize \in 0..MaxTableSize
    /\ count \in 0..tableSize
    /\ maxCount \in 0..MaxTableSize
    /\ nextLinearId \in MinLinearId..MaxLinearId
    /\ mine \in [Threads -> Handles]
    /\ phase \in {"new", "running", "terminated"}
    /\ recent \in Seq(Handles)

Init ==
    /\ infos = [i \in Indices |-> 0]
    /\ objects = [i \in Indices |-> Null]
    /\ freeHead = -1
    /\ tableSize = 0
    /\ count = 0
    /\ maxCount = 0
    /\ nextLinearId = MinLinearId
    /\ mine = [t \in Threads |-> 0]
    /\ phase = "new"
    /\ recent = <<>>

-----------------------------------------------------------------------------
\* encode_handle and decode_handle: (linear_id << 15) | index.
EncodeHandle(i, l) == l * Span + i
IndexOf(h) == h % Span
LinearIdOf(h) == (h \div Span) % Span
ReservedBits(h) == h \div (Span * Span)

\* The tests is_valid_handle and register begin with.
WellFormed(h) ==
    /\ ReservedBits(h) = 0
    /\ h # 0
    /\ LinearIdOf(h) # 0
    /\ IndexOf(h) < tableSize

MutIsValidHandle(h) == WellFormed(h) /\ objects[IndexOf(h)] # Null
MutIsValidHandleEmpty(h) == WellFormed(h) /\ infos[IndexOf(h)] = LinearIdOf(h)
IsValidHandle(h) ==
    /\ WellFormed(h)
    /\ objects[IndexOf(h)] # Null
    /\ infos[IndexOf(h)] = LinearIdOf(h)

\* allocate_linear_id.
MutAllocateLinearIdNoWrap == nextLinearId' = nextLinearId + 1
MutAllocateLinearId ==
    nextLinearId' = IF nextLinearId + 1 >= MaxLinearId THEN MinLinearId
                    ELSE nextLinearId + 1
AllocateLinearId ==
    nextLinearId' = IF nextLinearId + 1 > MaxLinearId THEN MinLinearId
                    ELSE nextLinearId + 1

\* allocate_entry, and the new entry's info; the handle is EncodeHandle of the
\* head of the list and the next linear id.
NewHandle == EncodeHandle(freeHead, nextLinearId)

AllocateEntry ==
    /\ count < tableSize
    /\ freeHead' = infos[freeHead]
    /\ count' = count + 1
    /\ maxCount' = IF count + 1 > maxCount THEN count + 1 ELSE maxCount
    /\ AllocateLinearId
    /\ infos' = [infos EXCEPT ![freeHead] = nextLinearId]
    /\ recent' = LET r == Append(recent, NewHandle) IN
                 IF Len(r) > MaxLinearId THEN Tail(r) ELSE r

\* free_entry(index), which asserts count > 0.
MutFreeEntry(i) ==
    /\ count > 0
    /\ objects' = [objects EXCEPT ![i] = Null]
    /\ infos' = [infos EXCEPT ![i] = freeHead]
    /\ UNCHANGED freeHead
    /\ count' = count - 1

FreeEntry(i) ==
    /\ count > 0
    /\ objects' = [objects EXCEPT ![i] = Null]
    /\ infos' = [infos EXCEPT ![i] = freeHead]
    /\ freeHead' = i
    /\ count' = count - 1

-----------------------------------------------------------------------------
\* KProcess::initialize_handle_table, once in the life of a process.  A size
\* above the maximum is refused.
Initialize(size) ==
    LET n == IF size <= 0 THEN MaxTableSize ELSE size IN
    /\ phase = "new"
    /\ size <= MaxTableSize
    /\ phase' = "running"
    /\ tableSize' = n
    /\ maxCount' = 0
    /\ nextLinearId' = MinLinearId
    /\ count' = 0
    /\ objects' = [i \in Indices |-> IF i < n THEN Null ELSE objects[i]]
    /\ infos' = [i \in Indices |-> IF i < n THEN i - 1 ELSE infos[i]]
    /\ freeHead' = n - 1
    /\ UNCHANGED <<mine, recent>>

Add(o) ==
    /\ AllocateEntry
    /\ objects' = [objects EXCEPT ![freeHead] = o]
    /\ UNCHANGED <<tableSize, mine, phase>>

Remove(h) ==
    /\ IsValidHandle(h)
    /\ FreeEntry(IndexOf(h))
    /\ UNCHANGED <<tableSize, maxCount, nextLinearId, mine, phase, recent>>

Reserve(t) ==
    /\ mine[t] = 0
    /\ AllocateEntry
    /\ mine' = [mine EXCEPT ![t] = NewHandle]
    /\ UNCHANGED <<objects, tableSize, phase>>

\* What register() checks of the entry.
CanRegister(h) ==
    /\ WellFormed(h)
    /\ objects[IndexOf(h)] = Null
    /\ infos[IndexOf(h)] = LinearIdOf(h)

\* register() of the reserved handle, for the client session created meanwhile.
\* When it fails the caller goes on to unreserve().
Register(t, o) ==
    /\ mine[t] # 0
    /\ CanRegister(mine[t])
    /\ objects' = [objects EXCEPT ![IndexOf(mine[t])] = o]
    /\ mine' = [mine EXCEPT ![t] = 0]
    /\ UNCHANGED <<infos, freeHead, tableSize, count, maxCount, nextLinearId,
                   phase, recent>>

\* unreserve(), after a failure to create the session or to register().
Unreserve(t) ==
    /\ mine[t] # 0
    /\ FreeEntry(IndexOf(mine[t]))
    /\ mine' = [mine EXCEPT ![t] = 0]
    /\ UNCHANGED <<tableSize, maxCount, nextLinearId, phase, recent>>

\* KProcess::finalize_handle_table, when the process terminates.
Finalize ==
    /\ Finalizes
    /\ phase = "running"
    /\ phase' = "terminated"
    /\ tableSize' = 0
    /\ objects' = [i \in Indices |-> IF i < tableSize THEN Null ELSE objects[i]]
    /\ count' = 0
    /\ UNCHANGED <<infos, freeHead, maxCount, nextLinearId, mine, recent>>

Next ==
    \/ \E size \in Sizes : Initialize(size)
    \/ \E o \in Objects : Add(o)
    \/ \E h \in Handles : Remove(h)
    \/ \E t \in Threads :
          Reserve(t) \/ Unreserve(t) \/ \E o \in Objects : Register(t, o)
    \/ Finalize

Spec == Init /\ [][Next]_vars

-----------------------------------------------------------------------------
(* Properties *)

ReservedIndices == {IndexOf(mine[t]) : t \in {u \in Threads : mine[u] # 0}}
UsedIndices == {i \in Indices : objects[i] # Null} \cup ReservedIndices

\* The entries that follow the links from free_head_index, and the -1 at the end.
IsFreeList(list) ==
    LET n == tableSize - count IN
    /\ list[0] = freeHead
    /\ list[n] = -1
    /\ \A k \in 0..(n - 1) : list[k] # -1 /\ list[k + 1] = infos[list[k]]

\* The free list and the entries in use (filled or reserved) partition the
\* table: allocate_entry never runs off the list and never hands out an entry
\* that somebody still uses, whatever order entries are freed in.
FreeListSound ==
    phase = "running" =>
        /\ \E list \in [0..(tableSize - count) -> -1..(tableSize - 1)] :
              /\ IsFreeList(list)
              /\ IsInjective(list)
              /\ \A i \in 0..(tableSize - 1) :
                    i \in UsedIndices <=> \A k \in DOMAIN list : list[k] # i
        /\ count = Cardinality(UsedIndices)

\* A reserved handle belongs to one thread and stays what register() asks for
\* until it is registered or given back, while others add and close handles.
ReservationsHold ==
    phase = "running" =>
        \A t, u \in Threads : mine[t] # 0 =>
            /\ CanRegister(mine[t])
            /\ mine[t] = mine[u] => t = u

\* A handle that was closed names no other object later: the same number is
\* not issued again before all MAX_LINEAR_ID linear ids have been used.
NoEarlyReuse == IsInjective(recent)

\* free_entry's assert!(self.count > 0), which unreserve() of a handle reserved
\* earlier runs into.
UnreserveAsserts == \A t \in Threads : mine[t] # 0 => count > 0

\* The object get_object returns for each handle it accepts, and the handles
\* reserved in a table that is open: a handle map.
Abstract == INSTANCE HandleMap WITH
    map <- [h \in {k \in Handles : IsValidHandle(k)} |-> objects[IndexOf(h)]],
    reserved <- IF phase = "running" THEN {mine[t] : t \in Threads} \ {0} ELSE {},
    capacity <- tableSize

\* get_object and the operations that change its answers implement a map from
\* handles to objects: no operation on one handle changes what another means.
RefinesHandleMap == Abstract!Spec
=============================================================================
