--------------------------- MODULE ShardedMemoProofs ---------------------------
(***************************************************************************)
(* Proofs about ShardedMemo, for every set of callers and keys, every      *)
(* assignment of keys to shards and every shard size.                      *)
(***************************************************************************)
EXTENDS ShardedMemo, FiniteSetTheorems, TLAPS

Labels == {"idle", "get", "compute", "insert", "done"}
Results == {Computed(k) : k \in Keys} \cup {NoResult}
Slots == [key : Keys, value : Results, by : Callers]

\* The shape of the state; TypeOK says less, and is not inductive without it.
Shape ==
    /\ table \in [Shards -> SUBSET Slots]
    /\ pc \in [Callers -> Labels]
    /\ key \in [Callers -> Keys]
    /\ result \in [Callers -> Results]

\* An entry is in the shard its key hashes to and holds the value of the function.
SoundEntries ==
    \A s \in Shards : \A e \in table[s] : ShardOf[e.key] = s /\ e.value = Computed(e.key)

\* From the moment a caller has computed or read a value it is the value for its key.
SoundResults ==
    \A p \in Callers : pc[p] \in {"insert", "done"} => result[p] = Computed(key[p])

-----------------------------------------------------------------------------
(* What `insert` leaves in one shard.                                        *)

\* An insert adds no entry but its own.
LEMMA StoredSubset ==
    ASSUME NEW shard, NEW e
    PROVE  /\ Stored(shard, e) \subseteq shard \cup {e}
           /\ e \in Stored(shard, e)
  BY DEF Stored, Keyed

\* After an insert no other entry has the inserted key.
LEMMA StoredReplaces ==
    ASSUME NEW shard, NEW e, NEW d \in Stored(shard, e), d.key = e.key
    PROVE  d = e
  BY DEF Stored, Keyed

\* A shard within its bound stays within it: a new key first clears a full one.
LEMMA StoredBounded ==
    ASSUME NEW shard, NEW e,
           IsFiniteSet(shard), Cardinality(shard) <= EntriesPerShard
    PROVE  /\ IsFiniteSet(Stored(shard, e))
           /\ Cardinality(Stored(shard, e)) <= EntriesPerShard
<1> USE MemoAssumption
<1>1. CASE Keyed(shard, e.key) # {}
  <2>1. PICK d \in shard : d.key = e.key
    BY <1>1 DEF Keyed
  <2> DEFINE rest == shard \ Keyed(shard, e.key)
  <2>2. rest \subseteq shard \ {d}
    BY <2>1 DEF Keyed
  <2>3. IsFiniteSet(shard \ {d}) /\ Cardinality(shard \ {d}) = Cardinality(shard) - 1
    BY <2>1, FS_RemoveElement
  <2>4. IsFiniteSet(rest) /\ Cardinality(rest) <= Cardinality(shard) - 1
    BY <2>2, <2>3, FS_Subset
  <2>5. Cardinality(rest) \in Nat /\ Cardinality(shard) \in Nat
    BY <2>4, FS_CardinalityType
  <2>6. /\ IsFiniteSet(rest \cup {e})
        /\ Cardinality(rest \cup {e}) = Cardinality(rest) \/ Cardinality(rest \cup {e}) = Cardinality(rest) + 1
    BY <2>4, FS_AddElement
  <2>7. Stored(shard, e) = rest \cup {e}
    BY <1>1 DEF Stored
  <2> QED
    BY <2>4, <2>5, <2>6, <2>7
<1>2. CASE Keyed(shard, e.key) = {} /\ Full(shard)
  <2>1. Stored(shard, e) = {e}
    BY <1>2 DEF Stored
  <2>2. IsFiniteSet({e}) /\ Cardinality({e}) = 1
    BY FS_Singleton
  <2>3. 1 <= EntriesPerShard
    OBVIOUS
  <2> QED
    BY <2>1, <2>2, <2>3
<1>3. CASE Keyed(shard, e.key) = {} /\ ~Full(shard)
  <2>1. Stored(shard, e) = shard \cup {e}
    BY <1>3 DEF Stored
  <2>2. Cardinality(shard) \in Nat /\ Cardinality(shard) < EntriesPerShard
    BY <1>3, FS_CardinalityType DEF Full
  <2>3. /\ IsFiniteSet(shard \cup {e})
        /\ Cardinality(shard \cup {e}) = Cardinality(shard) \/ Cardinality(shard \cup {e}) = Cardinality(shard) + 1
    BY FS_AddElement
  <2> QED
    BY <2>1, <2>2, <2>3
<1> QED
  BY <1>1, <1>2, <1>3

-----------------------------------------------------------------------------
(* The inductive invariant.                                                  *)

LEMMA ShapeStep == Shape /\ [Next]_vars => Shape'
<1> SUFFICES ASSUME Shape, [Next]_vars PROVE Shape'
  OBVIOUS
<1> USE DEF Shape, Goto
<1>1. CASE UNCHANGED vars
  BY <1>1 DEF vars
<1>2. ASSUME NEW p \in Callers, NEW k \in Keys, Call(p, k) PROVE Shape'
  BY <1>2 DEF Call, Labels, Results
<1>3. ASSUME NEW p \in Callers, Get(p) PROVE Shape'
  <2>1. CASE Entries(key[p]) = {}
    BY <1>3, <2>1 DEF Get, Labels
  <2>2. CASE Entries(key[p]) # {}
    <3>1. PICK e \in Entries(key[p]) : result' = [result EXCEPT ![p] = e.value]
      BY <1>3, <2>2 DEF Get
    <3>2. e \in Slots
      BY MemoAssumption DEF Entries
    <3>3. e.value \in Results
      BY <3>2 DEF Slots
    <3> QED
      BY <1>3, <2>2, <3>1, <3>3 DEF Get, Labels
  <2> QED
    BY <2>1, <2>2
<1>4. ASSUME NEW p \in Callers, Compute(p) PROVE Shape'
  BY <1>4 DEF Compute, Labels, Results
<1>5. ASSUME NEW p \in Callers, Insert(p) PROVE Shape'
  <2> DEFINE s == ShardOf[key[p]]
  <2>1. s \in Shards
    BY MemoAssumption
  <2>2. Entry(p) \in Slots
    BY DEF Entry, Slots
  <2>3. Stored(table[s], Entry(p)) \in SUBSET Slots
    BY <2>1, <2>2, StoredSubset
  <2> QED
    BY <1>5, <2>1, <2>3 DEF Insert, Labels
<1>6. ASSUME NEW p \in Callers, Return(p) PROVE Shape'
  BY <1>6 DEF Return, Labels
<1> QED
  BY <1>1, <1>2, <1>3, <1>4, <1>5, <1>6 DEF Next

\* Only Insert changes the table, and only the shard of its caller's key.
LEMMA TableStep ==
    ASSUME Shape, Next, table' # table
    PROVE  \E p \in Callers :
              /\ pc[p] = "insert" /\ ShardOf[key[p]] \in Shards
              /\ table' = [table EXCEPT ![ShardOf[key[p]]] = Stored(@, Entry(p))]
<1>1. PICK p \in Callers : Insert(p)
  BY DEF Next, Call, Get, Compute, Return
<1> QED
  BY <1>1, MemoAssumption DEF Insert, Shape

LEMMA SoundStep ==
    ASSUME Shape, SoundEntries, SoundResults, [Next]_vars
    PROVE  SoundEntries' /\ SoundResults'
<1>1. SoundEntries'
  <2>1. CASE table' = table
    BY <2>1 DEF SoundEntries
  <2>2. CASE table' # table
    <3>1. PICK p \in Callers :
             /\ pc[p] = "insert" /\ ShardOf[key[p]] \in Shards
             /\ table' = [table EXCEPT ![ShardOf[key[p]]] = Stored(@, Entry(p))]
      BY <2>2, TableStep DEF vars
    <3>2. Entry(p).key = key[p] /\ Entry(p).value = Computed(key[p])
      BY <3>1 DEF SoundResults, Entry
    <3>3. ASSUME NEW s \in Shards, NEW e \in table'[s]
          PROVE  ShardOf[e.key] = s /\ e.value = Computed(e.key)
      <4>1. CASE s # ShardOf[key[p]]
        BY <3>1, <3>3, <4>1 DEF Shape, SoundEntries
      <4>2. CASE s = ShardOf[key[p]]
        <5>1. e \in Stored(table[s], Entry(p))
          BY <3>1, <3>3, <4>2 DEF Shape
        <5>2. e \in table[s] \/ e = Entry(p)
          BY <5>1, StoredSubset
        <5> QED
          BY <3>2, <4>2, <5>2 DEF SoundEntries
      <4> QED
        BY <4>1, <4>2
    <3> QED
      BY <3>3 DEF SoundEntries
  <2> QED
    BY <2>1, <2>2
<1>2. SoundResults'
  <2> USE DEF Goto, Shape
  <2>1. CASE UNCHANGED vars
    BY <2>1 DEF vars, SoundResults
  <2>2. ASSUME NEW p \in Callers, NEW k \in Keys, Call(p, k) PROVE SoundResults'
    BY <2>2 DEF Call, SoundResults
  <2>3. ASSUME NEW p \in Callers, Get(p) PROVE SoundResults'
    <3>1. CASE Entries(key[p]) = {}
      BY <2>3, <3>1 DEF Get, SoundResults
    <3>2. CASE Entries(key[p]) # {}
      <4>1. PICK e \in Entries(key[p]) : result' = [result EXCEPT ![p] = e.value]
        BY <2>3, <3>2 DEF Get
      <4>2. e.value = Computed(key[p])
        BY MemoAssumption DEF Entries, SoundEntries
      <4> QED
        BY <2>3, <3>2, <4>1, <4>2 DEF Get, SoundResults
    <3> QED
      BY <3>1, <3>2
  <2>4. ASSUME NEW p \in Callers, Compute(p) PROVE SoundResults'
    BY <2>4 DEF Compute, SoundResults
  <2>5. ASSUME NEW p \in Callers, Insert(p) PROVE SoundResults'
    BY <2>5 DEF Insert, SoundResults
  <2>6. ASSUME NEW p \in Callers, Return(p) PROVE SoundResults'
    BY <2>6 DEF Return, SoundResults
  <2> QED
    BY <2>1, <2>2, <2>3, <2>4, <2>5, <2>6 DEF Next
<1> QED
  BY <1>1, <1>2


LEMMA OneEntryStep ==
    ASSUME Shape, OneEntryPerKey, [Next]_vars
    PROVE  OneEntryPerKey'
<1>1. CASE table' = table
  BY <1>1 DEF OneEntryPerKey
<1>2. CASE table' # table
  <2>1. PICK p \in Callers :
           /\ ShardOf[key[p]] \in Shards
           /\ table' = [table EXCEPT ![ShardOf[key[p]]] = Stored(@, Entry(p))]
    BY <1>2, TableStep DEF vars
  <2>2. ASSUME NEW s \in Shards, NEW d \in table'[s], NEW e \in table'[s], d.key = e.key
        PROVE  d = e
    <3>1. CASE s # ShardOf[key[p]]
      BY <2>1, <2>2, <3>1 DEF Shape, OneEntryPerKey
    <3>2. CASE s = ShardOf[key[p]]
      <4>1. d \in Stored(table[s], Entry(p)) /\ e \in Stored(table[s], Entry(p))
        BY <2>1, <2>2, <3>2 DEF Shape
      <4>2. CASE d.key = Entry(p).key
        BY <2>2, <4>1, <4>2, StoredReplaces
      <4>3. CASE d.key # Entry(p).key
        <5>1. d \in table[s] /\ e \in table[s]
          BY <2>2, <4>1, <4>3, StoredSubset
        <5> QED
          BY <2>2, <5>1 DEF OneEntryPerKey
      <4> QED
        BY <4>2, <4>3
    <3> QED
      BY <3>1, <3>2
  <2> QED
    BY <2>2 DEF OneEntryPerKey
<1> QED
  BY <1>1, <1>2

LEMMA BoundedStep ==
    ASSUME Shape, Bounded, [Next]_vars
    PROVE  Bounded'
<1>1. CASE table' = table
  BY <1>1 DEF Bounded
<1>2. CASE table' # table
  <2>1. PICK p \in Callers :
           /\ ShardOf[key[p]] \in Shards
           /\ table' = [table EXCEPT ![ShardOf[key[p]]] = Stored(@, Entry(p))]
    BY <1>2, TableStep DEF vars
  <2>2. ASSUME NEW s \in Shards
        PROVE  IsFiniteSet(table'[s]) /\ Cardinality(table'[s]) <= EntriesPerShard
    <3>1. CASE s # ShardOf[key[p]]
      BY <2>1, <3>1 DEF Shape, Bounded
    <3>2. CASE s = ShardOf[key[p]]
      <4>1. table'[s] = Stored(table[s], Entry(p))
        BY <2>1, <3>2 DEF Shape
      <4>2. IsFiniteSet(table[s]) /\ Cardinality(table[s]) <= EntriesPerShard
        BY DEF Bounded
      <4> QED
        BY <4>1, <4>2, StoredBounded
    <3> QED
      BY <3>1, <3>2
  <2> QED
    BY <2>2 DEF Bounded
<1> QED
  BY <1>1, <1>2

IInv == Shape /\ SoundEntries /\ SoundResults /\ OneEntryPerKey /\ Bounded

LEMMA IInvInit == Init => IInv
<1> SUFFICES ASSUME Init PROVE IInv
  OBVIOUS
<1>1. Shape
  BY DEF Init, Shape, Labels, Results
<1>2. SoundEntries /\ SoundResults /\ OneEntryPerKey
  BY DEF Init, SoundEntries, SoundResults, OneEntryPerKey
<1>3. Bounded
  <2>1. IsFiniteSet({}) /\ Cardinality({}) = 0
    BY FS_EmptySet
  <2> QED
    BY <2>1, MemoAssumption DEF Init, Bounded
<1> QED
  BY <1>1, <1>2, <1>3 DEF IInv

LEMMA IInvStep == IInv /\ [Next]_vars => IInv'
  BY ShapeStep, SoundStep, OneEntryStep, BoundedStep DEF IInv

LEMMA Inductive == Spec => []IInv
  BY IInvInit, IInvStep, PTL DEF Spec

-----------------------------------------------------------------------------
\* The state is well-typed and every entry is in the shard its key hashes to.
THEOREM TypeCorrect == Spec => []TypeOK
<1>1. IInv => TypeOK
  BY MemoAssumption DEF IInv, Shape, SoundEntries, TypeOK, Labels, Slots
<1> QED
  BY <1>1, Inductive, PTL

\* insert replaces: callers that missed on the same key together leave one entry.
THEOREM NoDuplicates == Spec => []OneEntryPerKey
<1>1. IInv => OneEntryPerKey
  BY DEF IInv
<1> QED
  BY <1>1, Inductive, PTL

\* The memo never outgrows its bound, whatever the number of callers.
THEOREM SizeBounded == Spec => []Bounded
<1>1. IInv => Bounded
  BY DEF IInv
<1> QED
  BY <1>1, Inductive, PTL

\* Entries leave a shard only when a new key finds it full, or replaced by
\* their own key; the other shards keep theirs.
THEOREM EvictionOnlyForRoom == Spec => EvictsOnlyForRoom
<1> DEFINE Lost(s) == ~({e.key : e \in table[s]} \subseteq {e.key : e \in table'[s]})
           Room(s) == /\ Cardinality(table[s]) >= EntriesPerShard
                      /\ \E e \in table'[s] : \A d \in table[s] : d.key # e.key
                      /\ \A r \in Shards \ {s} : table'[r] = table[r]
<1>1. ASSUME IInv, [Next]_vars, NEW s \in Shards, Lost(s) PROVE Room(s)
  <2>1. table' # table
    BY <1>1
  <2>2. PICK p \in Callers :
           /\ ShardOf[key[p]] \in Shards
           /\ table' = [table EXCEPT ![ShardOf[key[p]]] = Stored(@, Entry(p))]
    BY <1>1, <2>1, TableStep DEF vars, IInv
  <2>3. s = ShardOf[key[p]]
    BY <1>1, <2>2 DEF IInv, Shape
  <2>4. table'[s] = Stored(table[s], Entry(p))
    BY <2>2, <2>3, <1>1 DEF IInv, Shape
  <2>5. \A r \in Shards \ {s} : table'[r] = table[r]
    BY <2>2, <2>3, <1>1 DEF IInv, Shape
  <2>6. Keyed(table[s], Entry(p).key) = {}
    <3>1. SUFFICES ASSUME Keyed(table[s], Entry(p).key) # {}
                   PROVE  \A d \in table[s] : \E e \in table'[s] : e.key = d.key
      BY <1>1
    <3>2. table'[s] = (table[s] \ Keyed(table[s], Entry(p).key)) \cup {Entry(p)}
      BY <2>4, <3>1 DEF Stored
    <3> QED
      BY <3>2 DEF Keyed
  <2>7. Full(table[s])
    <3>1. SUFFICES ASSUME ~Full(table[s]) PROVE table[s] \subseteq table'[s]
      BY <1>1
    <3> QED
      BY <2>4, <2>6, <3>1 DEF Stored
  <2>8. Entry(p) \in table'[s]
    BY <2>4, StoredSubset
  <2> QED
    BY <2>5, <2>6, <2>7, <2>8 DEF Full, Keyed
<1>2. IInv /\ [Next]_vars => [\A s \in Shards : Lost(s) => Room(s)]_vars
  BY <1>1
<1> QED
  BY <1>2, Inductive, PTL DEF Spec, EvictsOnlyForRoom

-----------------------------------------------------------------------------
(* The memo implements the service that just calls the function.             *)

\* Every step of a caller is one of the service's, or hidden from it: a miss,
\* and a value computed but not yet stored, are not seen.
LEMMA ServiceStep ==
    ASSUME IInv, [Next]_vars
    PROVE  [Service!Next]_calls
<1> USE DEF IInv, Shape, Goto, calls, CallOf, Labels
<1>1. CASE UNCHANGED vars
  BY <1>1 DEF vars
<1>2. ASSUME NEW p \in Callers, NEW k \in Keys, Call(p, k) PROVE Service!Begin(p, k)
  BY <1>2 DEF Call, Service!Begin, Service!Pending
<1>3. ASSUME NEW p \in Callers, pc[p] # "idle", pc[p] # "done", key' = key,
             pc' = [pc EXCEPT ![p] = "done"], result' = [result EXCEPT ![p] = Computed(key[p])]
      PROVE  Service!Finish(p, key[p])
  BY <1>3 DEF Service!Finish, Service!Pending
<1>4. ASSUME NEW p \in Callers, pc[p] \notin {"idle", "done"}, key' = key,
             \E l \in {"compute", "insert"} : pc' = [pc EXCEPT ![p] = l],
             \A q \in Callers \ {p} : result'[q] = result[q]
      PROVE  UNCHANGED calls
  BY <1>4
<1>5. ASSUME NEW p \in Callers, Get(p) PROVE Service!Finish(p, key[p]) \/ UNCHANGED calls
  <2>1. CASE Entries(key[p]) = {}
    BY <1>4, <1>5, <2>1 DEF Get
  <2>2. CASE Entries(key[p]) # {}
    <3>1. PICK e \in Entries(key[p]) : result' = [result EXCEPT ![p] = e.value]
      BY <1>5, <2>2 DEF Get
    <3>2. e.value = Computed(key[p])
      BY MemoAssumption DEF Entries, SoundEntries
    <3> QED
      BY <1>3, <1>5, <2>2, <3>1, <3>2 DEF Get
  <2> QED
    BY <2>1, <2>2
<1>6. ASSUME NEW p \in Callers, Compute(p) PROVE Service!Finish(p, key[p]) \/ UNCHANGED calls
  <2>1. CASE key[p] \in Failing
    BY <1>3, <1>6, <2>1 DEF Compute
  <2>2. CASE key[p] \notin Failing
    BY <1>4, <1>6, <2>2 DEF Compute
  <2> QED
    BY <2>1, <2>2
<1>7. ASSUME NEW p \in Callers, Insert(p) PROVE Service!Finish(p, key[p])
  <2>1. result[p] = Computed(key[p])
    BY <1>7 DEF Insert, SoundResults
  <2>2. result' = [result EXCEPT ![p] = Computed(key[p])]
    BY <1>7, <2>1 DEF Insert
  <2> QED
    BY <1>3, <1>7, <2>2 DEF Insert
<1>8. ASSUME NEW p \in Callers, Return(p) PROVE Service!Leave(p)
  BY <1>8 DEF Return, Service!Leave
<1> HIDE DEF IInv, Shape, Goto, calls, CallOf, Labels
<1>9. CASE Next
  <2>1. PICK p \in Callers :
           (\E k \in Keys : Call(p, k)) \/ Get(p) \/ Compute(p) \/ Insert(p) \/ Return(p)
    BY <1>9 DEF Next
  <2>2. key[p] \in Keys
    BY DEF IInv, Shape
  <2>3. Service!Next \/ UNCHANGED calls
    BY <1>2, <1>5, <1>6, <1>7, <1>8, <2>1, <2>2 DEF Service!Next
  <2> QED
    BY <2>3
<1> QED
  BY <1>1, <1>9

\* memo.rs: "eviction costs time and never yields a wrong result".
THEOREM Implements == Spec => ServesTheFunction
<1>1. Init => Service!Init
  BY DEF Init, Service!Init, calls
<1>2. IInv /\ [Next]_vars => [Service!Next]_calls
  BY ServiceStep
<1> QED
  BY <1>1, <1>2, Inductive, PTL DEF Spec, ServesTheFunction, Service!Spec

=============================================================================
