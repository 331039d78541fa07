------------------------------- MODULE ShardedMemo -------------------------------
(***************************************************************************)
(* ShardedMemo (src/jsonld-core/src/context/memo.rs) with the concurrent   *)
(* callers that use it as compact_iri does: get, on a miss compute, insert.*)
(* Each shard is a hash table behind its own lock; get and insert are      *)
(* atomic, what happens between them is not.                               *)
(***************************************************************************)
EXTENDS Naturals, FiniteSets

CONSTANTS
    Callers,
    Keys,
    Shards,
    ShardOf,          \* the shard a key's hash selects
    EntriesPerShard,  \* ENTRIES_PER_SHARD
    Value(_),         \* the function being memoised
    Failing,          \* keys whose computation returns an error
    NoResult, Failure

ASSUME MemoAssumption ==
    /\ ShardOf \in [Keys -> Shards]
    /\ EntriesPerShard \in Nat \ {0}
    /\ Failing \subseteq Keys
    /\ NoResult # Failure
    /\ \A k \in Keys : Value(k) \notin {NoResult, Failure}

VARIABLES
    table,   \* shard -> the slots in use of its hash table: [key, value, by]
    pc,      \* caller -> "idle", "get", "compute", "insert" or "done"
    key,     \* caller -> the key of its call
    result   \* caller -> what the call has obtained so far

vars == <<table, pc, key, result>>

Computed(k) == IF k \in Failing THEN Failure ELSE Value(k)
Entries(k) == {e \in table[ShardOf[k]] : e.key = k}

\* What a caller inserts: each has computed a value object of its own.
Entry(p) == [key |-> key[p], value |-> result[p], by |-> p]

Init ==
    /\ table = [s \in Shards |-> {}]
    /\ pc = [p \in Callers |-> "idle"]
    /\ key \in [Callers -> Keys]
    /\ result = [p \in Callers |-> NoResult]

Goto(p, label) == pc' = [pc EXCEPT ![p] = label]

Call(p, k) ==
    /\ pc[p] = "idle"
    /\ Goto(p, "get")
    /\ key' = [key EXCEPT ![p] = k]
    /\ result' = [result EXCEPT ![p] = NoResult]
    /\ UNCHANGED table

\* Mutant: the probe trusts the shard and does not compare keys.
Get_AnyKey(p) ==
    /\ pc[p] = "get"
    /\ IF table[ShardOf[key[p]]] = {}
       THEN Goto(p, "compute") /\ UNCHANGED result
       ELSE /\ \E e \in table[ShardOf[key[p]]] : result' = [result EXCEPT ![p] = e.value]
            /\ Goto(p, "done")
    /\ UNCHANGED <<table, key>>

\* `get`: under the shard's lock, clone the value whose key is equal.  Before the
\* first insert there are no shards and nothing is found.
Get(p) ==
    /\ pc[p] = "get"
    /\ IF Entries(key[p]) = {}
       THEN Goto(p, "compute") /\ UNCHANGED result
       ELSE /\ \E e \in Entries(key[p]) : result' = [result EXCEPT ![p] = e.value]
            /\ Goto(p, "done")
    /\ UNCHANGED <<table, key>>

\* The caller computes without holding any lock; an error is returned, not stored.
Compute(p) ==
    /\ pc[p] = "compute"
    /\ result' = [result EXCEPT ![p] = Computed(key[p])]
    /\ Goto(p, IF key[p] \in Failing THEN "done" ELSE "insert")
    /\ UNCHANGED <<table, key>>

Keyed(shard, k) == {e \in shard : e.key = k}
Full(shard) == Cardinality(shard) >= EntriesPerShard

\* Mutant: the entry is added without looking for the key again.
Stored_Twice(shard, e) == (IF Full(shard) THEN {} ELSE shard) \cup {e}

\* Mutant: the length is tested before the key is looked for.
Stored_ClearsEarly(shard, e) == (IF Full(shard) THEN {} ELSE shard \ Keyed(shard, e.key)) \cup {e}

\* Mutant: a full shard accepts one more entry before it is cleared.
Stored_OneTooMany(shard, e) ==
    IF Keyed(shard, e.key) # {}
    THEN (shard \ Keyed(shard, e.key)) \cup {e}
    ELSE (IF Cardinality(shard) > EntriesPerShard THEN {} ELSE shard) \cup {e}

\* What `insert` leaves in a shard: the value of a key already there is replaced,
\* a new key first clears a full shard.
Stored(shard, e) ==
    IF Keyed(shard, e.key) # {}
    THEN (shard \ Keyed(shard, e.key)) \cup {e}
    ELSE (IF Full(shard) THEN {} ELSE shard) \cup {e}

Insert(p) ==
    /\ pc[p] = "insert"
    /\ LET s == ShardOf[key[p]]
       IN  table' = [table EXCEPT ![s] = Stored(@, Entry(p))]
    /\ Goto(p, "done")
    /\ UNCHANGED <<key, result>>

Return(p) ==
    /\ pc[p] = "done"
    /\ Goto(p, "idle")
    /\ UNCHANGED <<table, key, result>>

Next == \E p \in Callers :
    (\E k \in Keys : Call(p, k)) \/ Get(p) \/ Compute(p) \/ Insert(p) \/ Return(p)

Spec == Init /\ [][Next]_vars

-----------------------------------------------------------------------------
TypeOK ==
    /\ \A s \in Shards : \A e \in table[s] : e.key \in Keys /\ ShardOf[e.key] = s
    /\ DOMAIN table = Shards
    /\ pc \in [Callers -> {"idle", "get", "compute", "insert", "done"}]
    /\ key \in [Callers -> Keys]
    /\ DOMAIN result = Callers

\* One entry per key, although two callers may miss on it together and both insert.
OneEntryPerKey == \A s \in Shards : \A d, e \in table[s] : d.key = e.key => d = e

\* memo.rs MAX_ENTRIES: no shard outgrows its share, however inserts interleave.
Bounded == \A s \in Shards : IsFiniteSet(table[s]) /\ Cardinality(table[s]) <= EntriesPerShard

\* Only a new key in a full shard evicts, and only that shard's entries.
EvictsOnlyForRoom ==
    [][\A s \in Shards :
          ~({e.key : e \in table[s]} \subseteq {e.key : e \in table'[s]}) =>
             /\ Cardinality(table[s]) >= EntriesPerShard
             /\ \E e \in table'[s] : \A d \in table[s] : d.key # e.key
             /\ \A r \in Shards \ {s} : table'[r] = table[r]]_vars

\* A miss recomputes a deterministic function, so eviction costs time and never
\* yields a wrong result (memo.rs): callers see the function itself.
CallOf(p) == [argument |-> key[p],
              result |-> IF pc[p] = "done" THEN result[p] ELSE NoResult]

calls == [p \in Callers |-> IF pc[p] = "idle" THEN {} ELSE {CallOf(p)}]

Service == INSTANCE PureService
    WITH Arguments <- Keys, Result <- Computed, call <- calls

ServesTheFunction == Service!Spec

=============================================================================
