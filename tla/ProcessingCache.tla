----------------------------- MODULE ProcessingCache -----------------------------
(***************************************************************************)
(* The per-document memo of context processing                             *)
(* (src/jsonld-context-processing/src/cache.rs and process_full_with_cache *)
(* in algorithm/mod.rs).  Calls overlap: the cache is locked for a lookup  *)
(* and for an insert, and the algorithm runs, and may await a loader, in   *)
(* between.                                                                *)
(*                                                                         *)
(* A context is identified by the address of its definitions, which the    *)
(* allocator reuses once the last Arc to them is gone.  The address of the *)
(* previous context is treated by the code exactly as that of the          *)
(* definitions and is not modelled apart.  An input is everything else a   *)
(* hit compares by value: the local context, the base URL, the options and *)
(* the active context's scalar fields.                                     *)
(***************************************************************************)
EXTENDS Naturals, FiniteSets, Functions

CONSTANTS
    Tasks,         \* callers, each with an active context of its own
    Addresses,     \* where definitions may be allocated
    Values,        \* contents of a Definitions object
    NewValue,      \* those of an empty one
    Inputs,        \* local context, base URL, options, scalar fields
    Apply(_, _),   \* the definitions processing an input produces
    Failing,       \* inputs whose processing returns an error
    HashKeys,
    Hash,          \* cache_key: address and input to a 64-bit hash
    Nothing        \* no address, no result yet

ASSUME CacheAssumption ==
    /\ NewValue \in Values
    /\ Failing \subseteq Inputs
    /\ Hash \in [Addresses \X Inputs -> HashKeys]
    /\ \A v \in Values, i \in Inputs : Apply(v, i) \in Values
    /\ Nothing \notin Addresses \cup Values

VARIABLES
    heap,      \* contents of the definitions at each address
    active,    \* task -> address of its active context's definitions
    pc,        \* task -> "idle", "lookup", "process", "insert" or "done"
    input,     \* task -> the input of its call
    result,    \* task -> address of the definitions its call obtained
    entries    \* hash key -> [active, input, result]

vars == <<heap, active, pc, input, result, entries>>

Entry == [active : Addresses, input : Inputs, result : Addresses]

\* Mutant: an entry keeps the address of its active context but not the Arc.
Pinned_ByResultOnly(act, res, cached) ==
    Range(act) \cup Range(res) \cup {cached[h].result : h \in DOMAIN cached}

\* Addresses some Arc keeps alive: those of the tasks' contexts, and of the two
\* contexts every cache entry owns.
Pinned(act, res, cached) ==
    Range(act) \cup Range(res)
        \cup {cached[h].active : h \in DOMAIN cached} \cup {cached[h].result : h \in DOMAIN cached}

FreeAddresses == Addresses \ Pinned(active, result, entries)
FreshAddress == CHOOSE a \in FreeAddresses : TRUE

\* The next state, with the memory behind unreferenced addresses released.
Commit(objects, act, res, cached) ==
    /\ heap' = [a \in Addresses |-> IF a \in Pinned(act, res, cached) THEN objects[a] ELSE NewValue]
    /\ active' = act
    /\ result' = res
    /\ entries' = cached

Goto(t, label) == pc' = [pc EXCEPT ![t] = label]

Init ==
    /\ heap = [a \in Addresses |-> NewValue]
    /\ active \in [Tasks -> Addresses] /\ \A s, t \in Tasks : active[s] = active[t]
    /\ pc = [t \in Tasks |-> "idle"]
    /\ input \in [Tasks -> Inputs] /\ \A s, t \in Tasks : input[s] = input[t]
    /\ result = [t \in Tasks |-> Nothing]
    /\ entries = [h \in {} |-> Nothing]

-----------------------------------------------------------------------------
(* The calls.                                                                *)

Call(t, i) ==
    /\ pc[t] = "idle"
    /\ Goto(t, "lookup")
    /\ input' = [input EXCEPT ![t] = i]
    /\ Commit(heap, active, [result EXCEPT ![t] = Nothing], entries)

\* Mutant: the hash is trusted.
Matches_ByHash(e, t) == TRUE

\* CacheEntry::matches
Matches(e, t) == e.active = active[t] /\ e.input = input[t]

Key(t) == Hash[<<active[t], input[t]>>]

\* ProcessingCache::get; a colliding entry reads as a miss.
Lookup(t) ==
    /\ pc[t] = "lookup"
    /\ IF Key(t) \in DOMAIN entries /\ Matches(entries[Key(t)], t)
       THEN /\ Goto(t, "done")
            /\ Commit(heap, active, [result EXCEPT ![t] = entries[Key(t)].result], entries)
       ELSE /\ Goto(t, "process")
            /\ Commit(heap, active, result, entries)
    /\ UNCHANGED input

\* The algorithm works on a clone of the active context, which it copies on the
\* first write.  An error leaves the call with nothing to insert.
Process(t) ==
    /\ pc[t] = "process" /\ input[t] \notin Failing
    /\ LET v == Apply(heap[active[t]], input[t])
           a == IF v = heap[active[t]] THEN active[t] ELSE FreshAddress
       IN  /\ v # heap[active[t]] => FreeAddresses # {}
           /\ Commit([heap EXCEPT ![a] = v], active, [result EXCEPT ![t] = a], entries)
    /\ Goto(t, "insert")
    /\ UNCHANGED input

\* Processing fails, or the caller drops the future while a loader is awaited.
Abandon(t) ==
    /\ pc[t] = "process"
    /\ Goto(t, "idle")
    /\ Commit(heap, active, result, entries)
    /\ UNCHANGED input

\* ProcessingCache::insert: whatever occupied the key is overwritten.
Insert(t) ==
    /\ pc[t] = "insert"
    /\ LET e == [active |-> active[t], input |-> input[t], result |-> result[t]]
           kept == DOMAIN entries \ {Key(t)}
       IN  Commit(heap, active, result,
                  [h \in kept \cup {Key(t)} |-> IF h \in kept THEN entries[h] ELSE e])
    /\ Goto(t, "done")
    /\ UNCHANGED input

\* The call returns; its result may become the active context of what follows.
Return(t, adopt) ==
    /\ pc[t] = "done"
    /\ Goto(t, "idle")
    /\ Commit(heap, IF adopt THEN [active EXCEPT ![t] = result[t]] ELSE active,
              [result EXCEPT ![t] = Nothing], entries)
    /\ UNCHANGED input

-----------------------------------------------------------------------------
(* What callers do between calls.                                            *)

\* Mutant: definitions are changed where they are.
MakeMut_InPlace(t) == active[t]

\* Arc::make_mut, on the task's own context.
Sharers(t) == {s \in Tasks \ {t} : active[s] = active[t]}
                  \cup {s \in Tasks : result[s] = active[t]}
                  \cup {h \in DOMAIN entries : active[t] \in {entries[h].active, entries[h].result}}
MakeMut(t) == IF Sharers(t) = {} THEN active[t] ELSE FreshAddress

Mutate(t, v) ==
    /\ pc[t] = "idle" /\ FreeAddresses # {}
    /\ Commit([heap EXCEPT ![MakeMut(t)] = v], [active EXCEPT ![t] = MakeMut(t)], result, entries)
    /\ UNCHANGED <<pc, input>>

\* The active context is dropped for a new, empty one.
Reset(t) ==
    /\ pc[t] = "idle" /\ FreeAddresses # {}
    /\ Commit([heap EXCEPT ![FreshAddress] = NewValue], [active EXCEPT ![t] = FreshAddress],
              result, entries)
    /\ UNCHANGED <<pc, input>>

\* ProcessingCache::clear
Clear ==
    /\ entries # [h \in {} |-> Nothing]
    /\ Commit(heap, active, result, [h \in {} |-> Nothing])
    /\ UNCHANGED <<pc, input>>

Next ==
    \/ \E t \in Tasks :
          \/ \E i \in Inputs : Call(t, i)
          \/ Lookup(t) \/ Process(t) \/ Abandon(t) \/ Insert(t)
          \/ \E adopt \in BOOLEAN : Return(t, adopt)
          \/ \E v \in Values : Mutate(t, v)
          \/ Reset(t)
    \/ Clear

Spec == Init /\ [][Next]_vars

-----------------------------------------------------------------------------
TypeOK ==
    /\ heap \in [Addresses -> Values]
    /\ active \in [Tasks -> Addresses]
    /\ pc \in [Tasks -> {"idle", "lookup", "process", "insert", "done"}]
    /\ input \in [Tasks -> Inputs]
    /\ result \in [Tasks -> Addresses \cup {Nothing}]
    /\ \A t \in Tasks : pc[t] \in {"insert", "done"} => result[t] # Nothing
    /\ DOMAIN entries \subseteq HashKeys
    /\ \A h \in DOMAIN entries : entries[h] \in Entry /\ entries[h].input \notin Failing

\* What an entry remembers stays true for as long as it is there: the contents
\* at the addresses it names are those it was made from (cache.rs, "Hit
\* verification": no reuse of an address, no write through a shared one).
EntriesSound ==
    \A h \in DOMAIN entries :
        LET e == entries[h] IN heap[e.result] = Apply(heap[e.active], e.input)

\* Callers cannot tell the cache from the algorithm: every call that returns
\* gives what processing its input under its active context gives, whatever the
\* other tasks insert, overwrite, clear or free while it waits.
Outcome(argument) == Apply(argument[1], argument[2])

CallOf(t) == [argument |-> <<heap[active[t]], input[t]>>,
              result |-> IF pc[t] = "done" THEN heap[result[t]] ELSE Nothing]

calls == [t \in Tasks |-> IF pc[t] = "idle" THEN {} ELSE {CallOf(t)}]

Algorithm == INSTANCE PureService
    WITH Callers <- Tasks, Arguments <- Values \X Inputs, Result <- Outcome, NoResult <- Nothing,
         call <- calls

ServesTheAlgorithm == Algorithm!Spec

=============================================================================
