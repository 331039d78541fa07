------------------------- MODULE ProcessingCacheProofs -------------------------
(***************************************************************************)
(* Proofs about ProcessingCache, for any number of tasks, any memory, any  *)
(* hash function and any algorithm that is a function of what a hit        *)
(* compares.                                                               *)
(***************************************************************************)
EXTENDS ProcessingCache, TLAPS

Labels == {"idle", "lookup", "process", "insert", "done"}

Shape ==
    /\ heap \in [Addresses -> Values]
    /\ active \in [Tasks -> Addresses]
    /\ pc \in [Tasks -> Labels]
    /\ input \in [Tasks -> Inputs]
    /\ result \in [Tasks -> Addresses \cup {Nothing}]
    /\ DOMAIN entries \subseteq HashKeys
    /\ \A h \in DOMAIN entries : entries[h] \in Entry /\ entries[h].input \notin Failing

\* A call that has its result has the right one, and will not cache a failure.
ResultsSound ==
    \A t \in Tasks : pc[t] \in {"insert", "done"} =>
        /\ result[t] # Nothing
        /\ heap[result[t]] = Apply(heap[active[t]], input[t])
        /\ input[t] \notin Failing

IInv == Shape /\ EntriesSound /\ ResultsSound

-----------------------------------------------------------------------------
(* Memory.                                                                   *)

\* What is referenced in the next state survives Commit.
LEMMA CommitKeeps ==
    ASSUME NEW objects \in [Addresses -> Values],
           NEW act \in [Tasks -> Addresses],
           NEW res \in [Tasks -> Addresses \cup {Nothing}],
           NEW cached, \A h \in DOMAIN cached : cached[h] \in Entry,
           Commit(objects, act, res, cached)
    PROVE  /\ heap' \in [Addresses -> Values]
           /\ active' = act /\ result' = res /\ entries' = cached
           /\ \A t \in Tasks : heap'[act[t]] = objects[act[t]]
           /\ \A t \in Tasks : res[t] # Nothing => heap'[res[t]] = objects[res[t]]
           /\ \A h \in DOMAIN cached : /\ heap'[cached[h].active] = objects[cached[h].active]
                                       /\ heap'[cached[h].result] = objects[cached[h].result]
<1>1. /\ heap' = [a \in Addresses |-> IF a \in Pinned(act, res, cached) THEN objects[a] ELSE NewValue]
      /\ active' = act /\ result' = res /\ entries' = cached
  BY DEF Commit
<1>2. ASSUME NEW a \in Addresses, a \in Pinned(act, res, cached) PROVE heap'[a] = objects[a]
  BY <1>1, <1>2
<1>3. ASSUME NEW t \in Tasks
      PROVE  /\ act[t] \in Pinned(act, res, cached)
             /\ res[t] \in Pinned(act, res, cached)
  BY DEF Pinned, Range
<1>4. ASSUME NEW h \in DOMAIN cached
      PROVE  /\ cached[h].active \in Addresses /\ cached[h].active \in Pinned(act, res, cached)
             /\ cached[h].result \in Addresses /\ cached[h].result \in Pinned(act, res, cached)
  BY DEF Pinned, Entry
<1>5. heap' \in [Addresses -> Values]
  BY <1>1, CacheAssumption
<1>6. \A t \in Tasks : heap'[act[t]] = objects[act[t]]
  BY <1>2, <1>3
<1>7. \A t \in Tasks : res[t] # Nothing => heap'[res[t]] = objects[res[t]]
  BY <1>2, <1>3
<1>8. \A h \in DOMAIN cached : /\ heap'[cached[h].active] = objects[cached[h].active]
                               /\ heap'[cached[h].result] = objects[cached[h].result]
  BY <1>2, <1>4
<1> QED
  BY <1>1, <1>5, <1>6, <1>7, <1>8

\* The allocator returns nothing that is referenced.
LEMMA FreshUnreferenced ==
    ASSUME FreeAddresses # {}
    PROVE  /\ FreshAddress \in Addresses
           /\ FreshAddress \notin Pinned(active, result, entries)
  BY DEF FreshAddress, FreeAddresses

\* A write to fresh memory changes nothing that is referenced.
LEMMA FreshWrite ==
    ASSUME Shape, NEW v \in Values, FreeAddresses # {}
    PROVE  LET objects == [heap EXCEPT ![FreshAddress] = v]
           IN  /\ objects \in [Addresses -> Values]
               /\ objects[FreshAddress] = v
               /\ \A t \in Tasks : objects[active[t]] = heap[active[t]]
               /\ \A t \in Tasks : result[t] # Nothing => objects[result[t]] = heap[result[t]]
               /\ \A h \in DOMAIN entries : /\ objects[entries[h].active] = heap[entries[h].active]
                                            /\ objects[entries[h].result] = heap[entries[h].result]
<1>1. /\ FreshAddress \in Addresses
      /\ FreshAddress \notin Pinned(active, result, entries)
  BY FreshUnreferenced
<1>2. \A t \in Tasks : active[t] # FreshAddress /\ result[t] # FreshAddress
  BY <1>1 DEF Pinned, Range, Shape
<1>3. \A h \in DOMAIN entries : entries[h].active # FreshAddress /\ entries[h].result # FreshAddress
  BY <1>1 DEF Pinned
<1> QED
  BY <1>1, <1>2, <1>3 DEF Shape, Entry

\* Arc::make_mut writes where nobody else looks.
LEMMA MutateWrite ==
    ASSUME Shape, NEW t \in Tasks, NEW v \in Values, FreeAddresses # {}
    PROVE  LET objects == [heap EXCEPT ![MakeMut(t)] = v]
           IN  /\ MakeMut(t) \in Addresses
               /\ objects \in [Addresses -> Values]
               /\ \A s \in Tasks \ {t} : objects[active[s]] = heap[active[s]]
               /\ \A s \in Tasks : result[s] # Nothing => objects[result[s]] = heap[result[s]]
               /\ \A h \in DOMAIN entries : /\ objects[entries[h].active] = heap[entries[h].active]
                                            /\ objects[entries[h].result] = heap[entries[h].result]
<1>1. CASE Sharers(t) # {}
  <2>1. MakeMut(t) = FreshAddress
    BY <1>1 DEF MakeMut
  <2> QED
    BY <2>1, FreshWrite, FreshUnreferenced
<1>2. CASE Sharers(t) = {}
  <2>1. MakeMut(t) = active[t]
    BY <1>2 DEF MakeMut
  <2>2. /\ \A s \in Tasks \ {t} : active[s] # active[t]
        /\ \A s \in Tasks : result[s] # active[t]
        /\ \A h \in DOMAIN entries : entries[h].active # active[t] /\ entries[h].result # active[t]
    BY <1>2 DEF Sharers
  <2> QED
    BY <2>1, <2>2 DEF Shape, Entry
<1> QED
  BY <1>1, <1>2

-----------------------------------------------------------------------------
(* Steps, by what they do to memory and entries.                             *)

\* What a step leaves of the memory every task and entry refers to.
Undisturbed(s) ==
    /\ active'[s] = active[s] /\ heap'[active'[s]] = heap[active[s]]
    /\ result'[s] = result[s] /\ (result[s] # Nothing => heap'[result[s]] = heap[result[s]])

EntriesKept ==
    /\ entries' = entries
    /\ \A h \in DOMAIN entries : /\ heap'[entries[h].active] = heap[entries[h].active]
                                 /\ heap'[entries[h].result] = heap[entries[h].result]

\* Steps of `t` that insert nothing; the other tasks do not notice.
Elsewhere(t) ==
    /\ Shape' /\ EntriesKept
    /\ \A s \in Tasks \ {t} : Undisturbed(s) /\ pc'[s] = pc[s] /\ input'[s] = input[s]

LEMMA CallStep ==
    ASSUME Shape, NEW t \in Tasks, NEW i \in Inputs, Call(t, i)
    PROVE  Elsewhere(t) /\ pc'[t] = "lookup" /\ input'[t] = i /\ heap'[active'[t]] = heap[active[t]]
<1> DEFINE res == [result EXCEPT ![t] = Nothing]
<1>1. res \in [Tasks -> Addresses \cup {Nothing}]
  BY DEF Shape
<1>2. Commit(heap, active, res, entries) /\ pc' = [pc EXCEPT ![t] = "lookup"] /\ input' = [input EXCEPT ![t] = i]
  BY DEF Call, Goto
<1> HIDE DEF res
<1>3. /\ heap' \in [Addresses -> Values]
      /\ active' = active /\ result' = res /\ entries' = entries
      /\ \A s \in Tasks : heap'[active[s]] = heap[active[s]]
      /\ \A s \in Tasks : res[s] # Nothing => heap'[res[s]] = heap[res[s]]
      /\ \A h \in DOMAIN entries : /\ heap'[entries[h].active] = heap[entries[h].active]
                                   /\ heap'[entries[h].result] = heap[entries[h].result]
  BY <1>1, <1>2, CommitKeeps DEF Shape
<1>4. Shape'
  BY <1>1, <1>2, <1>3 DEF Shape, Labels
<1> QED
  BY <1>2, <1>3, <1>4 DEF Elsewhere, Undisturbed, EntriesKept, Shape, res

LEMMA HitStep ==
    ASSUME IInv, NEW t \in Tasks, Lookup(t), Key(t) \in DOMAIN entries, Matches(entries[Key(t)], t)
    PROVE  /\ Elsewhere(t) /\ pc'[t] = "done" /\ input'[t] = input[t] /\ result'[t] # Nothing
           /\ heap'[active'[t]] = heap[active[t]]
           /\ heap'[result'[t]] = Apply(heap[active[t]], input[t])
           /\ input[t] \notin Failing
<1> DEFINE e == entries[Key(t)]
           res == [result EXCEPT ![t] = e.result]
<1>1. e \in Entry /\ e.active = active[t] /\ e.input = input[t] /\ e.input \notin Failing
      /\ heap[e.result] = Apply(heap[e.active], e.input)
  BY DEF Matches, IInv, Shape, EntriesSound
<1>2. e.result \in Addresses /\ e.result # Nothing
  BY <1>1, CacheAssumption DEF Entry
<1>3. res \in [Tasks -> Addresses \cup {Nothing}]
  BY <1>2 DEF IInv, Shape
<1>4. Commit(heap, active, res, entries) /\ pc' = [pc EXCEPT ![t] = "done"] /\ input' = input
  BY DEF Lookup, Goto
<1>5. res[t] = e.result /\ \A s \in Tasks \ {t} : res[s] = result[s]
  BY DEF IInv, Shape
<1> HIDE DEF res, e
<1>6. /\ heap' \in [Addresses -> Values]
      /\ active' = active /\ result' = res /\ entries' = entries
      /\ \A s \in Tasks : heap'[active[s]] = heap[active[s]]
      /\ \A s \in Tasks : res[s] # Nothing => heap'[res[s]] = heap[res[s]]
      /\ \A h \in DOMAIN entries : /\ heap'[entries[h].active] = heap[entries[h].active]
                                   /\ heap'[entries[h].result] = heap[entries[h].result]
  BY <1>3, <1>4, CommitKeeps DEF IInv, Shape
<1>7. Shape'
  BY <1>3, <1>4, <1>6 DEF IInv, Shape, Labels
<1>8. Elsewhere(t)
  BY <1>4, <1>5, <1>6, <1>7 DEF Elsewhere, Undisturbed, EntriesKept, IInv, Shape
<1>9. pc'[t] = "done" /\ heap'[res[t]] = heap[e.result]
  BY <1>2, <1>4, <1>5, <1>6 DEF IInv, Shape
<1> QED
  BY <1>1, <1>2, <1>4, <1>5, <1>6, <1>8, <1>9

\* A miss, and giving up, change only the program counter.
LEMMA StayStep ==
    ASSUME Shape, NEW t \in Tasks, NEW l \in Labels,
           pc' = [pc EXCEPT ![t] = l], input' = input, Commit(heap, active, result, entries)
    PROVE  Elsewhere(t) /\ Undisturbed(t) /\ pc'[t] = l
<1>1. /\ heap' \in [Addresses -> Values]
      /\ active' = active /\ result' = result /\ entries' = entries
      /\ \A s \in Tasks : heap'[active[s]] = heap[active[s]]
      /\ \A s \in Tasks : result[s] # Nothing => heap'[result[s]] = heap[result[s]]
      /\ \A h \in DOMAIN entries : /\ heap'[entries[h].active] = heap[entries[h].active]
                                   /\ heap'[entries[h].result] = heap[entries[h].result]
  BY CommitKeeps DEF Shape
<1>2. Shape'
  BY <1>1 DEF Shape
<1> QED
  BY <1>1, <1>2 DEF Elsewhere, Undisturbed, EntriesKept, Shape

LEMMA ProcessStep ==
    ASSUME IInv, NEW t \in Tasks, Process(t)
    PROVE  /\ Elsewhere(t) /\ pc'[t] = "insert" /\ input'[t] = input[t] /\ result'[t] # Nothing
           /\ heap'[active'[t]] = heap[active[t]]
           /\ heap'[result'[t]] = Apply(heap[active[t]], input[t])
           /\ input[t] \notin Failing
<1> DEFINE v == Apply(heap[active[t]], input[t])
           a == IF v = heap[active[t]] THEN active[t] ELSE FreshAddress
           objects == [heap EXCEPT ![a] = v]
           res == [result EXCEPT ![t] = a]
<1>1. /\ v # heap[active[t]] => FreeAddresses # {}
      /\ Commit(objects, active, res, entries)
      /\ pc' = [pc EXCEPT ![t] = "insert"] /\ input' = input /\ input[t] \notin Failing
  BY DEF Process, Goto
<1>2. v \in Values
  BY CacheAssumption DEF IInv, Shape
<1>3. /\ a \in Addresses
      /\ objects \in [Addresses -> Values]
      /\ objects[a] = v
      /\ \A s \in Tasks : objects[active[s]] = heap[active[s]]
      /\ \A s \in Tasks : result[s] # Nothing => objects[result[s]] = heap[result[s]]
      /\ \A h \in DOMAIN entries : /\ objects[entries[h].active] = heap[entries[h].active]
                                   /\ objects[entries[h].result] = heap[entries[h].result]
  <2>1. CASE v = heap[active[t]]
    <3>1. a = active[t] /\ objects = heap
      BY <2>1 DEF IInv, Shape
    <3> QED
      BY <2>1, <3>1 DEF IInv, Shape
  <2>2. CASE v # heap[active[t]]
    <3>1. FreeAddresses # {} /\ a = FreshAddress
      BY <1>1, <2>2
    <3> QED
      BY <1>2, <3>1, FreshWrite, FreshUnreferenced DEF IInv
  <2> QED
    BY <2>1, <2>2
<1>4. a # Nothing
  BY <1>3, CacheAssumption
<1>5. res \in [Tasks -> Addresses \cup {Nothing}]
  BY <1>3 DEF IInv, Shape
<1>6. res[t] = a /\ \A s \in Tasks \ {t} : res[s] = result[s]
  BY DEF IInv, Shape
<1> HIDE DEF v, a, objects, res
<1>7. /\ heap' \in [Addresses -> Values]
      /\ active' = active /\ result' = res /\ entries' = entries
      /\ \A s \in Tasks : heap'[active[s]] = objects[active[s]]
      /\ \A s \in Tasks : res[s] # Nothing => heap'[res[s]] = objects[res[s]]
      /\ \A h \in DOMAIN entries : /\ heap'[entries[h].active] = objects[entries[h].active]
                                   /\ heap'[entries[h].result] = objects[entries[h].result]
  <2>1. active \in [Tasks -> Addresses] /\ \A h \in DOMAIN entries : entries[h] \in Entry
    BY DEF IInv, Shape
  <2> QED
    BY <1>1, <1>3, <1>5, <2>1, CommitKeeps
<1>8. Shape'
  BY <1>1, <1>5, <1>7 DEF IInv, Shape, Labels
<1>9. Elsewhere(t)
  BY <1>1, <1>3, <1>6, <1>7, <1>8 DEF Elsewhere, Undisturbed, EntriesKept, IInv, Shape
<1>10. pc'[t] = "insert" /\ heap'[res[t]] = v
  BY <1>1, <1>3, <1>4, <1>6, <1>7 DEF IInv, Shape
<1> QED
  BY <1>1, <1>3, <1>4, <1>6, <1>7, <1>9, <1>10 DEF v

LEMMA ReturnStep ==
    ASSUME Shape, NEW t \in Tasks, NEW adopt \in BOOLEAN, Return(t, adopt), result[t] # Nothing
    PROVE  Elsewhere(t) /\ pc'[t] = "idle"
<1> DEFINE act == IF adopt THEN [active EXCEPT ![t] = result[t]] ELSE active
           res == [result EXCEPT ![t] = Nothing]
<1>1. Commit(heap, act, res, entries) /\ pc' = [pc EXCEPT ![t] = "idle"] /\ input' = input
  BY DEF Return, Goto
<1>2. act \in [Tasks -> Addresses] /\ res \in [Tasks -> Addresses \cup {Nothing}]
  BY DEF Shape
<1>3. \A s \in Tasks \ {t} : act[s] = active[s] /\ res[s] = result[s]
  BY DEF Shape
<1> HIDE DEF act, res
<1>4. /\ heap' \in [Addresses -> Values]
      /\ active' = act /\ result' = res /\ entries' = entries
      /\ \A s \in Tasks : heap'[act[s]] = heap[act[s]]
      /\ \A s \in Tasks : res[s] # Nothing => heap'[res[s]] = heap[res[s]]
      /\ \A h \in DOMAIN entries : /\ heap'[entries[h].active] = heap[entries[h].active]
                                   /\ heap'[entries[h].result] = heap[entries[h].result]
  <2>1. heap \in [Addresses -> Values] /\ \A h \in DOMAIN entries : entries[h] \in Entry
    BY DEF Shape
  <2> QED
    BY <1>1, <1>2, <2>1, CommitKeeps
<1>5. Shape'
  BY <1>1, <1>2, <1>4 DEF Shape, Labels
<1> QED
  BY <1>1, <1>3, <1>4, <1>5 DEF Elsewhere, Undisturbed, EntriesKept, Shape

LEMMA MutateStep ==
    ASSUME Shape, NEW t \in Tasks, NEW v \in Values, Mutate(t, v)
    PROVE  Elsewhere(t) /\ pc' = pc
<1> DEFINE objects == [heap EXCEPT ![MakeMut(t)] = v]
           act == [active EXCEPT ![t] = MakeMut(t)]
<1>1. Commit(objects, act, result, entries) /\ pc' = pc /\ input' = input /\ FreeAddresses # {}
  BY DEF Mutate
<1>2. /\ MakeMut(t) \in Addresses
      /\ objects \in [Addresses -> Values]
      /\ \A s \in Tasks \ {t} : objects[active[s]] = heap[active[s]]
      /\ \A s \in Tasks : result[s] # Nothing => objects[result[s]] = heap[result[s]]
      /\ \A h \in DOMAIN entries : /\ objects[entries[h].active] = heap[entries[h].active]
                                   /\ objects[entries[h].result] = heap[entries[h].result]
  BY <1>1, MutateWrite
<1>3. act \in [Tasks -> Addresses] /\ \A s \in Tasks \ {t} : act[s] = active[s]
  BY <1>2 DEF Shape
<1> HIDE DEF objects, act
<1>4. /\ heap' \in [Addresses -> Values]
      /\ active' = act /\ result' = result /\ entries' = entries
      /\ \A s \in Tasks : heap'[act[s]] = objects[act[s]]
      /\ \A s \in Tasks : result[s] # Nothing => heap'[result[s]] = objects[result[s]]
      /\ \A h \in DOMAIN entries : /\ heap'[entries[h].active] = objects[entries[h].active]
                                   /\ heap'[entries[h].result] = objects[entries[h].result]
  BY <1>1, <1>2, <1>3, CommitKeeps DEF Shape
<1>5. Shape'
  BY <1>1, <1>3, <1>4 DEF Shape
<1> QED
  BY <1>1, <1>2, <1>3, <1>4, <1>5 DEF Elsewhere, Undisturbed, EntriesKept, Shape

LEMMA ResetStep ==
    ASSUME Shape, NEW t \in Tasks, Reset(t)
    PROVE  Elsewhere(t) /\ pc' = pc
<1> DEFINE objects == [heap EXCEPT ![FreshAddress] = NewValue]
           act == [active EXCEPT ![t] = FreshAddress]
<1>1. Commit(objects, act, result, entries) /\ pc' = pc /\ input' = input /\ FreeAddresses # {}
  BY DEF Reset
<1>2. /\ objects \in [Addresses -> Values]
      /\ \A s \in Tasks : objects[active[s]] = heap[active[s]]
      /\ \A s \in Tasks : result[s] # Nothing => objects[result[s]] = heap[result[s]]
      /\ \A h \in DOMAIN entries : /\ objects[entries[h].active] = heap[entries[h].active]
                                   /\ objects[entries[h].result] = heap[entries[h].result]
  BY <1>1, FreshWrite, CacheAssumption
<1>3. act \in [Tasks -> Addresses] /\ \A s \in Tasks \ {t} : act[s] = active[s]
  BY <1>1, FreshUnreferenced DEF Shape
<1> HIDE DEF objects, act
<1>4. /\ heap' \in [Addresses -> Values]
      /\ active' = act /\ result' = result /\ entries' = entries
      /\ \A s \in Tasks : heap'[act[s]] = objects[act[s]]
      /\ \A s \in Tasks : result[s] # Nothing => heap'[result[s]] = objects[result[s]]
      /\ \A h \in DOMAIN entries : /\ heap'[entries[h].active] = objects[entries[h].active]
                                   /\ heap'[entries[h].result] = objects[entries[h].result]
  BY <1>1, <1>2, <1>3, CommitKeeps DEF Shape
<1>5. Shape'
  BY <1>1, <1>3, <1>4 DEF Shape
<1> QED
  BY <1>1, <1>2, <1>3, <1>4, <1>5 DEF Elsewhere, Undisturbed, EntriesKept, Shape

LEMMA InsertStep ==
    ASSUME IInv, NEW t \in Tasks, Insert(t)
    PROVE  /\ Shape' /\ EntriesSound'
           /\ \A s \in Tasks : Undisturbed(s)
           /\ pc' = [pc EXCEPT ![t] = "done"] /\ input' = input
<1> DEFINE e == [active |-> active[t], input |-> input[t], result |-> result[t]]
           kept == DOMAIN entries \ {Key(t)}
           cached == [h \in kept \cup {Key(t)} |-> IF h \in kept THEN entries[h] ELSE e]
<1>1. Commit(heap, active, result, cached) /\ pc' = [pc EXCEPT ![t] = "done"] /\ input' = input /\ pc[t] = "insert"
  BY DEF Insert, Goto
<1>2. /\ e \in Entry /\ e.input \notin Failing
      /\ heap[e.result] = Apply(heap[e.active], e.input)
  BY <1>1 DEF IInv, Shape, ResultsSound, Entry
<1>3. Key(t) \in HashKeys
  BY CacheAssumption DEF Key, IInv, Shape
<1>4. /\ DOMAIN cached \subseteq HashKeys
      /\ \A h \in DOMAIN cached : /\ cached[h] \in Entry /\ cached[h].input \notin Failing
                                  /\ heap[cached[h].result] = Apply(heap[cached[h].active], cached[h].input)
  BY <1>2, <1>3 DEF IInv, Shape, EntriesSound
<1> HIDE DEF e, kept, cached
<1>5. /\ heap' \in [Addresses -> Values]
      /\ active' = active /\ result' = result /\ entries' = cached
      /\ \A s \in Tasks : heap'[active[s]] = heap[active[s]]
      /\ \A s \in Tasks : result[s] # Nothing => heap'[result[s]] = heap[result[s]]
      /\ \A h \in DOMAIN cached : /\ heap'[cached[h].active] = heap[cached[h].active]
                                  /\ heap'[cached[h].result] = heap[cached[h].result]
  BY <1>1, <1>4, CommitKeeps DEF IInv, Shape
<1>6. Shape'
  BY <1>1, <1>4, <1>5 DEF IInv, Shape, Labels
<1>7. EntriesSound'
  BY <1>4, <1>5 DEF EntriesSound
<1> QED
  BY <1>1, <1>5, <1>6, <1>7 DEF Undisturbed

LEMMA ClearStep ==
    ASSUME Shape, Clear
    PROVE  /\ Shape' /\ EntriesSound'
           /\ \A s \in Tasks : Undisturbed(s)
           /\ pc' = pc /\ input' = input
<1> DEFINE none == [h \in {} |-> Nothing]
<1>1. Commit(heap, active, result, none) /\ pc' = pc /\ input' = input
  BY DEF Clear
<1>2. DOMAIN none = {}
  OBVIOUS
<1> HIDE DEF none
<1>3. /\ heap' \in [Addresses -> Values]
      /\ active' = active /\ result' = result /\ entries' = none
      /\ \A s \in Tasks : heap'[active[s]] = heap[active[s]]
      /\ \A s \in Tasks : result[s] # Nothing => heap'[result[s]] = heap[result[s]]
  BY <1>1, <1>2, CommitKeeps DEF Shape
<1> QED
  BY <1>1, <1>2, <1>3 DEF Shape, EntriesSound, Undisturbed

-----------------------------------------------------------------------------
(* The inductive invariant.                                                  *)

LEMMA EntriesStaySound ==
    ASSUME EntriesSound, EntriesKept
    PROVE  EntriesSound'
  BY DEF EntriesSound, EntriesKept

\* A step of `t` that gives it no result, or the right one.
LEMMA ElsewhereSound ==
    ASSUME IInv, NEW t \in Tasks, Elsewhere(t),
           pc'[t] \in {"insert", "done"} =>
              /\ result'[t] # Nothing
              /\ heap'[result'[t]] = Apply(heap'[active'[t]], input'[t])
              /\ input'[t] \notin Failing
    PROVE  IInv'
<1>1. Shape' /\ EntriesSound'
  BY EntriesStaySound DEF IInv, Elsewhere
<1>2. ASSUME NEW s \in Tasks, pc'[s] \in {"insert", "done"}
      PROVE  /\ result'[s] # Nothing
             /\ heap'[result'[s]] = Apply(heap'[active'[s]], input'[s])
             /\ input'[s] \notin Failing
  BY <1>2 DEF IInv, ResultsSound, Elsewhere, Undisturbed
<1> QED
  BY <1>1, <1>2 DEF IInv, ResultsSound

\* A step that changes entries and no memory in use.
LEMMA UndisturbedSound ==
    ASSUME IInv, Shape', EntriesSound', \A s \in Tasks : Undisturbed(s), input' = input,
           \A s \in Tasks : pc'[s] \in {"insert", "done"} => pc[s] \in {"insert", "done"}
    PROVE  IInv'
  BY DEF IInv, ResultsSound, Undisturbed

LEMMA InvStep == IInv /\ [Next]_vars => IInv'
<1> SUFFICES ASSUME IInv, [Next]_vars PROVE IInv'
  OBVIOUS
<1>1. CASE UNCHANGED vars
  BY <1>1 DEF vars, IInv, Shape, EntriesSound, ResultsSound
<1>2. ASSUME NEW t \in Tasks, NEW i \in Inputs, Call(t, i) PROVE IInv'
  BY <1>2, CallStep, ElsewhereSound DEF IInv
<1>3. ASSUME NEW t \in Tasks, Lookup(t) PROVE IInv'
  <2>1. CASE Key(t) \in DOMAIN entries /\ Matches(entries[Key(t)], t)
    BY <1>3, <2>1, HitStep, ElsewhereSound
  <2>2. CASE ~(Key(t) \in DOMAIN entries /\ Matches(entries[Key(t)], t))
    <3>1. Elsewhere(t) /\ pc'[t] = "process"
      BY <1>3, <2>2, StayStep DEF Lookup, Goto, Labels, IInv
    <3> QED
      BY <3>1, ElsewhereSound
  <2> QED
    BY <2>1, <2>2
<1>4. ASSUME NEW t \in Tasks, Process(t) PROVE IInv'
  BY <1>4, ProcessStep, ElsewhereSound
<1>5. ASSUME NEW t \in Tasks, Abandon(t) PROVE IInv'
  <2>1. Elsewhere(t) /\ pc'[t] = "idle"
    BY <1>5, StayStep DEF Abandon, Goto, Labels, IInv
  <2> QED
    BY <2>1, ElsewhereSound
<1>6. ASSUME NEW t \in Tasks, Insert(t) PROVE IInv'
  <2>1. \A s \in Tasks : pc'[s] \in {"insert", "done"} => pc[s] \in {"insert", "done"}
    BY <1>6 DEF Insert, Goto, IInv, Shape
  <2> QED
    BY <1>6, <2>1, InsertStep, UndisturbedSound
<1>7. ASSUME NEW t \in Tasks, NEW adopt \in BOOLEAN, Return(t, adopt) PROVE IInv'
  <2>1. result[t] # Nothing
    BY <1>7 DEF Return, IInv, ResultsSound
  <2> QED
    BY <1>7, <2>1, ReturnStep, ElsewhereSound DEF IInv
<1>8. ASSUME NEW t \in Tasks, NEW v \in Values, Mutate(t, v) PROVE IInv'
  <2>1. pc[t] = "idle"
    BY <1>8 DEF Mutate
  <2> QED
    BY <1>8, <2>1, MutateStep, ElsewhereSound DEF IInv
<1>9. ASSUME NEW t \in Tasks, Reset(t) PROVE IInv'
  <2>1. pc[t] = "idle"
    BY <1>9 DEF Reset
  <2> QED
    BY <1>9, <2>1, ResetStep, ElsewhereSound DEF IInv
<1>10. ASSUME Clear PROVE IInv'
  BY <1>10, ClearStep, UndisturbedSound DEF IInv
<1> QED
  BY <1>1, <1>2, <1>3, <1>4, <1>5, <1>6, <1>7, <1>8, <1>9, <1>10 DEF Next

LEMMA InvInit == Init => IInv
<1> SUFFICES ASSUME Init PROVE IInv
  OBVIOUS
<1>1. Shape
  BY CacheAssumption DEF Init, Shape, Labels
<1>2. EntriesSound /\ ResultsSound
  BY DEF Init, EntriesSound, ResultsSound
<1> QED
  BY <1>1, <1>2 DEF IInv

LEMMA Inductive == Spec => []IInv
  BY InvInit, InvStep, PTL DEF Spec

-----------------------------------------------------------------------------
\* The state is well-typed: a call about to return or to insert holds a result,
\* and a failed call is never cached.
THEOREM TypeCorrect == Spec => []TypeOK
<1>1. IInv => TypeOK
  BY DEF IInv, Shape, ResultsSound, TypeOK, Labels
<1> QED
  BY <1>1, Inductive, PTL

\* No entry goes stale: no reuse of an address and no write through a shared one
\* changes what an entry was made from.
THEOREM EntriesStay == Spec => []EntriesSound
<1>1. IInv => EntriesSound
  BY DEF IInv
<1> QED
  BY <1>1, Inductive, PTL

-----------------------------------------------------------------------------
(* The cache implements the service that runs the algorithm every time.      *)

\* What callers see of a task that a step does not touch.
LEMMA Unseen ==
    ASSUME NEW s \in Tasks, pc[s] = "done" => result[s] # Nothing,
           Undisturbed(s), input'[s] = input[s], pc'[s] = pc[s]
    PROVE  calls'[s] = calls[s]
  BY DEF calls, CallOf, Undisturbed

\* A step of `t`'s is one of the service's if it changes what is seen of `t` so.
LEMMA ServiceStepOf ==
    ASSUME IInv, NEW t \in Tasks,
           \A s \in Tasks \ {t} : Undisturbed(s) /\ pc'[s] = pc[s] /\ input'[s] = input[s]
    PROVE  calls' = [calls EXCEPT ![t] = calls'[t]]
<1>1. \A s \in Tasks \ {t} : calls'[s] = calls[s]
  BY Unseen DEF IInv, ResultsSound
<1> QED
  BY <1>1 DEF calls

LEMMA BeginStep ==
    ASSUME IInv, NEW t \in Tasks, NEW i \in Inputs, Call(t, i)
    PROVE  Algorithm!Next
<1>1. Elsewhere(t) /\ pc'[t] = "lookup" /\ input'[t] = i /\ heap'[active'[t]] = heap[active[t]]
  BY CallStep DEF IInv
<1> DEFINE a == <<heap[active[t]], i>>
<1>2. a \in Values \X Inputs
  BY DEF IInv, Shape
<1>3. calls[t] = {}
  BY DEF Call, calls
<1>4. calls'[t] = {Algorithm!Pending(a)}
  BY <1>1 DEF calls, CallOf, Algorithm!Pending
<1>5. calls' = [calls EXCEPT ![t] = calls'[t]]
  BY <1>1, ServiceStepOf DEF Elsewhere
<1> QED
  BY <1>2, <1>3, <1>4, <1>5 DEF Algorithm!Next, Algorithm!Begin

LEMMA FinishStep ==
    ASSUME IInv, NEW t \in Tasks, pc[t] \notin {"idle", "done"}, pc'[t] = "done",
           heap'[active'[t]] = heap[active[t]], input'[t] = input[t],
           heap'[result'[t]] = Apply(heap[active[t]], input[t]),
           \A s \in Tasks \ {t} : Undisturbed(s) /\ pc'[s] = pc[s] /\ input'[s] = input[s]
    PROVE  Algorithm!Next
<1> DEFINE a == <<heap[active[t]], input[t]>>
<1>1. a \in Values \X Inputs
  BY DEF IInv, Shape
<1>2. calls[t] = {Algorithm!Pending(a)}
  BY DEF calls, CallOf, Algorithm!Pending
<1>3. calls'[t] = {[argument |-> a, result |-> Outcome(a)]}
  BY DEF calls, CallOf, Outcome
<1>4. calls' = [calls EXCEPT ![t] = calls'[t]]
  BY ServiceStepOf
<1> QED
  BY <1>1, <1>2, <1>3, <1>4 DEF Algorithm!Next, Algorithm!Finish

LEMMA LeaveStep ==
    ASSUME IInv, NEW t \in Tasks, pc[t] # "idle", pc'[t] = "idle", Elsewhere(t)
    PROVE  Algorithm!Next
<1>1. calls[t] # {} /\ calls'[t] = {}
  BY DEF calls
<1>2. calls' = [calls EXCEPT ![t] = calls'[t]]
  BY ServiceStepOf DEF Elsewhere
<1> QED
  BY <1>1, <1>2 DEF Algorithm!Next, Algorithm!Leave

\* What happens while nobody is told anything.
LEMMA HiddenStep ==
    ASSUME IInv, NEW t \in Tasks, Elsewhere(t),
           \/ pc[t] = "idle" /\ pc'[t] = "idle"
           \/ /\ pc[t] \notin {"idle", "done"} /\ pc'[t] \notin {"idle", "done"}
              /\ heap'[active'[t]] = heap[active[t]] /\ input'[t] = input[t]
    PROVE  UNCHANGED calls
<1>1. calls'[t] = calls[t]
  BY DEF calls, CallOf
<1>2. calls' = [calls EXCEPT ![t] = calls'[t]]
  BY ServiceStepOf DEF Elsewhere
<1> QED
  BY <1>1, <1>2 DEF calls

LEMMA ServiceStep == IInv /\ [Next]_vars => [Algorithm!Next]_calls
<1> SUFFICES ASSUME IInv, [Next]_vars PROVE Algorithm!Next \/ UNCHANGED calls
  OBVIOUS
<1>1. CASE UNCHANGED vars
  BY <1>1 DEF vars, calls, CallOf
<1>2. ASSUME NEW t \in Tasks, NEW i \in Inputs, Call(t, i) PROVE Algorithm!Next
  BY <1>2, BeginStep
<1>3. ASSUME NEW t \in Tasks, Lookup(t) PROVE Algorithm!Next \/ UNCHANGED calls
  <2>0. pc[t] = "lookup"
    BY <1>3 DEF Lookup
  <2>1. CASE Key(t) \in DOMAIN entries /\ Matches(entries[Key(t)], t)
    BY <1>3, <2>0, <2>1, HitStep, FinishStep DEF Elsewhere
  <2>2. CASE ~(Key(t) \in DOMAIN entries /\ Matches(entries[Key(t)], t))
    <3>1. Elsewhere(t) /\ Undisturbed(t) /\ pc'[t] = "process" /\ input' = input
      BY <1>3, <2>2, StayStep DEF Lookup, Goto, Labels, IInv
    <3> QED
      BY <2>0, <3>1, HiddenStep DEF Undisturbed
  <2> QED
    BY <2>1, <2>2
<1>4. ASSUME NEW t \in Tasks, Process(t) PROVE UNCHANGED calls
  <2>1. pc[t] = "process"
    BY <1>4 DEF Process
  <2> QED
    BY <1>4, <2>1, ProcessStep, HiddenStep
<1>5. ASSUME NEW t \in Tasks, Abandon(t) PROVE Algorithm!Next
  <2>1. Elsewhere(t) /\ pc'[t] = "idle" /\ pc[t] = "process"
    BY <1>5, StayStep DEF Abandon, Goto, Labels, IInv
  <2> QED
    BY <2>1, LeaveStep
<1>6. ASSUME NEW t \in Tasks, Insert(t) PROVE Algorithm!Next
  <2>1. /\ \A s \in Tasks : Undisturbed(s)
        /\ pc' = [pc EXCEPT ![t] = "done"] /\ input' = input
    BY <1>6, InsertStep
  <2>2. /\ pc[t] = "insert" /\ pc'[t] = "done"
        /\ \A s \in Tasks \ {t} : pc'[s] = pc[s]
    BY <1>6, <2>1 DEF Insert, IInv, Shape
  <2>3. /\ heap'[active'[t]] = heap[active[t]]
        /\ heap'[result'[t]] = Apply(heap[active[t]], input[t])
    BY <2>1, <2>2 DEF Undisturbed, IInv, ResultsSound
  <2> QED
    BY <2>1, <2>2, <2>3, FinishStep
<1>7. ASSUME NEW t \in Tasks, NEW adopt \in BOOLEAN, Return(t, adopt) PROVE Algorithm!Next
  <2>1. pc[t] = "done" /\ result[t] # Nothing
    BY <1>7 DEF Return, IInv, ResultsSound
  <2> QED
    BY <1>7, <2>1, ReturnStep, LeaveStep DEF IInv
<1>8. ASSUME NEW t \in Tasks, NEW v \in Values, Mutate(t, v) PROVE UNCHANGED calls
  <2>1. pc[t] = "idle"
    BY <1>8 DEF Mutate
  <2> QED
    BY <1>8, <2>1, MutateStep, HiddenStep DEF IInv
<1>9. ASSUME NEW t \in Tasks, Reset(t) PROVE UNCHANGED calls
  <2>1. pc[t] = "idle"
    BY <1>9 DEF Reset
  <2> QED
    BY <1>9, <2>1, ResetStep, HiddenStep DEF IInv
<1>10. ASSUME Clear PROVE UNCHANGED calls
  <2>1. (\A s \in Tasks : Undisturbed(s)) /\ pc' = pc /\ input' = input
    BY <1>10, ClearStep DEF IInv
  <2>2. \A s \in Tasks : calls'[s] = calls[s]
    BY <2>1, Unseen DEF IInv, ResultsSound
  <2> QED
    BY <2>2 DEF calls
<1> QED
  BY <1>1, <1>2, <1>3, <1>4, <1>5, <1>6, <1>7, <1>8, <1>9, <1>10 DEF Next

\* Callers cannot tell the cache from the algorithm.
THEOREM Implements == Spec => ServesTheAlgorithm
<1>1. Init => Algorithm!Init
  BY DEF Init, Algorithm!Init, calls
<1> QED
  BY <1>1, ServiceStep, Inductive, PTL DEF Spec, ServesTheAlgorithm, Algorithm!Spec

=============================================================================
