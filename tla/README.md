# Formal model of jsonld

TLA+ modules that model `jsonld`: context processing and the active context with
its caches, expansion, compaction and flattening, the way to RDF and back, and the
loading of documents; TLC configurations that check them on small instances, and
TLAPS proofs of what matters most about eight of them for every value of the
constants. Line references are to the sources beside this directory (`src/`).

- [1. The system](#1-the-system)
- [2. The modules](#2-the-modules)
- [3. The runs](#3-the-runs)
- [4. Fairness](#4-fairness)
- [5. The proofs](#5-the-proofs)
- [6. Where the code and its documentation disagree](#6-where-the-code-and-its-documentation-disagree)
- [7. What is not modelled](#7-what-is-not-modelled)
- [8. Plan](#8-plan)

## 1. The system

`jsonld` is a library: it keeps no state between calls except what its caller
holds (contexts, caches, loaders). Its hard behaviours come from values shared
by reference between contexts, from memos filled by whoever reads first, from
algorithms that call each other recursively through data, and from futures that
are suspended while a loader is awaited.

| Component | Where | State | Operations | Works with |
|---|---|---|---|---|
| Active context | `jsonld-core/src/context/mod.rs`, `definition.rs`, `inverse.rs` | `Arc<Definitions>` copied on write, scalar entries, previous context, five `Arc<OnceCell>` caches | `new`, `clone`, `with_private_caches`, the `set_*` mutators, `inverse`, `prefix_terms`, the memo accessors | mutated by context processing; read by expansion and compaction, which fill its caches |
| Bounded memo | `jsonld-core/src/context/memo.rs` | 16 locked hash tables of bounded size | `get`, `insert` | the compact-IRI and term-resolution caches |
| Context processing | `jsonld-context-processing/src/algorithm/mod.rs`, `stack.rs`, `merged.rs` | the result so far, the stack of remote contexts, the record of dereferenced contexts | `process_full`, `process_context` | a loader (awaited), `define`, the active context |
| Synchronous mirror | `algorithm/sync.rs` | the same, and a depth | `requires_loader`, `process_context_sync`, `define_sync` | taken instead of the asynchronous path when nothing needs loading |
| Create Term Definition | `algorithm/define.rs`, `algorithm/iri.rs` | `DefinedTerms`: term to pending | `define`, `expand_iri_with` (they call each other) | process_context (the loop, and scoped contexts) |
| Processed-context cache | `jsonld-context-processing/src/cache.rs` | 64-bit hash to entry, behind a mutex | `get`, `insert`, `clear` | `process_full_with_cache`, called by expansion for scoped contexts |
| Expansion | `jsonld-expansion/src/` | the active context along the recursion | `expand_element`, `expand_node`, ... | context processing (property- and type-scoped contexts), the caches |
| Inverse context, IRI compaction | `context/inverse.rs`, `jsonld-compaction/src/iri.rs`, `value_hint.rs` | derived from the definitions | term selection, `compact_iri_full` | the active context's caches |
| Compaction | `jsonld-compaction/src/` | the active context along the recursion | `compact_node`, `compact_property`, ... | context processing, IRI compaction |
| Flattening | `jsonld-core/src/flattening/` | node map, identifier generator | `generate_node_map`, `flatten`, `merge` | blank-node generators |
| Document model | `jsonld-core/src/object/`, `document/expanded.rs`, `id.rs` | objects in insertion order and the buckets of hashes they are found by | `insert`, `contains`; `identify_all`, `relabel`, `canonicalize`; to and from JSON | every algorithm; generators of identifiers |
| RDF | `jsonld-core/src/quad.rs`, `rdf/`, `serialization.rs` | two nested iterators and a generator; resources with their reference counts | `rdf_quads_with`, `from_interpreted_quads` | the document, which is relabelled for it |
| Loaders | `jsonld-core/src/loader/` | per load: target, redirections, what was received | `load`, `load_with`, header parsers, `ExtractContext` | servers, files; context processing, front end |
| Front end | `jsonld/src/processor/` | none between calls | `expand_full`, `compact_full`, `to_rdf`, ... | all of the above |
| Syntax | `jsonld-syntax/src/` | none | contexts from and to JSON, keywords, comparison | everything that reads a context |
| CLI, macros | the remaining crates | none at run time | | |

What is hard in it, and what makes each part correct:

- **Sharing** (active context). `Clone` shares the definitions and every cache
  cell; mutators copy the definitions on write and replace the cells they make
  stale. Correct when no mutation is seen through another context and no memo
  gives an answer its context's own state would not give.
- **Races over a memo** (ShardedMemo, ProcessingCache). Lookup and insert are
  two critical sections with the computation, possibly an await, in between;
  another caller may fill, overwrite or clear the entry, or free the context an
  entry names so that its address is used again. Correct when callers cannot tell
  the memo from the function.
- **Recursion through data** (term definitions, remote and scoped contexts).
  Terms refer to terms through prefixes, `@type`, `@id` and `@reverse`; contexts
  refer to contexts by URL and may scope a term to themselves. Correct when a
  cycle is an error or is skipped, never endless, when what is no cycle is never
  reported as one, and when the result does not depend on the visiting order.
- **Protection.** Protected terms survive everything that is not entitled to
  replace them: remote contexts, nullification, nested contexts, early returns.
- **Unlabelled and repeated nodes** (flattening). A node's statements are spread
  over its occurrences, some of them under a blank identifier or none. Correct
  when the node map says what all occurrences say together, and two nodes never
  become one.
- **Two readings of one document.** Expansion, compaction, serialization and
  parsing each follow the terms of a context in code of their own. Correct when
  any way through them ends in the document's first meaning, when what one of them
  writes another accepts, and when the order of entries means nothing.
- **Scopes along a recursion.** Expansion changes its context per property and per
  type and goes back to the previous one per map, decided by keys it expands under
  the context it is about to leave. Correct when nothing leaks to a sibling or child.
- **Rewriting in place.** A pass over a document drains it and puts it back, object
  by object, and may be refused an identifier anywhere. Correct when labels stay
  apart, the set stays a set and the rest of the document survives.
- **Interleaved iterators.** The quads of nodes and of lists are drawn in turns from
  one generator; lists are folded again from cells that only look private.
- **Unreliable input.** A loader may fail, or answer the same URL differently on
  each request; a server redirects, stalls, breaks off or sends without end. One run
  must use one answer, end, and say truly what went wrong.

`PROJECT.json` lists each such hazard at its line, with the properties that
cover it.

## 2. The modules

| Module | Models | State in the model | Actions |
|---|---|---|---|
| `ActiveContext` | `Context` and the sharing of its parts | `ctx` (handle to fields), `heap` (definitions by address), `memo` (cells by kind and address), `tainted` (history) | one per constructor, mutator and cache-filling reader |
| `PureService` | what a memo promises: each call returns the function's value | `call` | `Begin`, `Finish`, `Leave` |
| `ShardedMemo` | `ShardedMemo` with concurrent callers | `table`, and `pc`, `key`, `result` per caller | `Call`, `Get`, `Compute`, `Insert`, `Return` |
| `ProcessingCache` | `ProcessingCache` around `process_full_with_cache`, with the allocator behind the addresses it compares | `heap`, `active`, `entries`, and `pc`, `input`, `result` per task | `Call`, `Lookup`, `Process`, `Abandon`, `Insert`, `Return`; `Mutate`, `Reset`, `Clear` |
| `TermDefinition` | `define`, `DefinedTerms`, `expand_iri_with` over all the terms of one context | `active`, `defined`, an explicit call `stack`, `returned`, `outcome` | one per segment of code between two recursive calls |
| `ContextProcessing` | `process_context` with remote, imported and scoped contexts, on both paths | a call `stack`, `dereferenced`, `fetches` (history), `result`, `abandoned` (history), `outcome` | one per kind of entry and per segment between two calls or awaits |
| `NodeMap` | node-map generation, flattening and merging | a call `stack`, `map` and `declared`, `relabel` and `issued`, `names` (history), `flat`, `outcome` | one per kind of object visited; a call on a node goes through its sections (types, graph, included nodes, properties, reverse properties), each with a queue of objects and an action for each segment between two recursive calls; `Flatten`, `Merge` |
| `JsonLd` | strings, JSON, terms, active contexts, expanded objects; IRI expansion | | (data and operators) |
| `ContextSync` | `process_context_sync`, `define_sync`, `expand_iri_sync` | | (operators) |
| `ContextSyntax` | contexts from JSON, to JSON, out of a loaded document | | (operators) |
| `ExpandedJson` | `IntoJson` and `TryFromJson` of expanded documents; equality of documents | | (operators) |
| `Expansion` | the Expansion algorithm | | (operators) |
| `TermSelection` | inverse context, term selection, `compact_iri_full` | | (operators) |
| `Compaction` | the Compaction algorithm | | (operators) |
| `Pipeline` | what a caller of `JsonLdProcessor` does with a document, one operation after another | `request`, `stage`, `document`, `expanded`, `first` (history), `output` | `ExpandIt`, `WriteIt`, `ReadIt`, `CompactIt`, `SubmitIt`, `ShuffleIt` |
| `InsertionSet` | what `ExpandedDocument` promises: a set that keeps the order of insertion | `objects`, `call` | `Insert`, `Contains`, `Drain` |
| `DocumentSet` | `ExpandedDocument` with its buckets and cached hashes, and the passes that drain and refill it | `objects`, `buckets`, `pass`, `call` | `Insert`, `Lookup`, `Drain`, `RewriteNext`, `PutBackNext`, `EndPass` |
| `Relabeling` | what `identify_all`, `relabel` and `canonicalize` do to an object | | (operators) |
| `RdfStream` | the iterators over the quads of a document | `generator`, `stream` | one per turn of their loops |
| `FromQuads` | `from_interpreted_quads` | | (operators) |
| `ToRdf` | a document built, rewritten, streamed as quads and read back | those of `DocumentSet` and `RdfStream`, `passes`, `back` | `Build`, `Begin`, `Continue`, `End`, `StartQuads`, `Stream`, `ReadBackQuads`, `ReadDataset` |
| `HttpHeaders` | the parsers of `Link` and `Content-Type` headers | | (operators) |
| `Loading` | `expand_full` of a document reference through a chain of a local loader and the HTTP loader | `stage`, `step`, `url`, `target`, `redirections`, `response`, `received`, what was loaded, `error` | `Refer`, `AskFirst`, `Ask`, `Answer`, `Chunk`, `EndOfBody`, `Disconnect`, `Timeout`, `ExpandIt` |
| `ShardedMemoProofs`, `ProcessingCacheProofs`, `ActiveContextProofs`, `TermDefinitionProofs`, `ContextProcessingProofs`, `NodeMapProofs`, `LoadingProofs`, `DocumentSetProofs` | | | theorems |

`PureService` and `InsertionSet` are the abstract specifications: `ShardedMemo`
implements the first with the memoised function (`ServesTheFunction`) and
`ProcessingCache` with the context processing algorithm as a function of
definitions and input (`ServesTheAlgorithm`); `DocumentSet` implements the second
(`ServesASet`). `TermDefinition` and `ContextProcessing` divide context processing:
the first takes a scoped context as an outcome (`Validates`) and looks at how terms
depend on each other, the second takes the terms of a definition as independent and
looks at how contexts nest. `ContextSync` is the same algorithm once more, whole and
without a loader, as the function that `Expansion` and `Compaction` call.

`Pipeline` extends `Expansion`, `Compaction` and, through them, `ContextSyntax`,
`TermSelection` and `ExpandedJson`. `Loading` extends `HttpHeaders`; what it asks of
the algorithms are constant operators (`Extract`, `ProcessIn`, `ExpandIn`), which
`MCLoading` binds to `ContextSyntax`, `ContextSync` and `Expansion`, so that what is
proved of the loader holds whatever the algorithms answer. `ToRdf` extends `FromQuads`, `RdfStream`, `Relabeling` and `DocumentSet`.

How the code is mapped:

- *Addresses.* `Arc<Definitions>` and `Arc<OnceCell<_>>` are addresses into
  `heap` and `memo`; an address nobody refers to is freed at the end of the step
  (`Commit`) and may be given out again. `Arc::make_mut` copies when another
  handle, a result or a cache entry holds the address (`MakeMut`).
- *Memo answers.* What a lookup computes is an operator of the inputs the code
  reads (`Inputs`, `Answer`). The instance makes answers differ whenever inputs
  do, so an entry with the wrong inputs always shows.
- *Atomicity.* A shard's lock is held for `get` and for `insert`, never in
  between; the cache's mutex likewise. Readers of an active context are atomic in
  `ActiveContext` because they borrow it: no mutator of the same context runs
  meanwhile. The race between readers is `ShardedMemo`'s subject.
- *Recursion.* Calls in progress are frames of an explicit stack with the label
  of the point where the caller waits. Errors (`?`) end the run at once, except
  that an error inside a scoped context is reported as `InvalidScopedContext`
  unless it is the resource limit (`Fail`).
- *Strings* are model values in `TermDefinition`, where `Form` says what the lexical
  tests find in one (keyword, keyword-like, compact IRI, blank node, ...) and a
  mapping is the sequence of strings it is concatenated from. Where prefixes,
  concatenation and relative references decide what an algorithm does (`JsonLd` and
  the modules above it), a string is a short sequence of tokens: keywords,
  delimiters and letters, some of which stand for a scheme.
- *The call on a node or a list* stays at the head of its caller's queue until it
  returns, so the calls in progress show how far each has come; a document is a finite
  tree, and the constant operator `Depth` bounds it.
- *Algorithms that only compute* (expansion, compaction, selection, parsing) are
  operators that thread a record with an `error` field, the `?` of the code: once it
  is set nothing else happens. They call each other as the functions do.
- *Hashes* are operators that collide by construction; equality is by `Key`.
- *A generator of identifiers* is a counter over a list of identifiers that ends.
- *The server* answers each request as it likes, sends its body in chunks of one or
  two, breaks off or stays silent; its headers are written in several styles and
  read by the parsers of the code.
- *The loader* of context processing is a set of possible answers per URL, chosen at each request.
- *A dropped future* is `Abandon`: a call that never reaches its insert.

Definitions whose comment begins with "Mutant:" are deliberate bugs in an
operator of the model (a dropped guard, an off-by-one, a missing reset). They
are not part of the specification; `PROJECT.json` pairs each with the property
that fails when it takes the place of the original.

## 3. The runs

| Run | Module and configuration | Instance | Shows |
|---|---|---|---|
| `active_context` | `MCActiveContext` | 4 handles, 5 addresses and 5 cells of each kind, 2 values, 2 modes, 2 vocabularies; 7 calls on one context, one fewer for each further context alive | `UntaintedCoherent`, `ForkPrivacy`, `CopyOnWrite` |
| `sharded_memo` | `MCShardedMemo` | 3 callers, 5 keys (one fails) in 2 shards of 2 entries | `OneEntryPerKey`, `Bounded`, `EvictsOnlyForRoom`, `ServesTheFunction` |
| `processing_cache` | `MCProcessingCache` | 2 tasks, 4 addresses, 2 contents, 3 inputs (one fails), 2 hash keys | `EntriesSound`, `ServesTheAlgorithm` |
| `term_definition` | `MCTermDefinition` | contexts of two or three of `a`, `p`, `p:x` with every combination of a few definitions in every order; single terms with every remaining entry, also naming themselves; pairs that name each other where one is null or a keyword; 3 active contexts, 6 sets of options, depth limit 5 | `NoReentry`, `CycleDetection`, `SettledMappings`, `ProtectedKept`, `DefinedOnce`, `Terminates` |
| `context_processing` | `MCContextProcessing` | local contexts of one or two of 11 entries, and 12 more alone; 3 remote documents with 3 to 5 possible answers each; 2 active contexts, 3 sets of options, with and without base; 4 remote contexts, depth 5 | `DereferencedOnce`, `ValidationSkipsCycles`, `RemoteKeepsProtected`, `ProtectedSurvives`, `TripwireUnreachable`, `Terminates` |
| `node_map` | `MCNodeMap` | 3960 documents of two objects over one IRI and two blank nodes: values, lists, graphs in graphs, included nodes, reverse properties, types, indexes; a generator of 3 identifiers, 2 of which the documents use | `LookupsDefined`, `DistinctNodes`, `StatementsKept`, `ConflictsReported`, `FlattenKeeps`, `MergeKeeps` |
| `pipeline` | `MCPipeline` | some 1400 requests: 15 kinds of terms with 21 kinds of values, pairs of values, typed nodes above 16 kinds of children, bases, expand and linked contexts, 19 contexts that are not well formed, malformed keys and types wherever one is expanded, under 5 policies; with and without `compactArrays` and `ordered` | `NeverFailsLate`, `MeaningKept`, `TypeScopeConfined`, `EntryOrderIrrelevant`, `ReadBackExact` |
| `to_rdf` | `MCToRdf` | documents of up to 3 of 7 objects, rewritten up to twice by 5 passes; 3 treatments of directions, with and without generalized RDF; 16 datasets of their own | `ServesASet`, `RewriteKeeps`, `QuadsExact`, `ReadBack` |
| `loading` | `MCLoading` | 11 calls over 4 kinds of local loaders, 14 answers a server may give to any request, redirection limits 0 to 2, size limits, bodies without end | `LinkedContext`, `RedirectionsExact`, `FailureExplained`, `LoadReturns` |
| `coldclone`, `compound_literal`, `from_rdf_lost` | see section 6 | | each violates one statement of the documentation |

Why the bounds are enough:

- `active_context`: a stale answer needs a cell that two contexts share, a change
  of what it is computed from and two lookups, one through each context. Six
  calls on two contexts, or five on three, leave room for that. A call is charged
  for each live context (`HandleCost`), which prunes states where little but
  creation has happened. One scalar (`vocabulary`) stands for the four: it is the
  one every dependent cache reads. New contexts take the first free handle (handles
  are only names), and the symmetry over vocabularies is sound: nothing orders them
  and the formulas quantify over all of them.
- `sharded_memo`: three keys compete for two entries, so a full shard is cleared
  while a caller holds a stale miss; three callers allow one to insert and one to
  evict between another's miss and insert.
- `processing_cache`: two entries can pin at most four addresses, so the allocator
  runs dry (`Process` waits), and freed addresses come back with other contents.
  Hashes collide between the tasks' inputs by construction.
- `term_definition`: three terms make cycles of length one to three, a prefix that
  is itself defined through a term, and a term reached as a dependency both
  before and after its own turn. The depth limit is reached by chains of calls
  only on the synchronous path.
- `context_processing`: three URLs form chains that reach the limit of 4 by
  repetition (the stack is not deduplicated while processing), mutual and self
  references, and an import that is no definition. A context is named twice in
  one array, so the record of dereferenced contexts is consulted, with a loader
  that would answer differently. A term whose `@id` looks like a keyword is the
  protected one of some active contexts, in a local, a scoped and a remote context.
  Each error of the algorithm is reached.

- `node_map`: two objects give a node two occurrences at the top, or one there and
  others inside graphs, lists, included nodes and reverse properties of another,
  in both orders. The generator hands out the very identifiers the documents use,
  and ends before the documents with most blank nodes do.

- `pipeline`: a property of one algorithm against another needs one term, one value
  and perhaps one more of each: two values select two terms or share one, a typed
  node and a child show a scope, an array of types and two `@type` entries the order
  in which contexts apply. Each context of the corpus is JSON that is read, and the
  compaction context is written again, unless it is null or empty. A document expanded under a policy that drops
  is expanded again under one that rejects, so a place where the policy is not asked
  shows. Once compacted, a document is handed in again
  without end, so the states are the fixed points of the operations and finite. Left
  out of the corpus are inputs whose compaction is known to say something else
  (below, section 6).
- `to_rdf`: three objects out of kinds with colliding hashes put three candidates in
  a bucket; rewriting may make two of them equal. The generator issues the labels the
  documents use, and gives out within a document, within an object and within a list.
- `loading`: a redirection limit of 2 allows a chain of alternates to be followed,
  counted and refused; a call loads up to three documents. `MaxReceived` (4) caps the
  count of what an endless body sent, above every limit of a call; the counter of
  requests goes on to two above the limit (`RequestsCounted`), one more than a load may
  send, so that a test of the limit that came late would show.
  `HeadersAssumption` is checked with the run: for each answer of a server the parsers
  of `HttpHeaders` give back the media types and the links the answer was written from.

`MAX_REMOTE_CONTEXTS`, `MAX_SYNC_DEPTH`, `MAX_CONTEXT_DEPTH` and `ENTRIES_PER_SHARD`
are constants of the models (`MaxRemote`, `MaxDepth`, `MaxSyncDepth`,
`MaxContextDepth`, `EntriesPerShard`) and small in the instances; no action depends
on their value except by comparison. `CHECK_DEADLOCK FALSE` is said where a run ends
(`TermDefinition`, `ContextProcessing`, `NodeMap`, `ToRdf`, `Loading`, and `Pipeline`
when an input is refused) or stops at its call bound (`ActiveContext`). The runs take
from a few seconds to about two minutes.

The properties, in words:

- *UntaintedCoherent*: a memo answers as its owner would without one, unless
  its cell was cold and shared when a holder's inputs changed, its holder's
  processing mode was set by hand, or it was filled from such a cell. The
  history variable `tainted` records exactly those three, so the property says
  they are the only ways.
- *ForkPrivacy*: after `with_private_caches` no memo holding interned
  identifiers is shared between vocabularies, along the whole chain of previous
  contexts.
- *CopyOnWrite*: no step changes what two contexts mean.
- *EntriesSound*: what a cache entry remembers is still true of the contents at
  the addresses it names.
- *CycleDetection*: acceptance implies that the definitions can be ranked by what
  each has to wait for (`Must`); `CyclicIriMapping` implies that they cannot be ranked
  by what each may wait for (`May`), or that a term was left pending (section 6). A term
  waits for the terms among the strings its entries name (`Refers`) and, where it is
  expanded itself (`Own`), for its prefix; a keyword is never looked up as a term.
- *SettledMappings*: in the resulting context each term's mapping is what its
  `@id` or `@reverse` expands to there, whatever the order of the bindings.
- *ProtectedKept*, *ProtectedSurvives*, *RemoteKeepsProtected*: protection
  through one definition, through a whole run, and through remote contexts
  even when the caller may override; except of the terms whose `@id` or `@reverse` has
  the form of a keyword, whose definition `define` has removed when it returns early
  (section 6).
- *DereferencedOnce*: one request per URL and run, and everywhere the URL is
  named the run uses that answer.
- *ValidationSkipsCycles*, *NoReentry*, *Terminates*: recursion ends.
- *TripwireUnreachable*: the synchronous path never meets a context it would
  have to load, in any position `requires_loader` scans or does not.
- *StatementsKept*: the node map's statements are those of all occurrences, read
  off the document by a definition that knows nothing of the traversal
  (`NodesIn`, `Said`); *FlattenKeeps* and *MergeKeeps* say that neither output
  loses one.
- *DistinctNodes*: relabelling keeps nodes apart even when the generator repeats
  the document's identifiers.
- *ConflictsReported*: an error exactly when two occurrences in one graph
  disagree on the index.
- *LookupsDefined*: the "SAFETY" comments of `node_map.rs` hold.
- *MeaningKept*: a document that was expanded, written, read, compacted under any of
  the options and submitted again, in any order, expands to what it expanded to first;
  *NeverFailsLate*: none of these steps refuses what another gave, nor does a policy
  that rejects refuse what one that drops let through.
- *EntryOrderIrrelevant*: a document with its entries in the opposite order is equal
  to it by `compare_full`.
- *TypeScopeConfined*: terms only a type-scoped context defines occur on nodes of that
  type alone.
- *ReadBackExact*: `TryFromJson` undoes `IntoJson`.
- *ServesASet*: the buckets answer as the set would, through insertion, lookup,
  rewriting and the failure of a rewriting.
- *RewriteKeeps*: after a pass two occurrences share a label exactly when they did
  before, and all else is the same; after a failed pass the objects before and behind
  the one it failed on are there.
- *QuadsExact*: the quads of the iterators state what the document states, by a
  definition that reads the document without iterating.
- *ReadBack*: a dataset read into a document says the same about every resource a
  reader of the document comes across, each cell in one list or none.
- *LinkedContext*, *FailureExplained*: what the loader concludes from headers is what
  the server said, before anyone wrote or parsed a header.
- *RedirectionsExact*: as many redirections as allowed, and not one more: the requests
  sent are counted apart from the code's own count, and past the limit.
- *LoadReturns*: with a timeout every call returns.

## 4. Fairness

`TermDefinition` and `ContextProcessing` have liveness properties under
`WF_vars(Next)`: a run that can continue does. For the synchronous code that is
sequential execution; for the asynchronous code it says that the executor polls
the future until it is ready and that a loader eventually answers, with a
context or an error. Both are what a caller awaiting the result relies on; a
loader without a timeout that never answers is outside the property.

`Loading` asks nothing of the server. Its fairness is that of the code (`CodeRuns`)
and of the timer (`WF_vars(Timeout)`): a timer that is set and still runs fires.
`CodeRuns` is weak fairness of `Code`, the steps that wait for nobody, written out
with the condition under which they are enabled (`Running`) in place of `ENABLED`,
for which TLC would expand the document again in every state. `LoadReturns` is about
calls with a timeout; without one a server that sends nothing keeps a call for ever,
and the model has such behaviours.

No strong fairness is used, and the other modules need none: they promise no
progress beyond each call's own steps.

## 5. The proofs

| Theorem | Module | States |
|---|---|---|
| `TypeCorrect` | `ShardedMemoProofs` | `Spec => []TypeOK` |
| `NoDuplicates` | | `Spec => []OneEntryPerKey` |
| `SizeBounded` | | `Spec => []Bounded` |
| `EvictionOnlyForRoom` | | `Spec => EvictsOnlyForRoom` |
| `Implements` | | `Spec => ServesTheFunction` |
| `TypeCorrect` | `ProcessingCacheProofs` | `Spec => []TypeOK` |
| `EntriesStay` | | `Spec => []EntriesSound` |
| `Implements` | | `Spec => ServesTheAlgorithm` |
| `Invariance` | `ActiveContextProofs` | `Spec => []IInv` |
| `CopiesOnWrite` | | `Spec => CopyOnWrite` |
| `Privacy` | | `Spec => []ForkPrivacy` |
| `Coherence` | | `Spec => []UntaintedCoherent` |
| `Invariance` | `TermDefinitionProofs` | `Spec => []IInv` |
| `Recursion` | | `Spec => []NoReentry` |
| `Finality` | | `Spec => DefinedOnce` |
| `Protection` | | `Spec => []ProtectedKept` |
| `Meanings` | | `Spec => []SettledMappings` |
| `Cycles` | | `Spec => []CycleDetection` |
| `Invariance` | `ContextProcessingProofs` | `Spec => []IInv` |
| `Dereferencing` | | `Spec => []DereferencedOnce` |
| `SkippedCycles` | | `Spec => []ValidationSkipsCycles` |
| `RemoteProtection` | | `Spec => []RemoteKeepsProtected` |
| `Protection` | | `Spec => []ProtectedSurvives` |
| `Tripwire` | | `Spec => []TripwireUnreachable` |
| `Invariance` | `NodeMapProofs` | `Spec => []IInv` |
| `Lookups` | | `Spec => []LookupsDefined` |
| `Distinctness` | | `Spec => []DistinctNodes` |
| `Flattening` | | `Spec => []FlattenKeeps` |
| `Merging` | | `Spec => []MergeKeeps` |
| `Conflicts` | | `Spec => []ConflictsReported` |
| `Faithfulness` | | `Spec => []StatementsKept` |
| `LoadingInvariant` | `LoadingProofs` | `NoneIsNoDocument => (Spec => []IInv)` |
| `ContextsLinked` | | `NoneIsNoDocument => (Spec => []LinkedContext)` |
| `RedirectionsCounted` | | `NoneIsNoDocument => (Spec => []RedirectionsExact)` |
| `FailuresExplained` | | `NoneIsNoDocument => (Spec => []FailureExplained)` |
| `Agreement` | `DocumentSetProofs` | `SetSpec => []BucketsAgree` |
| `Refinement` | | `SetSpec => ServesASet` |
| `NoDuplicates` | | `SetSpec => []Distinct` |
| `Conservation` | | `SetSpec => []NeverTruncated` |

Together they state every property but liveness that the runs of the memo, the
processing cache, the active context, term definitions, context processing, node maps
and loading check. The theorems on document sets are about the module `ToRdf` is built
on, whose run checks the refinement.

Assumptions. Each theorem rests at most on the named assumptions of its module, which
TLC evaluates on every run that uses it, and those of `LoadingProofs` on one hypothesis
besides:

- `MemoAssumption`: every key has a shard, the limit is positive, the values differ
  from the markers for "no result".
- `CacheAssumption`: the hash and the algorithm are functions with the right ranges;
  nothing is assumed about collisions or about the number of addresses.
- `ConstantsAssumption` (`ActiveContext`): the default values are values, and the
  marker for "no previous context" is no context. Contexts, addresses, values, modes
  and what a lookup answers are arbitrary.
- `TermAssumption`: the lexical forms; a prefix contains no colon; the loop visits
  every bound term; the entries of a binding are strings or absent. Which strings
  there are and what refers to what is arbitrary.
- `ProcessingAssumption`: active contexts and options have the fields and the Boolean
  flags of their types; a local context is a finite sequence of entries and a scoped
  context is a local context or none. The documents, what a loader answers and how
  contexts nest are arbitrary: nothing says that a context is not, somewhere inside,
  scoped to itself.
- `NodeMapAssumption`: objects have the entries of their types (`WellFormed`), a
  generator yields blank node identifiers and none twice, and IRIs, blank node
  identifiers and objects are different things, as are a sequence of types and none.
  That the generator does not yield what the document uses is not assumed.
- `TreeAssumption` (`NodeMap`): documents are finite trees (`Depth` decreases inwards)
  and a node object without identifier, which is told from every other, occurs in one
  place of them (`Unshared`), as a value that owns its parts does.
- `LoadingAssumption`: a limit is a number, the local loader is of a known kind, a
  document is given with a call unless it is to be loaded, and the links of an answer are
  IRI references. `HeadersAssumption`: what the parsers read in an answer is what the
  answer was written from; the parsers are folds over text, which TLC evaluates for every
  answer of the run. The hypothesis `NoneIsNoDocument`: the marker for "no
  document" is not one of the records a load gives; it speaks of all values, so TLC
  cannot evaluate it, and holds of the model value the run has for it.
- `DocumentSet` assumes nothing: objects, their hashes and what collides are arbitrary.

Arguments.

- *ShardedMemo.* The invariant is `Shape /\ SoundEntries /\ SoundResults /\
  OneEntryPerKey /\ Bounded`. `OneEntryPerKey` and `Bounded` need only that a
  shard's content is a finite set of entries; the refinement needs `SoundEntries`
  (an entry holds the value of its key) and `SoundResults` (what a caller carries
  to its insert or its return is the value of its key), because a caller inserts
  what it computed before it knew what others did. Each step maps to a step of
  `PureService` or to a stutter: `Call` begins; `Get` on a hit, `Compute` on a
  failing key and `Insert` finish; `Return` leaves.
- *ProcessingCache.* The invariant is `Shape /\ EntriesSound /\ ResultsSound`.
  `EntriesSound` survives a step because `Commit` changes the contents of an
  address only if it was free or is written under `MakeMut`, and neither is an
  address an entry pins. `ResultsSound` says that between processing and
  returning, the result's contents are still what the active context gives; it
  is what makes the inserted entry sound.
- *ActiveContext.* Every action ends in `Commit`, so the invariant (`Sound`) is a
  condition on the four things a step commits, and each action establishes it of
  those. Correctness of a cell (`Correct`) is not inductive alone: a context may change
  while another holds the same cell. What carries it is `Agreed`, that the holders of
  an untainted cell agree on the inputs it is computed from; a mutator either gives its
  context a new cell, or the cell was cold and shared and is tainted by the same step.
  The compact-IRI memo reads two other caches, so `SameInputs` shows that its inputs
  determine theirs. `Spare` (a cell without holder is cold) is what makes an address
  that is given out again as good as new. `CopyOnWrite` follows because `MakeMut`
  writes at an address only if its context is the only holder.
- *TermDefinition.* The stack of calls is described by what each frame waits for
  (`Linked`) and by where it is while its term is out of the table (`DefineOK`).
  `SettledMappings` is the difficult one: a mapping is read while other definitions
  have left the table, and some come back with another content. The invariant says
  that what was read was settled (`Expanded`, `Grounded`: a term this context does not
  bind, or one that was begun and is no longer in progress), that what is settled stays
  as it is (`Onward`), and hence that a finished mapping is still what its reference
  means (`MeaningsOK`). The one place where an unsettled term is read as if it were
  finished is the check of a term against its own expansion: it is marked defined
  while still in hand. The lemmas `UnderCheck` and `Blocked` show that another term
  that refers to it from inside that check runs into the prefix of the checked term,
  which is pending, so that reading never completes (`Waits`). `NoReentry`, `DefinedOnce`
  and `ProtectedKept` follow from `CallsOK` and `TableOK`. `CycleDetection` has two
  halves. That an accepted context has no cycle: the invariant carries an order of the
  finished terms (`Ranked`), and a term is put behind them only when all it has to wait
  for is settled (`Provided` says so at each point of its definition). That a reported
  cycle is one: each call of `define` is for a term the definition next to it on the
  stack may wait for (`Descent`), so an order of the bound terms would descend from the
  pending term, through the calls, to itself. This is an induction along the stack,
  which the prover does not have; it goes through the least call that does not descend,
  and that a set of numbers has a least element (`Least`) comes from the library's
  theorem that finite sets are well-founded under inclusion.
- *ContextProcessing.* The invariant says of each call in progress that the chain of
  URLs it was made under ends in its own and does not lead back into itself where a
  scoped context is validated (`Chained`), that a remote context is processed as the
  record of dereferenced contexts has it (`Recorded`), and of each call and the one
  inside it that protected terms reach a remote context and it has no leave to override
  them (`Linked`); what returns keeps them (`ReturnOK`). Both leave out the terms a call
  has abandoned so far, and a call that adopts a remote context takes over what that one
  abandoned. A lemma for each kind of step
  (replace the innermost call, put one on top, take one off) leaves to each action a
  condition on its one frame. `TripwireUnreachable` is about `RequiresLoader`, a
  recursive function over contexts that may nest without end. Its equation has a
  solution, the least set of contexts that contains whatever requires the loader if what
  is scoped in it does (`Requiring`), so the function satisfies it; the calls of a run
  on the synchronous path then all are over contexts that do not require a loader.
- *NodeMap.* `StackOK` says that a call knows only graphs and nodes that are declared
  (`Placed`), also across the calls it makes, and that a reverse property links from a
  node that was declared where the link is written (`Subject`, `Fits`); maps only grow.
  `RelabelOK` says that relabelling is injective into what the generator has yielded,
  `NamesOK` that a node without a label got an identifier no other label has. That a
  generator yields nothing twice is all `DistinctNodes` needs of it; a label the
  document uses is never confused with a generated one, because every blank node is
  relabelled. `FlattenKeeps` needs `MapOK`: flattening leaves out nodes that say
  nothing, and a node that has a graph is named by one. `MergeKeeps` goes through the
  folds of merging (`Unfolded`): each node that was merged stays merged.
  `ConflictsReported` and `StatementsKept` compare the map with a reading of the whole
  document (`NodesIn`, `Meaning`, recursive functions that satisfy their equations
  because a document is a finite tree). The invariants are accounts. `Accounted`: each
  occurrence of a node has been declared with its index, or is in one of the objects the
  calls in progress still have to visit (`Held`), and no anonymous node among those was
  declared yet. `Stated` (its parts: `Tale`): what each section of an occurrence says is
  in the map, or in the hand of a call made for the occurrence (in its queue or among
  what it has collected), or the occurrence is still to be visited; the map says nothing
  that no occurrence says; and each call will return what the object it was made for
  means. `Means` is the least relation closed under the cases of `Meaning`, for the names
  given so far: it only grows with them, and at the end it is `Meaning`. A visit
  exchanges an object for what is in it (`Exchanged`), a return hands over a meaning, the
  end of a section writes. That each step keeps the account is one lemma per action
  (`...AccountedFor`, `...Told`).
- *Loading.* The invariant says what the HTTP loader knows at each of its steps: how
  many requests its count of redirections amounts to (`Counted`), that the target of a
  request is where the alternate of the last response leads (`Targeted`), and what the
  headers of the response whose body is being read have said. What a failed load reports
  is then what each loader found (`FirstSays` for the local one).
- *DocumentSet.* `BucketsAgree` says that each bucket holds the positions of the
  objects of its discriminant, each once, with the hash of the object there if a hash
  is cached, and that no two objects have one key. Insertion and lookup then are those of
  `InsertionSet`, whatever collides. While a pass is under way the set is drained;
  `PassConserves` says that what was put back and what is left are together what was
  taken out, position by position.

Where the proofs changed the models. Attempts to prove are findings about a model too:

- `CycleDetection` was stated with dependencies that are too coarse: it counted a term
  mapped to null as one that waits for its prefix, and did not count one whose `@type`
  or `@reverse` is the term itself. It holds as it is stated now, and the run has
  contexts on which the two differ.
- `DistinctNodes` spoke of the moment the map was complete, and is stated of every
  moment now, with the converse for IRIs. `NodeMap` got its sections and queues: before,
  a call held a position in the document, and what it would do next could only be said
  by following the document recursively. Then the object being visited stayed at the
  head of its queue until the call on it returned, as it does in the loops of the code:
  otherwise no state says for which object a call was made.
- `ConflictsReported` and `StatementsKept` do not hold of a document in which one
  anonymous node object is in two places, which no value of the code's types is:
  `Unshared` says so, and the corpus of `node_map` gives anonymous nodes an identity.
- `Loading` was written on top of the expansion, whose operators are recursive, and was
  out of the prover's reach; what it needs of the algorithms are parameters of it now.
- The header parsers became folds over the characters and parts of a header.

Model-checked only:

- Liveness (`Terminates`, `LoadReturns`): under fairness, out of the prover's reach.
- The properties of `Pipeline` (`NeverFailsLate`, `MeaningKept`, `TypeScopeConfined`,
  `EntryOrderIrrelevant`, `ReadBackExact`) and those of `ToRdf` about whole documents
  (`RewriteKeeps`, `QuadsExact`, `ReadBack`): their algorithms are RECURSIVE operators,
  for which the prover has no backend (`ContextSync`, `ContextSyntax`, `ExpandedJson`,
  `Expansion`, `Compaction`, `Relabeling`, `FromQuads` and the modules above them).
  `DocumentSet` and `InsertionSet` are not of this kind.
- That the header parsers read what was written (`HeadersAssumption`).

Induction over data is not available as such: the library's induction theorems take an
operator. Where a proof above needs one it goes through a first-order fact, that a set of
numbers that has 0 and with each number the next has all of them (`Induct`) or that a set
of numbers has a least element (`Least`), both had from the library's theorem on
well-founded orders (`WFMin`), which takes sets; or through the least set, or relation,
closed under the cases of a definition.

## 6. Where the code and its documentation disagree

Three statements of the documentation are properties that the code violates; each
is a run that finds the shortest behaviour.

1. `coldclone` (`Coherent`). A context is cloned before a memo has been
   populated; the clone is mutated. `invalidate_iri_caches`
   (`context/mod.rs:541-560`) replaces only populated cells, so both keep the
   same cold cell, and whichever looks up first answers for the other. `memo.rs`
   promises that a memo never yields a wrong result.
2. `compound_literal` (`CompoundDescribed`). With `RdfDirection::CompoundLiteral` a
   string with a direction becomes a blank node (`triples.rs:122`) that no quad
   describes: `CompoundLiteralTriples` is never built. `processor/mod.rs:69-72`
   says the blank node is the subject of `rdf:value` and `rdf:direction`.
3. `from_rdf_lost` (`AllReadBack`). A resource referred to once is left out of the top
   of its graph, though it may be referred to as a type, which is written as an
   identifier alone, or from within a circle (`serialization.rs:317` compares the
   predicate with the object, not the subject). `serialization.rs:381` says that
   it "builds a document from interpreted RDF quads", and 385 that it fails otherwise.

The models show more, which the properties are stated to allow or the instances to
leave out.

Context processing:

- A term reached first as another's dependency is defined with `protected = false`
  (`define.rs:508`, `iri.rs:87-102`), also in a context with `@protected: true`, which
  `merged.rs:82-83` calls the default of every term.
- The early return on an `@id` or `@reverse` that looks like a keyword
  (`define.rs:384-392`) leaves the term pending; a later reference to it is a "cyclic
  IRI mapping", although nothing is in progress. It has already removed the term's
  previous definition, even a protected one, which a remote context may so remove
  without being allowed to override it. `ProtectedKept` and `CycleDetection` name these
  terms (`Abandoned`) as their exception, `ProtectedSurvives` and `RemoteKeepsProtected`
  those of the call and of the remote contexts it adopted (`abandoned`).
- A URL entered by a reference stays on the stack of the array that holds it, so a
  local definition later in that array is taken for a remote one and its `@base` is
  ignored (`algorithm/mod.rs:439`, against `stack.rs:90-91`).
- `@propagate` in a term definition parses and is refused by `define`.
- A context that binds `@id`, or another keyword that is no entry of a context, gets a
  term of that name: `context/try_from_json.rs:338-347` files it with the bindings, and
  the arm of `define` that reports a keyword redefinition (`define.rs:801-805`) is not
  reached for it. Expansion takes the keyword before it would look up the term.

Expansion and compaction:

- `ordered` never sorts the entries of a node: `element.rs:239-243` against
  `options.rs:22-28`.
- Compaction writes bare scalars where the context does not make that lossless
  (`jsonld-compaction/src/lib.rs:6`): a language string under a default direction, a
  plain number under a language map. The corpus has no such value.
- Of two list values under one term with a list container the second replaces the
  first; the index of a list is dropped with its container; the base of the options
  replaces the one the context sets.
- Items of a property-valued index map whose index property expands to no property
  are dropped in silence; values that stand directly in a graph container, an empty
  reverse property, and the index of a node within an indexed graph do not survive a
  compaction. Neither does a JSON literal that is an array of two or more, or any
  array literal under `compactArrays = false`.
- The policy for terms only the vocabulary expands is also asked of keys that are no
  terms: language tags, indexes and identifiers in maps. Where a context has a
  vocabulary, one that rejects refuses every such map (`node.rs:639`, `789`), and one
  that drops keeps the item and loses its `@index` or `@id`. The key of a type map and
  the property of a property-valued index are added whatever the policy says of invalid
  IRIs (`node.rs:861-876`, `912`).
- `compare.rs:8-10` says duplicate keys make objects unequal; they do only in the
  second operand.

Flattening and RDF:

- A later occurrence of a node replaces its types (`node_map.rs:447`), reverse
  properties are not relabelled (`node_map.rs:506`), a node of a named graph with types
  but no properties is dropped (`mod.rs:92`), and merging drops the `@graph` entry of a
  node that occurs in both graphs (`node_map.rs:311`).
- A list item without an RDF value cuts the chain of cells (`triples.rs:441`), and what
  is cut off, or left out when the generator gives out, raises no warning, though the
  handler "is called whenever a quad is dropped" (`quad.rs:59`).
- `canonicalize` does not enter `@graph` and `@included`; relabelling leaves the keys of
  reverse properties; `identify_all` may issue a label the document uses for another
  node. The object on which a pass fails loses its identifier and its remaining
  properties, and `ToRdf::new` goes on after such a failure.
- Directions are lost on the way back: neither the i18n datatypes nor compound literals
  are decoded. Lists are folded in the default graph only.

Loaders:

- `finish_link!` takes the parameters of a link whose `href` is no IRI reference over to
  the next link (`link.rs:17-18` says otherwise).
- `MultipleContextLinkHeaders` ignores context links that cannot be resolved. Redirects
  the HTTP client follows do not change the URL of a document; an alternate's document
  has only the links of the last response. A linked context is processed with the URL
  of the link as its base, whatever URL it came from in the end. An expand or linked
  context that cannot be extracted from its document is reported as one that could not
  be loaded.

Traversal (not modelled): the sub-fragments of a reverse property leave out its key, so
`ExpandedDocument::blank_ids` misses a blank node used only there, and a term definition
yields no fragments, against the comment on `Context::traverse`.

## 7. What is not modelled

- *Context processing*: warnings; `map_ids` (builds an unshared context); the order and
  wording of what is reported; the `len`/`is_empty` readers of the memo; the
  previous-context address in the cache's key (treated by the code exactly as that of
  the definitions). That the synchronous and the asynchronous path agree below the depth
  limit is not stated.
- *Expansion*: warnings. Remote contexts in a document are `ContextProcessing`'s
  subject, and contexts that `Loading` loads name no further document. The policy of
  context processing for terms only a vocabulary expands is the default one, as
  expansion never passes another (`options.rs:38-49`).
- *Compaction*: the memo local to one call (`CompactIriMemo`) and entry points that only
  pass their arguments on.
- *JSON-LD 1.0* is a mode of `TermDefinition` and `ContextProcessing` and a parameter of
  every operator above; the requests of `pipeline` are in mode 1.1.
- *Node maps*: identifiers sorted on request (`ordered`); a generator that yields IRIs.
- *Numbers* are integers with a flag for their canonical form; digits, and what is lost
  between a double and its text, are left out. A JSON literal in RDF is its value.
- *Document model*: accessors, iterators over fragments, conversions between
  vocabularies, and the iterative drop of deep documents, which changes no value and is
  about the depth of the native stack, below the models. So is the native stack guard.
- *Front end*: methods that fill in default arguments, the flattening entry points and
  `into_document`. Syntax: fragments, printing, positions of errors.
- *Macros and the command line* generate code and handle arguments, without state of
  their own.

## 8. Plan

Done, in this order: `ActiveContext`, `ShardedMemo` with `PureService` and its
proofs, `ProcessingCache` and its proofs, `TermDefinition` and its first theorem,
`ContextProcessing`, `NodeMap`; then `JsonLd`, `ContextSync`, `Expansion`,
`TermSelection`, `Compaction` and `Pipeline` over them; `DocumentSet` with
`InsertionSet`, `Relabeling`, `RdfStream`, `FromQuads` and `ToRdf`; `ContextSyntax`,
`HttpHeaders` and `Loading`.

Proofs of `DocumentSet`, `ActiveContext`, `ContextProcessing`, `TermDefinition`,
`NodeMap` and `Loading` followed.

Next, most important first:

1. `Relabeling` and `FromQuads` as recursive functions over the depth of an object, like
   `NodesIn`. `RewriteKeeps` could then be proved with the account `Conservation` already
   keeps of a pass, and `QuadsExact` with one like that of `NodeMap`: what was yielded,
   what the iterators hold, and what is still to be visited.
2. The two paths of context processing against each other: that the mirror computes what
   `ContextProcessing` does below the depth limit.
3. `ExpandedJson`: `ReadBackExact`, by the depth of an object.
