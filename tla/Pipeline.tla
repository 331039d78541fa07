-------------------------------- MODULE Pipeline --------------------------------
(***************************************************************************)
(* JsonLdProcessor (src/jsonld/src/processor): the operations a caller     *)
(* runs on a document, one after the other.  The caller holds a document;  *)
(* it expands it, writes the expanded document as JSON, reads that back,   *)
(* compacts it, and hands any of the results in again as a new document.   *)
(*                                                                         *)
(* A request fixes the document, the compaction context and the options.   *)
(* Flattening and RDF have their own operations and are not here.          *)
(***************************************************************************)
EXTENDS Expansion, Compaction

CONSTANTS
    Requests,     \* what callers ask: records [document, context, options]
    ScopedType,   \* a type whose scoped context alone has
    ScopedVocab   \* this vocabulary

ASSUME PipelineAssumption == \A r \in Requests : {"document", "context", "options"} = DOMAIN r

VARIABLES
    request,   \* the request being served
    stage,     \* "document", "expanded", "written", "compacted" or "failed"
    document,  \* the RemoteDocument the caller holds: [url, linked, json]
    expanded,  \* the expanded document the caller holds, None before the first
    first,     \* what the request's own document expanded to
    output     \* the JSON of the last serialization or compaction

vars == <<request, stage, document, expanded, first, output>>

-----------------------------------------------------------------------------
(* Options                                                                   *)

WithoutOrder(options) == [options EXCEPT !.ordered = FALSE]
ExpansionOptions(options) == [mode |-> options.mode, ordered |-> options.ordered, policy |-> options.policy]
CompactionOptions(options) ==
    [mode |-> options.mode, compactArrays |-> options.compactArrays, ordered |-> options.ordered]

\* RemoteDocument::expand_full: the expand context, then the context of the
\* document's Link header, then the document.
ExpandUnder(c, d, options) ==
    IF Ok(c) THEN ExpandDocument(c.ctx, d.json, ExpansionOptions(options)) ELSE [error |-> c.error, objects |-> <<>>]

ExpandFull(d, options) ==
    ExpandUnder(FoldLeft(LAMBDA c, local : Through(c, local, Processing(options.mode)),
                         Borrowed(NewContext(IF options.base = None THEN d.url ELSE options.base)),
                         <<options.expandContext, d.linked>>),
                d, options)

\* The context to compact with: the base of the options, else the one of the
\* context, else where the document is from.
CompactionBase(c, url, options) ==
    IF options.base # None THEN options.base
    ELSE IF options.compactToRelative /\ c.ctx.base = None THEN url ELSE c.ctx.base

\* compact_expanded_full
CompactUnder(c, context, objects, url, options) ==
    IF Ok(c)
    THEN CompactDocument([c.ctx EXCEPT !.base = CompactionBase(c, url, options)], context, objects,
                         CompactionOptions(options))
    ELSE Aborted(c.error)

CompactExpanded(objects, context, url, options) ==
    CompactUnder(Process(NewContext(None), context, Processing(options.mode)), context, objects, url, options)

-----------------------------------------------------------------------------
(* compare_full: equal up to the order of arrays and entries, then equal     *)
(* once expanded.                                                            *)

RECURSIVE Alike(_, _)

\* Each item takes the first one like it that no item before it took.
AlikeItems(a, b) ==
    LET free(taken, item) == {j \in DOMAIN b \ taken : Alike(item, b[j])}
        least(s) == CHOOSE j \in s : \A k \in s : j <= k
        take(taken, item) ==
            IF taken = None \/ free(taken, item) = {} THEN None ELSE taken \cup {least(free(taken, item))}
    IN  Len(a) = Len(b) /\ FoldLeft(take, {}, a) # None

AlikeEntries(a, b) ==
    /\ Len(a) = Len(b)
    /\ \A i \in DOMAIN a :
          LET same == {j \in DOMAIN b : b[j].key = a[i].key}
          IN  Cardinality(same) = 1 /\ \A j \in same : Alike(a[i].value, b[j].value)

\* Compare for Value
Alike(a, b) ==
    CASE a.json # b.json -> FALSE
      [] a.json = "array" /\ b.json = "array" -> AlikeItems(a.items, b.items)
      [] a.json = "object" /\ b.json = "object" -> AlikeEntries(a.entries, b.entries)
      [] OTHER -> a = b

\* RemoteDocument::compare_full, given what both documents expand to.
CompareFull(a, b, expandedA, expandedB) == Alike(a.json, b.json) /\ SameDocument(expandedA, expandedB)

RECURSIVE Shuffled(_)
\* The same JSON with the entries of every object in the opposite order.
Shuffled(value) ==
    CASE value.json = "array" -> JArray([i \in DOMAIN value.items |-> Shuffled(value.items[i])])
      [] value.json = "object" ->
           JObject(Reverse([i \in DOMAIN value.entries |->
                               Entry(value.entries[i].key, Shuffled(value.entries[i].value))]))
      [] OTHER -> value

ShuffledDocument(d) == [d EXCEPT !.json = Shuffled(@)]

-----------------------------------------------------------------------------
Fail == stage' = "failed" /\ UNCHANGED <<document, expanded, first, output>>

\* Expansion with the options of the request, or as compact_full does it first.
ExpandIt ==
    /\ stage = "document"
    /\ \E options \in {request.options, WithoutOrder(request.options)} :
          \E e \in {ExpandFull(document, options)} :
             IF Ok(e)
             THEN /\ expanded' = e.objects /\ stage' = "expanded"
                  /\ first' = IF first = None THEN e.objects ELSE first
                  /\ UNCHANGED <<document, output>>
             ELSE Fail
    /\ UNCHANGED request

WriteIt ==
    /\ stage = "expanded"
    /\ output' = DocumentJson(expanded) /\ stage' = "written"
    /\ UNCHANGED <<request, document, expanded, first>>

ReadIt ==
    /\ stage = "written"
    /\ \E r \in {ReadDocument(output)} :
          IF r.error = None
          THEN expanded' = r.read /\ stage' = "expanded" /\ UNCHANGED <<document, first, output>>
          ELSE Fail
    /\ UNCHANGED request

\* RemoteDocument::compact_full ends with this step.
CompactIt ==
    /\ stage = "expanded"
    /\ \E c \in {CompactExpanded(expanded, request.context, document.url, request.options)} :
          IF Ok(c) THEN output' = c.value /\ stage' = "compacted" /\ UNCHANGED <<document, expanded, first>> ELSE Fail
    /\ UNCHANGED request

\* The policy for a document that comes out of an expansion: what a policy that
\* drops let through, one that rejects accepts; terms of a compacted document need
\* the vocabulary again.
Rejecting == [invalid |-> "reject", vocab |-> "reject", allowUndefined |-> FALSE]
NextPolicy(policy) ==
    IF stage = "compacted" THEN DefaultPolicy ELSE IF policy.invalid = "drop" THEN Rejecting ELSE policy

\* An output becomes the next document, from the same place; it needs no other context.
SubmitIt ==
    /\ stage \in {"written", "compacted"}
    /\ document' = [document EXCEPT !.json = output, !.linked = None]
    /\ request' = [request EXCEPT !.options.expandContext = None, !.options.policy = NextPolicy(@)]
    /\ stage' = "document"
    /\ UNCHANGED <<expanded, first, output>>

\* The request's document again, its entries in another order.
ShuffleIt ==
    /\ stage = "expanded" /\ document = request.document
    /\ document' = ShuffledDocument(document) /\ stage' = "document"
    /\ UNCHANGED <<request, expanded, first, output>>

Init ==
    /\ request \in Requests
    /\ stage = "document" /\ document = request.document
    /\ expanded = None /\ first = None /\ output = None

Next == ExpandIt \/ WriteIt \/ ReadIt \/ CompactIt \/ SubmitIt \/ ShuffleIt

Spec == Init /\ [][Next]_vars

-----------------------------------------------------------------------------
(* Properties                                                                *)

\* What can be expanded once can be processed for ever: no later reading,
\* expansion or compaction of what came out of it fails (the error paths of
\* value.rs, node.rs and TryFromJson are for input, never for own output), not even
\* under a policy that rejects what the first expansion's policy dropped.
NeverFailsLate == first # None => stage # "failed"

\* IntoJson and TryFromJson are inverse: reading what was written gives the
\* same document (src/jsonld-core/src/document/expanded.rs).
ReadBackExact == [][ReadIt => SameDocument(expanded', expanded)]_vars

\* Whatever the order of operations, the meaning of the document is the one it
\* had first: expanding its serialization, or any compaction of it under any
\* options, gives the same expanded document.
MeaningKept == stage = "expanded" => SameDocument(expanded, first)

RECURSIVE NodesIn(_)
\* Every node of some objects, at any depth.
NodesIn(objects) ==
    LET under(entries) ==
            IF entries = None THEN {} ELSE UNION {NodesIn(entries[i].objects) : i \in DOMAIN entries}
        within(contents) == IF contents = None THEN {} ELSE NodesIn(contents)
        of(object) ==
            CASE IsNode(object) ->
                   {object} \cup under(object.properties) \cup under(object.reverse)
                       \cup within(object.graph) \cup within(object.included)
              [] IsList(object) -> NodesIn(object.items)
              [] IsValue(object) -> {}
    IN  UNION {of(objects[i]) : i \in DOMAIN objects}

PropertiesOf(node) ==
    {node.properties[i].property : i \in DOMAIN node.properties}
        \cup (IF node.reverse = None THEN {} ELSE {node.reverse[i].property : i \in DOMAIN node.reverse})

\* A type-scoped context ends with the node of its type: a term that only it
\* defines has no meaning on the nodes below, whatever key, list, graph, nest or
\* reverse map they sit under (element.rs reverts to the previous context; the
\* values of an index map, which carry an index, keep it as the algorithm says).
TypeScopeConfined ==
    stage = "expanded" =>
        \A node \in NodesIn(expanded) :
            (\E p \in PropertiesOf(node) : IsPrefix(ScopedVocab, p[2]))
                => (node.types # None /\ \E i \in DOMAIN node.types : node.types[i] = ScopedType) \/ node.index # None

\* The order of the entries of JSON objects means nothing: compare_full says that
\* a document with its entries in the opposite order is the document, contexts
\* that apply type by type included (two @type entries sort by key, element.rs).
EntryOrderIrrelevant ==
    stage = "expanded" /\ document = ShuffledDocument(request.document)
        => CompareFull(document, request.document, expanded, first)

=============================================================================
