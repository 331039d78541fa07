------------------------------- MODULE ContextSync -------------------------------
(***************************************************************************)
(* The loader-free mirror of context processing (process_context_sync,     *)
(* define_sync and expand_iri_with_sync in                                 *)
(* src/jsonld-context-processing/src/algorithm/sync.rs) as functions: what *)
(* processing a context that names no document returns.  Expansion and     *)
(* compaction process their contexts through it.                           *)
(*                                                                         *)
(* The state a definition threads is a record [ctx, defined, error]; once  *)
(* `error` is set nothing else happens.  The remote context stack is       *)
(* always empty here and the vocabulary policy the default one.            *)
(***************************************************************************)
EXTENDS JsonLd

CONSTANT MaxSyncDepth  \* MAX_SYNC_DEPTH

ASSUME ContextSyncAssumption == MaxSyncDepth \in Nat

\* A context entry of each kind; a definition's bindings keep their order.
NullEntry == [entry |-> "null"]
DefinitionEntry(bindings) ==
    [entry |-> "definition", base |-> None, import |-> None, vocab |-> None, language |-> None, direction |-> None,
     propagate |-> None, protected |-> None, version |-> None, type |-> None, bindings |-> bindings]

One(entry) == [many |-> FALSE, entries |-> <<entry>>]
Many(entries) == [many |-> TRUE, entries |-> entries]

Processing(mode) == [mode |-> mode, override |-> FALSE, propagate |-> TRUE]
WithOverride(options) == [options EXCEPT !.override = TRUE]
WithNoOverride(options) == [options EXCEPT !.override = FALSE]
WithoutPropagation(options) == [options EXCEPT !.propagate = FALSE]

-----------------------------------------------------------------------------
Failed(w, error) == [w EXCEPT !.error = error]
Ok(w) == w.error = None
Then(w, Op(_)) == IF Ok(w) THEN Op(w) ELSE w

\* Merged::bound_key and Merged::get
Bound(local, key) ==
    IF key = <<"@type">> THEN local.type # None
    ELSE \E i \in DOMAIN local.bindings : local.bindings[i].key = key
BindingOf(local, key) == local.bindings[CHOOSE i \in DOMAIN local.bindings : local.bindings[i].key = key].binding

With(table, key, x) == (key :> x) @@ table
Without(table, key) == [k \in DOMAIN table \ {key} |-> table[k]]
Explicit(entry, default) == IF entry = None THEN default ELSE entry

Containers ==
    {{"@list"}} \cup {s \cup c : s \in {{}, {"@set"}},
                      c \in {{}, {"@index"}, {"@language"}, {"@id"}, {"@type"}, {"@graph"},
                             {"@graph", "@id"}, {"@graph", "@index"}}}
Containers10 == {{"@list"}, {"@set"}, {"@index"}, {"@language"}}

\* contains_between_boundaries(':') or a slash
RoundTrips(key) == HasSlash(key) \/ (HasColon(key) /\ FirstColon(key) > 1 /\ key[Len(key)] # ":")

EndsInGenDelimOrBlank(term) ==
    \/ term[1] = "blank"
    \/ term[1] = "iri" /\ term[2][Len(term[2])] \in GenDelims

EmptyDefinition(protected) ==
    [value |-> None, prefix |-> FALSE, protected |-> protected, reverse |-> FALSE, typ |-> None,
     container |-> {}, index |-> None, context |-> None, language |-> None, direction |-> None, nest |-> None]

\* A protected definition may only be replaced by one that differs in nothing else.
Redefines(previous, definition, options) ==
    /\ ~options.override /\ previous # None
    /\ previous.protected /\ [definition EXCEPT !.protected = TRUE] # previous

Kept(previous, definition, options) ==
    IF ~options.override /\ previous # None /\ previous.protected
    THEN [definition EXCEPT !.protected = TRUE] ELSE definition

-----------------------------------------------------------------------------
RECURSIVE DefineSync(_, _, _, _, _, _), ExpandIriSync(_, _, _, _, _), ProcessSync(_, _, _, _)

Expanded(w, term) == [w |-> w, term |-> term]

\* A term another one depends on is defined without the context-wide @protected.
Dependency(w, key, local, options, depth) == DefineSync(w, local, key, FALSE, WithNoOverride(options), depth + 1)

AsMapped(w, definition) == Expanded(w, IF definition.value = None THEN NullTerm ELSE definition.value)
AsWritten(w, s) == Expanded(w, WithColon(w.ctx, s, FALSE, "keep"))

\* The rest of the expansion of a string, once it has been defined as a term.
ExpandDefined(w, s, local, options, depth) ==
    IF ~Ok(w) THEN Expanded(w, None)
    ELSE IF Definition(w.ctx, s) # None THEN AsMapped(w, Definition(w.ctx, s))
    ELSE IF ~HasColon(s) \/ FirstColon(s) = 1 THEN Expanded(w, Unmapped(w.ctx, s, FALSE, "keep"))
    ELSE IF ~IsBlank(s) /\ IsCompact(s) THEN AsWritten(Dependency(w, PrefixOf(s), local, options, depth), s)
    ELSE AsWritten(w, s)

\* expand_iri_with_sync, never document relative and always through the vocabulary.
ExpandIriSync(w, s, local, options, depth) ==
    IF s = Null THEN Expanded(w, NullTerm)
    ELSE IF IsKeyword(s) THEN Expanded(w, Kw(Head(s)))
    ELSE IF KeywordLike(s) THEN Expanded(w, NullTerm)
    ELSE ExpandDefined(Dependency(w, s, local, options, depth), s, local, options, depth)

\* The work of one definition: the state, the definition being built, and
\* whether define returned early, leaving the term pending.
WithTerm(u, result, Update(_, _)) ==
    IF Ok(result.w)
    THEN Update([u EXCEPT !.ctx = result.w.ctx, !.defined = result.w.defined], result.term)
    ELSE Failed(u, result.w.error)

AllowedType(term) == term[1] = "iri" \/ term \in {Kw("@id"), Kw("@json"), Kw("@none"), Kw("@vocab")}

TypeMapping(u, local, b, options, depth) ==
    IF b.type = None THEN u
    ELSE WithTerm(u, ExpandIriSync(u, b.type, local, options, depth + 1),
             LAMBDA v, term :
                IF ~AllowedType(term) \/ (options.mode = "1.0" /\ term \in {Kw("@json"), Kw("@none")})
                THEN Failed(v, "InvalidTypeMapping")
                ELSE [v EXCEPT !.definition.typ = term])

Reversed(u, local, b, options, depth) ==
    IF b.id # None \/ b.nest # None THEN Failed(u, "InvalidReverseProperty")
    ELSE IF KeywordLike(b.reverse) THEN [u EXCEPT !.abandoned = TRUE]
    ELSE WithTerm(u, ExpandIriSync(u, b.reverse, local, options, depth + 1),
             LAMBDA v, term :
                IF ~IsId(term) \/ term[1] = "invalid" THEN Failed(v, "InvalidIriMapping")
                ELSE IF b.container \notin {None, Null, {"@set"}, {"@index"}} THEN Failed(v, "InvalidReverseProperty")
                ELSE [v EXCEPT !.definition.value = term, !.definition.reverse = TRUE])

\* A term that looks like an IRI must itself expand to what it is mapped to.
RoundTrip(u, local, key, options, depth) ==
    IF options.mode = "1.0" \/ ~RoundTrips(key) THEN u
    ELSE WithTerm(u, ExpandIriSync([u EXCEPT !.defined[key] = FALSE], key, local, options, depth + 1),
             LAMBDA v, term : IF term = u.definition.value THEN v ELSE Failed(v, "InvalidIriMapping"))

MapTo(u, term) ==
    IF term = Kw("@context") THEN Failed(u, "InvalidKeywordAlias")
    ELSE IF term[1] = "invalid" THEN Failed(u, "InvalidIriMapping")
    ELSE [u EXCEPT !.definition.value = term]

Identified(u, local, key, b, options, depth) ==
    IF b.id = Null THEN u
    ELSE IF KeywordLike(b.id) /\ ~IsKeyword(b.id) THEN [u EXCEPT !.abandoned = TRUE]
    ELSE Then(Then(WithTerm(u, ExpandIriSync(u, b.id, local, options, depth + 1), MapTo),
                   LAMBDA v : RoundTrip(v, local, key, options, depth)),
              LAMBDA v : [v EXCEPT !.definition.prefix =
                             /\ ~HasColon(key) /\ ~HasSlash(key)
                             /\ b.simple /\ EndsInGenDelimOrBlank(v.definition.value)])

\* A term without an @id of its own.  The prefix flag is not asked for here.
IriOnly(term) == IF IsId(term) /\ IsIri(term[2]) THEN term ELSE None

OwnMapping(context, key) ==
    LET p == IF IsCompact(key) THEN Definition(context, PrefixOf(key)) ELSE None
    IN  IF p # None
        THEN IriOnly(IriTerm((IF p.value # None /\ p.value[1] = "iri" THEN p.value[2] ELSE <<>>) \o SuffixOf(key)))
        ELSE IF IsBlank(key) THEN BlankTerm(key)
        ELSE IF IsIri(key) THEN IriTerm(key)
        ELSE IF IsIriRef(key) /\ HasSlash(key) THEN IriOnly(ExpandKey(context, key))
        ELSE IF context.vocab # None /\ context.vocab[1] = "iri" THEN IriOnly(IriTerm(context.vocab[2] \o key))
        ELSE None

MapToOwn(u, w, key) ==
    WithTerm(u, Expanded(w, OwnMapping(w.ctx, key)),
        LAMBDA v, term : IF term = None THEN Failed(v, "InvalidIriMapping")
                         ELSE [v EXCEPT !.definition.value = term])

Derived(u, local, key, options, depth) ==
    MapToOwn(u, IF IsCompact(key) THEN Dependency(u, PrefixOf(key), local, options, depth) ELSE u, key)

IriMapping(u, local, key, b, options, depth) ==
    IF b.reverse # None THEN Reversed(u, local, b, options, depth)
    ELSE IF b.id \notin {None, key} THEN Identified(u, local, key, b, options, depth)
    ELSE Derived(u, local, key, options, depth)

IsType(container) == container \notin {None, Null} /\ "@type" \in container

\* The first error the remaining entries raise, in the order they are read.
RestError(u, key, b, options, depth) ==
    LET old == options.mode = "1.0"
        term == ExpandKey(u.ctx, b.index)
        scope(error) == IF error \in {None, "ContextOverflow"} THEN error ELSE "InvalidScopedContext"
    IN  IF b.container # None /\ (IF old THEN b.container \notin Containers10
                                  ELSE b.container # Null /\ b.container \notin Containers)
        THEN "InvalidContainerMapping"
        ELSE IF IsType(b.container) /\ u.definition.typ \notin {None, Kw("@id"), Kw("@vocab")} THEN "InvalidTypeMapping"
        ELSE IF b.index # None /\ (old \/ b.container \in {None, Null} \/ "@index" \notin b.container \/ term[1] # "iri")
        THEN "InvalidTermDefinition"
        ELSE IF b.context # None /\ old THEN "InvalidTermDefinition"
        ELSE Explicit(
            IF b.context = None THEN None
            ELSE scope(ProcessSync(u.ctx, b.context, WithOverride(options), depth + 1).error),
            IF \/ b.nest # None /\ old
               \/ b.prefix # None /\ (old \/ HasColon(key) \/ HasSlash(key))
               \/ b.prefix = TRUE /\ IsKw(u.definition.value)
               \/ b.propagate # None
            THEN "InvalidTermDefinition" ELSE None)

Completed(definition, b) ==
    [definition EXCEPT
        !.container = IF b.container \in {None, Null} THEN {} ELSE b.container,
        !.typ = IF @ = None /\ IsType(b.container) THEN Kw("@id") ELSE @,
        !.index = b.index, !.context = b.context, !.nest = b.nest,
        !.language = IF b.type = None THEN b.language ELSE None,
        !.direction = IF b.type = None THEN b.direction ELSE None,
        !.prefix = Explicit(b.prefix, @)]

Rest(u, key, b, options, depth) ==
    LET end(error) == IF error = None THEN [u EXCEPT !.definition = Completed(@, b)] ELSE Failed(u, error)
    IN  end(RestError(u, key, b, options, depth))

\* The end of a definition, unless it failed or was abandoned.
Settled(u, previous, key, options) ==
    LET result == [ctx |-> u.ctx, defined |-> u.defined, error |-> u.error]
    IN  IF ~Ok(u) \/ u.abandoned THEN result
        ELSE IF Redefines(previous, u.definition, options) THEN Failed(result, "ProtectedTermRedefinition")
        ELSE [result EXCEPT !.ctx.terms = With(@, key, Kept(previous, u.definition, options)),
                            !.defined = With(@, key, FALSE)]

DefineTermSync(w, local, key, protected, options, depth) ==
    LET b == BindingOf(local, key)
        begun == [ctx |-> [w.ctx EXCEPT !.terms = Without(@, key)], defined |-> With(w.defined, key, TRUE),
                  error |-> IF b.protected # None /\ options.mode = "1.0" THEN "InvalidTermDefinition" ELSE None,
                  definition |-> EmptyDefinition(Explicit(b.protected, protected)), abandoned |-> FALSE]
    IN  Settled(Then(Then(Then(begun,
                               LAMBDA u : TypeMapping(u, local, b, options, depth)),
                          LAMBDA u : IriMapping(u, local, key, b, options, depth)),
                     LAMBDA u : IF u.abandoned THEN u ELSE Rest(u, key, b, options, depth)),
                Definition(w.ctx, key), key, options)

DefineTypeSync(w, local, options) ==
    LET previous == w.ctx.type
        definition == [container |-> Explicit(local.type.container, {}), protected |-> Explicit(local.type.protected, FALSE)]
    IN  IF options.mode = "1.0" THEN Failed(w, "KeywordRedefinition")
        ELSE IF Redefines(previous, definition, options) THEN Failed(w, "ProtectedTermRedefinition")
        ELSE [w EXCEPT !.ctx.type = Kept(previous, definition, options), !.defined = With(@, <<"@type">>, FALSE)]

DefineSync(w, local, key, protected, options, depth) ==
    IF depth >= MaxSyncDepth THEN Failed(w, "ContextOverflow")
    ELSE IF ~Bound(local, key) THEN IF key = <<>> THEN Failed(w, "InvalidTermDefinition") ELSE w
    ELSE IF key \in DOMAIN w.defined THEN IF w.defined[key] THEN Failed(w, "CyclicIriMapping") ELSE w
    ELSE IF key = <<>> THEN Failed(w, "InvalidTermDefinition")
    ELSE IF key = <<"@type">> THEN DefineTypeSync(w, local, options)
    ELSE DefineTermSync(w, local, key, protected, options, depth)

-----------------------------------------------------------------------------
(* process_context_sync                                                      *)

HasProtected(context) ==
    \/ \E t \in DOMAIN context.terms : context.terms[t].protected
    \/ context.type # None /\ context.type.protected

Nullified(w, options) ==
    IF ~options.override /\ HasProtected(w.ctx) THEN Failed(w, "InvalidContextNullification")
    ELSE [w EXCEPT !.ctx = [NewContext(w.ctx.original) EXCEPT
                               !.mode = options.mode, !.previous = IF options.propagate THEN None ELSE w.ctx]]

WithBase(w, base) ==
    IF base = None THEN w
    ELSE IF base = Null THEN [w EXCEPT !.ctx.base = None]
    ELSE IF IsIri(base) THEN [w EXCEPT !.ctx.base = base]
    ELSE IF w.ctx.base = None THEN Failed(w, "InvalidBaseIri")
    ELSE [w EXCEPT !.ctx.base = Resolve(base, @)]

WithVocab(w, vocab, options) ==
    LET mapped(term) == IF IsId(term) THEN [w EXCEPT !.ctx.vocab = term] ELSE Failed(w, "InvalidVocabMapping")
    IN  IF vocab = None THEN w
        ELSE IF vocab = Null THEN [w EXCEPT !.ctx.vocab = None]
        ELSE IF options.mode = "1.0" /\ ~IsIri(vocab) /\ ~IsBlank(vocab) THEN Failed(w, "InvalidVocabMapping")
        ELSE mapped(ExpandIri(w.ctx, vocab, options.mode # "1.0", "keep"))

NullToNone(x) == IF x = Null THEN None ELSE x

WithDefaults(w, local, options) ==
    IF local.direction # None /\ options.mode = "1.0" THEN Failed(w, "InvalidContextEntry")
    ELSE [w EXCEPT !.ctx.language = IF local.language = None THEN @ ELSE NullToNone(local.language),
                   !.ctx.direction = IF local.direction = None THEN @ ELSE NullToNone(local.direction)]

WithTerms(w, local, options, depth) ==
    LET keys == (IF local.type = None THEN <<>> ELSE <<<<"@type">>>>)
                    \o [i \in DOMAIN local.bindings |-> local.bindings[i].key]
        result(v) == [ctx |-> v.ctx, error |-> v.error]
    IN  result(FoldLeft(LAMBDA u, key : Then(u, LAMBDA v :
                            DefineSync(v, local, key, Explicit(local.protected, FALSE), options, depth + 1)),
                        [ctx |-> w.ctx, defined |-> [k \in {} |-> FALSE], error |-> None], keys))

Defined(w, local, options, depth) ==
    Then(Then(Then(IF local.version # None /\ options.mode = "1.0" THEN Failed(w, "ProcessingModeConflict")
                   ELSE WithBase(w, local.base),
                   LAMBDA v : WithVocab(v, local.vocab, options)),
              LAMBDA v : WithDefaults(v, local, options)),
         LAMBDA v : WithTerms(v, local, options, depth))

ProcessSync(active, local, options, depth) ==
    LET first == local.entries[1]
        propagates == ~local.many /\ first.entry = "definition" /\ first.propagate # None
        o == IF propagates THEN [options EXCEPT !.propagate = first.propagate] ELSE options
        start == [active EXCEPT !.mode = options.mode,
                                !.previous = IF ~o.propagate /\ @ = None THEN active ELSE @]
    IN  IF propagates /\ options.mode = "1.0" THEN [ctx |-> active, error |-> "InvalidContextEntry"]
        ELSE FoldLeft(LAMBDA w, e : Then(w, LAMBDA v :
                          IF e.entry = "null" THEN Nullified(v, o) ELSE Defined(v, e, o, depth)),
                      [ctx |-> start, error |-> None], local.entries)

\* process_full on a context that needs no loader.
Process(active, local, options) == ProcessSync(active, local, options, 0)

-----------------------------------------------------------------------------
(* How expansion and compaction use it.                                      *)

DefinitionOf(context, property) == IF property = None THEN None ELSE Definition(context, property)
ScopeOf(definition) == IF definition = None THEN None ELSE definition.context

\* A container is the set of the kinds it combines, empty for a term that has none.
ContainerOf(definition) == IF definition = None THEN {} ELSE definition.container

\* Process a scoped context, if there is one, on top of the context so far.
Through(c, local, options) == IF local = None \/ ~Ok(c) THEN c ELSE Process(c.ctx, local, options)
Borrowed(context) == [ctx |-> context, error |-> None]

\* A language or direction mapping, else the default of the context.
Mapping(definition, field, default) ==
    NullToNone(IF definition = None THEN default ELSE Explicit(definition[field], default))

=============================================================================
