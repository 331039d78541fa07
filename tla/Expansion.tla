-------------------------------- MODULE Expansion --------------------------------
(***************************************************************************)
(* The Expansion algorithm (src/jsonld-expansion/src) as functions: what    *)
(* expanding an element of a JSON-LD document under an active context       *)
(* returns.  Contexts are read by ContextSyntax and go through ContextSync, *)
(* the path the algorithm takes for contexts that name no document.         *)
(*                                                                         *)
(* A result has the shape of Expanded (null, one object, an array) or an    *)
(* error.                                                                   *)
(***************************************************************************)
EXTENDS ContextSyntax, ExpandedJson

Nothing == [error |-> None, shape |-> "null", objects |-> <<>>]
Single(object) == [error |-> None, shape |-> "object", objects |-> <<object>>]
Several(objects) == [error |-> None, shape |-> "array", objects |-> objects]
Refused(error) == [error |-> error, shape |-> "null", objects |-> <<>>]

\* The properties under which an element is the content of a document or a graph.
FreeFloating(property) == property \in {None, <<"@graph">>}

InOrder(entries, o) == IF o.ordered THEN SortedByKey(entries) ELSE entries

-----------------------------------------------------------------------------
(* The policy: what to do with a key that expands to no IRI (`invalid`), with *)
(* one that only the vocabulary expands (`vocab`), and whether one that does   *)
(* not expand at all may be dropped (`allowUndefined`).                        *)

DefaultPolicy == [invalid |-> "keep", vocab |-> "keep", allowUndefined |-> TRUE]

TermOf(context, key, o) == ExpandIri(context, key, FALSE, o.policy.vocab)

\* An invalid identifier the policy does not keep.
Unwanted(term, o) == term[1] = "invalid" /\ o.policy.invalid # "keep"
DropOr(w, o, error) == IF o.policy.invalid = "drop" THEN w ELSE Failed(w, error)

\* The entries of a map with what their keys expand to.
Keyed(context, entries, o) ==
    SelectSeq([i \in DOMAIN entries |->
                  [key |-> entries[i].key, term |-> TermOf(context, entries[i].key, o), value |-> entries[i].value]],
              LAMBDA entry : entry.term # Absent)

Forbids(keyed) == \E i \in DOMAIN keyed : keyed[i].term = Forbidden

EntriesOf(keyed, k) == SelectSeq(keyed, LAMBDA entry : entry.term = Kw(k))
LastWith(keyed, k) == IF EntriesOf(keyed, k) = <<>> THEN None ELSE Last(EntriesOf(keyed, k)).value

NodeId(term) == IF term \in {NullTerm, Absent} THEN None ELSE IF IsKw(term) THEN InvalidTerm(term[2]) ELSE term

-----------------------------------------------------------------------------
(* expand_literal: a scalar under the type, language and direction mappings  *)
(* of the active property.                                                   *)

ExpandLiteral(context, property, value, o) ==
    LET definition == DefinitionOf(context, property)
        typ == IF definition = None THEN None ELSE definition.typ
        id == ExpandIri(context, value.string, TRUE, IF typ = Kw("@vocab") THEN o.policy.vocab ELSE None)
    IN  IF IsString(value) /\ typ \in {Kw("@id"), Kw("@vocab")}
        THEN IF id = Forbidden THEN Refused("ForbiddenVocab") ELSE Single([NewNode EXCEPT !.id = NodeId(id)])
        ELSE IF typ \in {None, Kw("@id"), Kw("@vocab"), Kw("@none")}
             THEN IF IsString(value)
                  THEN Single(Tagged(value.string, Mapping(definition, "language", context.language),
                                     Mapping(definition, "direction", context.direction)))
                  ELSE Single(Literal(value, None))
        ELSE IF typ[1] = "iri" THEN Single(Literal(value, typ))
        ELSE Refused("InvalidTypeValue")

-----------------------------------------------------------------------------
(* expand_value: a map with an @value entry.                                 *)

Directions == {<<"ltr">>, <<"rtl">>}

ValueEntry(v, entry, scoped, o) ==
    LET s == IF IsString(entry.value) THEN entry.value.string ELSE None
        typed(typ) ==
            IF typ = Kw("@json") THEN [v EXCEPT !.json = TRUE]
            ELSE IF typ[1] = "iri" THEN [v EXCEPT !.json = FALSE, !.typ = typ]
            ELSE IF typ = Forbidden THEN Failed(v, "ForbiddenVocab")
            ELSE Failed(v, "InvalidTypedValue")
    IN  CASE entry.term = Kw("@language") ->
               IF s = None THEN Failed(v, "InvalidLanguageTaggedString")
               ELSE IF s = <<"@none">> THEN v ELSE [v EXCEPT !.language = s]
          [] entry.term = Kw("@direction") ->
               IF o.mode = "1.0" THEN v
               ELSE IF s \in Directions THEN [v EXCEPT !.direction = s] ELSE Failed(v, "InvalidBaseDirection")
          [] entry.term = Kw("@index") ->
               IF s = None THEN Failed(v, "InvalidIndexValue") ELSE [v EXCEPT !.index = s]
          [] entry.term = Kw("@type") ->
               IF s = None THEN Failed(v, "InvalidTypedValue") ELSE typed(ExpandIri(scoped, s, TRUE, o.policy.vocab))
          [] entry.term = Kw("@value") -> v
          [] OTHER -> Failed(v, "InvalidValueObject")

\* The value object, its entries having been read.
ValueOf(v, value) ==
    LET tagged == v.language # None \/ v.direction # None
        Indexed(object) == Single([object EXCEPT !.index = v.index])
    IN  IF ~Ok(v) THEN Refused(v.error)
        ELSE IF v.json THEN IF tagged THEN Refused("InvalidValueObject") ELSE Indexed(JsonLiteral(value))
        ELSE IF value.json \notin {"null", "string", "number", "boolean"} THEN Refused("InvalidValueObjectValue")
        ELSE IF value = JNull THEN Nothing
        ELSE IF tagged /\ v.typ # None THEN Refused("InvalidValueObject")
        ELSE IF tagged
             THEN IF IsString(value) THEN Indexed(Tagged(value.string, v.language, v.direction))
                  ELSE Refused("InvalidLanguageTaggedValue")
        ELSE Indexed(Literal(value, v.typ))

ExpandValue(keyed, inputType, scoped, o, value) ==
    LET start == [json |-> inputType = Kw("@json"), typ |-> None, index |-> None,
                  language |-> None, direction |-> None, error |-> None]
    IN  ValueOf(FoldLeft(LAMBDA v, entry : Then(v, LAMBDA u : ValueEntry(u, entry, scoped, o)), start, keyed), value)

-----------------------------------------------------------------------------
(* The contexts of a map: revert, then the property-scoped context, then the *)
(* map's own, then the type-scoped ones.                                     *)

\* Mutant: a map with an @id entry keeps the context, whatever its size.
Reverted_AnyId(context, entries, fromMap, o) ==
    LET terms == {TermOf(context, entries[i].key, o) : i \in DOMAIN entries}
    IN  IF fromMap \/ context.previous = None THEN Borrowed(context)
        ELSE IF Forbidden \in terms THEN Failed(Borrowed(context), "ForbiddenVocab")
        ELSE Borrowed(IF {Kw("@value"), Kw("@id")} \cap terms # {} THEN context ELSE context.previous)

Reverted(context, entries, fromMap, o) ==
    LET terms == {TermOf(context, entries[i].key, o) : i \in DOMAIN entries}
        kept == Kw("@value") \in terms \/ (Len(entries) = 1 /\ Kw("@id") \in terms)
    IN  IF fromMap \/ context.previous = None THEN Borrowed(context)
        ELSE IF Forbidden \in terms THEN Failed(Borrowed(context), "ForbiddenVocab")
        ELSE Borrowed(IF kept THEN context ELSE context.previous)

ThroughRead(scoped, read, o) ==
    IF read.error = None THEN Through(scoped, read.value, Processing(o.mode)) ELSE Failed(scoped, read.error)

OwnContext(scoped, local, o) ==
    IF ~Ok(scoped) \/ local = <<>> THEN scoped
    ELSE IF Len(local) > 1 THEN Failed(scoped, "DuplicateKey")
    ELSE ThroughRead(scoped, ReadContext(Head(local).value, 0), o)

Entered(context, property, entries, fromMap, o) ==
    OwnContext(Through(Reverted(context, entries, fromMap, o), ScopeOf(DefinitionOf(context, property)),
                       WithOverride(Processing(o.mode))),
               SelectSeq(entries, LAMBDA entry : entry.key = <<"@context">>), o)

Strings(value) ==
    LET strings == SelectSeq(AsArray(value), IsString)
    IN  [i \in DOMAIN strings |-> strings[i].string]

\* Mutant: the type entries keep the order of the document.
TypeEntries_AsWritten(keyed) == EntriesOf(keyed, "@type")

TypeEntries(keyed) == SortedByKey(EntriesOf(keyed, "@type"))

\* The types of a map, in the order in which their contexts apply.
TypeNames(keyed) ==
    LET entries == TypeEntries(keyed)
    IN  FlattenSeq([i \in DOMAIN entries |-> SortedStrings(Strings(entries[i].value))])

\* Each type is looked up in the context from before any of them applied.
TypeScoped(scoped, keyed, o) ==
    FoldLeft(LAMBDA c, name : Through(c, ScopeOf(Definition(scoped, name)), WithoutPropagation(Processing(o.mode))),
             Borrowed(scoped), TypeNames(keyed))

\* The last value of the first type entry, expanded under the type-scoped contexts.
InputType(context, keyed, o) ==
    IF TypeEntries(keyed) = <<>> THEN None
    ELSE LET values == AsArray(TypeEntries(keyed)[1].value)
         IN  IF values = <<>> \/ ~IsString(Last(values)) THEN None ELSE TermOf(context, Last(values).string, o)

-----------------------------------------------------------------------------
RECURSIVE ExpandElement(_, _, _, _, _), ExpandEntries(_, _, _)

\* Expand under a processed context, unless its processing failed.
InContext(c, Expand(_)) == IF Ok(c) THEN Expand(c.ctx) ELSE Refused(c.error)

\* Expand with the keys of a map, unless the policy forbids one.
Permitted(keyed, Expand(_)) == IF Forbids(keyed) THEN Refused("ForbiddenVocab") ELSE Expand(keyed)

FollowedBy(v, e) == IF Ok(e) THEN Several(v.objects \o e.objects) ELSE e

\* Concatenate the results of an operator over a sequence, up to the first error.
Concat(sequence, Op(_)) ==
    FoldLeft(LAMBDA w, x : Then(w, LAMBDA v : FollowedBy(v, Op(x))), Several(<<>>), sequence)

ExpandItems(context, property, items, fromMap, o) ==
    Concat(items, LAMBDA item : ExpandElement(context, property, item, fromMap, o))

\* One list object of all the objects; JSON-LD 1.0 has no lists of lists.
Listed(e, index, o) ==
    IF ~Ok(e) THEN e
    ELSE IF o.mode = "1.0" /\ \E i \in DOMAIN e.objects : IsList(e.objects[i]) THEN Refused("ListOfLists")
    ELSE Single([ListOf(e.objects) EXCEPT !.index = index])

ExpandArray(context, property, items, fromMap, o) ==
    LET contained(e) == IF "@list" \in ContainerOf(DefinitionOf(context, property)) THEN Listed(e, None, o) ELSE e
    IN  contained(ExpandItems(context, property, items, fromMap, o))

ExpandScalar(context, property, value, o) ==
    IF FreeFloating(property) THEN Nothing
    ELSE InContext(Through(Borrowed(context), ScopeOf(DefinitionOf(context, property)), Processing(o.mode)),
               LAMBDA c : ExpandLiteral(c, property, value, o))

\* A map with an @list entry has no other entry but an @index.
ExpandList(context, property, keyed, o) ==
    LET bad == SelectSeq(keyed, LAMBDA entry :
                   entry.term # Kw("@list") /\ ~(entry.term = Kw("@index") /\ IsString(entry.value)))
        index == LastWith(keyed, "@index")
    IN  IF bad # <<>>
        THEN Refused(IF bad[1].term = Kw("@index") THEN "InvalidIndexValue" ELSE "InvalidSetOrListObject")
        ELSE Listed(ExpandItems(context, property, AsArray(LastWith(keyed, "@list")), FALSE, o),
                    IF index = None THEN None ELSE index.string, o)

ExpandSet(context, property, keyed, o) ==
    IF \E i \in DOMAIN keyed : keyed[i].term \notin {Kw("@set"), Kw("@index")}
    THEN Refused("InvalidSetOrListObject")
    ELSE ExpandElement(context, property, LastWith(keyed, "@set"), FALSE, o)

\* What is left of a node once its entries have been read.
NodeOf(w, property) ==
    IF ~Ok(w) THEN Refused(w.error)
    ELSE IF \/ w.tagged /\ IsEmptyNode(w.node) /\ w.node.id = None
            \/ FreeFloating(property) /\ IsEmptyNode(w.node) /\ w.node.index = None
    THEN Nothing
    ELSE Single(w.node)

ExpandNode(context, scoped, property, keyed, o) ==
    LET e == [context |-> context, scoped |-> scoped, property |-> property, o |-> o]
    IN  NodeOf(ExpandEntries([node |-> NewNode, tagged |-> FALSE, error |-> None], e, keyed), property)

\* A map by what it holds.
ExpandTyped(context, scoped, property, inputType, keyed, o) ==
    IF ~FreeFloating(property) /\ LastWith(keyed, "@list") # None THEN ExpandList(context, property, keyed, o)
    ELSE IF LastWith(keyed, "@set") # None THEN ExpandSet(context, property, keyed, o)
    ELSE IF LastWith(keyed, "@value") # None
         THEN ExpandValue(keyed, inputType, scoped, o, LastWith(keyed, "@value"))
    ELSE ExpandNode(context, scoped, property, keyed, o)

ExpandMap(context, property, entries, fromMap, o) ==
    InContext(Entered(context, property, entries, fromMap, o), LAMBDA scoped :
        Permitted(Keyed(scoped, entries, o), LAMBDA first :
            InContext(TypeScoped(scoped, first, o), LAMBDA c :
                IF InputType(c, first, o) = Forbidden THEN Refused("ForbiddenVocab")
                ELSE Permitted(Keyed(c, entries, o), LAMBDA keyed :
                         ExpandTyped(c, scoped, property, InputType(c, first, o), keyed, o)))))

ExpandJson(context, property, element, fromMap, o) ==
    CASE element.json = "null" -> Nothing
      [] element.json = "array" -> ExpandArray(context, property, element.items, fromMap, o)
      [] element.json = "object" -> ExpandMap(context, property, element.entries, fromMap, o)
      [] OTHER -> ExpandScalar(context, property, element, o)

ExpandElement(context, property, element, fromMap, o) == ExpandJson(context, property, element, fromMap, o)

-----------------------------------------------------------------------------
(* The keyword entries of a node object.                                     *)

\* filter_top_level_item
NoValues(objects) == SelectSeq(objects, LAMBDA object : ~IsValue(object))
AllNodes(e) == \A i \in DOMAIN e.objects : IsNode(e.objects[i])

\* Node::has_key, which knows no other keyword.
HasKey(node, k) ==
    CASE k = "@id" -> node.id # None
      [] k = "@type" -> node.types # None
      [] k = "@graph" -> node.graph # None
      [] k = "@included" -> node.included # None
      [] k = "@reverse" -> node.reverse # None
      [] OTHER -> FALSE

\* Add what an element expanded to, or its error.
WithExpanded(w, e, Update(_)) == IF Ok(e) THEN Update(e.objects) ELSE Failed(w, e.error)

AddTerm(w, term, o) ==
    IF term = Absent THEN w
    ELSE IF term = Forbidden THEN Failed(w, "ForbiddenVocab")
    ELSE IF IsId(term) /\ Unwanted(term, o) THEN DropOr(w, o, "InvalidTypeValue")
    ELSE IF IsId(term) THEN [w EXCEPT !.node.types = Append(IF @ = None THEN <<>> ELSE @, term)]
    ELSE Failed(w, "InvalidTypeValue")

AddType(w, v, scoped, o) ==
    AddTerm(w, IF IsString(v) THEN ExpandIri(scoped, v.string, TRUE, o.policy.vocab) ELSE None, o)

AddReverse(node, property, nodes) ==
    [node EXCEPT !.reverse = InsertAll(IF @ = None THEN <<>> ELSE @, property, nodes)]

\* Put expanded objects under a property, forwards or backwards.
InsertExpanded(w, term, backwards, x) ==
    IF ~Ok(x) THEN Failed(w, x.error)
    ELSE IF ~backwards THEN [w EXCEPT !.node.properties = InsertAll(@, term, x.objects)]
    ELSE IF AllNodes(x) THEN [w EXCEPT !.node = AddReverse(@, term, x.objects)]
    ELSE Failed(w, "InvalidReversePropertyValue")

IsReverse(definition) == definition # None /\ definition.reverse

\* A reverse property of a reverse map points forwards.
ReverseEntry(w, e, entry) ==
    LET term == TermOf(e.context, entry.key, e.o)
    IN  IF term = Forbidden THEN Failed(w, "ForbiddenVocab")
        ELSE IF IsKw(term) THEN Failed(w, "InvalidReversePropertyMap")
        ELSE IF ~IsId(term) \/ ~HasColon(term[2])
             THEN IF e.o.policy.invalid = "reject" \/ ~e.o.policy.allowUndefined
                  THEN Failed(w, "KeyExpansionFailed") ELSE w
        ELSE IF Unwanted(term, e.o) THEN DropOr(w, e.o, "KeyExpansionFailed")
        ELSE InsertExpanded(w, term, ~IsReverse(Definition(e.context, entry.key)),
                            ExpandElement(e.context, entry.key, entry.value, FALSE, e.o))

\* The entries of a nested map land in the same node, under the context of the nesting key.
NestedEntries(w, e, keyed) ==
    IF Forbids(keyed) THEN Failed(w, "ForbiddenVocab") ELSE ExpandEntries(w, e, keyed)

NestedUnder(w, e, c, value) ==
    IF ~Ok(c) THEN Failed(w, c.error)
    ELSE IF ~IsObject(value) THEN Failed(w, "InvalidNestValue")
    ELSE NestedEntries(w, [e EXCEPT !.context = c.ctx], Keyed(c.ctx, InOrder(value.entries, e.o), e.o))

NestedMap(w, e, key, value) ==
    NestedUnder(w, e, Through(Borrowed(e.context), ScopeOf(Definition(e.context, key)),
                              WithOverride(Processing(e.o.mode))), value)

AddIncluded(w, x) ==
    IF Ok(x) /\ ~AllNodes(x) THEN Failed(w, "InvalidIncludedValue")
    ELSE WithExpanded(w, x, LAMBDA nodes : [w EXCEPT !.node.included = (IF @ = None THEN <<>> ELSE @) \o nodes])

KeywordValue(w, e, k, key, value) ==
    CASE k = "@id" ->
           IF IsString(value)
           THEN [w EXCEPT !.node.id = NodeId(ExpandIri(e.context, value.string, TRUE, None))]
           ELSE Failed(w, "InvalidIdValue")
      [] k = "@type" ->
           FoldLeft(LAMBDA u, v : Then(u, LAMBDA x : AddType(x, v, e.scoped, e.o)), w, AsArray(value))
      [] k = "@graph" ->
           WithExpanded(w, ExpandElement(e.context, <<"@graph">>, value, FALSE, e.o),
                        LAMBDA objects : [w EXCEPT !.node.graph = NoValues(objects)])
      [] k = "@included" ->
           IF e.o.mode = "1.0" THEN w
           ELSE AddIncluded(w, ExpandElement(e.context, <<"@included">>, value, FALSE, e.o))
      [] k \in {"@language", "@direction"} -> [w EXCEPT !.tagged = TRUE]
      [] k = "@index" ->
           IF IsString(value) THEN [w EXCEPT !.node.index = value.string] ELSE Failed(w, "InvalidIndexValue")
      [] k = "@reverse" ->
           IF IsObject(value)
           THEN FoldLeft(LAMBDA u, entry : Then(u, LAMBDA x : ReverseEntry(x, e, entry)), w,
                         InOrder(value.entries, e.o))
           ELSE Failed(w, "InvalidReverseValue")
      [] k = "@nest" ->
           FoldLeft(LAMBDA u, v : Then(u, LAMBDA x : NestedMap(x, e, key, v)), w, AsArray(value))
      [] k = "@value" -> Failed(w, "InvalidNestValue")
      [] OTHER -> w

KeywordEntry(w, e, entry) ==
    LET k == Head(entry.term[2])
    IN  IF e.property = <<"@reverse">> THEN Failed(w, "InvalidReversePropertyMap")
        ELSE IF (e.o.mode = "1.0" \/ k \notin {"@included", "@type"}) /\ HasKey(w.node, k)
             THEN Failed(w, "CollidingKeywords")
        ELSE KeywordValue(w, e, k, entry.key, entry.value)

-----------------------------------------------------------------------------
(* The other entries of a node object: properties.                           *)

GraphOf(object) == [NewNode EXCEPT !.graph = <<object>>]

\* One value of a language map entry.
LanguageItem(e, definition, language, item) ==
    LET direction == Mapping(definition, "direction", e.context.direction)
        term == TermOf(e.context, language, e.o)
    IN  IF item = JNull THEN Nothing
        ELSE IF ~IsString(item) THEN Refused("InvalidLanguageMapValue")
        ELSE IF term = Forbidden THEN Refused("ForbiddenVocab")
        ELSE Single(Tagged(item.string, IF term = Kw("@none") THEN None ELSE language, direction))

LanguageMap(e, definition, entries) ==
    Concat(InOrder(entries, e.o),
           LAMBDA entry : Concat(AsArray(entry.value), LAMBDA item : LanguageItem(e, definition, entry.key, item)))

\* The context of one entry of an index, id or type map.
MapContext(e, container, index) ==
    LET base == IF container \cap {"@type", "@id"} # {} /\ e.context.previous # None
                THEN e.context.previous ELSE e.context
    IN  IF "@type" \in container
        THEN Through(Borrowed(base), ScopeOf(Definition(base, index)), Processing(e.o.mode))
        ELSE Borrowed(base)

\* The item under an index property: the index becomes one more property of it.
WithIndexProperty(e, indexKey, index, item) ==
    LET added(value, term) ==
            IF ~Ok(value) THEN value
            ELSE IF term = Forbidden THEN Refused("ForbiddenVocab")
            ELSE IF ~IsId(term) THEN Nothing
            ELSE IF IsNode(item) THEN Single([item EXCEPT !.properties = InsertAll(@, term, value.objects)])
            ELSE Refused("InvalidValueObject")
    IN  added(ExpandLiteral(e.context, indexKey, JString(index), e.o), TermOf(e.context, indexKey, e.o))

\* What the key of its entry adds to an item of an index, id or type map.
MapItem(e, container, indexKey, index, object) ==
    LET item == IF "@graph" \in container /\ ~IsGraph(object) THEN GraphOf(object) ELSE object
        term == TermOf(e.context, index, e.o)
    IN  IF term \in {Absent, NullTerm, Kw("@none")} THEN Single(item)
        ELSE IF "@index" \in container /\ indexKey # <<"@index">> THEN WithIndexProperty(e, indexKey, index, item)
        ELSE IF "@index" \in container /\ item.index = None THEN Single([item EXCEPT !.index = index])
        ELSE IF "@id" \in container /\ (~IsNode(item) \/ item.id = None)
             THEN Single(IF IsNode(item) THEN [item EXCEPT !.id = NodeId(ExpandIri(e.context, index, TRUE, None))]
                         ELSE item)
        ELSE IF "@type" \notin container THEN Single(item)
        ELSE IF ~IsId(term) THEN Refused("InvalidTypeValue")
        ELSE Single(IF IsNode(item) THEN [item EXCEPT !.types = <<term>> \o (IF @ = None THEN <<>> ELSE @)] ELSE item)

MapItems(e, definition, index, x) ==
    IF ~Ok(x) THEN x
    ELSE Concat(x.objects, LAMBDA object :
             MapItem(e, definition.container, Explicit(definition.index, <<"@index">>), index, object))

IndexMap(e, key, definition, entries) ==
    Concat(InOrder(entries, e.o), LAMBDA entry :
        InContext(MapContext(e, definition.container, entry.key), LAMBDA c :
            IF TermOf(e.context, entry.key, e.o) = Forbidden THEN Refused("ForbiddenVocab")
            ELSE MapItems(e, definition, entry.key, ExpandElement(c, key, entry.value, TRUE, e.o))))

\* What the value of a property expands to, before its container wraps it.
PropertyValue(e, key, definition, value) ==
    LET container == ContainerOf(definition)
    IN  IF definition # None /\ definition.typ = Kw("@json") THEN Single(JsonLiteral(value))
        ELSE IF IsObject(value) /\ "@language" \in container THEN LanguageMap(e, definition, value.entries)
        ELSE IF IsObject(value) /\ container \cap {"@index", "@type", "@id"} # {}
             THEN IndexMap(e, key, definition, value.entries)
        ELSE ExpandElement(e.context, key, value, FALSE, e.o)

Wrapped(x, container, o) ==
    LET listed == IF "@list" \in container /\ ~(x.shape = "object" /\ IsList(x.objects[1])) THEN Listed(x, None, o) ELSE x
    IN  IF ~Ok(listed) THEN listed
        ELSE IF "@graph" \in container /\ container \cap {"@id", "@index"} = {}
             THEN Several([i \in DOMAIN listed.objects |-> GraphOf(listed.objects[i])])
        ELSE listed

PropertyEntry(w, e, entry) ==
    LET definition == Definition(e.context, entry.key)
        insert(x) == IF x = Nothing THEN w ELSE InsertExpanded(w, entry.term, IsReverse(definition), x)
    IN  insert(Wrapped(PropertyValue(e, entry.key, definition, entry.value), ContainerOf(definition), e.o))

\* A key that is no keyword and expands to no IRI is dropped, if the policy allows.
ExpandEntry(w, e, entry) ==
    IF entry.term \in {NullTerm, Kw("@context")} THEN w
    ELSE IF IsKw(entry.term) THEN KeywordEntry(w, e, entry)
    ELSE IF HasColon(entry.term[2])
         THEN IF Unwanted(entry.term, e.o) THEN DropOr(w, e.o, "KeyExpansionFailed") ELSE PropertyEntry(w, e, entry)
    ELSE IF (entry.term[1] = "invalid" /\ e.o.policy.invalid = "reject") \/ ~e.o.policy.allowUndefined
         THEN Failed(w, "KeyExpansionFailed")
    ELSE w

ExpandEntries(w, e, keyed) ==
    FoldLeft(LAMBDA u, entry : Then(u, LAMBDA v : ExpandEntry(v, e, entry)), w, keyed)

-----------------------------------------------------------------------------
\* document.rs: the objects at the root; an unnamed graph alone is its content.
UnnamedGraph(object) == IsGraph(object) /\ object.id = None

DocumentFrom(e) ==
    LET alone == Len(e.objects) = 1 /\ UnnamedGraph(e.objects[1])
    IN  IF ~Ok(e) THEN [error |-> e.error, objects |-> <<>>]
        ELSE [error |-> None, objects |-> DocumentOf(IF alone THEN e.objects[1].graph ELSE NoValues(e.objects))]

ExpandDocument(context, document, o) == DocumentFrom(ExpandElement(context, None, document, FALSE, o))

=============================================================================
