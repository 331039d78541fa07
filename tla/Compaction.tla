-------------------------------- MODULE Compaction --------------------------------
(***************************************************************************)
(* The Compaction algorithm (src/jsonld-compaction/src) as functions: the  *)
(* JSON an expanded object compacts to under an active context.            *)
(*                                                                         *)
(* A result is a record [error, value].  The object being written is a     *)
(* record [entries, error], threaded through every entry that is added;    *)
(* once `error` is set nothing else is.  o has the fields mode,            *)
(* compactArrays and ordered.                                              *)
(***************************************************************************)
EXTENDS ContextSyntax, TermSelection

Value(value) == [error |-> None, value |-> value]
Aborted(error) == [error |-> error, value |-> None]
Empty == [entries |-> <<>>, error |-> None]

\* Go on with the value of a result, or fail with its error.
Given(w, result, Update(_, _)) == IF Ok(result) THEN Update(w, result.value) ELSE Failed(w, result.error)
GivenKey(w, result, Update(_, _)) == IF Ok(result) THEN Update(w, result.key) ELSE Failed(w, result.error)

Alias(context, k, o) == KeywordAlias(context, k, o.mode)

-----------------------------------------------------------------------------
(* Objects under construction: keys are unique.                              *)

Has(entries, key) == \E i \in DOMAIN entries : entries[i].key = key
At(entries, key) == entries[CHOOSE i \in DOMAIN entries : entries[i].key = key].value
Except(entries, key) == SelectSeq(entries, LAMBDA entry : entry.key # key)

\* Object::insert, which replaces.
Put(entries, key, value) ==
    IF Has(entries, key)
    THEN [i \in DOMAIN entries |-> IF entries[i].key = key THEN Entry(key, value) ELSE entries[i]]
    ELSE Append(entries, Entry(key, value))

IsArray(value) == value.json = "array"

RECURSIVE AddValue(_, _, _, _)

AddScalar(entries, key, value, asArray) ==
    IF ~Has(entries, key) THEN Put(entries, key, IF asArray THEN JArray(<<value>>) ELSE value)
    ELSE Put(entries, key, JArray(Append(AsArray(At(entries, key)), value)))

\* An array is added value by value, and leaves an array behind if one is asked for.
AddValue(entries, key, value, asArray) ==
    LET shaped == IF Has(entries, key) THEN Put(entries, key, JArray(AsArray(At(entries, key))))
                  ELSE IF asArray THEN Put(entries, key, JArray(<<>>)) ELSE entries
    IN  IF IsArray(value)
        THEN FoldLeft(LAMBDA es, v : AddValue(es, key, v, FALSE), shaped, value.items)
        ELSE AddScalar(entries, key, value, asArray)

WithEntry(w, key, value) == [w EXCEPT !.entries = Put(@, key, value)]
Added(w, key, value, asArray) == [w EXCEPT !.entries = AddValue(@, key, value, asArray)]

\* Update the map at a key, which is created if it is absent; a value that is no map collides.
Within(w, key, Update(_)) ==
    LET inner == Update([entries |-> IF Has(w.entries, key) THEN At(w.entries, key).entries ELSE <<>>, error |-> None])
    IN  IF Has(w.entries, key) /\ ~IsObject(At(w.entries, key)) THEN Failed(w, "CollidingEntry")
        ELSE IF Ok(inner) THEN WithEntry(w, key, JObject(inner.entries)) ELSE Failed(w, inner.error)

-----------------------------------------------------------------------------
(* compact_value                                                             *)

\* The index of a value in an @index container is already a key.
KeptIndex(context, property, index) ==
    IF "@index" \in ContainerOf(DefinitionOf(context, property)) THEN None ELSE index

\* Whether the property already says what a value object spells out.
Bare(context, property, object) ==
    LET definition == DefinitionOf(context, property)
        typ == IF definition = None THEN None ELSE definition.typ
        language == Mapping(definition, "language", context.language)
        direction == Mapping(definition, "direction", context.direction)
    IN  CASE object.object = "literal" ->
               object.typ = typ /\ (~IsString(object.literal) \/ typ # None \/ (language = None /\ direction = None))
          [] object.object = "langstring" -> object.language \in {None, language} /\ object.direction \in {None, direction}
          [] object.object = "json" -> typ = Kw("@json")

\* value_value
Content(object) ==
    CASE object.object = "literal" -> object.literal
      [] object.object = "langstring" -> JString(object.string)
      [] object.object = "json" -> object.value

\* The entries that are there, under the aliases of their keywords.
Aliased(context, entries, o) ==
    LET present == SelectSeq(entries, LAMBDA entry : entry.value # None)
    IN  [i \in DOMAIN present |-> Entry(Alias(context, present[i].key, o), present[i].value)]

Worded(k, s) == Entry(k, IF s = None THEN None ELSE JString(s))

CompactValue(context, property, object, o) ==
    LET definition == DefinitionOf(context, property)
        index == KeptIndex(context, property, object.index)
        tagged == object.object = "langstring"
        typed(typ) ==
            IF ~Ok(typ) THEN Aborted(typ.error)
            ELSE Value(JObject(Aliased(context,
                     <<Entry("@value", Content(object)), Worded("@type", typ.key),
                       Worded("@language", IF tagged THEN object.language ELSE None),
                       Worded("@direction", IF tagged THEN object.direction ELSE None),
                       Worded("@index", index)>>, o)))
    IN  IF index = None /\ Bare(context, property, object) THEN Value(Content(object))
        ELSE typed(IF object.object = "literal" /\ object.typ # None THEN CompactIri(context, object.typ, TRUE, o.mode)
                   ELSE Compacted(IF object.object = "json" THEN Alias(context, "@json", o) ELSE None))

-----------------------------------------------------------------------------
(* Parts of a node.                                                          *)

InsertId(w, context, id, o) ==
    GivenKey(w, CompactIri(context, id, FALSE, o.mode),
             LAMBDA v, key : WithEntry(v, Alias(context, "@id", o), JString(key)))

InsertIndex(w, context, property, index, o) ==
    IF KeptIndex(context, property, index) = None THEN w
    ELSE WithEntry(w, Alias(context, "@index", o), JString(index))

Finished(w) == IF Ok(w) THEN Value(JObject(w.entries)) ELSE Aborted(w.error)

CompactReference(context, property, id, index, o) ==
    LET definition == DefinitionOf(context, property)
        typ == IF definition = None THEN None ELSE definition.typ
        written(c) == IF Ok(c) THEN Value(JString(c.key)) ELSE Aborted(c.error)
    IN  IF typ \in {Kw("@id"), Kw("@vocab")} THEN written(CompactIri(context, id, typ = Kw("@vocab"), o.mode))
        ELSE Finished(Then(InsertId(Empty, context, id, o), LAMBDA w : InsertIndex(w, context, property, index, o)))

\* What the types compact to, in the order of the node.
CompactedTypes(context, types, o) ==
    FoldLeft(LAMBDA w, typ : Then(w, LAMBDA v : GivenKey(v, CompactIri(context, typ, TRUE, o.mode),
                                                         LAMBDA u, key : [u EXCEPT !.names = Append(@, key)])),
             [names |-> <<>>, error |-> None], IF types = None THEN <<>> ELSE types)

\* Mutant: the contexts of the types are applied in the order of the node's types.
TypeContexts_Unsorted(c, context, names, o) ==
    FoldLeft(LAMBDA x, name : Through(x, ScopeOf(Definition(context, name)), WithoutPropagation(Processing(o.mode))),
             c, names)

TypeContexts(c, context, names, o) ==
    FoldLeft(LAMBDA x, name : Through(x, ScopeOf(Definition(context, name)), WithoutPropagation(Processing(o.mode))),
             c, SortedStrings(names))

InsertTypes(w, context, names, o) ==
    LET strings == [i \in DOMAIN names |-> JString(names[i])]
        under(alias) ==
            Added(w, alias, IF Len(strings) = 1 THEN strings[1] ELSE JArray(strings),
                  (o.mode = "1.1" /\ "@set" \in ContainerOf(Definition(context, alias))) \/ ~o.compactArrays)
    IN  IF names = <<>> THEN w ELSE under(Alias(context, "@type", o))

IsReference(object) == IsNode(object) /\ IsEmptyNode(object) /\ object.id # None

\* The context an object starts from: reverted, unless it is a value or a reference,
\* then the scope of its property, which is looked up in the context from before
\* (every caller passes one context).
Scoped(context, property, object, o) ==
    Through(Borrowed(IF IsValue(object) \/ IsReference(object) \/ context.previous = None
                     THEN context ELSE context.previous),
            ScopeOf(DefinitionOf(context, property)), WithOverride(Processing(o.mode)))

-----------------------------------------------------------------------------
(* Map keys taken out of a compacted item.                                   *)

Taken(key, item) == [key |-> key, item |-> item]
StringOrNone(value) == IF IsString(value) THEN value.string ELSE None

\* The first value of an entry; the other values stay.
TakeFirst(item, key) ==
    LET values == AsArray(At(item.entries, key))
        others == IF IsArray(At(item.entries, key)) \/ IsString(At(item.entries, key)) THEN Tail(values) ELSE values
        rest == FoldLeft(LAMBDA es, v : AddValue(es, key, v, FALSE), Except(item.entries, key), others)
    IN  IF ~IsObject(item) \/ ~Has(item.entries, key) THEN Taken(None, item)
        ELSE IF values = <<>> THEN Taken(None, JObject(rest))
        ELSE Taken(StringOrNone(values[1]), JObject(rest))

TakeId(item, key) ==
    IF ~IsObject(item) \/ ~Has(item.entries, key) THEN Taken(None, item)
    ELSE Taken(StringOrNone(At(item.entries, key)), JObject(Except(item.entries, key)))
-----------------------------------------------------------------------------
RECURSIVE CompactElement(_, _, _, _), AddProperty(_, _, _, _, _, _)

\* compact_collection_with: an array, unless one item may stand alone.
Collected(context, property, w, o) ==
    IF ~Ok(w) THEN Aborted(w.error)
    ELSE IF /\ Len(w.items) = 1 /\ o.compactArrays
            /\ property \notin {<<"@graph">>, <<"@set">>}
            /\ ContainerOf(DefinitionOf(context, property)) \cap {"@list", "@set"} = {}
    THEN Value(w.items[1]) ELSE Value(JArray(w.items))

CompactCollection(context, property, objects, o) ==
    Collected(context, property,
        FoldLeft(LAMBDA w, object : Then(w, LAMBDA v :
                     Given(v, CompactElement(context, property, object, o),
                           LAMBDA u, item : IF item = JNull THEN u ELSE [u EXCEPT !.items = Append(@, item)])),
                 [items |-> <<>>, error |-> None], objects), o)

\* A list among the items of another collection.
CompactList(context, c, property, list, o) ==
    IF "@list" \in ContainerOf(DefinitionOf(context, property)) THEN CompactCollection(c, property, list.items, o)
    ELSE Finished(Then(AddProperty(Empty, c, Kw("@list"), list.items, FALSE, o),
                       LAMBDA w : InsertIndex(w, c, property, list.index, o)))

\* The reverse properties: a term that is itself reversed is an entry of the node.
MergeReverse(w, context, all, o) ==
    LET definition(entry) == Definition(context, entry.key)
        reversed(entry) == definition(entry) # None /\ definition(entry).reverse
        merge(v, entry) ==
            Added(v, entry.key, entry.value, "@set" \in definition(entry).container \/ ~o.compactArrays)
        merged == FoldLeft(merge, w, SelectSeq(all.entries, reversed))
        others == SelectSeq(all.entries, LAMBDA entry : ~reversed(entry))
    IN  IF ~Ok(all) THEN Failed(w, all.error)
        ELSE IF others = <<>> THEN merged
        ELSE WithEntry(merged, Alias(context, "@reverse", o), JObject(others))

AddProperties(w, context, properties, reverse, o) ==
    FoldLeft(LAMBDA v, e : Then(v, LAMBDA u : AddProperty(u, context, e.property, e.objects, reverse, o)), w, properties)

\* What a node holds forwards: its graph, its properties, its included nodes.
Contents(node, o) ==
    LET under(k, objects) == IF objects = None THEN <<>> ELSE <<[property |-> Kw(k), objects |-> objects]>>
    IN  under("@graph", node.graph)
        \o (IF o.ordered THEN SortSeq(node.properties, LAMBDA a, b : Before(a.property[2], b.property[2]))
            ELSE node.properties)
        \o under("@included", node.included)

\* The entries of a node, under the context of its types.
CompactEntries(c, property, node, names, o) ==
    Finished(
        Then(Then(Then(Then(IF node.id = None THEN Empty ELSE InsertId(Empty, c, node.id, o),
            LAMBDA w : InsertTypes(w, c, names, o)),
            LAMBDA w : IF node.reverse \in {None, <<>>} THEN w
                       ELSE MergeReverse(w, c, AddProperties(Empty, c, node.reverse, TRUE, o), o)),
            LAMBDA w : InsertIndex(w, c, property, node.index, o)),
            LAMBDA w : AddProperties(w, c, Contents(node, o), FALSE, o)))

InScope(c, Compact(_)) == IF Ok(c) THEN Compact(c.ctx) ELSE Aborted(c.error)

\* The types are looked up in the context from before the scope of the property.
CompactNode(context, scoped, property, node, types, o) ==
    IF ~Ok(types) THEN Aborted(types.error)
    ELSE InScope(TypeContexts(Borrowed(scoped), context, types.names, o),
                 LAMBDA c : CompactEntries(c, property, node, types.names, o))

CompactObject(context, property, object, o) ==
    InScope(Scoped(context, property, object, o), LAMBDA c :
        CASE IsReference(object) -> CompactReference(c, property, object.id, object.index, o)
          [] IsNode(object) /\ ~IsReference(object) ->
                CompactNode(context, c, property, object, CompactedTypes(context, object.types, o), o)
          [] IsList(object) -> CompactList(context, c, property, object, o)
          [] IsValue(object) -> CompactValue(c, property, object, o))

CompactElement(context, property, object, o) == CompactObject(context, property, object, o)

-----------------------------------------------------------------------------
(* compact_property: one value of a property, under the key it selects.      *)

\* The object the key is written into: the node's, or the map of its nesting term.
IntoNest(w, context, key, Update(_)) ==
    LET nest == IF Definition(context, key) = None THEN None ELSE Definition(context, key).nest
        alias == IF nest = None THEN None ELSE Definition(context, nest)
    IN  IF nest = None THEN Update(w)
        ELSE IF nest # <<"@nest">> /\ (alias = None \/ alias.value # Kw("@nest")) THEN Failed(w, "InvalidNestValue")
        ELSE Within(w, nest, Update)

AsArrayFor(context, key, o) ==
    "@set" \in ContainerOf(Definition(context, key)) \/ key \in {<<"@graph">>, <<"@list">>} \/ ~o.compactArrays

AddList(w, context, key, list, o) ==
    Given(w, CompactCollection(context, key, list.items, o),
          LAMBDA v, items :
             IF "@list" \in ContainerOf(Definition(context, key)) THEN WithEntry(v, key, JArray(AsArray(items)))
             ELSE Added(v, key, JObject(Aliased(context, <<Entry("@list", JArray(AsArray(items))),
                                                           Worded("@index", list.index)>>, o)),
                        AsArrayFor(context, key, o)))

\* A graph object written out.
ExplicitGraph(context, graph, items, id, o) ==
    JObject(Aliased(context, <<Entry("@graph", items)>>, o)
            \o (IF id = None THEN <<>> ELSE <<Entry(<<"@id">>, JString(id))>>)
            \o Aliased(context, <<Worded("@index", graph.index)>>, o))

\* Several nodes cannot stand for one graph without a wrapper.
SimpleGraph(context, items, o) ==
    IF IsArray(items) /\ Len(items.items) > 1 THEN JObject(<<Entry(Alias(context, "@included", o), items)>>) ELSE items

\* The key of a graph in a map of graphs by id.
GraphId(context, graph, o) ==
    IF graph.id = None THEN CompactIri(context, Kw("@none"), TRUE, o.mode)
    ELSE CompactIri(context, graph.id, FALSE, o.mode)

FileGraph(w, context, key, graph, items, id, o) ==
    LET container == ContainerOf(Definition(context, key))
        asArray == AsArrayFor(context, key, o)
        simple == graph.id = None
    IN  IF {"@graph", "@id"} \subseteq container
        THEN Within(w, key, LAMBDA map : GivenKey(map, id, LAMBDA u, k : Added(u, k, items, asArray)))
        ELSE IF {"@graph", "@index"} \subseteq container /\ simple
        THEN Within(w, key, LAMBDA map : Added(map, Explicit(graph.index, <<"@none">>), items, asArray))
        ELSE IF "@graph" \in container /\ simple THEN Added(w, key, SimpleGraph(context, items, o), asArray)
        ELSE IF simple THEN Added(w, key, ExplicitGraph(context, graph, items, None, o), asArray)
        ELSE GivenKey(w, id, LAMBDA u, k : Added(u, key, ExplicitGraph(context, graph, items, k, o), asArray))

AddGraph(w, context, key, graph, o) ==
    Given(w, CompactCollection(context, key, graph.graph, o),
          LAMBDA v, items : FileGraph(v, context, key, graph, items, GraphId(context, graph, o), o))

\* A node of which only its @id is left is written as a reference.
Referenced(context, key, object, taken, o) ==
    IF ~IsNode(object) \/ ~IsObject(taken.item) \/ Len(taken.item.entries) # 1 \/ ~Has(taken.item.entries, <<"@id">>)
    THEN Value(taken)
    ELSE Given([error |-> None], CompactElement(context, key, [NewNode EXCEPT !.id = object.id], o),
               LAMBDA w, item : Value([taken EXCEPT !.item = item]))

\* The key of a map container that an item is filed under, and what is left of the item.
MapKey(context, key, object, item, o) ==
    LET definition == Definition(context, key)
        container == definition.container
    IN  IF "@language" \in container /\ IsValue(object)
        THEN Value(Taken(IF IsTagged(object) THEN object.language ELSE None, Content(object)))
        ELSE IF {"@language", "@index"} \cap container = {"@index"}
        THEN Value(IF definition.index = None THEN Taken(object.index, item)
                   ELSE TakeFirst(item, CompactIri(context, InvalidTerm(definition.index), TRUE, o.mode).key))
        ELSE IF {"@language", "@id"} \cap container = {"@id"}
        THEN Value(TakeId(item, Alias(context, "@id", o)))
        ELSE Referenced(context, key, object,
                 TakeFirst(item, Alias(context, IF "@language" \in container THEN "@language" ELSE "@type", o)), o)

IsMap(container) == "@graph" \notin container /\ container \cap {"@language", "@index", "@id", "@type"} # {}

File(w, context, key, taken, o) ==
    Within(w, key, LAMBDA map :
        Added(map, IF taken.key = None THEN Alias(context, "@none", o) ELSE taken.key, taken.item,
              AsArrayFor(context, key, o)))

AddItem(w, context, key, object, o) ==
    Given(w, CompactElement(context, key, object, o),
          LAMBDA v, item :
             IF ~IsMap(ContainerOf(Definition(context, key))) THEN Added(v, key, item, AsArrayFor(context, key, o))
             ELSE Given(v, MapKey(context, key, object, item, o), LAMBDA u, taken : File(u, context, key, taken, o)))

AddUnder(w, context, key, object, o) ==
    IF object = None THEN Added(w, key, JArray(<<>>), TRUE)
    ELSE IF IsList(object) THEN AddList(w, context, key, object, o)
    ELSE IF IsGraph(object) THEN AddGraph(w, context, key, object, o)
    ELSE AddItem(w, context, key, object, o)

AddObject(w, context, property, object, reverse, o) ==
    GivenKey(w, CompactProperty(context, property, IF object = None THEN NewNode ELSE object, reverse, o.mode),
             LAMBDA v, key : IntoNest(v, context, key, LAMBDA u : AddUnder(u, context, key, object, o)))

\* A property without values leaves an empty array.
AddProperty(w, context, property, objects, reverse, o) ==
    FoldLeft(LAMBDA v, object : Then(v, LAMBDA u : AddObject(u, context, property, object, reverse, o)), w,
             IF objects = <<>> THEN <<None>> ELSE objects)

-----------------------------------------------------------------------------
(* document.rs: the compacted objects as one object, with its context.       *)

DocumentEntries(context, value, o) ==
    IF ~IsArray(value) THEN value.entries
    ELSE IF value.items = <<>> THEN <<>> ELSE <<Entry(Alias(context, "@graph", o), value)>>

\* A context that says nothing is not written.
Vacuous(json) == json \in {JNull, JArray(<<>>), JObject(<<>>)}

WithLocal(local, entries) ==
    JObject((IF entries = <<>> \/ Vacuous(WriteContext(local)) THEN <<>>
             ELSE <<Entry(<<"@context">>, WriteContext(local))>>) \o entries)

CompactDocument(context, local, objects, o) ==
    Given([error |-> None], CompactCollection(context, None, objects, o),
          LAMBDA w, value : Value(WithLocal(local, DocumentEntries(context, value, o))))

=============================================================================
