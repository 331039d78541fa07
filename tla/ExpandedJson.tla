------------------------------- MODULE ExpandedJson -------------------------------
(***************************************************************************)
(* Expanded documents as JSON: IntoJson writes one, TryFromJson reads it   *)
(* back without the Expansion algorithm (src/jsonld-core/src/object,       *)
(* indexed.rs, document/expanded.rs), and the document itself, which keeps *)
(* equal objects once.                                                     *)
(***************************************************************************)
EXTENDS JsonLd

-----------------------------------------------------------------------------
(* IntoJsonWithContext                                                       *)

StringEntry(k, s) == IF s = None THEN <<>> ELSE <<Entry(<<k>>, JString(s))>>
TermStrings(terms) == [i \in DOMAIN terms |-> JString(TermString(terms[i]))]

RECURSIVE IntoJson(_)

ArrayOf(objects) == JArray([i \in DOMAIN objects |-> IntoJson(objects[i])])
ArrayEntry(k, objects) == IF objects = None THEN <<>> ELSE <<Entry(<<k>>, ArrayOf(objects))>>
PropertyEntries(entries) ==
    [i \in DOMAIN entries |-> Entry(TermString(entries[i].property), ArrayOf(entries[i].objects))]

NodeEntries(node) ==
    StringEntry("@id", IF node.id = None THEN None ELSE TermString(node.id))
    \o (IF node.types \in {None, <<>>} THEN <<>> ELSE <<Entry(<<"@type">>, JArray(TermStrings(node.types)))>>)
    \o ArrayEntry("@graph", node.graph) \o ArrayEntry("@included", node.included)
    \o (IF node.reverse = None THEN <<>> ELSE <<Entry(<<"@reverse">>, JObject(PropertyEntries(node.reverse)))>>)
    \o PropertyEntries(node.properties)

ValueEntries(object) ==
    CASE object.object = "literal" ->
           StringEntry("@type", IF object.typ = None THEN None ELSE TermString(object.typ))
           \o <<Entry(<<"@value">>, object.literal)>>
      [] object.object = "langstring" ->
           StringEntry("@language", object.language) \o StringEntry("@direction", object.direction)
           \o <<Entry(<<"@value">>, JString(object.string))>>
      [] object.object = "json" -> StringEntry("@type", <<"@json">>) \o <<Entry(<<"@value">>, object.value)>>

\* The index goes last, whatever the object.
IntoJson(object) ==
    JObject((CASE IsNode(object) -> NodeEntries(object)
               [] IsList(object) -> <<Entry(<<"@list">>, ArrayOf(object.items))>>
               [] IsValue(object) -> ValueEntries(object))
            \o StringEntry("@index", object.index))

\* ExpandedDocument::into_json_with
DocumentJson(objects) == ArrayOf(objects)

-----------------------------------------------------------------------------
(* TryFromJson                                                               *)

Read(x) == [error |-> None, read |-> x]
Unread(error) == [error |-> error, read |-> None]
Reading(r, Op(_)) == IF r.error = None THEN Op(r.read) ELSE r

GetEntry(value, k) == IF HasEntry(value, <<k>>) THEN EntryValue(value, <<k>>) ELSE None
Removed(value, keys) == JObject(SelectSeq(value.entries, LAMBDA entry : entry.key \notin {<<k>> : k \in keys}))

RECURSIVE FromJson(_, _)

\* Vec::try_from_json_in
ReadAll(value, Item(_)) ==
    IF value.json # "array" THEN Unread("InvalidList")
    ELSE FoldLeft(LAMBDA r, item : Reading(r, LAMBDA items : Reading(Item(item), LAMBDA x : Read(Append(items, x)))),
                  Read(<<>>), value.items)

ReadObjects(value, nodes) == ReadAll(value, LAMBDA item : FromJson(item, nodes))

ReadId(value) == IF IsString(value) THEN Read(IdOf(value.string)) ELSE Unread("InvalidId")
ReadString(value) == IF value = None THEN Read(None) ELSE IF IsString(value) THEN Read(value.string) ELSE Unread("Unexpected")

\* Mutant: the type of a literal is read and forgotten.
ReadLiteral_Untyped(value, typ) ==
    IF value.json \in {"null", "string", "number", "boolean"} THEN Read(Literal(value, None)) ELSE Unread("InvalidLiteral")

ReadLiteral(value, typ) ==
    IF value.json \in {"null", "string", "number", "boolean"} THEN Read(Literal(value, typ)) ELSE Unread("InvalidLiteral")

ReadLangString(value, language, direction, rest) ==
    Reading(ReadString(language), LAMBDA l :
        Reading(ReadString(direction), LAMBDA d :
            IF ~IsString(value) THEN Unread("Unexpected")
            ELSE IF d \notin {None, <<"ltr">>, <<"rtl">>} THEN Unread("InvalidDirection")
            ELSE IF rest.entries # <<>> THEN Unread("UnexpectedEntry")
            ELSE Read(LangString(value.string, l, d))))

ReadValue(object) ==
    LET value == GetEntry(object, "@value")
        typ == GetEntry(object, "@type")
        language == GetEntry(object, "@language")
        direction == GetEntry(object, "@direction")
    IN  IF typ # None
        THEN IF ~IsString(typ) THEN Unread("InvalidValueType")
             ELSE IF typ.string = <<"@json">> THEN Read(JsonLiteral(value))
             ELSE IF IsIri(typ.string) THEN ReadLiteral(value, IriTerm(typ.string))
             ELSE Unread("InvalidValueType")
        ELSE IF language # None \/ direction # None
        THEN ReadLangString(value, language, direction, Removed(object, {"@value", "@language", "@direction"}))
        ELSE ReadLiteral(value, None)

ReadList(object) ==
    IF Removed(object, {"@list"}).entries # <<>> THEN Unread("UnexpectedEntry")
    ELSE Reading(ReadObjects(GetEntry(object, "@list"), FALSE), LAMBDA items : Read(ListOf(items)))

ReadProperties(object, nodes) ==
    FoldLeft(LAMBDA r, entry : Reading(r, LAMBDA properties :
                Reading(ReadObjects(entry.value, nodes),
                        LAMBDA objects : Read(InsertAll(properties, IdOf(entry.key), objects)))),
             Read(<<>>), object.entries)

\* Read an entry of a node if it is there.
ReadField(r, object, k, Get(_), Set(_, _)) ==
    Reading(r, LAMBDA node : IF GetEntry(object, k) = None THEN Read(node)
                             ELSE Reading(Get(GetEntry(object, k)), LAMBDA x : Read(Set(node, x))))

NodeKeywords == {"@id", "@type", "@graph", "@included", "@reverse"}

ReadReverse(value) == IF IsObject(value) THEN ReadProperties(value, TRUE) ELSE Unread("InvalidObject")

ReadNode(object) ==
    Reading(ReadField(ReadField(ReadField(ReadField(ReadField(Read(NewNode),
                object, "@id", ReadId, LAMBDA n, x : [n EXCEPT !.id = x]),
                object, "@type", LAMBDA v : ReadAll(v, ReadId), LAMBDA n, x : [n EXCEPT !.types = x]),
                object, "@graph", LAMBDA v : ReadObjects(v, FALSE), LAMBDA n, x : [n EXCEPT !.graph = x]),
                object, "@included", LAMBDA v : ReadObjects(v, TRUE), LAMBDA n, x : [n EXCEPT !.included = x]),
                object, "@reverse", ReadReverse, LAMBDA n, x : [n EXCEPT !.reverse = x]),
            LAMBDA node : Reading(ReadProperties(Removed(object, NodeKeywords), FALSE),
                                  LAMBDA properties : Read([node EXCEPT !.properties = properties])))

\* Mutant: the index of an object is left with its other entries.
Unindexed_Kept(value) == value

\* The index is taken out before the object is read.
Unindexed(value) == Removed(value, {"@index"})

\* Where only a node may stand (included, reversed), every object is read as one.
ReadObject(object, node) ==
    IF node THEN ReadNode(object)
    ELSE IF GetEntry(object, "@context") # None THEN Unread("NotExpanded")
    ELSE IF GetEntry(object, "@value") # None THEN ReadValue(object)
    ELSE IF GetEntry(object, "@list") # None THEN ReadList(object)
    ELSE ReadNode(object)

FromJson(value, node) ==
    LET index == GetEntry(value, "@index")
    IN  IF ~IsObject(value) THEN Unread("InvalidObject")
        ELSE IF index # None /\ ~IsString(index) THEN Unread("InvalidIndex")
        ELSE Reading(ReadObject(Unindexed(value), node),
                     LAMBDA x : Read([x EXCEPT !.index = IF index = None THEN None ELSE index.string]))

-----------------------------------------------------------------------------
(* Equality of expanded objects: PartialEq for Node compares types, graphs,  *)
(* included nodes and properties without their order, lists with it.         *)

BagOf(sequence) ==
    [x \in {sequence[i] : i \in DOMAIN sequence} |-> Cardinality({i \in DOMAIN sequence : sequence[i] = x})]

RECURSIVE Meaning(_)

Meanings(objects) == [i \in DOMAIN objects |-> Meaning(objects[i])]
Unordered(objects) == IF objects = None THEN None ELSE BagOf(Meanings(objects))
UnorderedEntries(entries) ==
    IF entries = None THEN None
    ELSE {[property |-> entries[i].property, objects |-> Unordered(entries[i].objects)] : i \in DOMAIN entries}

Meaning(object) ==
    CASE IsNode(object) ->
           [object EXCEPT !.types = IF @ = None THEN None ELSE BagOf(@), !.graph = Unordered(@),
                          !.included = Unordered(@), !.properties = UnorderedEntries(@),
                          !.reverse = UnorderedEntries(@)]
      [] IsList(object) -> [object EXCEPT !.items = Meanings(@)]
      [] OTHER -> object

\* ExpandedDocument: equal objects once, in the order of their first insertion.
Inserted(objects, object) ==
    IF \E i \in DOMAIN objects : Meaning(objects[i]) = Meaning(object) THEN objects ELSE Append(objects, object)
DocumentOf(objects) == FoldLeft(Inserted, <<>>, objects)

\* ExpandedDocument::eq
SameDocument(a, b) ==
    Len(a) = Len(b) /\ {Meaning(a[i]) : i \in DOMAIN a} = {Meaning(b[i]) : i \in DOMAIN b}

\* ExpandedDocument::try_from_json_in
ReadDocument(value) ==
    Reading(ReadObjects(value, FALSE), LAMBDA objects : Read(DocumentOf(objects)))

=============================================================================
