------------------------------ MODULE ContextSyntax ------------------------------
(***************************************************************************)
(* Local contexts as JSON: reading one (try_from_json in                   *)
(* src/jsonld-syntax/src/context), writing one (into_json.rs), and taking  *)
(* one out of a loaded document (ExtractContext in jsonld-core/loader).    *)
(*                                                                         *)
(* A reading is [error, value].  The kinds of a "@container" array are a   *)
(* set: their order and repetition mean nothing to context processing.     *)
(***************************************************************************)
EXTENDS ContextSync

CONSTANT MaxContextDepth  \* MAX_CONTEXT_DEPTH

ASSUME ContextSyntaxAssumption == MaxContextDepth \in Nat

IriEntry(s) == [entry |-> "iri", iri |-> s]

\* The field of a definition each keyword sets, in the order they are written.
TermFields ==
    <<"id", "type", "context", "reverse", "index", "language", "direction", "container", "nest", "prefix",
      "propagate", "protected">>
ContextFields == <<"base", "import", "language", "direction", "propagate", "protected", "type", "version", "vocab">>
KeyOf(field) ==
    <<CASE field = "id" -> "@id" [] field = "type" -> "@type" [] field = "context" -> "@context"
        [] field = "reverse" -> "@reverse" [] field = "index" -> "@index" [] field = "language" -> "@language"
        [] field = "direction" -> "@direction" [] field = "container" -> "@container" [] field = "nest" -> "@nest"
        [] field = "prefix" -> "@prefix" [] field = "propagate" -> "@propagate" [] field = "protected" -> "@protected"
        [] field = "base" -> "@base" [] field = "import" -> "@import" [] field = "version" -> "@version"
        [] field = "vocab" -> "@vocab">>

ContextKeys == {KeyOf(ContextFields[i]) : i \in DOMAIN ContextFields}

-----------------------------------------------------------------------------
(* Reading.                                                                  *)

IsRead(x) == [error |-> None, value |-> x]
Malformed(error) == [error |-> error, value |-> None]
IfRead(r, Op(_)) == IF r.error = None THEN Op(r.value) ELSE r

\* A loop over items that stops at the first error.
AllRead(readings) ==
    IF \A i \in DOMAIN readings : readings[i].error = None
    THEN IsRead([i \in DOMAIN readings |-> readings[i].value])
    ELSE readings[CHOOSE i \in DOMAIN readings :
                     readings[i].error # None /\ \A j \in 1..i - 1 : readings[j].error = None]

\* Entries read by the reader of their key.  A key comes once (set_unique!, insert_with),
\* and is read before that is known.
ReadEntries(entries, Reader(_, _)) ==
    AllRead([i \in DOMAIN entries |->
        IfRead(Reader(entries[i].key, entries[i].value),
               LAMBDA x : IF \E j \in 1..i - 1 : entries[j].key = entries[i].key
                          THEN Malformed("DuplicateKey") ELSE IsRead(Entry(entries[i].key, x)))])

\* The value entries give to a key, if they do.
ValueFor(entries, key) ==
    IF \E i \in DOMAIN entries : entries[i].key = key
    THEN entries[CHOOSE i \in DOMAIN entries : entries[i].key = key].value ELSE None

ReadText(v) == IF v.json = "string" THEN IsRead(v.string) ELSE Malformed("Unexpected")
ReadBoolean(v) == IF v.json = "boolean" THEN IsRead(v.boolean) ELSE Malformed("Unexpected")
ReadMap(v, Op(_)) == IF v.json = "object" THEN Op(v.entries) ELSE Malformed("Unexpected")
ReadNullable(v, Reader(_)) == IF v.json = "null" THEN IsRead(Null) ELSE Reader(v)

\* A string of some shape.
ReadShaped(v, Shape(_), error) ==
    IfRead(ReadText(v), LAMBDA s : IF Shape(s) THEN IsRead(s) ELSE Malformed(error))

ReadIriRef(v) == ReadShaped(v, IsIriRef, "InvalidIriRef")
ReadDirection(v) == ReadShaped(v, LAMBDA s : s \in {<<"ltr">>, <<"rtl">>}, "InvalidDirection")
ReadNest(v) == ReadShaped(v, LAMBDA s : s = <<"@nest">> \/ ~IsKeyword(s), "InvalidNestValue")

ContainerKinds == {"@graph", "@id", "@index", "@language", "@list", "@set", "@type"}
ReadKind(v) == ReadShaped(v, LAMBDA s : Len(s) = 1 /\ Head(s) \in ContainerKinds, "InvalidTermDefinition")
ReadContainer(v) ==
    IfRead(AllRead([i \in DOMAIN AsArray(v) |-> ReadKind(AsArray(v)[i])]),
           LAMBDA kinds : IsRead({Head(kinds[i]) : i \in DOMAIN kinds}))

\* 1.1, apart from the integers that documents hold.
VersionNumber == 11
ReadVersion(v) ==
    IF v.json # "number" THEN Malformed("Unexpected")
    ELSE IF v.number = VersionNumber THEN IsRead(v.number) ELSE Malformed("InvalidTermDefinition")

ReadTypeEntry(key, v) ==
    CASE key = <<"@container">> -> ReadShaped(v, LAMBDA s : s = <<"@set">>, "InvalidTermDefinition")
      [] key = <<"@protected">> -> ReadBoolean(v)
      [] OTHER -> Malformed("InvalidTermDefinition")

ReadType(v) ==
    ReadMap(v, LAMBDA entries :
        IfRead(ReadEntries(entries, ReadTypeEntry),
               LAMBDA given :
                  IF ValueFor(given, <<"@container">>) = None THEN Malformed("InvalidTermDefinition")
                  ELSE IsRead([container |-> {"@set"},
                               protected |-> ValueFor(given, <<"@protected">>)])))

-----------------------------------------------------------------------------
RECURSIVE ReadContext(_, _)

ReadTermEntry(key, v, depth) ==
    CASE key \in {<<"@id">>, <<"@type">>, <<"@language">>} -> ReadNullable(v, ReadText)
      [] key \in {<<"@reverse">>, <<"@index">>} -> ReadText(v)
      [] key \in {<<"@prefix">>, <<"@propagate">>, <<"@protected">>} -> ReadBoolean(v)
      [] key = <<"@direction">> -> ReadNullable(v, ReadDirection)
      [] key = <<"@container">> -> ReadNullable(v, ReadContainer)
      [] key = <<"@nest">> -> ReadNest(v)
      [] key = <<"@context">> -> ReadContext(v, depth + 1)
      [] OTHER -> Malformed("InvalidTermDefinition")

Binding(simple, given) ==
    [simple |-> simple, id |-> ValueFor(given, <<"@id">>), type |-> ValueFor(given, <<"@type">>),
     reverse |-> ValueFor(given, <<"@reverse">>), protected |-> ValueFor(given, <<"@protected">>),
     container |-> ValueFor(given, <<"@container">>), index |-> ValueFor(given, <<"@index">>),
     context |-> ValueFor(given, <<"@context">>), language |-> ValueFor(given, <<"@language">>),
     direction |-> ValueFor(given, <<"@direction">>), nest |-> ValueFor(given, <<"@nest">>),
     prefix |-> ValueFor(given, <<"@prefix">>), propagate |-> ValueFor(given, <<"@propagate">>)]

\* A definition that is null or a string gives the term its IRI and nothing else.
SimpleBinding(id) == Binding(TRUE, <<Entry(<<"@id">>, id)>>)

ReadBinding(v, depth) ==
    CASE v.json = "null" -> IsRead(SimpleBinding(Null))
      [] v.json = "string" -> IsRead(SimpleBinding(v.string))
      [] OTHER -> ReadMap(v, LAMBDA entries :
                      IfRead(ReadEntries(entries, LAMBDA key, x : ReadTermEntry(key, x, depth)),
                             LAMBDA given : IsRead(Binding(FALSE, given))))

ReadContextEntry(key, v, depth) ==
    CASE key = <<"@base">> -> ReadNullable(v, ReadIriRef)
      [] key = <<"@import">> -> ReadIriRef(v)
      [] key \in {<<"@language">>, <<"@vocab">>} -> ReadNullable(v, ReadText)
      [] key = <<"@direction">> -> ReadNullable(v, ReadDirection)
      [] key \in {<<"@propagate">>, <<"@protected">>} -> ReadBoolean(v)
      [] key = <<"@type">> -> ReadType(v)
      [] key = <<"@version">> -> ReadVersion(v)
      [] OTHER -> ReadBinding(v, depth)

DefinitionOfEntries(given) ==
    [entry |-> "definition", base |-> ValueFor(given, <<"@base">>), import |-> ValueFor(given, <<"@import">>),
     vocab |-> ValueFor(given, <<"@vocab">>), language |-> ValueFor(given, <<"@language">>),
     direction |-> ValueFor(given, <<"@direction">>), propagate |-> ValueFor(given, <<"@propagate">>),
     protected |-> ValueFor(given, <<"@protected">>), version |-> ValueFor(given, <<"@version">>),
     type |-> ValueFor(given, <<"@type">>),
     bindings |-> [i \in DOMAIN SelectSeq(given, LAMBDA e : e.key \notin ContextKeys) |->
                      LET e == SelectSeq(given, LAMBDA x : x.key \notin ContextKeys)[i]
                      IN  [key |-> e.key, binding |-> e.value]]]

ReadItem(v, depth) ==
    CASE v.json = "null" -> IsRead(NullEntry)
      [] v.json = "string" -> IfRead(ReadIriRef(v), LAMBDA s : IsRead(IriEntry(s)))
      [] OTHER -> ReadMap(v, LAMBDA entries :
                      IfRead(ReadEntries(entries, LAMBDA key, x : ReadContextEntry(key, x, depth)),
                             LAMBDA given : IsRead(DefinitionOfEntries(given))))

ReadItems(v, depth) ==
    IF depth >= MaxContextDepth THEN Malformed("TooDeep")
    ELSE IfRead(AllRead([i \in DOMAIN AsArray(v) |-> ReadItem(AsArray(v)[i], depth)]),
                LAMBDA entries : IsRead([many |-> v.json = "array", entries |-> entries]))

\* context_try_from_json
ReadContext(v, depth) == ReadItems(v, depth)

\* ExtractContext: the context of a document, whatever else the document holds.
ExtractContext(v) ==
    ReadMap(v, LAMBDA entries :
        LET contexts == SelectSeq(entries, LAMBDA e : e.key = <<"@context">>)
        IN  IF contexts = <<>> THEN Malformed("NoContext")
            ELSE IF Len(contexts) > 1 THEN Malformed("DuplicateContext")
            ELSE ReadContext(Head(contexts).value, 0))

-----------------------------------------------------------------------------
(* Writing.                                                                  *)

RECURSIVE WriteContext(_)

WriteKinds(kinds) ==
    IF Cardinality(kinds) = 1 THEN JString(SetToSeq(kinds))
    ELSE JArray([i \in DOMAIN SetToSeq(kinds) |-> JString(<<SetToSeq(kinds)[i]>>)])

WriteType(type) ==
    JObject(<<Entry(<<"@container">>, JString(<<"@set">>))>>
                \o IF type.protected = None THEN <<>> ELSE <<Entry(<<"@protected">>, JBoolean(type.protected))>>)

WriteField(field, x) ==
    CASE x = Null -> JNull
      [] x # Null /\ field \in {"prefix", "propagate", "protected"} -> JBoolean(x)
      [] x # Null /\ field = "container" -> WriteKinds(x)
      [] x # Null /\ field = "context" -> WriteContext(x)
      [] x # Null /\ field = "version" -> JNumber(x)
      [] OTHER -> JString(x)

\* The fields a record sets, in order.
WriteFields(record, fields, Writer(_, _)) ==
    LET set == SelectSeq(fields, LAMBDA field : record[field] # None)
    IN  [i \in DOMAIN set |-> Entry(KeyOf(set[i]), Writer(set[i], record[set[i]]))]

WriteBinding(b) == IF b.simple THEN WriteField("id", b.id) ELSE JObject(WriteFields(b, TermFields, WriteField))

WriteDefinition(d) ==
    JObject(WriteFields(d, ContextFields,
                        LAMBDA field, x : IF field = "type" THEN WriteType(x) ELSE WriteField(field, x))
                \o [i \in DOMAIN d.bindings |-> Entry(d.bindings[i].key, WriteBinding(d.bindings[i].binding))])

WriteItem(e) ==
    CASE e.entry = "null" -> JNull
      [] e.entry = "iri" -> JString(e.iri)
      [] e.entry = "definition" -> WriteDefinition(e)

WriteItems(context) ==
    LET items == [i \in DOMAIN context.entries |-> WriteItem(context.entries[i])]
    IN  IF context.many THEN JArray(items) ELSE Head(items)

\* IntoJson for Context
WriteContext(context) == WriteItems(context)

=============================================================================
