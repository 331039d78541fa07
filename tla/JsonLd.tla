---------------------------------- MODULE JsonLd ----------------------------------
(***************************************************************************)
(* The data the algorithms share: strings, JSON, terms, active contexts    *)
(* and expanded objects, with the IRI expansion every algorithm calls.     *)
(*                                                                         *)
(* A string is a sequence of tokens, each a character or a keyword, so     *)
(* that concatenation, prefixes and the place of a colon mean what they    *)
(* mean in the code.                                                       *)
(***************************************************************************)
EXTENDS Integers, Sequences, SequencesExt, FiniteSets, TLC

CONSTANTS
    Alphabet,  \* every token, in the order in which strings compare
    None,      \* an absent entry, field or option
    Null       \* the JSON null of an entry that may be null

ASSUME JsonLdAssumption == Alphabet \in Seq(STRING) /\ None # Null

-----------------------------------------------------------------------------
(* Strings.                                                                  *)

Rank(token) == CHOOSE i \in DOMAIN Alphabet : Alphabet[i] = token

\* Ord for str: the first token that differs decides, else the length.
Before(s, t) ==
    LET differ == {i \in DOMAIN s \cap DOMAIN t : s[i] # t[i]}
        first == CHOOSE i \in differ : \A j \in differ : i <= j
    IN  IF differ = {} THEN Len(s) < Len(t) ELSE Rank(s[first]) < Rank(t[first])

Keywords ==
    {"@base", "@container", "@context", "@direction", "@graph", "@id", "@import", "@included", "@index",
     "@json", "@language", "@list", "@nest", "@none", "@prefix", "@propagate", "@protected", "@reverse",
     "@set", "@type", "@value", "@version", "@vocab"}

IsKeyword(s) == Len(s) = 1 /\ Head(s) \in Keywords
KeywordLike(s) == Len(s) = 1 /\ (Head(s) \in Keywords \/ Head(s) = "@like")

Colons(s) == {i \in DOMAIN s : s[i] = ":"}
FirstColon(s) == CHOOSE i \in Colons(s) : \A j \in Colons(s) : i <= j
HasColon(s) == Colons(s) # {}
HasSlash(s) == \E i \in DOMAIN s : s[i] = "/"

\* str::split_once(':')
PrefixOf(s) == SubSeq(s, 1, FirstColon(s) - 1)
SuffixOf(s) == SubSeq(s, FirstColon(s) + 1, Len(s))

\* IriRef::parse and Iri::parse; " " stands for any character they refuse.
IsIriRef(s) == \A i \in DOMAIN s : s[i] # " "
SchemeLike(s) == s # <<>> /\ \A i \in DOMAIN s : s[i] \notin {"_", "/", "#", " "} \cup Keywords
IsIri(s) == IsIriRef(s) /\ HasColon(s) /\ SchemeLike(PrefixOf(s))

\* BlankId::new
IsBlank(s) == Len(s) > 2 /\ s[1] = "_" /\ s[2] = ":" /\ IsIriRef(s)

\* CompactIri::new
IsCompact(s) ==
    /\ HasColon(s) /\ IsIriRef(s)
    /\ PrefixOf(s) # <<"_">>
    /\ ~IsPrefix(<<"/", "/">>, SuffixOf(s))

GenDelims == {":", "/", "#"}

-----------------------------------------------------------------------------
(* Term<Iri, BlankId>.  None is an expansion that yields nothing.            *)

NullTerm == <<"null">>
Kw(k) == <<"keyword", <<k>>>>
IriTerm(s) == <<"iri", s>>
BlankTerm(s) == <<"blank", s>>
InvalidTerm(s) == <<"invalid", s>>

IsId(term) == term # None /\ term[1] \in {"iri", "blank", "invalid"}
IsKw(term) == term # None /\ term[1] = "keyword"

\* Id::from_string_in
IdOf(s) == IF IsIri(s) THEN IriTerm(s) ELSE IF IsBlank(s) THEN BlankTerm(s) ELSE InvalidTerm(s)

\* Term::as_str
TermString(term) == IF term[1] = "null" THEN <<>> ELSE term[2]

-----------------------------------------------------------------------------
(* JSON.  An object keeps its entries in document order.                     *)

JNull == [json |-> "null"]
JString(s) == [json |-> "string", string |-> s]
JNumber(n) == [json |-> "number", number |-> n]
JBoolean(b) == [json |-> "boolean", boolean |-> b]
JArray(items) == [json |-> "array", items |-> items]
JObject(entries) == [json |-> "object", entries |-> entries]
Entry(key, value) == [key |-> key, value |-> value]

IsString(v) == v.json = "string"
IsObject(v) == v.json = "object"

\* Value::force_as_array
AsArray(v) == IF v.json = "array" THEN v.items ELSE <<v>>

HasEntry(v, key) == \E i \in DOMAIN v.entries : v.entries[i].key = key
EntryValue(v, key) == v.entries[CHOOSE i \in DOMAIN v.entries : v.entries[i].key = key].value

\* Stable sort by key, where the code sorts by key.
SortedByKey(entries) == SortSeq(entries, LAMBDA a, b : Before(a.key, b.key))
SortedStrings(strings) == SortSeq(strings, LAMBDA a, b : Before(a, b))

-----------------------------------------------------------------------------
(* Active contexts.                                                          *)

NewContext(base) ==
    [terms |-> [t \in {} |-> None], type |-> None, original |-> base, base |-> base, vocab |-> None,
     language |-> None, direction |-> None, previous |-> None, mode |-> "1.1"]

\* Context::get: @type has a definition of its own, which has only a container.
TypeDefinition(d) ==
    [value |-> None, prefix |-> FALSE, protected |-> d.protected, reverse |-> FALSE, typ |-> None,
     container |-> d.container, index |-> None, context |-> None, language |-> None, direction |-> None,
     nest |-> None]

Definition(context, s) ==
    CASE s = <<"@type">> -> IF context.type = None THEN None ELSE TypeDefinition(context.type)
      [] s # <<"@type">> -> IF s \in DOMAIN context.terms THEN context.terms[s] ELSE None

\* The part of a path up to its last slash.
Directory(s) == SubSeq(s, 1, CHOOSE i \in DOMAIN s : s[i] = "/" /\ \A j \in i + 1..Len(s) : s[j] # "/")

\* resolve_iri, for references that are a fragment, a relative path or empty.
Resolve(s, base) ==
    IF s = <<>> \/ Head(s) = "#" THEN base \o s ELSE Directory(base) \o s

-----------------------------------------------------------------------------
(* expand_iri_simple_inner.  `vocab` is None where the vocabulary is not used, *)
(* else what to do with a string that only the vocabulary expands: "keep",    *)
(* "drop" or "reject".                                                        *)

\* Results that are no term: Ok(None) and RejectVocab.
Absent == <<"absent">>
Forbidden == <<"forbidden">>

\* A compact IRI whose prefix the context defines, None for any other string.
Prefixed(context, s) ==
    IF /\ IsCompact(s) /\ PrefixOf(s) \in DOMAIN context.terms
       /\ context.terms[PrefixOf(s)].prefix \/ context.mode = "1.0"
       /\ context.terms[PrefixOf(s)].value # None
    THEN IdOf(TermString(context.terms[PrefixOf(s)].value) \o SuffixOf(s))
    ELSE None

\* What is left once neither a term nor a prefix was found.
Unmapped(context, s, documentRelative, vocab) ==
    IF vocab # None /\ context.vocab # None
    THEN CASE ~IsId(context.vocab) -> InvalidTerm(s)
           [] IsId(context.vocab) /\ vocab = "keep" -> IdOf(TermString(context.vocab) \o s)
           [] IsId(context.vocab) /\ vocab = "drop" -> Absent
           [] IsId(context.vocab) /\ vocab = "reject" -> Forbidden
    ELSE IF documentRelative /\ IsIriRef(s) /\ context.base # None
         THEN IriTerm(Resolve(s, context.base))
         ELSE InvalidTerm(s)

WithColon(context, s, documentRelative, vocab) ==
    IF IsBlank(s) THEN BlankTerm(s)
    ELSE IF s = <<"_", ":">> THEN InvalidTerm(s)
    ELSE IF Prefixed(context, s) # None THEN Prefixed(context, s)
    ELSE IF IsIri(s) THEN IriTerm(s)
    ELSE Unmapped(context, s, documentRelative, vocab)

ExpandIri(context, s, documentRelative, vocab) ==
    LET definition == Definition(context, s)
    IN  IF IsKeyword(s) THEN Kw(Head(s))
        ELSE IF KeywordLike(s) THEN NullTerm
        ELSE IF definition # None /\ (IsKw(definition.value) \/ vocab # None)
             THEN IF definition.value = None THEN NullTerm ELSE definition.value
        ELSE IF HasColon(s) /\ FirstColon(s) > 1
             THEN WithColon(context, s, documentRelative, vocab)
        ELSE Unmapped(context, s, documentRelative, vocab)

ExpandKey(context, s) == ExpandIri(context, s, FALSE, "keep")

-----------------------------------------------------------------------------
(* Expanded objects: Indexed<Object>.  Properties are sequences of entries,  *)
(* in the order of their first insertion; types None is an absent @type.     *)

NewNode ==
    [object |-> "node", id |-> None, types |-> None, graph |-> None, included |-> None,
     properties |-> <<>>, reverse |-> None, index |-> None]

Literal(value, typ) == [object |-> "literal", literal |-> value, typ |-> typ, index |-> None]
LangString(s, language, direction) ==
    [object |-> "langstring", string |-> s, language |-> language, direction |-> direction, index |-> None]
JsonLiteral(value) == [object |-> "json", value |-> value, index |-> None]
ListOf(items) == [object |-> "list", items |-> items, index |-> None]

IsNode(o) == o.object = "node"
IsList(o) == o.object = "list"
IsValue(o) == o.object \in {"literal", "langstring", "json"}

\* LangString::new, falling back on the plain string it returns as its error.
Tagged(s, language, direction) ==
    IF language = None /\ direction = None THEN Literal(JString(s), None) ELSE LangString(s, language, direction)

\* Node::is_empty and Node::is_graph
IsEmptyNode(n) ==
    n.types = None /\ n.graph = None /\ n.included = None /\ n.properties = <<>> /\ n.reverse = None

IsGraph(o) ==
    IsNode(o) /\ o.graph # None /\ o.types = None /\ o.included = None /\ o.properties = <<>> /\ o.reverse = None

\* Properties::insert_all, which appends and keeps duplicates.
InsertAll(properties, property, objects) ==
    IF \E i \in DOMAIN properties : properties[i].property = property
    THEN [i \in DOMAIN properties |->
            IF properties[i].property = property THEN [properties[i] EXCEPT !.objects = @ \o objects]
            ELSE properties[i]]
    ELSE Append(properties, [property |-> property, objects |-> objects])

=============================================================================
