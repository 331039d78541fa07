------------------------------ MODULE TermSelection ------------------------------
(***************************************************************************)
(* The inverse context (src/jsonld-core/src/context/inverse.rs) and the    *)
(* IRI compaction algorithm (src/jsonld-compaction/src/iri.rs,             *)
(* value_hint.rs): which string a term compacts to under a context.        *)
(*                                                                         *)
(* A slot of the inverse context is a tuple; a definition fills several,   *)
(* and the least term that fills a slot owns it.  The memo of one run of   *)
(* values returns what is computed here and is left out.                   *)
(***************************************************************************)
EXTENDS JsonLd

\* Shorter, or as long and before it in the order of strings.
TermLess(s, t) == Len(s) < Len(t) \/ (Len(s) = Len(t) /\ Before(s, t))
Least(terms) == CHOOSE s \in terms : \A t \in terms : s = t \/ TermLess(s, t)

-----------------------------------------------------------------------------
(* The inverse context.                                                      *)

Whole == <<"none">>
ReverseSlot == <<"reverse">>
AnyType == <<"any type">>
AnyLang == <<"any language">>
NullLang == <<"null language">>
TypeSlot(typ) == <<"type", typ>>
LangSlot(language, direction) == <<"language", language, direction>>

\* The language and direction a definition maps to, None where it maps nothing.
LangSlots(context, d) ==
    CASE d.language = None /\ d.direction = None ->
           {LangSlot(context.language, context.direction), LangSlot(None, None), TypeSlot(Kw("@none"))}
      [] d.language = None /\ d.direction # None ->
           {LangSlot(None, IF d.direction = Null THEN None ELSE d.direction)}
      [] d.language = Null /\ d.direction \in {None, Null} -> {NullLang}
      [] OTHER -> {LangSlot(IF d.language = Null THEN None ELSE d.language,
                            IF d.direction = Null THEN None ELSE d.direction)}

Slots(context, d) ==
    {Whole} \cup
    CASE d.reverse -> {ReverseSlot}
      [] ~d.reverse /\ d.typ = Kw("@none") -> {AnyType, AnyLang}
      [] ~d.reverse /\ d.typ \notin {None, Kw("@none")} -> {TypeSlot(d.typ)}
      [] ~d.reverse /\ d.typ = None -> LangSlots(context, d)

Owners(context, var, container, slot) ==
    {t \in DOMAIN context.terms :
        /\ context.terms[t].value = var
        /\ context.terms[t].container = container
        /\ slot \in Slots(context, context.terms[t])}

\* InverseContext::contains
Inverted(context, var) == \E t \in DOMAIN context.terms : context.terms[t].value = var

\* InverseDefinition::select
Select(context, var, containers, slots) ==
    LET owned(container) == [j \in DOMAIN slots |-> Owners(context, var, container, slots[j])]
        found == SelectSeq(FlattenSeq([i \in DOMAIN containers |-> owned(containers[i])]), LAMBDA terms : terms # {})
    IN  IF found = <<>> THEN None ELSE Least(Head(found))

-----------------------------------------------------------------------------
(* compact_iri_fallback                                                      *)

Compacted(key) == [error |-> None, key |-> key]
Confused == [error |-> "IriConfusedWithPrefix", key |-> None]

\* What is left of a string after a prefix, None when nothing is.
After(s, prefix) ==
    IF IsPrefix(prefix, s) /\ Len(s) > Len(prefix) THEN SubSeq(s, Len(prefix) + 1, Len(s)) ELSE None

VocabSuffix(context, var) ==
    LET suffix == IF context.vocab = None THEN None ELSE After(TermString(var), TermString(context.vocab))
    IN  IF suffix # None /\ Definition(context, suffix) = None THEN suffix ELSE None

Candidates(context, var) ==
    {t \o <<":">> \o After(TermString(var), TermString(context.terms[t].value)) :
        t \in {u \in DOMAIN context.terms :
                 /\ context.terms[u].prefix /\ context.terms[u].value # None
                 /\ After(TermString(var), TermString(context.terms[u].value)) # None}}

\* A candidate that is a term may stand only for that term's own IRI, and for no value.
PrefixCandidates(context, var, noValue) ==
    {c \in Candidates(context, var) :
        Definition(context, c) = None \/ (noValue /\ Definition(context, c).value = var)}

LastSegment(s) ==
    IF HasSlash(s) THEN SubSeq(s, Len(Directory(s)) + 1, Len(s)) ELSE s

\* Iri::relative_to, for a base whose path is absolute.
RelativeTo(iri, base) ==
    IF iri = base THEN <<>>
    ELSE IF After(iri, base) # None /\ Head(After(iri, base)) = "#" THEN After(iri, base)
    ELSE IF iri = Directory(base) THEN <<".", "/">>
    ELSE IF After(iri, Directory(base)) = None THEN iri
    ELSE IF HasColon(After(iri, Directory(base))) THEN <<".", "/">> \o After(iri, Directory(base))
    ELSE After(iri, Directory(base))

\* A reference to the base itself is its last segment; one that reads as a keyword is dotted.
Relativized(iri, base) ==
    LET relative == RelativeTo(iri, base)
        shown == IF relative # <<>> THEN relative
                 ELSE IF LastSegment(base) # <<>> THEN LastSegment(base) ELSE <<".", "/">>
    IN  IF KeywordLike(shown) /\ ~IsKeyword(shown) THEN <<".", "/">> \o shown ELSE shown

Fallback(context, var, noValue, vocab) ==
    LET suffixes == (IF vocab THEN {VocabSuffix(context, var)} ELSE {}) \ {None}
        compacts == PrefixCandidates(context, var, noValue)
        iri == var[1] = "iri"
    IN  IF suffixes \cup compacts # {} THEN Compacted(Least(IF suffixes # {} THEN suffixes ELSE compacts))
        ELSE IF iri /\ PrefixOf(var[2]) \in DOMAIN context.terms THEN Confused
        ELSE IF iri /\ ~vocab /\ context.base # None THEN Compacted(Relativized(var[2], context.base))
        ELSE Compacted(TermString(var))

-----------------------------------------------------------------------------
(* What a value asks of a term: containers and slots, each in order.         *)

WithSet(container) == <<container, container \cup {"@set"}>>
Indexes == WithSet({"@index"})
Languages == WithSet({"@language"})
GraphIndexes == WithSet({"@graph", "@index"})
GraphIds == WithSet({"@graph", "@id"})

Indexed(value) == value # None /\ value.index # None
IsTagged(value) == value # None /\ value.object = "langstring"
IsPlain(value) == value # None /\ value.object = "literal" /\ value.typ = None

ShapeContainers(value) ==
    IF value = None \/ (IsNode(value) /\ ~IsGraph(value))
    THEN WithSet({"@id"}) \o WithSet({"@type"}) \o <<{"@set"}>>
    ELSE IF IsList(value) THEN IF Indexed(value) THEN <<>> ELSE <<{"@list"}>>
    ELSE IF IsGraph(value)
    THEN (IF Indexed(value) THEN GraphIndexes ELSE <<>>) \o (IF value.id # None THEN GraphIds ELSE <<>>)
         \o WithSet({"@graph"}) \o <<{"@set"}>>
         \o (IF Indexed(value) THEN <<>> ELSE GraphIndexes) \o (IF value.id # None THEN <<>> ELSE GraphIds) \o Indexes
    ELSE IF IsTagged(value) /\ ~Indexed(value) THEN Languages \o <<{"@set"}>>
    ELSE <<{"@set"}>>

PreferredContainers(value, reverse, mode) ==
    (IF Indexed(value) /\ ~IsGraph(value) THEN Indexes ELSE <<>>)
    \o (IF reverse THEN <<{"@set"}>> ELSE ShapeContainers(value))
    \o <<{}>>
    \o (IF mode = "1.0" \/ (Indexed(value) /\ ~reverse) THEN <<>> ELSE Indexes)
    \o (IF mode = "1.0" \/ reverse \/ ~IsPlain(value) \/ Indexed(value) THEN <<>> ELSE Languages)

ValueType(value) == IF value.object = "json" THEN Kw("@json") ELSE IF value.object = "literal" THEN value.typ ELSE None

\* The type all the items of a list share, and the language and direction.
CommonType(items) ==
    LET types == {IF IsValue(items[i]) THEN ValueType(items[i]) ELSE Kw("@id") : i \in DOMAIN items}
    IN  IF Cardinality(types) = 1 THEN CHOOSE t \in types : TRUE ELSE None

ItemLang(item) ==
    IF IsTagged(item) THEN LangSlot(item.language, item.direction) ELSE IF IsPlain(item) THEN NullLang ELSE None

CommonLang(items) ==
    LET speaking == {i \in DOMAIN items : ItemLang(items[i]) # None}
        first == CHOOSE i \in speaking : \A j \in speaking : i <= j
        differs(i) == i > first /\ IsValue(items[i]) /\ ItemLang(items[i]) # ItemLang(items[first])
    IN  IF speaking = {} \/ \E i \in DOMAIN items : differs(i) THEN LangSlot(None, None) ELSE ItemLang(items[first])

TypeSlots(typ) == <<TypeSlot(typ), TypeSlot(Kw("@none")), AnyType>>
PreferredLangs(slot) ==
    <<slot, LangSlot(None, None), AnyLang>>
    \o (IF slot[1] = "language" /\ slot[2] # None /\ slot[3] # None THEN <<LangSlot(None, slot[3])>> ELSE <<>>)

\* compact_iri: without a value.
NodeContainers(reverse, mode) == PreferredContainers(None, reverse, mode)

SelectedOr(selected, otherwise) == IF selected # None THEN Compacted(selected) ELSE otherwise

CompactIri(context, var, vocab, mode) ==
    SelectedOr(IF vocab /\ Inverted(context, var)
               THEN Select(context, var, NodeContainers(FALSE, mode), TypeSlots(Kw("@id"))) ELSE None,
               Fallback(context, var, TRUE, vocab))

\* An identifier that is itself a term prefers a term that holds terms.
Means(context, term, id) ==
    term # None /\ Definition(context, term) # None /\ Definition(context, term).value = id

IdSlots(context, id, mode) ==
    (IF Means(context, CompactIri(context, id, TRUE, mode).key, id)
     THEN <<TypeSlot(Kw("@vocab")), TypeSlot(Kw("@id"))>> ELSE <<TypeSlot(Kw("@id")), TypeSlot(Kw("@vocab"))>>)
    \o <<TypeSlot(Kw("@none")), AnyType>>

PreferredSlots(context, value, reverse, mode) ==
    IF IsList(value) /\ value.items = <<>> THEN <<Whole>>
    ELSE IF IsNode(value) /\ value.id # None
    THEN (IF reverse THEN <<ReverseSlot>> ELSE <<>>) \o IdSlots(context, value.id, mode)
    ELSE IF reverse THEN <<ReverseSlot, TypeSlot(Kw("@none")), AnyType>>
    ELSE IF IsNode(value) THEN TypeSlots(Kw("@id"))
    ELSE IF IsList(value)
    THEN IF CommonType(value.items) # None THEN TypeSlots(CommonType(value.items))
         ELSE PreferredLangs(CommonLang(value.items))
    ELSE IF IsTagged(value) /\ ~Indexed(value) THEN PreferredLangs(LangSlot(value.language, value.direction))
    ELSE IF ValueType(value) # None THEN TypeSlots(ValueType(value))
    ELSE PreferredLangs(NullLang)

\* compact_iri_with: the key under which a property holds a value.
CompactProperty(context, property, value, reverse, mode) ==
    LET held == Inverted(context, property)
    IN  IF held /\ IsNode(value) /\ value.id # None /\ CompactIri(context, value.id, TRUE, mode).error # None
        THEN Confused
        ELSE SelectedOr(IF held THEN Select(context, property, PreferredContainers(value, reverse, mode),
                                            PreferredSlots(context, value, reverse, mode)) ELSE None,
                        Fallback(context, property, FALSE, TRUE))

\* keyword_alias, for the thirteen keywords compaction writes.
KeyOr(compacted, otherwise) == IF compacted.error = None THEN compacted.key ELSE otherwise
KeywordAlias(context, k, mode) == KeyOr(CompactIri(context, Kw(k), TRUE, mode), <<k>>)

=============================================================================
