------------------------------- MODULE MCPipeline -------------------------------
(* A corpus of requests: every value of a small set under every kind of term,
   documents with typed nodes, and pairs of values under one term. *)
EXTENDS Pipeline

MCAlphabet ==
    <<" ", "#", ".", "/", ":", "@base", "@container", "@context", "@direction", "@graph", "@id", "@import", "@included",
      "@index", "@json", "@language", "@like", "@list", "@nest", "@none", "@prefix", "@propagate", "@protected",
      "@reverse", "@set", "@type", "@value", "@version", "@vocab", "_", "doc", "oth", "sco", "voc", "a", "b", "c", "d", "e", "f", "g", "h", "i",
      "j", "k", "l", "ltr", "m", "n", "o", "p", "q", "r", "rtl", "s", "t", "u", "v", "w", "x", "y", "z">>

Base == <<"doc", ":", "/", "e">>

-----------------------------------------------------------------------------
(* Contexts.                                                                 *)

Plain ==
    [simple |-> FALSE, id |-> None, type |-> None, reverse |-> None, protected |-> None, container |-> None,
     index |-> None, context |-> None, language |-> None, direction |-> None, nest |-> None, prefix |-> None,
     propagate |-> None]

Term(k) == [key |-> <<k>>, binding |-> Plain]
Typed(k, typ) == [Term(k) EXCEPT !.binding.type = typ]
Contained(k, container) == [Term(k) EXCEPT !.binding.container = container]
Named(k, id) == [Term(k) EXCEPT !.binding.id = id]

Vocabulary(vocab, bindings) == [DefinitionEntry(bindings) EXCEPT !.vocab = vocab]

\* The context of type u, which applies after the one of type t.
UContext == One(DefinitionEntry(<<Named("b", <<"voc", ":", "q">>)>>))
\* The context of type t: another vocabulary, and another meaning of a, b and u.
TContext ==
    One(Vocabulary(<<"sco", ":">>,
        <<Typed("a", <<"@id">>), Term("b"),
          [Term("u") EXCEPT !.binding.context = One(DefinitionEntry(<<Named("a", <<"oth", ":", "a">>)>>))]>>))
\* The context of property c: it clears what is there.
CContext == Many(<<NullEntry, Vocabulary(<<"oth", ":">>, <<Typed("a", <<"@vocab">>)>>)>>)

Core ==
    <<[Term("t") EXCEPT !.binding.context = TContext],
      [Term("u") EXCEPT !.binding.context = UContext],
      [Term("c") EXCEPT !.binding.context = CContext],
      Term("a"),
      [Named("m", <<"voc", ":", "a">>) EXCEPT !.binding.language = <<"l">>],
      [Named("d", <<"voc", ":", "a">>) EXCEPT !.binding.direction = <<"rtl">>],
      Typed("b", <<"@id">>), Typed("z", <<"@vocab">>), Typed("k", <<"@json">>), Typed("f", <<"@none">>),
      Contained("l", {"@list"}), Contained("s", {"@set"}),
      Contained("i", {"@index"}), Contained("e", {"@language"}), Contained("j", {"@id"}), Contained("y", {"@type"}),
      [Contained("x", {"@index"}) EXCEPT !.binding.index = <<"h">>],
      Contained("g", {"@graph"}), Contained("q", {"@graph", "@id"}), Contained("w", {"@graph", "@index"}),
      [Term("r") EXCEPT !.binding.reverse = <<"voc", ":", "r">>],
      [Term("p") EXCEPT !.binding.id = <<"voc", ":", "p", "/">>, !.binding.simple = TRUE],
      [key |-> <<"p", ":", "y">>, binding |-> [Plain EXCEPT !.id = Null]],
      [Term("n") EXCEPT !.binding.nest = <<"@nest">>],
      Named("o", <<"@type">>)>>

Main == One(Vocabulary(<<"voc", ":">>, Core))

-----------------------------------------------------------------------------
(* Documents.                                                                *)

S(s) == JString(<<s>>)
E(k, value) == Entry(<<k>>, value)
O(entries) == JObject(entries)

Node(k) == O(<<E(k, S("x"))>>)
Reference == O(<<E("@id", S("x"))>>)

Scalars ==
    {S("x"), S("a"), JNumber(1),
     O(<<E("@value", S("x")), E("@language", S("l"))>>),
     O(<<E("@value", S("x")), E("@type", S("u"))>>),
     O(<<E("@value", S("x")), E("@direction", S("rtl"))>>),
     O(<<E("@value", JNumber(1)), E("@index", S("i"))>>)}

Marked == O(<<E("@index", S("i")), E("a", S("x"))>>)
Outer == O(<<E("@type", S("t")), E("a", S("x")), E("b", Node("a"))>>)
Nodes == {Reference, Node("a"), O(<<E("@id", S("x")), E("a", S("x"))>>), Marked, Outer}

Others ==
    {JNull, JArray(<<>>), JArray(<<S("x"), S("y")>>),
     O(<<E("@list", JArray(<<S("x"), JNumber(1)>>))>>),
     O(<<E("@list", JArray(<<>>)), E("@index", S("i"))>>),
     O(<<E("@set", JArray(<<S("x")>>))>>)}

Graphs ==
    {O(<<E("@graph", JArray(<<Node("a"), O(<<E("b", S("y"))>>)>>))>>),
     O(<<E("@id", S("x")), E("@graph", Node("a")), E("@index", S("i"))>>)}

Maps == {Node("x"), O(<<E("x", Node("a")), E("y", Node("b"))>>), O(<<E("@none", Node("a"))>>)}

Under(k, value) == <<E("@context", WriteContext(Main)), E("@id", S("n")), E(k, value)>>

Keys == {"a", "b", "z", "f", "l", "s", "i", "e", "j", "y", "x", "r", "p", "n", "c"}

Literals == {O(Under("k", value)) : value \in {S("x"), JNull, JNumber(1), Node("x"), JArray(<<S("x"), S("y")>>)}}

\* Under a graph container only nodes of a graph are written, under a JSON term
\* only values whose shape the compacted form can show, no number under a
\* language map, no empty reverse property and no index inside an indexed graph.
Singles ==
    ({O(Under(k, value)) : k \in Keys, value \in Scalars \cup Nodes \cup Others \cup Graphs \cup Maps}
        \cup {O(Under("g", value)) : value \in Graphs \cup (Nodes \ {Reference})}
        \cup {O(Under(k, O(<<E("x", node), E("@none", Node("b"))>>))) : k \in {"q", "w"}, node \in Nodes \ {Reference, Marked}}
        \cup {O(Under("y", O(<<E("t", node), E("@none", Node("b"))>>))) : node \in Nodes \ {Outer}}
        \cup Literals)
    \ {O(Under("e", JNumber(1))), O(Under("r", JArray(<<>>)))}

\* Two values of one property: they may select two terms, or share one.
Pairs ==
    {O(Under(k, JArray(<<x, y>>))) :
        k \in {"a", "i", "f"}, x \in Scalars \cup {Node("a"), Reference}, y \in Scalars \cup {Marked}}

\* A node of type t, with a node somewhere under it.
Below ==
    {<<E("b", Node("a"))>>, <<E("b", O(<<E("@id", S("x")), E("a", S("y"))>>))>>,
     <<E("l", JArray(<<Node("a"), Reference>>))>>, <<E("g", Node("a"))>>, <<E("@graph", Node("a"))>>,
     <<E("@included", Node("a"))>>, <<E("@reverse", O(<<E("b", Node("a"))>>))>>, <<E("r", Node("a"))>>,
     <<E("n", O(<<E("b", Node("a"))>>))>>, <<E("@nest", O(<<E("a", S("y")), E("b", Node("a"))>>))>>,
     <<E("c", Node("a"))>>, <<E("s", O(<<E("@set", Node("a"))>>))>>,
     <<E("b", O(<<E("@type", S("u")), E("b", S("y"))>>))>>,
     <<Entry(<<"sco", ":", "b">>, S("y"))>>, <<Entry(<<"voc", ":", "p", "/", "y">>, S("y"))>>,
     <<E("b", O(<<E("@context", WriteContext(UContext)), E("b", Node("b"))>>))>>}

Types ==
    {<<E("@type", S("t"))>>, <<E("@type", JArray(<<S("u"), S("t")>>))>>, <<E("@type", JArray(<<S("t"), S("u")>>))>>,
     <<E("@type", S("u")), E("o", S("t"))>>, <<E("o", S("u")), E("@type", S("t"))>>}

TypedDocuments ==
    {O(<<E("@context", WriteContext(Main))>> \o types \o <<E("a", S("x"))>> \o below) : types \in Types, below \in Below}

Options ==
    [mode |-> "1.1", base |-> None, compactToRelative |-> TRUE, expandContext |-> None,
     compactArrays |-> TRUE, ordered |-> FALSE, policy |-> DefaultPolicy]

Ask(json, options) ==
    [document |-> [url |-> Base, linked |-> None, json |-> json], context |-> Main, options |-> options]

\* A document without a context of its own, which takes one from the options
\* or from the Link header it was loaded with, and other bases.
Uncontexted == O(<<E("@id", S("n")), E("a", S("x")), E("b", S("y"))>>)
Elsewhere == <<"oth", ":", "/", "e">>
OtherAsks ==
    {[Ask(Uncontexted, [Options EXCEPT !.base = base, !.compactToRelative = relative, !.expandContext = given])
        EXCEPT !.document.linked = linked] :
        base \in {None, Elsewhere}, relative \in BOOLEAN, given \in {None, Main}, linked \in {None, Main, UContext}}

\* Every other entry of a context and of a term definition.
Rich ==
    Many(<<NullEntry,
           [Vocabulary(<<"voc", ":">>,
                <<[Term("a") EXCEPT !.binding.protected = FALSE, !.binding.language = Null],
                  [Named("p", <<"voc", ":", "p">>) EXCEPT !.binding.prefix = TRUE],
                  [Contained("b", {"@graph", "@id", "@set"}) EXCEPT !.binding.type = <<"@id">>],
                  [Term("t") EXCEPT !.binding.context = TContext]>>)
               EXCEPT !.base = Elsewhere, !.version = VersionNumber, !.language = <<"l">>, !.direction = Null,
                      !.propagate = TRUE, !.type = [container |-> {"@set"}, protected |-> TRUE]]>>)

RichAsks ==
    {[Ask(O(<<E("@context", WriteContext(Rich)), E("@id", S("n")), E("@type", S("u"))>> \o entries), Options)
        EXCEPT !.context = Rich] :
        entries \in {<<E("a", S("x"))>>, <<E("c", S("x"))>>, <<E("b", O(<<E("x", Node("a"))>>))>>,
                     <<Entry(<<"p", ":", "y">>, S("x"))>>}}

\* Compaction against a context that says nothing, written or not.
EmptyAsks ==
    {[Ask(O(Under(k, S("x"))), Options) EXCEPT !.context = context] :
        k \in {"a", "c"},
        context \in {One(NullEntry), One(DefinitionEntry(<<>>)), Many(<<>>), Many(<<NullEntry>>)}}

\* Contexts that are not well formed.
OneTerm(key, value) == O(<<E("a", O(<<E(key, value)>>))>>)
Deep(value) == OneTerm("@context", value)
BadContexts ==
    {JNumber(1), S(" "), O(<<E("a", S("x")), E("a", S("x"))>>), O(<<E("a", JNumber(1))>>), O(<<E("@base", S(" "))>>),
     O(<<E("@version", JNumber(1))>>), O(<<E("@version", S("x"))>>), O(<<E("@type", O(<<>>))>>),
     O(<<E("@type", O(<<E("@container", S("@list"))>>))>>), O(<<E("@type", O(<<E("@id", S("x"))>>))>>),
     O(<<E("@type", O(<<E("@container", S("@set")), E("@protected", JNumber(1))>>))>>),
     O(<<E("@propagate", S("x"))>>), O(<<E("@import", JNull)>>),
     OneTerm("@nest", S("@id")), OneTerm("@direction", S("x")), OneTerm("@container", S("x")),
     OneTerm("@value", S("x")), OneTerm("@propagate", JBoolean(FALSE)), Deep(Deep(Deep(Deep(JNull))))}
BadAsks == {Ask(O(<<E("@context", context), E("a", S("x"))>>), Options) : context \in BadContexts}

\* Keys and types that expand to no IRI, in every place where a key or a type is
\* expanded, and documents whose terms need the vocabulary, under policies that
\* drop and reject.  The keys of a type map and the property of an index map are
\* well formed: the policy is not asked there (README, section 6).
Blanked == <<" ">>
MalformedEntries ==
    {<<Entry(Blanked, S("x"))>>, <<Entry(<<"_", ":">>, S("x"))>>, <<E("@type", JArray(<<JString(Blanked), S("t")>>))>>,
     <<E("@reverse", O(<<Entry(Blanked, Node("a")), E("b", Node("a"))>>))>>,
     <<E("@nest", O(<<Entry(Blanked, S("x")), E("b", S("x"))>>))>>, <<E("b", O(<<Entry(Blanked, S("x"))>>))>>,
     <<E("a", O(<<E("@value", S("x")), E("@type", JString(Blanked))>>))>>}
Relative == One(DefinitionEntry(<<Typed("a", <<"@vocab">>), Named("b", <<"voc", ":", "b">>)>>))
Unruly ==
    {O(<<E("@context", WriteContext(context)), E("@id", S("n"))>> \o entries) :
        context \in {Main, Relative}, entries \in MalformedEntries}
        \cup {O(<<E("@context", WriteContext(Main)), E("@id", S("n")), E("k", S("y")), E("@type", S("t"))>> \o entries) :
                 entries \in Below}
        \cup {O(Under(k, value)) : k \in {"i", "j", "y", "x", "e", "z"}, value \in Maps \cup {S("x"), S("a")}}

Dropping(vocab) == [invalid |-> "drop", vocab |-> vocab, allowUndefined |-> TRUE]
Strict(invalid, undefined) == [invalid |-> invalid, vocab |-> "reject", allowUndefined |-> undefined]
Policies == {Dropping("keep"), Dropping("drop"), Strict("keep", TRUE), Strict("keep", FALSE), Rejecting}

PolicyAsks == {Ask(json, [Options EXCEPT !.policy = policy]) : json \in Unruly, policy \in Policies}

MCRequests ==
    {Ask(json, Options) : json \in Singles \cup Pairs \cup TypedDocuments}
        \cup {Ask(json, [Options EXCEPT !.compactArrays = FALSE, !.ordered = TRUE]) : json \in Singles \ Literals}
        \cup OtherAsks \cup EmptyAsks \cup RichAsks \cup BadAsks \cup PolicyAsks

MCScopedType == IriTerm(<<"voc", ":", "t">>)
MCScopedVocab == <<"sco", ":">>
=============================================================================
