---------------------------- MODULE MCTermDefinition ----------------------------
(* Contexts binding up to three of a, p and p:x, each to one of a few           *)
(* definitions that refer to each other, in every order; and contexts with one  *)
(* term that exercise the remaining entries.                                    *)
EXTENDS TermDefinition, FiniteSets

MCStrings == {"a", "p", "q", "p:x", "q:y", "http://e/", "dir/f", "_:b", "@like", "@type", "@id", "@json",
              "@context", ""}

MCForm(s) ==
    CASE s \in {"a", "p", "q"} -> "name"
      [] s \in {"p:x", "q:y"} -> "compact"
      [] s = "http://e/" -> "iri"
      [] s = "dir/f" -> "relative"
      [] s = "_:b" -> "blank"
      [] s = "@like" -> "keyword-like"
      [] s = "" -> "empty"
      [] OTHER -> "keyword"

MCPrefixOf(s) == IF s = "p:x" THEN "p" ELSE "q"
MCValidates(context, base) == IF context = "relative" /\ ~base THEN "LoadingDocumentFailed" ELSE "ok"

-----------------------------------------------------------------------------
Plain == [simple |-> FALSE, id |-> None, type |-> None, reverse |-> None, protected |-> None,
          container |-> None, index |-> None, context |-> None, language |-> None,
          nest |-> None, prefix |-> None, propagate |-> FALSE]

Simple(s) == [Plain EXCEPT !.simple = TRUE, !.id = s]

\* Definitions of the three terms, with and without references to the others.
DefinitionsOf(t) ==
    CASE t = "a" -> {Simple("p:x"), Simple("@like"), [Plain EXCEPT !.reverse = "p"],
                     [Plain EXCEPT !.type = "p:x", !.protected = TRUE]}
      [] t = "p" -> {Simple("http://e/"), Simple("a"), Simple("p:x"), Simple(Null),
                     [Plain EXCEPT !.id = "http://e/", !.context = "relative"]}
      [] t = "p:x" -> {Plain, Simple("a"), [Plain EXCEPT !.id = "q:y", !.prefix = TRUE]}

Orders(S) == {o \in [1..Cardinality(S) -> S] : \A i, j \in DOMAIN o : o[i] = o[j] => i = j}

Related ==
    UNION {{[order |-> o, binding |-> b, protected |-> d] :
               o \in Orders(S), d \in BOOLEAN,
               b \in {f \in [S -> UNION {DefinitionsOf(t) : t \in S}] : \A t \in S : f[t] \in DefinitionsOf(t)}} :
           S \in {{"a", "p"}, {"a", "p", "p:x"}}}

Single(t, b) == [order |-> <<t>>, binding |-> [u \in {t} |-> b], protected |-> FALSE]

Singles ==
    {Single("a", b) : b \in
        {[Plain EXCEPT !.id = "http://e/", !.container = c, !.type = y] :
             c \in {Null, {"@set"}, {"@type"}, {"@list", "@set"}}, y \in {None, Null, "@id", "@json", "http://e/", "@like"}}
        \cup {[Plain EXCEPT !.container = c, !.index = i] : c \in {None, {"@index"}}, i \in {"a", "q:y", "@id"}}
        \cup {[Plain EXCEPT !.reverse = r, !.container = c] : r \in {"@like", "_:b", "@id", "http://e/"},
                                                              c \in {Null, {"@index"}, {"@list"}}}
        \cup {[Plain EXCEPT !.reverse = "http://e/", !.nest = "@nest"], [Plain EXCEPT !.nest = "@nest"],
              [Plain EXCEPT !.propagate = TRUE], [Plain EXCEPT !.id = "@context"],
              [Plain EXCEPT !.id = "@id", !.prefix = TRUE], [Plain EXCEPT !.language = "en", !.type = "@id"],
              [Plain EXCEPT !.id = "_:b", !.simple = TRUE], Simple("q"), Plain,
              [Plain EXCEPT !.reverse = "a"], [Plain EXCEPT !.id = "http://e/", !.type = "a"]}}
    \cup {Single(t, b) : t \in {"dir/f", "_:b", "http://e/", ""}, b \in {Plain, Simple("http://e/")}}
    \cup {[order |-> <<"@type", "a">>, protected |-> d, binding |->
              [t \in {"@type", "a"} |-> IF t = "@type" THEN [container |-> c, protected |-> p] ELSE Simple("http://e/")]] :
              d \in BOOLEAN, c \in {None, {"@set"}}, p \in {None, TRUE}}

\* Two terms that name each other, where one is not asked what it names: it is
\* mapped to null, or is itself a keyword.
Pair(t, b, u, c) ==
    {[order |-> o, protected |-> FALSE, binding |-> [x \in {t, u} |-> IF x = t THEN b ELSE c]] : o \in Orders({t, u})}

Pairs == Pair("p", Simple("p:x"), "p:x", Simple(Null)) \cup Pair("a", Simple("@id"), "@id", Simple("a"))

MCLocalContexts == Related \cup Singles \cup Pairs

-----------------------------------------------------------------------------
Defined(mapping, protected) == [EmptyDefinition(protected) EXCEPT !.value = mapping, !.prefix = TRUE]
Earlier == [EmptyDefinition(TRUE) EXCEPT !.value = IriOf(<<"http://e/">>), !.prefix = TRUE]

\* Nothing; p and p:x protected, one as the contexts here define it; @type protected.
MCActiveContexts ==
    {[terms |-> [t \in {} |-> None], vocabulary |-> NoMapping],
     [terms |-> [t \in {"p"} |-> Earlier], vocabulary |-> IriOf(<<"http://v/">>)],
     [terms |-> [t \in {"p:x", "@type"} |->
          IF t = "p:x" THEN Defined(IriOf(<<"http://v/", "a">>), TRUE)
          ELSE [value |-> NoMapping, prefix |-> FALSE, container |-> {"@set"}, protected |-> TRUE]],
      vocabulary |-> IriOf(<<"http://v/">>)]}

Option(mode, override, vocab, sync) == [mode |-> mode, override |-> override, vocab |-> vocab, sync |-> sync]

MCOptions ==
    {Option("1.1", FALSE, "keep", FALSE), Option("1.1", FALSE, "keep", TRUE), Option("1.1", TRUE, "keep", FALSE),
     Option("1.0", FALSE, "keep", FALSE), Option("1.1", FALSE, "drop", FALSE), Option("1.1", FALSE, "reject", FALSE)}

\* A plain 1.1 run.
MCDefaultOptions == {Option("1.1", FALSE, "keep", FALSE)}

=============================================================================
