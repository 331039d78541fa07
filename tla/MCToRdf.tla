--------------------------------- MODULE MCToRdf ---------------------------------
(***************************************************************************)
(* Documents and datasets for ToRdf.  The labels the generator issues are  *)
(* those of the documents, and two shallow hashes out of three collide.    *)
(***************************************************************************)
EXTENDS ToRdf

CONSTANTS b1, b2, b3, b4, b5, b6, b7, b8, b9, n1, n2, p, q, c, bad

MCBlanks == {b1, b2, b3, b4, b5, b6, b7, b8, b9}
MCIris == {n1, n2, p, q, c, Type, First, Rest, Nil, ListType}
MCInvalids == {bad}
MCGenerated == <<b1, b2, b3, b4, b5, b6, b7, b8, b9>>

\* Whole objects hash alike when they are of one kind.
MCFullHash(key) == key.kind

Node(id, types, properties) == [EmptyNode EXCEPT !.id = id, !.types = types, !.properties = properties]

One == Value(Unsimplified(Literal("1", "integer", None)))
Text == Value(Literal("a", "string", None))
Reserved == Value(Literal("a", "string", RdfLangString))
Hebrew == Value(LangString("a", "he", "rtl"))
Broken == Value(LangString("a", "malformed", None))

MCObjects == {
    \* Types, a relabelled property, a number; the same with its types the other way round.
    Node(b2, <<c, b1>>, <<Entry(b1, <<Text>>), Entry(p, <<One>>)>>),
    Node(b2, <<b1, c>>, <<Entry(p, <<One>>), Entry(b1, <<Text>>)>>),
    \* Lists, nested and empty, and one with an item that has no RDF value.
    Node(None, <<>>, <<Entry(p, <<List(<<One, List(<<Hebrew>>), List(<<>>)>>)>>), Entry(q, <<Hebrew, List(<<Text, Broken>>)>>)>>),
    \* A graph with a list, an included anonymous node.
    [Node(n1, <<>>, <<>>) EXCEPT
        !.graph = <<Node(b2, <<>>, <<Entry(p, <<One, List(<<Node(b1, <<c>>, <<>>), Text>>)>>)>>)>>,
        !.included = <<Node(None, <<c>>, <<>>)>>],
    \* Reverse properties, from an anonymous node and from one that states more.
    [Node(n1, <<>>, <<>>) EXCEPT !.reverse = <<Entry(p, <<Node(b1, <<>>, <<Entry(q, <<Reserved, Text>>)>>), Node(None, <<c>>, <<>>)>>)>>],
    \* What is not RDF, with something below it that is.
    Node(bad, <<c>>, <<Entry(p, <<Node(n2, <<bad, b1>>, <<Entry(bad, <<Text>>)>>)>>)>>),
    One
}

Pass(op, issued, limit) == [op |-> op, issued |-> issued, limit |-> limit]
MCPasses == {Pass("identify_all", 0, 9), Pass("relabel", 1, 9), Pass("canonicalize", 0, 0),
             Pass("relabel_and_canonicalize", 0, 9), Pass("relabel_and_canonicalize", 0, 3)}

Quad(s, prop, o) == Statement(None, s, prop, o)
In(g, s, prop, o) == Statement(g, s, prop, o)
TextTerm == RdfLiteral("text", "a", XsdString)
\* Two cells.
Cells(a, b) == <<Quad(a, First, TextTerm), Quad(a, Rest, b), Quad(b, First, n2), Quad(b, Rest, Nil)>>

MCDatasets == {
    \* A list; a shared one, a shared end, one described further, an unreferenced one.
    <<Quad(n1, p, b1)>> \o Cells(b1, b2),
    <<Quad(n1, p, b1), Quad(n1, q, b1)>> \o Cells(b1, b2),
    <<Quad(n1, p, b1), Quad(n1, q, b2)>> \o Cells(b1, b2),
    <<Quad(n1, p, b1), Quad(b2, q, n1)>> \o Cells(b1, b2),
    Cells(b1, b2) \o <<Quad(b2, Type, ListType)>>,
    \* A quad given twice; lists within lists; a cell with two values.
    <<Quad(n1, p, b1), Quad(n1, p, b1)>> \o Cells(b1, b2),
    <<Quad(n1, p, b1), Quad(b3, First, b1), Quad(b3, Rest, b4), Quad(b4, First, Nil), Quad(b4, Rest, Nil), Quad(n2, q, b3)>> \o Cells(b1, b2),
    <<Quad(n1, p, b1), Quad(b1, First, n2), Quad(b1, First, n1), Quad(b1, Rest, b2), Quad(b2, First, b3), Quad(b2, Rest, Nil)>>,
    \* A list in a graph, the graph an anonymous node, referred to once.
    <<In(b3, n1, p, b1), In(b3, b1, First, n2), In(b3, b1, Rest, Nil), Quad(n1, q, b3)>>,
    <<In(n2, b1, p, b2), In(n2, b2, p, TextTerm), Quad(b1, p, b2), Quad(b2, q, n2)>>,
    \* Described, and referred to once only as a type, or by itself, or in a circle.
    <<Quad(n1, Type, b1), Quad(b1, p, TextTerm)>>,
    <<Quad(n1, p, n1), Quad(b1, p, b2), Quad(b2, p, b1)>>,
    <<Quad(n1, p, b1), Quad(b1, Rest, b2), Quad(b2, Rest, b1), Quad(b2, p, p)>>,
    \* Literals that cannot be read, in sight and out of it.
    <<Quad(n1, p, RdfLiteral("malformed", "a", XsdInteger)), Quad(n1, q, Tagged("a", "he"))>>,
    <<Quad(n1, Type, b1), Quad(b1, p, RdfLiteral("malformed", "a", RdfJson))>>,
    <<Quad(n1, p, RdfLiteral("text", "true", XsdBoolean)), Quad(n1, q, RdfLiteral("float", "1", XsdDouble)),
      Quad(n1, q, RdfLiteral("text", "{}", RdfJson))>>
}

=============================================================================
