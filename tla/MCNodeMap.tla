-------------------------------- MODULE MCNodeMap --------------------------------
(* Documents of two or three objects over one IRI and two blank node           *)
(* identifiers, which are also the first two of the three the generator yields.*)
EXTENDS NodeMap

CONSTANTS a, p, q, t, b0, b1, b2, i, j

Literal == [kind |-> "value", index |-> None, value |-> 1]
List(items) == [kind |-> "list", index |-> None, items |-> items]

\* `place` tells anonymous node objects apart.
Node(id, place) ==
    [kind |-> "node", id |-> id, place |-> place, types |-> None, index |-> None, graph |-> None,
     included |-> <<>>, properties |-> <<>>, reverse |-> <<>>]

Entry(property, values) == [property |-> property, values |-> values]
Saying(n, property, values) == [n EXCEPT !.properties = Append(@, Entry(property, values))]

Ids == {a, b0, b1}

\* Leaves: references, types, indexes, an anonymous node.
Leaves(place) ==
    {Literal, Saying(Node(None, place), p, <<Literal>>)}
    \cup {Node(x, 0) : x \in Ids}
    \cup {[Node(x, 0) EXCEPT !.types = <<y>>] : x \in {a, b1}, y \in {t, b0}}
    \cup {[Node(a, 0) EXCEPT !.index = x] : x \in {i, j}}

NodeLeaves(place) == {o \in Leaves(place) : o.kind = "node"}

\* Node objects around a leaf.
Around(x, o, r) ==
    {Saying(Node(x, 0), y, <<o>>) : y \in {p, b1}}
    \cup {Saying(Node(x, 0), p, <<o, List(<<o, Literal>>), Literal, o>>)}
    \cup {[Node(x, 0) EXCEPT !.graph = <<r>>], [Node(x, 0) EXCEPT !.included = <<r>>],
          [Node(x, 0) EXCEPT !.reverse = <<Entry(q, <<r>>)>>],
          [Saying(Node(x, 0), q, <<>>) EXCEPT !.graph = <<o, Literal>>]}
    \cup {[Node(x, 0) EXCEPT !.index = i, !.graph = <<r>>, !.types = <<t>>, !.reverse = <<Entry(p, <<r, Node(b1, 0)>>)>>]}

\* An anonymous node occurs once in a document: not in Around's lists.
Named(S) == {o \in S : o.kind = "value" \/ o.id # None}

Tops(place) ==
    Leaves(place)
    \cup UNION {Around(x, o, r) : x \in {a, b0}, o \in Named(Leaves(place)), r \in Named(NodeLeaves(place))}
    \cup {[Node(x, 0) EXCEPT !.graph = <<r>>] : x \in {a, b0}, r \in NodeLeaves(place)}
    \cup {[Node(None, place + 1) EXCEPT !.graph = <<r>>] : r \in NodeLeaves(place)}
    \cup {[Node(a, 0) EXCEPT !.graph = <<[Node(b0, 0) EXCEPT !.graph = <<r>>]>>] : r \in NodeLeaves(place)}

\* The objects of a document differ.
Pairs == Tops(1) \X Leaves(3)
MCDocuments == {d \in Pairs \cup {<<d[2], d[1]>> : d \in Pairs} : d[1] # d[2]}

Parts(o) ==
    CASE o.kind = "value" -> {}
      [] o.kind = "list" -> ToSet(o.items)
      [] o.kind = "node" ->
           (IF o.graph = None THEN {} ELSE ToSet(o.graph)) \cup ToSet(o.included)
           \cup UNION {Values(e) : e \in ToSet(o.properties) \cup ToSet(o.reverse)}

PartsOf(S) == S \cup UNION {Parts(o) : o \in S}
MCObjects == PartsOf(PartsOf(PartsOf(UNION {ToSet(d) : d \in MCDocuments})))

Depths[o \in MCObjects] ==
    IF Parts(o) = {} THEN 0 ELSE 1 + CHOOSE d \in 0 .. 9 : \E k \in Parts(o) : d = Depths[k] /\ \A l \in Parts(o) : Depths[l] <= d
MCDepth(o) == Depths[o]

MCGenerated == <<b0, b1, b2>>

=============================================================================
