-------------------------------- MODULE FromQuads --------------------------------
(***************************************************************************)
(* A document built from RDF quads (jsonld-core/src/serialization.rs).     *)
(* Resources are counted by the quads they are the object of: one that     *)
(* occurs once is written where it occurs, any other at the top of its     *)
(* graph.  Chains of cells that end in rdf:nil become lists, in the        *)
(* default graph.                                                          *)
(***************************************************************************)
EXTENDS RdfStream

CONSTANT ListType                        \* rdf:List

-----------------------------------------------------------------------------
(* Resources, per graph.  `quads` is a sequence: a quad given twice counts   *)
(* twice.                                                                    *)

Stated(quads, g, r) == {i \in DOMAIN quads : quads[i].graph = g /\ quads[i].subject = r}
Naming(quads, g, r) == {i \in DOMAIN quads : quads[i].graph = g /\ quads[i].object = r}

ValuesOf(quads, g, r, p) == {quads[i].object : i \in {j \in Stated(quads, g, r) : quads[j].property = p}}
PropertiesOf(quads, g, r) == {quads[i].property : i \in Stated(quads, g, r)}

GraphNames(quads) == {quads[i].graph : i \in DOMAIN quads} \ {None}
HasGraph(quads, g, r) == g = None /\ r \in GraphNames(quads)

IsEmpty(quads, g, r) == Stated(quads, g, r) = {} /\ ~HasGraph(quads, g, r)

\* A quad whose object is its predicate makes the count infinite.
ReferencedOnce(quads, g, r) ==
    /\ Cardinality(Naming(quads, g, r)) = 1
    /\ \A i \in Naming(quads, g, r) : quads[i].property # r

-----------------------------------------------------------------------------
(* Lists.                                                                    *)

ListTyped(quads, r) == ValuesOf(quads, None, r, Type) \subseteq {ListType}

IsListNode(quads, r) ==
    /\ ListTyped(quads, r)
    /\ PropertiesOf(quads, None, r) \subseteq {Type, First, Rest}
    /\ ~HasGraph(quads, None, r)
    /\ \A p \in {First, Rest} : Cardinality(ValuesOf(quads, None, r, p)) = 1

\* Mutant: a cell that something else refers to as well is folded.
IsCell_Shared(quads, r) == r \in Blanks /\ IsListNode(quads, r)

IsCell(quads, r) == r \in Blanks /\ ReferencedOnce(quads, None, r) /\ IsListNode(quads, r)

CellsBefore(quads, r) ==
    {quads[i].subject : i \in {j \in Naming(quads, None, r) : quads[j].property = Rest /\ IsCell(quads, quads[j].subject)}}

FirstOf(quads, r) == CHOOSE v \in ValuesOf(quads, None, r, First) : TRUE

\* The chain is walked backwards from its end.
RECURSIVE Gathered(_, _, _)
Gathered(quads, r, items) ==
    IF CellsBefore(quads, r) = {} THEN [head |-> r, items |-> items]
    ELSE LET before == CHOOSE c \in CellsBefore(quads, r) : TRUE
         IN  Gathered(quads, before, <<FirstOf(quads, before)>> \o items)

Lists(quads) == {Gathered(quads, r, <<FirstOf(quads, r)>>) : r \in CellsBefore(quads, Nil)}

-----------------------------------------------------------------------------
(* Literals: term_of.                                                        *)

Unreadable == None

ReadLiteral(l) ==
    CASE l.language # None -> LangString(l.lexical[2], l.language, None)
      [] l.datatype \in {RdfJson, XsdBoolean, XsdInteger, XsdDouble} /\ l.lexical[1] = "malformed" -> Unreadable
      [] l.datatype = RdfJson /\ l.lexical[1] # "malformed" -> Json(l.lexical[2])
      [] l.datatype = XsdBoolean /\ l.lexical[1] # "malformed" -> Literal(l.lexical[2], "boolean", XsdBoolean)
      [] l.datatype \in {XsdInteger, XsdDouble} /\ l.lexical[1] # "malformed" ->
            Literal(l.lexical[2], IF l.lexical[1] = "float" THEN "double" ELSE "integer", l.datatype)
      [] OTHER -> Literal(l.lexical[2], "string", IF l.datatype = XsdString THEN None ELSE l.datatype)

TermObject(term) == IF term \in Ids THEN Reference(term) ELSE Value(ReadLiteral(term))

-----------------------------------------------------------------------------
(* Objects: render_object, render_object_or_reference.                       *)

ListAt(quads, g, r) == {l \in Lists(quads) : g = None /\ l.head = r}

\* The nodes at the top of a graph.
Roots(quads, g) ==
    {r \in {quads[i].subject : i \in {j \in DOMAIN quads : quads[j].graph = g}} \cup (IF g = None THEN GraphNames(quads) ELSE {}) :
        ~ReferencedOnce(quads, g, r)}

RECURSIVE Written(_, _, _)

WrittenEach(quads, g, terms) ==
    [i \in DOMAIN terms |->
        IF ReferencedOnce(quads, g, terms[i]) /\ ~IsEmpty(quads, g, terms[i]) THEN Written(quads, g, terms[i])
        ELSE TermObject(terms[i])]

WrittenProperties(quads, g, r, properties) ==
    [i \in DOMAIN properties |->
        Entry(properties[i], WrittenEach(quads, g, SetToSeq(ValuesOf(quads, g, r, properties[i]))))]

WrittenNode(quads, g, r) ==
    [EmptyNode EXCEPT
        !.id = r,
        !.types = SetToSeq(ValuesOf(quads, g, r, Type)),
        !.graph = IF HasGraph(quads, g, r) THEN SetToSeq({Written(quads, r, s) : s \in Roots(quads, r)}) ELSE None,
        !.properties = WrittenProperties(quads, g, r, SetToSeq(PropertiesOf(quads, g, r) \ {Type}))]

Written(quads, g, r) ==
    IF ListAt(quads, g, r) = {} THEN WrittenNode(quads, g, r)
    ELSE List(WrittenEach(quads, g, (CHOOSE l \in ListAt(quads, g, r) : TRUE).items))

\* from_interpreted_quads_in, before literals that cannot be read refuse it all.
DocumentOf(quads) == {Written(quads, None, r) : r \in Roots(quads, None)}

=============================================================================
