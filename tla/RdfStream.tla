-------------------------------- MODULE RdfStream --------------------------------
(***************************************************************************)
(* The iterator over the RDF quads of a document (jsonld-core/src/quad.rs, *)
(* rdf/quad.rs, rdf/triples.rs).  Two iterators are nested: one walks the  *)
(* objects with a stack of frames; when the object of a quad is a list,    *)
(* the triples of its cells are yielded before the walk goes on.  Both     *)
(* take identifiers from the generator that relabelled the document.       *)
(*                                                                         *)
(* Each action is one turn of a loop of theirs, between two calls of next. *)
(* A frame is dropped with its last item rather than when it is next seen  *)
(* to be exhausted.                                                        *)
(***************************************************************************)
EXTENDS Relabeling

CONSTANTS Type, First, Rest, Nil     \* rdf:type, rdf:first, rdf:rest, rdf:nil

VARIABLES
    generator,   \* [issued, limit, ok], None until the document is relabelled for RDF
    stream       \* the iterator, None before: [direction, generalized, stack, compound, quads, from]

streamVars == <<generator, stream>>

-----------------------------------------------------------------------------
(* Terms of RDF: identifiers, and literals.                                  *)

XsdString == <<"xsd:string">>
XsdBoolean == <<"xsd:boolean">>
XsdInteger == <<"xsd:integer">>
XsdDouble == <<"xsd:double">>
RdfJson == <<"rdf:JSON">>
RdfLangString == <<"rdf:langString">>   \* reserved: no literal is plainly of this type

\* The lexical form of a literal: the text as it stands, or a number in exponent
\* notation.
RdfLiteral(form, text, datatype) == [lexical |-> <<form, text>>, datatype |-> datatype, language |-> None]
Tagged(text, language) == [lexical |-> <<"text", text>>, datatype |-> RdfLangString, language |-> language]

\* is_i64, which reads the number as it is written.
IsInteger(literal) == literal.native = "integer" /\ literal.canonical /\ literal.typ # XsdDouble

Preferred(literal) ==
    CASE literal.native = "boolean" -> XsdBoolean
      [] literal.native \in {"integer", "double"} -> IF IsInteger(literal) THEN XsdInteger ELSE XsdDouble
      [] literal.native \in {"string", "null"} -> XsdString

LiteralTerm(literal) ==
    LET form == IF literal.native \in {"integer", "double"} /\ ~IsInteger(literal) THEN "float" ELSE "text"
    IN  CASE literal.typ = RdfLangString -> None
          [] literal.typ = None -> RdfLiteral(form, literal.lexical, Preferred(literal))
          [] OTHER -> RdfLiteral(form, literal.lexical, literal.typ)

\* A malformed language tag has no RDF representation.
LangStringTerm(s, direction) ==
    CASE s.language = "malformed" -> None
      [] s.language # "malformed" /\ s.direction # None /\ direction = "i18n" ->
            RdfLiteral("text", s.lexical, <<"i18n", s.language, s.direction>>)
      [] OTHER -> IF s.language = None THEN RdfLiteral("text", s.lexical, XsdString) ELSE Tagged(s.lexical, s.language)

ContentTerm(content, direction) ==
    CASE content.form = "json" -> RdfLiteral("text", content.lexical, RdfJson)
      [] content.form = "langstring" -> LangStringTerm(content, direction)
      [] content.form = "literal" -> LiteralTerm(content)

\* A string with a direction becomes a node of its own when directions are
\* compound literals.
IsCompound(object, direction) ==
    /\ direction = "compound" /\ object.kind = "value" /\ object.content.form = "langstring"
    /\ object.content.direction # None /\ object.content.language # "malformed"

IdTerm(id) == IF id \in Invalids THEN None ELSE id

Plain(term, g) == [term |-> term, items |-> <<>>, generator |-> g]

\* rdf_value_with: the term that stands for an object, None when it has none, and
\* the items of the list whose cells are still to be described.
RdfValue(object, g, direction) ==
    CASE object.kind = "node" -> Plain(IdTerm(object.id), g)
      [] object.kind = "list" /\ object.items = <<>> -> Plain(Nil, g)
      [] object.kind = "list" /\ object.items # <<>> -> [term |-> Fresh(g), items |-> object.items, generator |-> Issued(g)]
      [] IsCompound(object, direction) -> Plain(Fresh(g), Issued(g))
      [] OTHER -> Plain(ContentTerm(object.content, direction), g)

-----------------------------------------------------------------------------
(* The walk over the objects.                                                *)

Frame(kind, graph, of, property, rest) ==
    [kind |-> kind, graph |-> graph, of |-> of, property |-> property, rest |-> rest]

Pushed(stack, frames) == stack \o SelectSeq(frames, LAMBDA f : f.rest # <<>>)

\* push_object: nothing of a node without identifier is visited.
FramesOf(graph, object) ==
    CASE object.kind = "node" /\ object.id # None ->
            <<Frame("objects", object.id, None, None, Graph(object)),
              Frame("objects", graph, None, None, object.included),
              Frame("reverses", graph, object, None, object.reverse),
              Frame("properties", graph, object.id, None, object.properties),
              Frame("types", graph, object.id, None, object.types)>>
      [] object.kind = "list" -> <<Frame("objects", graph, None, None, object.items)>>
      [] OTHER -> <<>>

Statement(graph, subject, property, object) ==
    [graph |-> graph, subject |-> subject, property |-> property, object |-> object]

Reference(id) == [EmptyNode EXCEPT !.id = id]

\* What the frame's next item makes it push, and the quad it makes it yield.
Turn(f, item) ==
    CASE f.kind = "objects" -> [frames |-> FramesOf(f.graph, item), quad |-> None]
      [] f.kind = "types" -> [frames |-> <<>>, quad |-> Statement(f.graph, f.of, Type, Reference(item))]
      [] f.kind = "properties" ->
            [frames |-> <<Frame("values", f.graph, f.of, item.property, item.values)>>, quad |-> None]
      [] f.kind = "values" ->
            [frames |-> FramesOf(f.graph, item), quad |-> Statement(f.graph, f.of, f.property, item)]
      [] f.kind = "reverses" ->
            [frames |-> <<Frame("subjects", f.graph, f.of, item.property, item.values)>>, quad |-> None]
      [] f.kind = "subjects" ->
            [frames |-> FramesOf(f.graph, item),
             quad |-> IF item.id = None THEN None ELSE Statement(f.graph, item.id, f.property, f.of)]

\* Quads::next skips what is not RDF.
IsRdf(quad) ==
    /\ quad # None
    /\ {quad.graph, quad.subject, quad.property} \cap Invalids = {}
    /\ stream.generalized \/ quad.property \notin Blanks

After(f) == IF Len(f.rest) = 1 THEN <<>> ELSE <<[f EXCEPT !.rest = Tail(@)]>>

\* A quad whose object has no RDF value is dropped.
Yielded(s, quad, v) ==
    IF v.term = None THEN s
    ELSE [s EXCEPT !.quads = Append(@, [quad EXCEPT !.object = v.term]),
                   !.compound = IF v.items = <<>> THEN None
                                ELSE [graph |-> quad.graph, pending |-> None,
                                      lists |-> <<[rest |-> v.items, head |-> v.term, previous |-> None]>>]]

Walking == stream # None /\ stream.compound = None /\ stream.stack # <<>>

NextFrame ==
    /\ Walking
    /\ \E turn \in {Turn(Last(stream.stack), Head(Last(stream.stack).rest))} :
          LET walked == [stream EXCEPT !.stack = Pushed(Front(@) \o After(Last(@)), turn.frames)]
          IN  IF IsRdf(turn.quad)
              THEN \E v \in {RdfValue(turn.quad.object, generator, stream.direction)} :
                      stream' = Yielded(walked, turn.quad, v) /\ generator' = v.generator
              ELSE stream' = walked /\ UNCHANGED generator

-----------------------------------------------------------------------------
(* The cells of a list: ListTriples::next.                                   *)

Describing == stream # None /\ stream.compound # None
Compound == stream.compound
Innermost == Last(Compound.lists)

Described(triples, compound) ==
    [stream EXCEPT !.quads = @ \o triples, !.compound = compound]

\* Mutant: cells are described in the default graph, whatever graph the list is in.
Cell_InDefault(subject, property, object) == <<Statement(None, subject, property, object)>>

Cell(subject, property, object) == <<Statement(Compound.graph, subject, property, object)>>

\* The value of a cell, after the cell was linked to the one before.
PendingFirst ==
    /\ Describing /\ Compound.pending # None
    /\ stream' = Described(Compound.pending, [Compound EXCEPT !.pending = None])
    /\ UNCHANGED generator

\* The first cell has the list's own identifier.
CellId(list) == IF list.head = None THEN Fresh(generator) ELSE list.head
GeneratorAfter(list) == IF list.head = None THEN Issued(generator) ELSE generator

Linked(list, object) == IF list.previous = None THEN <<>> ELSE Cell(list.previous, Rest, object)

\* The next item.  One without RDF value is passed over, and the cell taken for
\* it is remembered all the same as the one before.
NextItem ==
    /\ Describing /\ Compound.pending = None /\ Compound.lists # <<>>
    /\ Innermost.rest # <<>> /\ CellId(Innermost) # None
    /\ \E v \in {RdfValue(Head(Innermost.rest), GeneratorAfter(Innermost), stream.direction)} :
          LET id == CellId(Innermost)
              here == Append(Front(Compound.lists), [rest |-> Tail(Innermost.rest), head |-> None, previous |-> id])
              nested == IF v.items = <<>> THEN <<>> ELSE <<[rest |-> v.items, head |-> v.term, previous |-> None]>>
          IN  /\ generator' = v.generator
              /\ stream' = IF v.term = None THEN Described(<<>>, [Compound EXCEPT !.lists = here])
                           ELSE Described(Linked(Innermost, id),
                                          [Compound EXCEPT !.lists = here \o nested, !.pending = Cell(id, First, v.term)])

\* The end of the list, or what passes for it when the generator gives out.
EndList ==
    /\ Describing /\ Compound.pending = None /\ Compound.lists # <<>>
    /\ Innermost.rest = <<>> \/ CellId(Innermost) = None
    /\ stream' = Described(Linked(Innermost, Nil), [Compound EXCEPT !.lists = Front(@)])
    /\ generator' = IF Innermost.rest = <<>> THEN generator ELSE Issued(generator)

EndCompound ==
    /\ Describing /\ Compound.pending = None /\ Compound.lists = <<>>
    /\ stream' = [stream EXCEPT !.compound = None]
    /\ UNCHANGED generator

StreamNext == NextFrame \/ PendingFirst \/ NextItem \/ EndList \/ EndCompound

\* The iterator has nothing left.
Exhausted == stream # None /\ stream.stack = <<>> /\ stream.compound = None

=============================================================================
