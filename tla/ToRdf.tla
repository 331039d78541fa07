---------------------------------- MODULE ToRdf ----------------------------------
(***************************************************************************)
(* A document on its way to RDF and back: an expanded document is built,   *)
(* perhaps rewritten, then relabelled and canonicalized for RDF            *)
(* (processor/mod.rs, ToRdf), its quads are drawn one by one from the same *)
(* generator, and a document is built again from quads, these or others.   *)
(***************************************************************************)
EXTENDS FromQuads

CONSTANTS
    Datasets,     \* sequences of quads that no document here was the source of
    MaxObjects,   \* bound on the objects of the document
    MaxPasses     \* bound on its rewritings

VARIABLES
    passes,       \* the rewritings so far
    back          \* the document built from quads: [quads, objects, ok], None before

vars == <<setVars, streamVars, passes, back>>

Building == generator = None /\ back = None

Build(o) == Building /\ Len(objects) < MaxObjects /\ (Insert(o) \/ Lookup(o)) /\ UNCHANGED <<streamVars, passes, back>>

Begin(name) ==
    /\ Building /\ passes < MaxPasses /\ objects # <<>>
    /\ Drain(name)
    /\ passes' = passes + 1
    /\ UNCHANGED <<streamVars, back>>

Continue == (RewriteNext \/ PutBackNext) /\ UNCHANGED <<streamVars, passes, back>>

\* ToRdf::new goes on whether or not the generator failed it.
End ==
    /\ EndPass
    /\ generator' = IF pass.name.op = "relabel_and_canonicalize"
                    THEN [issued |-> pass.state.issued, limit |-> pass.state.limit, ok |-> pass.state.ok]
                    ELSE None
    /\ UNCHANGED <<stream, passes, back>>

\* ToRdf::quads
StartQuads(direction, generalized) ==
    /\ generator # None /\ stream = None
    /\ stream' = [direction |-> direction, generalized |-> generalized, compound |-> None, quads |-> <<>>,
                  stack |-> Pushed(<<>>, <<Frame("objects", None, None, None, objects)>>), from |-> generator.issued]
    /\ UNCHANGED <<setVars, generator, passes, back>>

Stream == StreamNext /\ UNCHANGED <<setVars, passes, back>>

RECURSIVE PartsOf(_)
PartsOf(o) ==
    LET Within(s) == UNION {PartsOf(x) : x \in Range(s)}
    IN  CASE o.kind = "value" -> {o}
          [] o.kind = "list" -> {o} \cup Within(o.items)
          [] o.kind = "node" ->
                {o} \cup Within(Graph(o) \o o.included)
                    \cup UNION {Within(e.values) : e \in Range(o.properties \o o.reverse)}

\* from_interpreted_quads
Read(quads) ==
    /\ back = None
    /\ \E written \in {DocumentOf(quads)} :
          back' = [quads |-> quads, objects |-> written,
                   ok |-> \A o \in written : \A part \in PartsOf(o) : part.kind # "value" \/ part.content # Unreadable]
    /\ UNCHANGED <<setVars, streamVars, passes>>

ReadBackQuads == Exhausted /\ Read(stream.quads)
ReadDataset == objects = <<>> /\ passes = 0 /\ \E quads \in Datasets : Read(quads)

Init == SetInit /\ generator = None /\ stream = None /\ passes = 0 /\ back = None

Next ==
    \/ \E o \in Objects : Build(o)
    \/ \E name \in Passes : Begin(name)
    \/ Continue
    \/ End
    \/ \E direction \in {"none", "i18n", "compound"}, generalized \in BOOLEAN : StartQuads(direction, generalized)
    \/ Stream
    \/ ReadBackQuads
    \/ ReadDataset

Spec == Init /\ [][Next]_vars

-----------------------------------------------------------------------------
(* Rewritings.                                                               *)

\* The identifiers of an object in the order of its fields, and the object without
\* them; keys of reverse properties count as the rest of it.
RECURSIVE LabelsOf(_)
LabelsOf(o) ==
    LET Flat(s) == FlattenSeq([i \in DOMAIN s |-> LabelsOf(s[i])])
        Each(entries, Own(_)) == FlattenSeq([i \in DOMAIN entries |-> Own(entries[i]) \o Flat(entries[i].values)])
    IN  CASE o.kind = "value" -> <<>>
          [] o.kind = "list" -> Flat(o.items)
          [] o.kind = "node" ->
                <<o.id>> \o o.types \o Flat(Graph(o)) \o Flat(o.included)
                         \o Each(o.properties, LAMBDA e : <<e.property>>) \o Each(o.reverse, LAMBDA e : <<>>)

RECURSIVE ShapeOf(_)
ShapeOf(o) ==
    LET Shapes(s) == [i \in DOMAIN s |-> ShapeOf(s[i])]
        Each(entries, Key_(_)) == [i \in DOMAIN entries |-> Entry(Key_(entries[i].property), Shapes(entries[i].values))]
    IN  CASE o.kind = "value" -> IF o.content.form = "langstring" THEN o ELSE [o EXCEPT !.content.canonical = TRUE]
          [] o.kind = "list" -> [o EXCEPT !.items = Shapes(@)]
          [] o.kind = "node" ->
                [o EXCEPT !.id = None, !.types = Len(@), !.included = Shapes(@),
                          !.graph = IF @ = None THEN None ELSE Shapes(@),
                          !.properties = Each(@, LAMBDA p : None), !.reverse = Each(@, LAMBDA p : p)]

\* The literals of an object outside of @graph and @included.
RECURSIVE LiteralsOf(_)
LiteralsOf(o) ==
    LET Within(s) == UNION {LiteralsOf(x) : x \in Range(s)}
    IN  CASE o.kind = "value" -> {o.content} \ {c \in {o.content} : c.form = "langstring"}
          [] o.kind = "list" -> Within(o.items)
          [] o.kind = "node" -> UNION {Within(e.values) : e \in Range(o.properties \o o.reverse)}

\* What a pass may do to the labels of a document, position by position.
LabelsKept(op, before, after) ==
    CASE op = "canonicalize" -> after = before
      [] op = "identify_all" ->
            \A i \in DOMAIN before :
                IF before[i] # None THEN after[i] = before[i]
                ELSE after[i] \in Blanks /\ \A j \in DOMAIN before : before[j] = None /\ after[j] = after[i] => i = j
      [] op \in {"relabel", "relabel_and_canonicalize"} ->
            \A i \in DOMAIN before :
                IF before[i] \notin Blanks \cup {None} THEN after[i] = before[i]
                ELSE /\ after[i] \in Blanks
                     /\ \A j \in DOMAIN before :
                            before[j] \in Blanks \cup {None} =>
                                ((after[i] = after[j]) <=> (i = j \/ (before[i] = before[j] /\ before[i] # None)))

RewrittenTo(op, before, after) ==
    /\ Len(after) = Len(before)
    /\ \A i \in DOMAIN before : ShapeOf(after[i]) = ShapeOf(before[i])
    /\ LabelsKept(op, FlattenSeq([i \in DOMAIN before |-> LabelsOf(before[i])]),
                      FlattenSeq([i \in DOMAIN after |-> LabelsOf(after[i])]))
    /\ op \in {"canonicalize", "relabel_and_canonicalize"} =>
          \A i \in DOMAIN after : \A literal \in LiteralsOf(after[i]) : literal.canonical

\* A rewriting puts every object back, in its place, the same but for its labels
\* and the writing of its numbers: two occurrences share a label afterwards exactly
\* when they did before.  When the generator gives out, that holds of the objects
\* before the one it failed on, and those behind it are as they were.
\* (expanded.rs try_rewrite: "the document is never truncated on the error path".)
RewriteKeeps ==
    pass # None /\ pass.rest = <<>> =>
        IF ~pass.failed THEN RewrittenTo(pass.name.op, pass.before, pass.after)
        ELSE \E i \in DOMAIN pass.before :
                /\ RewrittenTo(pass.name.op, SubSeq(pass.before, 1, i - 1), SubSeq(pass.after, 1, i - 1))
                /\ SubSeq(pass.after, i + 1, Len(pass.after)) = SubSeq(pass.before, i + 1, Len(pass.before))

-----------------------------------------------------------------------------
(* What a document states.                                                   *)

\* The nodes of an object that have an identifier, each in its graph; nothing
\* below one that has none.
RECURSIVE NodesIn(_, _)
NodesIn(o, g) ==
    LET Within(s, h) == UNION {NodesIn(x, h) : x \in Range(s)}
    IN  CASE o.kind = "value" -> {}
          [] o.kind = "list" -> Within(o.items, g)
          [] o.kind = "node" /\ o.id = None -> {}
          [] o.kind = "node" /\ o.id # None ->
                {[node |-> o, graph |-> g]} \cup Within(o.included, g) \cup Within(Graph(o), o.id)
                    \cup UNION {Within(e.values, g) : e \in Range(o.properties \o o.reverse)}

ListTerm(items) == [list |-> items]
Partial == [partial |-> TRUE]
Elsewhere == [elsewhere |-> TRUE]

\* The term an object stands for: a list for the terms of its items, when each of
\* them has one; a compound literal for a node described elsewhere.
RECURSIVE MeantBy(_, _)
MeantBy(o, direction) ==
    LET items == [i \in DOMAIN o.items |-> MeantBy(o.items[i], direction)]
    IN  CASE o.kind = "node" -> IdTerm(o.id)
          [] o.kind = "list" -> IF None \in Range(items) THEN Partial ELSE ListTerm(items)
          [] IsCompound(o, direction) -> Elsewhere
          [] OTHER -> ContentTerm(o.content, direction)

StatedBy(n, direction) ==
    {Statement(n.graph, n.node.id, Type, t) : t \in Range(n.node.types)}
    \cup UNION {{Statement(n.graph, n.node.id, e.property, MeantBy(o, direction)) : o \in Range(e.values)}
                    : e \in Range(n.node.properties)}
    \cup UNION {{Statement(n.graph, subject.id, e.property, n.node.id) : subject \in Range(e.values)}
                    : e \in Range(n.node.reverse)}

Meaning(document, direction, generalized) ==
    {q \in UNION {StatedBy(n, direction) : n \in UNION {NodesIn(o, None) : o \in document}} :
        /\ {q.graph, q.subject, q.property, q.object} \cap Invalids = {}
        /\ q.subject # None /\ q.object # None
        /\ generalized \/ q.property \notin Blanks}

-----------------------------------------------------------------------------
(* What the quads of the iterator state.                                     *)

Drawn == {Generated[i] : i \in (stream.from + 1)..generator.issued}

\* The object of a quad with the cells behind it read as a list again.
RECURSIVE Decoded(_, _)
Decoded(g, t) ==
    LET first == ValuesOf(stream.quads, g, t, First)
        rest == ValuesOf(stream.quads, g, t, Rest)
        tails == {Decoded(g, r) : r \in rest}
    IN  CASE t \notin Drawn -> IF t = Nil THEN ListTerm(<<>>) ELSE t
          [] t \in Drawn /\ first \cup rest = {} /\ stream.direction = "compound" -> Elsewhere
          [] t \in Drawn /\ Cardinality(first) = 1 /\ Cardinality(rest) = 1 /\ Partial \notin tails ->
                ListTerm(<<Decoded(g, CHOOSE v \in first : TRUE)>> \o (CHOOSE tail \in tails : TRUE).list)
          [] OTHER -> Partial

StatedByStream ==
    {[q EXCEPT !.object = Decoded(q.graph, @)] : q \in {q \in Range(stream.quads) : q.subject \notin Drawn}}

\* The quads that were drawn, one turn of two nested iterators at a time, state what
\* the document states, in the graph it is stated in, with every list complete and in
\* order as long as each of its items has an RDF value.  When the generator gave out they state nothing but it, lists aside.
QuadsExact ==
    Exhausted =>
        LET meaning == Meaning(Range(objects), stream.direction, stream.generalized)
        IN  IF generator.ok THEN StatedByStream = meaning
            ELSE {q \in StatedByStream : q.object \in Ids} \subseteq meaning

-----------------------------------------------------------------------------
(* What is read back.                                                        *)

IsListTerm(t) == t \notin Ids /\ "list" \in DOMAIN t

\* A cell: an anonymous resource with one first and one rest, that one statement of
\* its graph refers to.  That it is an rdf:List goes without saying.
OwnOf(statements, g, t) == {q \in statements : q.graph = g /\ q.subject = t /\ ~(q.property = Type /\ q.object = ListType)}
Only(statements, p) == (CHOOSE q \in statements : q.property = p).object

RECURSIVE Occurrences(_, _)
Occurrences(t, term) ==
    CASE term = t -> 1
      [] term # t /\ IsListTerm(term) -> FoldLeft(LAMBDA n, item : n + Occurrences(t, item), 0, term.list)
      [] OTHER -> 0

IsLink(statements, g, t) ==
    /\ t \in Blanks /\ \A q \in statements : q.graph # t
    /\ {q.property : q \in OwnOf(statements, g, t)} = {First, Rest} /\ Cardinality(OwnOf(statements, g, t)) = 2
    /\ MapThenSumSet(LAMBDA q : Occurrences(t, q.object), {q \in statements : q.graph = g}) = 1

\* A term with the cells behind it read as lists.
RECURSIVE Folded(_, _, _, _)
Consed(statements, g, t, seen, tail) ==
    IF IsListTerm(tail) THEN ListTerm(<<Folded(statements, g, Only(OwnOf(statements, g, t), First), seen)>> \o tail.list)
    ELSE t

Folded(statements, g, t, seen) ==
    CASE t = Nil -> ListTerm(<<>>)
      [] t \in Blanks \ seen /\ IsLink(statements, g, t) ->
            Consed(statements, g, t, seen \cup {t},
                   Folded(statements, g, Only(OwnOf(statements, g, t), Rest), seen \cup {t}))
      [] IsListTerm(t) -> ListTerm([i \in DOMAIN t.list |-> Folded(statements, g, t.list[i], seen)])
      [] OTHER -> t

WithLists(statements) ==
    {[q EXCEPT !.object = Folded(statements, q.graph, @, {})] :
        q \in {x \in statements : x.subject \notin Blanks \/ ~IsListTerm(Folded(statements, x.graph, x.subject, {}))}}

\* The resources a reader of the document comes across: those that are not referred
\* to exactly once, and those referred to, other than as a type, by one of them.
RECURSIVE Reached(_, _)
Across(quads, from) ==
    from \cup {<<q.graph, q.object>> : q \in {x \in Range(quads) :
                    x.property # Type /\ {<<x.graph, x.subject>>, <<None, x.graph>>} \subseteq from \cup {<<None, None>>}}}
Reached(quads, from) == IF Across(quads, from) = from THEN from ELSE Reached(quads, Across(quads, from))

StatementsReached(quads) ==
    LET tops == UNION {{<<g, r>> : r \in Roots(quads, g)} : g \in GraphNames(quads) \cup {None}}
    IN  {q \in Range(quads) :
            {<<q.graph, q.subject>>, <<None, q.graph>>} \subseteq Reached(quads, tops) \cup {<<None, None>>}}

BackMeans == WithLists(Meaning(back.objects, "none", TRUE))

\* The document that is built from quads states what they state about every resource
\* a reader comes across: each cell in one list or in none, lists shared or broken
\* or circular left as they are, a resource in place or at the top, each in its
\* graph.  It is refused exactly when a literal of theirs cannot be read.
ReadBack ==
    back # None =>
        LET reached == StatementsReached(back.quads)
        IN  /\ back.ok <=> \A q \in reached : q.object \in Ids \/ ReadLiteral(q.object) # Unreadable
            /\ back.ok => BackMeans = WithLists(reached)

\* "Builds a document from interpreted RDF quads" (serialization.rs:246 and 381): all of them.
AllReadBack == back # None /\ back.ok => BackMeans = WithLists(Range(back.quads))

\* "a blank node is emitted instead of a literal, where the blank node is the subject
\* of rdf:value, rdf:direction, and rdf:language (if present) properties"
\* (processor/mod.rs:69-72).
CompoundDescribed ==
    Exhausted => \A q \in Range(stream.quads) :
                    q.object \in Drawn => \E d \in Range(stream.quads) : d.subject = q.object

=============================================================================
