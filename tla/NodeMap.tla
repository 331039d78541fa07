--------------------------------- MODULE NodeMap ---------------------------------
(***************************************************************************)
(* Node map generation and flattening (generate_node_map_with in           *)
(* src/jsonld-core/src/flattening/node_map.rs, Environment, and            *)
(* NodeMap::flatten_with in flattening/mod.rs).                            *)
(*                                                                         *)
(* A document is a tree of objects: values, lists and node objects.  What  *)
(* extend_node_map_from_node does with a node object is divided into       *)
(* sections: its types, its @graph, @included, each property and each      *)
(* reverse property.  A section goes through a queue of objects, each a    *)
(* recursive call, and does something with what the calls return; the      *)
(* calls in progress are an explicit stack, innermost last.  Graphs and    *)
(* nodes are kept in declaration order by the code, in functions here.     *)
(***************************************************************************)
EXTENDS Integers, Sequences, SequencesExt, FiniteSets

CONSTANTS
    Documents,   \* sequences of objects
    Objects,     \* every object that occurs in one
    Blanks,      \* blank node identifiers
    Iris,        \* every other identifier
    Depth(_),    \* how deep an object is nested
    Generated,   \* the identifiers the generator yields before a term that is none
    None,
    Default      \* the name of the default graph (None in the code)

NodeObjects == {o \in Objects : o.kind = "node"}
Identifiers == Iris \cup Blanks

IsSequence(s) == s \in Seq(ToSet(s))
EntriesOver(entries, S) ==
    IsSequence(entries) /\ \A i \in DOMAIN entries : entries[i].property \in Identifiers /\ entries[i].values \in Seq(S)

\* An object is a value, or its parts are objects; only nodes are included or
\* the subjects of reverse properties.
WellFormed(o) ==
    \/ o.kind = "value"
    \/ o.kind = "list" /\ o.items \in Seq(Objects)
    \/ /\ o.kind = "node" /\ o.id \in Identifiers \cup {None}
       /\ o.types = None \/ o.types \in Seq(Identifiers)
       /\ o.graph = None \/ o.graph \in Seq(Objects)
       /\ o.included \in Seq(NodeObjects)
       /\ EntriesOver(o.properties, Objects) /\ EntriesOver(o.reverse, NodeObjects)

\* A node object without identifier stands for a node of its own.
Label(node) == IF node.id = None THEN node ELSE node.id

Section(op, property, objects) == [op |-> op, property |-> property, objects |-> objects]

OfTypes(node) == IF node.types = None THEN <<>> ELSE <<Section("types", None, node.types)>>
OfGraph(node) == IF node.graph = None THEN <<>> ELSE <<Section("graph", None, node.graph)>>
OfIncluded(node) == IF node.included = <<>> THEN <<>> ELSE <<Section("included", None, node.included)>>
OfEntries(op, entries) == [i \in DOMAIN entries |-> Section(op, entries[i].property, entries[i].values)]

Sections(node) ==
    OfTypes(node) \o OfGraph(node) \o OfIncluded(node)
        \o OfEntries("property", node.properties) \o OfEntries("reverse", node.reverse)

\* The objects an object has in it, section by section.
Contents(o) ==
    CASE o.kind = "value" -> <<>>
      [] o.kind = "list" -> <<o.items>>
      [] o.kind = "node" -> [i \in DOMAIN Sections(o) |->
                               IF Sections(o)[i].op = "types" THEN <<>> ELSE Sections(o)[i].objects]

\* An occurrence of a node object, in `graph` if it is in that of an object itself.
InGraph(graph, x) == IF x.graph = Default THEN [graph |-> graph, node |-> x.node] ELSE x

\* The node objects in an object, each with the graph it is in: Default stands
\* for the graph of the object itself.
NodesIn[o \in Objects] ==
    LET Inside(objects) == UNION {NodesIn[objects[i]] : i \in DOMAIN objects}
        Entries(entries) == UNION {Inside(entries[i].values) : i \in DOMAIN entries}
    IN  CASE o.kind = "value" -> {}
          [] o.kind = "list" -> Inside(o.items)
          [] o.kind = "node" ->
               {[graph |-> Default, node |-> o]}
               \cup Inside(o.included) \cup Entries(o.properties) \cup Entries(o.reverse)
               \cup (IF o.graph = None THEN {} ELSE {InGraph(Label(o), x) : x \in Inside(o.graph)})

Anonymous(o) == {x.node : x \in {x \in NodesIn[o] : x.node.id = None}}

\* A node object without identifier is told from any other, so it occurs once.
Unshared(contents) ==
    \A i, j \in DOMAIN contents : \A k \in DOMAIN contents[i], l \in DOMAIN contents[j] :
        <<i, k>> # <<j, l>> => Anonymous(contents[i][k]) \cap Anonymous(contents[j][l]) = {}

ASSUME NodeMapAssumption ==
    /\ Generated \in Seq(Blanks)
    /\ \A i, j \in DOMAIN Generated : Generated[i] = Generated[j] => i = j
    /\ Iris \cap Blanks = {} /\ Identifiers \cap Objects = {}
    /\ {None, Default} \cap (Identifiers \cup Objects) = {}
    /\ None \notin Seq(Identifiers)
    /\ \A o \in Objects : WellFormed(o)
    /\ Documents \subseteq Seq(Objects)

\* Objects are finite trees.
ASSUME TreeAssumption ==
    /\ \A o \in Objects :
          /\ Depth(o) \in Nat
          /\ \A i \in DOMAIN Contents(o) : \A k \in DOMAIN Contents(o)[i] : Depth(Contents(o)[i][k]) < Depth(o)
          /\ Unshared(Contents(o))
    /\ \A d \in Documents : Unshared(<<d>>)

VARIABLES
    document,
    map,       \* graph -> identifier -> node
    declared,  \* named graphs in declaration order
    relabel,   \* Environment::map: blank node identifier -> generated identifier
    issued,    \* identifiers the generator has yielded
    stack,     \* calls in progress
    names,     \* history: label of a node object -> identifier it was declared with
    flat,      \* what flatten_with or merge returned
    outcome    \* "running", "mapped", "flattened", "merged", an error or "undefined"

vars == <<document, map, declared, relabel, issued, stack, names, flat, outcome>>

\* Maps: the empty one, and one in which a key has a value.
Empty == [x \in {} |-> None]
Put(f, key, value) == [x \in DOMAIN f \cup {key} |-> IF x = key THEN value ELSE f[x]]

-----------------------------------------------------------------------------
(* Environment.                                                              *)

Env == [relabel |-> relabel, issued |-> issued]

Exhausted(env) == env.issued > Len(Generated)
NextId(n) == IF n < Len(Generated) THEN Generated[n + 1] ELSE None

\* The environment after assign_node_id on an identifier, and what it returned.
Assigned(env, r) ==
    IF r \in Blanks /\ r \notin DOMAIN env.relabel
    THEN [relabel |-> Put(env.relabel, r, NextId(env.issued)), issued |-> env.issued + 1]
    ELSE env

\* Mutant: blank nodes keep the identifiers the document gave them.
Relabelled_Kept(env, r) == r

Relabelled(env, r) == IF r \in Blanks THEN env.relabel[r] ELSE r

-----------------------------------------------------------------------------
(* What a call has to do.                                                    *)

\* The section a call is in, "between" two of them, what it has left to go
\* through in it, what it has collected there, and the sections to come.  A list
\* and a document have only items.
CallOn(kind, active, id, index, section, queue, sections) ==
    [kind |-> kind, active |-> active, id |-> id, index |-> index,
     section |-> section, property |-> None, queue |-> queue, collected |-> <<>>, sections |-> sections]

Frame == Last(stack)
Running == outcome = "running" /\ stack # <<>>
In(section) == Running /\ Frame.section = section
Over(section) == In(section) /\ Frame.queue = <<>>
Before(op) == In("between") /\ Frame.sections # <<>> /\ Head(Frame.sections).op = op

\* A reverse property links each subject before it visits the next.
Visiting(kind) ==
    /\ Running /\ Frame.queue # <<>>
    /\ Frame.section \notin {"types", "between"}
    /\ Frame.section = "reverse" => Frame.collected = <<>>
    /\ Head(Frame.queue).kind = kind

\* The objects of @graph are visited in the graph the node names.
Target(frame) == IF frame.section = "graph" THEN frame.id ELSE frame.active

Entered(frame, property) ==
    [frame EXCEPT !.section = Head(frame.sections).op, !.property = property,
                  !.queue = Head(frame.sections).objects, !.sections = Tail(@)]
Passed(frame) == [frame EXCEPT !.queue = Tail(@)]
Given(frame, object) == [frame EXCEPT !.collected = Append(@, object)]
Linked(frame) == [frame EXCEPT !.collected = <<>>]
Ended(frame) == [frame EXCEPT !.section = "between", !.collected = <<>>]

Update(frame) == stack' = Append(Front(stack), frame)

\* An error drops the map, wherever in the call it was raised.
Fail(error) ==
    /\ outcome' = error
    /\ UNCHANGED <<document, map, declared, relabel, issued, stack, names, flat>>

Reference(id) == [kind |-> "node", id |-> id, index |-> None]

-----------------------------------------------------------------------------
(* The graphs.                                                               *)

Types(node) == IF node.types = None THEN <<>> ELSE node.types

\* `graph` is an option: empty, or the singleton of the graph entry.
NewNode(index) ==
    [types |-> None, index |-> index, graph |-> {}, properties |-> Empty]

\* Mutant: a later index replaces an earlier one.
Conflict_Never(graph, id, index) == FALSE

Conflict(graph, id, index) ==
    id \in DOMAIN graph /\ index # None /\ graph[id].index \notin {None, index}

\* declare_node, where there is no conflict.
WithNode(graph, id, index) ==
    IF id \in DOMAIN graph
    THEN [graph EXCEPT ![id].index = IF index = None THEN @ ELSE index]
    ELSE Put(graph, id, NewNode(index))

\* graph_mut(..).unwrap_unchecked().get_mut(..).unwrap_unchecked()
Found(active, id) == active \in DOMAIN map /\ id \in DOMAIN map[active]

Equivalent(a, b) == a.kind # "list" /\ a = b

AppendUnique(objects, o) == IF \E i \in DOMAIN objects : Equivalent(objects[i], o) THEN objects ELSE Append(objects, o)

AppendAll(objects, more) == FoldLeft(AppendUnique, objects, more)

\* The objects of a node for a property.
Listed(node, property) == IF property \in DOMAIN node.properties THEN node.properties[property] ELSE <<>>

\* insert_all_unique
WithObjects(node, property, objects) ==
    [node EXCEPT !.properties = Put(@, property, AppendAll(Listed(node, property), objects))]

-----------------------------------------------------------------------------
(* extend_node_map                                                           *)

VisitValue ==
    /\ Visiting("value")
    /\ Update(Given(Passed(Frame), Head(Frame.queue)))
    /\ UNCHANGED <<document, map, declared, relabel, issued, names, flat, outcome>>

\* What a call is made for stays at the head of the queue until it returns.
Call(frame) == stack' = Append(stack, frame)

VisitList ==
    /\ Visiting("list")
    /\ LET list == Head(Frame.queue)
       IN  Call(CallOn("list", Target(Frame), None, list.index, "items", list.items, <<>>))
    /\ UNCHANGED <<document, map, declared, relabel, issued, names, flat, outcome>>

\* extend_node_map_from_node up to the declaration.
VisitNode ==
    /\ Visiting("node")
    /\ LET node == Head(Frame.queue)
           active == Target(Frame)
           anonymous == node.id = None
           env == IF anonymous THEN [Env EXCEPT !.issued = @ + 1] ELSE Assigned(Env, node.id)
           id == IF anonymous THEN NextId(issued) ELSE Relabelled(env, node.id)
       IN  IF Exhausted(env) THEN Fail("UnsupportedTerm")
           ELSE IF active \notin DOMAIN map THEN Fail("undefined")
           ELSE IF Conflict(map[active], id, node.index) THEN Fail("ConflictingIndexes")
           ELSE /\ relabel' = env.relabel /\ issued' = env.issued
                /\ map' = [map EXCEPT ![active] = WithNode(@, id, node.index)]
                /\ names' = IF Label(node) \in DOMAIN names THEN names ELSE Put(names, Label(node), id)
                /\ Call(CallOn("node", active, id, None, "between", <<>>, Sections(node)))
                /\ UNCHANGED <<document, declared, flat, outcome>>

Returned(frame) ==
    IF frame.kind = "node" THEN Reference(frame.id)
    ELSE [kind |-> "list", index |-> frame.index, items |-> frame.collected]

Complete(frame) == frame.queue = <<>> /\ frame.sections = <<>> /\ frame.section \in {"items", "between"}

\* A call returns to the one that made it.
Leave ==
    /\ Running /\ Complete(Frame) /\ Len(stack) > 1
    /\ stack' = Append(Front(Front(stack)), Given(Passed(Last(Front(stack))), Returned(Frame)))
    /\ UNCHANGED <<document, map, declared, relabel, issued, names, flat, outcome>>

-----------------------------------------------------------------------------
(* extend_node_map_from_node, one section after another.                     *)

\* What a section does with the node it looks up without checking.
Change(id, node, frame) ==
    IF Found(Frame.active, id)
    THEN /\ map' = [map EXCEPT ![Frame.active] = [@ EXCEPT ![id] = node]]
         /\ Update(frame)
         /\ UNCHANGED <<document, declared, relabel, issued, names, flat, outcome>>
    ELSE Fail("undefined")

Looked(id) == map[Frame.active][id]

\* Types, included nodes and reverse properties, which are not relabelled, begin
\* with nothing.
Begin ==
    /\ Before("types") \/ Before("included") \/ Before("reverse")
    /\ Update(Entered(Frame, Head(Frame.sections).property))
    /\ UNCHANGED <<document, map, declared, relabel, issued, names, flat, outcome>>

\* Types and properties share the relabelling with nodes.
RelabelType ==
    /\ In("types") /\ Frame.queue # <<>>
    /\ LET type == Head(Frame.queue)
           env == Assigned(Env, type)
       IN  IF Exhausted(env)
           THEN Fail("UnsupportedTerm")
           ELSE /\ relabel' = env.relabel /\ issued' = env.issued
                /\ Update(Given(Passed(Frame), Relabelled(env, type)))
                /\ UNCHANGED <<document, map, declared, names, flat, outcome>>

\* The types of a node seen before are replaced.
SetTypes ==
    /\ Over("types")
    /\ Change(Frame.id, [Looked(Frame.id) EXCEPT !.types = Frame.collected], Ended(Frame))

\* Mutant: the graph is not declared.
DeclareGraph_Skipped ==
    /\ Before("graph")
    /\ Update(Entered(Frame, None))
    /\ UNCHANGED <<document, map, declared, relabel, issued, names, flat, outcome>>

\* declare_graph
DeclareGraph ==
    /\ Before("graph")
    /\ IF Frame.id \in DOMAIN map
       THEN UNCHANGED <<map, declared>>
       ELSE map' = Put(map, Frame.id, Empty) /\ declared' = Append(declared, Frame.id)
    /\ Update(Entered(Frame, None))
    /\ UNCHANGED <<document, relabel, issued, names, flat, outcome>>

SetGraph ==
    /\ Over("graph")
    /\ LET node == Looked(Frame.id)
           graph == IF node.graph = {} THEN {Frame.collected} ELSE {g \o Frame.collected : g \in node.graph}
       IN  Change(Frame.id, [node EXCEPT !.graph = graph], Ended(Frame))

RelabelProperty ==
    /\ Before("property")
    /\ LET property == Head(Frame.sections).property
           env == Assigned(Env, property)
       IN  IF Exhausted(env)
           THEN Fail("UnsupportedTerm")
           ELSE /\ relabel' = env.relabel /\ issued' = env.issued
                /\ Update(Entered(Frame, Relabelled(env, property)))
                /\ UNCHANGED <<document, map, declared, names, flat, outcome>>

Insert ==
    /\ Over("property")
    /\ Change(Frame.id, WithObjects(Looked(Frame.id), Frame.property, Frame.collected), Ended(Frame))

\* Mutant: the link points from the node to the subject, as a property would.
Link_Forward ==
    /\ In("reverse") /\ Frame.collected # <<>>
    /\ Change(Frame.id, WithObjects(Looked(Frame.id), Frame.property, Frame.collected), Linked(Frame))

\* A reverse property links the subject just visited to the node.
Link ==
    /\ In("reverse") /\ Frame.collected # <<>>
    /\ LET subject == Last(Frame.collected).id
       IN  Change(subject, WithObjects(Looked(subject), Frame.property, <<Reference(Frame.id)>>), Linked(Frame))

\* What included nodes return is not used.
End ==
    /\ Over("included") \/ (Over("reverse") /\ Frame.collected = <<>>)
    /\ Update(Ended(Frame))
    /\ UNCHANGED <<document, map, declared, relabel, issued, names, flat, outcome>>

Finish ==
    /\ Running /\ Complete(Frame) /\ Len(stack) = 1
    /\ stack' = <<>> /\ outcome' = "mapped"
    /\ UNCHANGED <<document, map, declared, relabel, issued, names, flat>>

-----------------------------------------------------------------------------
(* NodeMap::flatten_with                                                     *)

IsEmpty(node) == node.types = None /\ node.graph = {} /\ DOMAIN node.properties = {}

\* Mutant: the default graph is filtered like the others.
FilterGraph_ByProperties(node) == node.index # None \/ DOMAIN node.properties # {}

FilterGraph(node) == node.index # None \/ ~IsEmpty(node)
FilterSubGraph(node) == node.index # None \/ DOMAIN node.properties # {}

Pick(nodes, Kept(_)) == [id \in {id \in DOMAIN nodes : Kept(nodes[id])} |-> nodes[id]]

SubGraph(nodes) ==
    LET kept == Pick(nodes, FilterSubGraph)
    IN  [id \in DOMAIN kept |-> [kept[id] EXCEPT !.graph = {}]]

\* Each named graph becomes the @graph entry of its node in the default graph,
\* declared for it if need be.
Flatten ==
    /\ outcome = "mapped"
    /\ LET graphs == DOMAIN map \ {Default}
           nodes == [id \in DOMAIN map[Default] \cup graphs |->
                    IF id \in DOMAIN map[Default] THEN map[Default][id] ELSE NewNode(None)]
           whole == [id \in DOMAIN nodes |->
                       IF id \in graphs THEN [nodes[id] EXCEPT !.graph = {SubGraph(map[id])}] ELSE nodes[id]]
       IN  flat' = Pick(whole, FilterGraph)
    /\ outcome' = "flattened"
    /\ UNCHANGED <<document, map, declared, relabel, issued, stack, names>>

-----------------------------------------------------------------------------
(* NodeMap::merge                                                            *)

\* extend_unique
ExtendUnique(node, other) ==
    [p \in DOMAIN node.properties \cup DOMAIN other.properties |-> AppendAll(Listed(node, p), Listed(other, p))]

\* Mutant: types are replaced, as they are during generation.
MergeNode_Types(node, other) ==
    [types |-> IF other.types = None THEN node.types ELSE other.types,
     index |-> IF other.index = None THEN node.index ELSE other.index,
     graph |-> other.graph,
     properties |-> ExtendUnique(node, other)]

\* The graph entry is replaced even if the other node has none.
MergeNode(node, other) ==
    [types |-> IF other.types = None THEN node.types ELSE Types(node) \o other.types,
     index |-> IF other.index = None THEN node.index ELSE other.index,
     graph |-> other.graph,
     properties |-> ExtendUnique(node, other)]

MergeWith(nodes, other) ==
    [id \in DOMAIN nodes \cup DOMAIN other |->
        IF id \notin DOMAIN other THEN nodes[id]
        ELSE IF id \notin DOMAIN nodes THEN other[id]
        ELSE MergeNode(nodes[id], other[id])]

MergeAll(m, graphs) == FoldLeft(LAMBDA nodes, g : MergeWith(nodes, m[g]), m[Default], graphs)

Merge ==
    /\ outcome = "mapped"
    /\ flat' = MergeAll(map, declared)
    /\ outcome' = "merged"
    /\ UNCHANGED <<document, map, declared, relabel, issued, stack, names>>

-----------------------------------------------------------------------------
Init ==
    /\ document \in Documents
    /\ map = [g \in {Default} |-> Empty] /\ declared = <<>>
    /\ relabel = Empty /\ issued = 0
    /\ stack = <<CallOn("document", Default, None, None, "items", document, <<>>)>>
    /\ names = Empty
    /\ flat = Empty
    /\ outcome = "running"

Next ==
    \/ VisitValue \/ VisitList \/ VisitNode \/ Leave
    \/ Begin \/ RelabelType \/ SetTypes \/ DeclareGraph \/ SetGraph
    \/ RelabelProperty \/ Insert \/ Link \/ End
    \/ Finish \/ Flatten \/ Merge

Spec == Init /\ [][Next]_vars

-----------------------------------------------------------------------------
(* The reference: what a document says, read off its node objects.           *)

Occurrences == UNION {NodesIn[document[i]] : i \in DOMAIN document}

\* What a label, and an object, of the document is called in the map.
Name(l) == IF l \in DOMAIN names THEN names[l] ELSE IF l \in Blanks THEN relabel[l] ELSE l

Meaning[o \in Objects] ==
    LET items == [i \in DOMAIN o.items |-> Meaning[o.items[i]]]
    IN  CASE o.kind = "value" -> o
          [] o.kind = "list" -> [kind |-> "list", index |-> o.index, items |-> items]
          [] o.kind = "node" -> Reference(Name(Label(o)))

Values(entry) == ToSet(entry.values)

\* What an occurrence of a node says with its properties and its reverse properties.
PropertiesSay(x) ==
    UNION {{<<Name(x.graph), Name(Label(x.node)), Name(e.property), Meaning[v]>> : v \in Values(e)} : e \in ToSet(x.node.properties)}
ReversesSay(x) ==
    UNION {{<<Name(x.graph), Name(Label(v)), e.property, Meaning[x.node]>> : v \in Values(e)} : e \in ToSet(x.node.reverse)}

Said == UNION {PropertiesSay(x) \cup ReversesSay(x) : x \in Occurrences}

\* What the nodes of a graph say.
Statements(g, nodes) ==
    UNION {UNION {{<<g, id, p, o>> : o \in ToSet(nodes[id].properties[p])} : p \in DOMAIN nodes[id].properties} :
           id \in DOMAIN nodes}

Mapped == UNION {Statements(g, map[g]) : g \in DOMAIN map}

Flattened ==
    Statements(Default, flat)
    \cup UNION {UNION {Statements(id, nodes) : nodes \in flat[id].graph} : id \in DOMAIN flat}

-----------------------------------------------------------------------------
\* The "SAFETY" comments of node_map.rs: every graph and node that is looked up
\* without a check was declared earlier in the recursion.
LookupsDefined == outcome # "undefined"

\* Nodes are kept apart: two node objects become one node only if they have the
\* same identifier, although the generator yields names the document may use for
\* other nodes; and an IRI keeps naming its node (assign_node_id).
DistinctNodes ==
    /\ \A k, l \in DOMAIN names : names[k] = names[l] => k = l
    /\ \A l \in Iris \cap DOMAIN names : names[l] = l

\* The node map says what the document says: the statements of every occurrence
\* of a node, in its graph, and no other; and a node has the types of one of its
\* occurrences that have any (node_map.rs, extend_node_map_from_node).
StatementsKept ==
    outcome = "mapped" =>
        /\ \A x \in Occurrences : Label(x.node) \in DOMAIN names
        /\ Mapped = Said
        /\ \A g \in DOMAIN map : \A id \in DOMAIN map[g] :
              LET types == {x.node.types : x \in {x \in Occurrences : Name(x.graph) = g /\ Name(Label(x.node)) = id}}
              IN  \/ map[g][id].types = None /\ types \subseteq {None}
                  \/ \E t \in types \ {None} : map[g][id].types = [i \in DOMAIN t |-> Name(t[i])]

\* A conflict is reported exactly when two occurrences of a node in one graph
\* have different indexes.
IndexConflict ==
    \E x, y \in Occurrences :
        /\ x.graph = y.graph /\ Label(x.node) = Label(y.node)
        /\ x.node.index # y.node.index /\ None \notin {x.node.index, y.node.index}

ConflictsReported ==
    /\ outcome = "ConflictingIndexes" => IndexConflict
    /\ outcome = "mapped" => ~IndexConflict

\* Flattening loses no statement of the map, whatever it filters; a node of the
\* default graph keeps its types and its index, a node of a named graph as long
\* as it has a property or an index.
FlattenKeeps ==
    outcome = "flattened" =>
        /\ Flattened = Mapped
        /\ \A id \in DOMAIN map[Default] :
              map[Default][id].types # None \/ map[Default][id].index # None =>
                  id \in DOMAIN flat /\ flat[id].types = map[Default][id].types
                      /\ flat[id].index = map[Default][id].index

\* Merging forgets which graph a statement was made in, and nothing else: the
\* statements of all graphs, and the types a node has in each of them, are those
\* of the merged graph (documentation of merge_node, node_map.rs).
MergeKeeps ==
    outcome = "merged" =>
        /\ Statements(Default, flat) = {<<Default, s[2], s[3], s[4]>> : s \in Mapped}
        /\ \A id \in DOMAIN flat :
              ToSet(Types(flat[id])) = UNION {ToSet(Types(map[g][id])) : g \in {h \in DOMAIN map : id \in DOMAIN map[h]}}

=============================================================================
