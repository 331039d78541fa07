-------------------------------- MODULE Relabeling --------------------------------
(***************************************************************************)
(* Expanded objects and the passes that rewrite them (jsonld-core/src/     *)
(* object and src/id.rs): giving anonymous nodes an identifier, renaming   *)
(* blank nodes, putting literals into canonical form.                      *)
(*                                                                         *)
(* A pass threads its state through the object: the identifiers issued so  *)
(* far, the renaming, and `ok`, which turns FALSE when the generator       *)
(* yields a term that identifies no node.  From then on nothing changes.   *)
(***************************************************************************)
EXTENDS DocumentSet, SequencesExt, Functions, TLC

CONSTANTS
    Blanks,     \* blank node identifiers
    Iris,
    Invalids,   \* identifiers that are neither
    Generated   \* what the generator yields, in order

ASSUME RelabelingAssumption == Generated \in Seq(Blanks) /\ IsInjective(Generated)

Ids == Blanks \cup Iris \cup Invalids

-----------------------------------------------------------------------------
(* Objects: Indexed<Object>.  Absent lists of types, graphs and so on are    *)
(* empty or None; the entries of a node keep the order they were made in.    *)

Entry(property, values) == [property |-> property, values |-> values]

EmptyNode ==
    [kind |-> "node", id |-> None, types |-> <<>>, graph |-> None, included |-> <<>>,
     properties |-> <<>>, reverse |-> <<>>, index |-> None]

List(items) == [kind |-> "list", items |-> items, index |-> None]
Value(content) == [kind |-> "value", content |-> content, index |-> None]

\* Contents of a value object.  A number keeps how it is written: `canonical`
\* is FALSE for 1.0, say, whose canonical form is 1.
Literal(lexical, native, typ) ==
    [form |-> "literal", lexical |-> lexical, native |-> native, canonical |-> TRUE, typ |-> typ]
Unsimplified(literal) == [literal EXCEPT !.canonical = FALSE]
LangString(lexical, language, direction) ==
    [form |-> "langstring", lexical |-> lexical, language |-> language, direction |-> direction]
Json(lexical) == [form |-> "json", lexical |-> lexical, canonical |-> TRUE]

Graph(node) == IF node.graph = None THEN <<>> ELSE node.graph

\* PartialEq for Node and List: everything but the items of a list is unordered,
\* and what occurs twice is not what occurs once.
Multiset(s) == [x \in Range(s) |-> Cardinality({i \in DOMAIN s : s[i] = x})]

RECURSIVE KeyOf(_)
Keys(s) == [i \in DOMAIN s |-> KeyOf(s[i])]
ByProperty(entries) == {<<entries[i].property, Multiset(Keys(entries[i].values))>> : i \in DOMAIN entries}
KeyOf(o) ==
    CASE o.kind = "value" -> o
      [] o.kind = "list" -> [o EXCEPT !.items = Keys(@)]
      [] o.kind = "node" ->
            [o EXCEPT !.types = Multiset(@), !.included = Multiset(Keys(@)),
                      !.graph = IF @ = None THEN None ELSE Multiset(Keys(@)),
                      !.properties = ByProperty(@), !.reverse = ByProperty(@)]

\* Hash for Discriminant.
DiscriminantOf(key) == <<key.index, key.kind, IF key.kind = "node" THEN key.id ELSE None>>

-----------------------------------------------------------------------------
(* generator_next_id, and the renaming of one identifier.                    *)

\* A pass: which, and what its generator has issued and has left.
StartOf(name) == [issued |-> name.issued, limit |-> name.limit, relabeling |-> [b \in {} |-> None], ok |-> TRUE]

Fresh(s) == IF s.issued < s.limit THEN Generated[s.issued + 1] ELSE None
Issued(s) == IF s.issued < s.limit THEN [s EXCEPT !.issued = @ + 1] ELSE [s EXCEPT !.ok = FALSE]

Known(id, s) == id \notin Blanks \/ id \in DOMAIN s.relabeling

\* Mutant: every occurrence of a blank node is renamed afresh.
Renamed_Afresh(id, s) ==
    IF id \notin Blanks \/ ~Issued(s).ok THEN s ELSE [Issued(s) EXCEPT !.relabeling = (id :> Fresh(s)) @@ @]

\* The state once an identifier has been renamed, and its name there.
Renamed(id, s) ==
    CASE Known(id, s) -> s
      [] ~Known(id, s) /\ ~Issued(s).ok -> Issued(s)
      [] OTHER -> [Issued(s) EXCEPT !.relabeling = (id :> Fresh(s)) @@ @]

NameIn(id, s) == IF id \in DOMAIN s.relabeling THEN s.relabeling[id] ELSE id

-----------------------------------------------------------------------------
(* A pass over a sequence, over the values of entries, over the fields of an *)
(* object.  What comes after a failure stays as it is.                       *)

Done(object, s) == [object |-> object, state |-> s]

InField(acc, field, r) == Done([acc.object EXCEPT ![field] = r.object], r.state)
Behind(acc, r) == Done(Append(acc.object, r.object), r.state)

Through(Op(_, _), seq, s) ==
    FoldLeft(LAMBDA acc, o : Behind(acc, IF acc.state.ok THEN Op(o, acc.state) ELSE Done(o, acc.state)),
             Done(<<>>, s), seq)

ThroughValues(Op(_, _), entries, s) ==
    Through(LAMBDA e, t : InField(Done(e, t), "values", Through(Op, e.values, t)), entries, s)

\* The order in which a pass visits a node.
Fields == <<"id", "types", "graph", "included", "properties", "reverse">>

ThroughFields(Op(_, _, _), node, s) ==
    FoldLeft(LAMBDA acc, f : IF acc.state.ok THEN InField(acc, f, Op(f, acc.object[f], acc.state)) ELSE acc,
             Done(node, s), Fields)

-----------------------------------------------------------------------------
(* identify_all_with                                                         *)

RECURSIVE Identify(_, _)

IdentifyField(field, content, s) ==
    CASE field = "id" /\ content = None -> Done(Fresh(s), Issued(s))
      [] field \in {"graph", "included"} /\ content # None -> Through(Identify, content, s)
      [] field \in {"properties", "reverse"} -> ThroughValues(Identify, content, s)
      [] OTHER -> Done(content, s)

Identify(o, s) ==
    CASE o.kind = "value" -> Done(o, s)
      [] o.kind = "list" -> InField(Done(o, s), "items", Through(Identify, o.items, s))
      [] o.kind = "node" -> ThroughFields(IdentifyField, o, s)

-----------------------------------------------------------------------------
(* relabel_with                                                              *)

RECURSIVE Relabel(_, _)

RenamedType(id, s) == Done(NameIn(id, Renamed(id, s)), Renamed(id, s))

\* The identifier of a node is taken out before it is renamed, and so are its
\* properties: the identifier is gone when the generator fails on it, and those
\* of the properties that were not set again by then.
RenamedNode(id, s) ==
    CASE id = None -> Done(Fresh(s), Issued(s))
      [] id # None /\ ~Renamed(id, s).ok -> Done(None, Renamed(id, s))
      [] OTHER -> RenamedType(id, s)

SetAgain(acc, e, r) ==
    IF r.state.ok THEN Behind(acc, Done(Entry(NameIn(e.property, r.state), r.object), r.state))
    ELSE Done(acc.object, r.state)

RelabelProperties(entries, s) ==
    FoldLeft(LAMBDA acc, e :
                IF acc.state.ok THEN SetAgain(acc, e, Through(Relabel, e.values, Renamed(e.property, acc.state)))
                ELSE acc,
             Done(<<>>, s), entries)

\* The keys of reverse properties are not renamed.
RelabelField(field, content, s) ==
    CASE field = "id" -> RenamedNode(content, s)
      [] field = "types" -> Through(RenamedType, content, s)
      [] field \in {"graph", "included"} /\ content # None -> Through(Relabel, content, s)
      [] field = "properties" -> RelabelProperties(content, s)
      [] field = "reverse" -> ThroughValues(Relabel, content, s)
      [] OTHER -> Done(content, s)

Relabel(o, s) ==
    CASE o.kind = "value" -> Done(o, s)
      [] o.kind = "list" -> InField(Done(o, s), "items", Through(Relabel, o.items, s))
      [] o.kind = "node" -> ThroughFields(RelabelField, o, s)

-----------------------------------------------------------------------------
(* canonicalize_with                                                         *)

RECURSIVE Canonicalize(_)

CanonicalValues(entries) == [i \in DOMAIN entries |-> [entries[i] EXCEPT !.values = [j \in DOMAIN @ |-> Canonicalize(@[j])]]]

\* Literals under @graph and @included stay as they are.
Canonicalize(o) ==
    CASE o.kind = "value" /\ o.content.form = "langstring" -> o
      [] o.kind = "value" /\ o.content.form # "langstring" -> [o EXCEPT !.content.canonical = TRUE]
      [] o.kind = "list" -> [o EXCEPT !.items = [i \in DOMAIN @ |-> Canonicalize(@[i])]]
      [] o.kind = "node" -> [o EXCEPT !.properties = CanonicalValues(@), !.reverse = CanonicalValues(@)]

-----------------------------------------------------------------------------

\* One object under a pass.
RewriteObject(name, object, s) ==
    LET canonical == name.op \in {"relabel_and_canonicalize", "canonicalize"}
        Finish(r) == [object |-> IF canonical /\ r.state.ok THEN Canonicalize(r.object) ELSE r.object,
                      state |-> r.state, ok |-> r.state.ok]
    IN  CASE name.op = "identify_all" -> Finish(Identify(object, s))
          [] name.op \in {"relabel", "relabel_and_canonicalize"} -> Finish(Relabel(object, s))
          [] name.op = "canonicalize" -> Finish(Done(object, s))

=============================================================================
