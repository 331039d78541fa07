------------------------------ MODULE ActiveContext ------------------------------
(***************************************************************************)
(* The active context of jsonld-core (src/jsonld-core/src/context/mod.rs): *)
(* term definitions held copy-on-write behind an Arc, scalar entries, an   *)
(* optional previous context, and five caches, each one OnceCell behind an *)
(* Arc that Clone shares.                                                  *)
(*                                                                         *)
(* What is modelled is the sharing: which contexts hold which definitions  *)
(* object and which cell, when a mutator replaces its own, and what a      *)
(* reader finds in, or leaves behind in, the cell it shares.  What a       *)
(* lookup computes is the constant operator Answer.                        *)
(*                                                                         *)
(* Reads are atomic: a reader borrows its context for the whole lookup, so *)
(* no mutator of that context can fall between the miss and the insert,    *)
(* and another reader of the same cell only fills in the same answers.     *)
(***************************************************************************)
EXTENDS Naturals, FiniteSets, Functions

CONSTANTS
    Contexts,       \* handles of Context values, owned or inside an Arc
    NoContext,      \* previous_context == None
    Addresses,      \* where Arc<Definitions> may live
    Cells,          \* where each kind of Arc<OnceCell> may live
    Values,         \* abstract contents of a term table, @type entry or scalar
    Unset,          \* the value they start with
    Scalars,        \* base_iri, vocabulary, default_language, default_base_direction
    Modes,          \* processing modes
    DefaultMode,
    Forks,          \* vocabularies that intern the identifiers of memo entries
    Terms,          \* keys looked up by IRI expansion
    Variables,      \* identifiers looked up by IRI compaction
    Answer(_, _, _) \* what a lookup of a kind computes from its inputs

Kinds == {"inverse", "prefix_terms", "compact_iri_cache",
          "term_resolution_cache", "keyword_aliases"}

\* What is looked up in a cell of each kind.  The inverse context and the prefix
\* terms are computed whole; a compact-IRI key carries the processing mode, and
\* so does a slot of the keyword aliases, which are filled through compact_iri.
Whole == "whole"
CompactKeys == (Variables \cup {"keyword"}) \X Modes
Queries(k) ==
    CASE k \in {"inverse", "prefix_terms"} -> {Whole}
      [] k = "compact_iri_cache" -> CompactKeys
      [] k = "term_resolution_cache" -> Terms
      [] k = "keyword_aliases" -> Modes

Definitions == [normal : Values, type_ : Values]

ASSUME ConstantsAssumption ==
    /\ NoContext \notin Contexts
    /\ Unset \in Values
    /\ DefaultMode \in Modes
    /\ Scalars \subseteq {"base_iri", "vocabulary", "default_language", "default_base_direction"}

VARIABLES
    ctx,      \* live contexts: handle -> fields
    heap,     \* Definitions object at each address
    memo,     \* kind -> cell -> [warm, entries]
    tainted   \* history: cells that may mislead (see UntaintedCoherent)

vars == <<ctx, heap, memo, tainted>>

Live == DOMAIN ctx

NewDefinitions == [normal |-> Unset, type_ |-> Unset]
ColdCell == [warm |-> FALSE, entries |-> {}]

-----------------------------------------------------------------------------
(* Ownership.  Contexts inside an Arc<Self> are someone's previous context:  *)
(* they can be read and cloned, not mutated.                                 *)

Owned(c) == \A d \in Live : ctx[d].previous # c

\* `c`, its previous context, and so on.
Chain(table, c) ==
    {d \in DOMAIN table :
        \A S \in SUBSET DOMAIN table :
            (c \in S /\ \A e \in S : table[e].previous \in S \cup {NoContext}) => d \in S}

\* The contexts of `table` that survive when only `roots` are held by value.
Reachable(table, roots) == {d \in DOMAIN table : \E r \in roots : d \in Chain(table, r)}

UsedAddress(table, a) == \E c \in DOMAIN table : table[c].definitions = a
UsedCell(table, k, a) == \E c \in DOMAIN table : table[c].cell[k] = a

FreeAddress == {a \in Addresses : ~UsedAddress(ctx, a)}
FreeCells(k) == {a \in Cells : ~UsedCell(ctx, k, a)}
FreshAddress == CHOOSE a \in FreeAddress : TRUE
FreshCell(k) == CHOOSE a \in FreeCells(k) : TRUE
FreshHandle == CHOOSE c \in Contexts \ Live : TRUE

\* Bounds of the model: a context finds a handle, an allocation finds room.
RoomForHandle == Contexts \ Live # {}
RoomToAllocate == FreeAddress # {} /\ \A k \in Kinds : FreeCells(k) # {}

\* Dropping the last Arc frees the object behind it.
Commit(table, objects, cells, taint) ==
    /\ ctx' = table
    /\ heap' = [a \in Addresses |-> IF UsedAddress(table, a) THEN objects[a] ELSE NewDefinitions]
    /\ memo' = [k \in Kinds |-> [a \in Cells |-> IF UsedCell(table, k, a) THEN cells[k][a] ELSE ColdCell]]
    /\ tainted' = {t \in taint : UsedCell(table, t[1], t[2])}

-----------------------------------------------------------------------------
(* What the caches are computed from.                                        *)

Scalar(table, c, f) == IF f \in Scalars THEN table[c].scalar[f] ELSE Unset

\* The part of a context's own state each kind of cell depends on.  Memoised
\* identifiers belong to the vocabulary that interned them; what is computed
\* from definitions and keywords alone is the same for every fork.
Inputs(table, objects, c, k) ==
    LET defs == objects[table[c].definitions]
    IN  CASE k = "inverse" -> <<defs.normal, Scalar(table, c, "default_language"),
                                Scalar(table, c, "default_base_direction")>>
          [] k = "prefix_terms" -> <<defs.normal>>
          [] k = "compact_iri_cache" -> <<defs, table[c].scalar, table[c].fork>>
          [] k = "term_resolution_cache" -> <<defs.normal, Scalar(table, c, "vocabulary"),
                                              table[c].mode, table[c].fork>>
          [] k = "keyword_aliases" -> <<defs, table[c].scalar>>

Own(c, k) == Inputs(ctx, heap, c, k)

\* compact_iri_full reads the inverse context, then the prefix terms.
Compacted(c, q, inverse, prefixes) ==
    Answer("compact_iri_cache",
           <<IF q[1] = "keyword" THEN Own(c, "keyword_aliases") ELSE Own(c, "compact_iri_cache"),
             inverse, prefixes>>, q)

\* What a lookup would return if no cell existed.
Pure(c, k, q) ==
    LET inverse == Answer("inverse", Own(c, "inverse"), Whole)
        prefixes == Answer("prefix_terms", Own(c, "prefix_terms"), Whole)
    IN  CASE k = "compact_iri_cache" -> Compacted(c, q, inverse, prefixes)
          [] k = "keyword_aliases" -> Compacted(c, <<"keyword", q>>, inverse, prefixes)
          [] OTHER -> Answer(k, Own(c, k), q)

CellOf(c, k) == memo[k][ctx[c].cell[k]]
Hit(c, k, q) == \E e \in CellOf(c, k).entries : e.query = q

\* The answer a lookup through c's cell gives: the entry there, else a fresh one.
Served(c, k, q, fresh) ==
    IF Hit(c, k, q) THEN (CHOOSE e \in CellOf(c, k).entries : e.query = q).answer ELSE fresh

-----------------------------------------------------------------------------
(* Creating, cloning, dropping.                                              *)

Extend(table, more) ==
    [d \in DOMAIN table \cup DOMAIN more |-> IF d \in DOMAIN table THEN table[d] ELSE more[d]]

FreshFields(fork) ==
    [definitions |-> FreshAddress,
     scalar |-> [f \in Scalars |-> Unset],
     mode |-> DefaultMode,
     previous |-> NoContext,
     fork |-> fork,
     cell |-> [k \in Kinds |-> FreshCell(k)]]

\* Context::new: nothing defined, every cell its own.
New(fork) ==
    /\ RoomForHandle /\ RoomToAllocate
    /\ Commit(Extend(ctx, [x \in {FreshHandle} |-> FreshFields(fork)]), heap, memo, tainted)

\* Clone: the definitions and all five cells are shared with the original.
Clone(c) ==
    /\ c \in Live /\ RoomForHandle
    /\ Commit(Extend(ctx, [x \in {FreshHandle} |-> ctx[c]]), heap, memo, tainted)

\* A context going out of scope takes with it the Arcs only it kept alive.
Drop(c) ==
    /\ c \in Live /\ Owned(c)
    /\ LET left == Reachable(ctx, {d \in Live : Owned(d)} \ {c})
       IN  Commit(Restrict(ctx, left), heap, memo, tainted)

\* with_private_caches: a copy of the context, and of every context it would
\* fall back to, whose two identifier-bearing memos belong to the copy.
PrivateKinds == {"compact_iri_cache", "term_resolution_cache"}

Injections(S, T) == {f \in [S -> T] : \A x, y \in S : f[x] = f[y] => x = y}

\* Mutant: the copy keeps falling back to the original's previous context.
WithPrivateCaches_SharesPrevious(c, fork) ==
    /\ c \in Live /\ RoomForHandle /\ RoomToAllocate
    /\ Commit(Extend(ctx, [n \in {FreshHandle} |->
                 [ctx[c] EXCEPT !.fork = fork,
                                !.cell = [k \in Kinds |-> IF k \in PrivateKinds THEN FreshCell(k) ELSE @[k]]]]),
              heap, memo, tainted)

WithPrivateCaches(c, fork) ==
    /\ c \in Live
    /\ LET chain == Chain(ctx, c)
           copying == Injections(chain, Contexts \ Live)
           copy == CHOOSE f \in copying : TRUE
           copies == {copy[d] : d \in chain}
           placing(k) == Injections(copies, FreeCells(k))
           cells == [k \in PrivateKinds |-> CHOOSE f \in placing(k) : TRUE]
           twin(d) == [ctx[d] EXCEPT
                         !.previous = IF @ = NoContext THEN NoContext ELSE copy[@],
                         !.fork = fork,
                         !.cell = [k \in Kinds |-> IF k \in PrivateKinds THEN cells[k][copy[d]] ELSE @[k]]]
       IN  /\ copying # {} /\ \A k \in PrivateKinds : placing(k) # {}
           /\ Commit(Extend(ctx, [n \in copies |-> twin(CHOOSE d \in chain : copy[d] = n)]),
                     heap, memo, tainted)

-----------------------------------------------------------------------------
(* Mutators.                                                                 *)

IriCaches == {"inverse", "compact_iri_cache", "term_resolution_cache", "keyword_aliases"}

\* A populated cell is replaced by a fresh one; a cold one is kept, sharers and all.
Invalidated(c, kinds) ==
    [k \in Kinds |-> IF k \in kinds /\ CellOf(c, k).warm THEN FreshCell(k) ELSE ctx[c].cell[k]]

\* Arc::make_mut: in place when this is the only reference, else on a copy.
Shared(c) == \E d \in Live \ {c} : ctx[d].definitions = ctx[c].definitions

\* Mutant: the reference count is not consulted.
MakeMut_InPlace(c) == ctx[c].definitions

MakeMut(c) == IF Shared(c) THEN FreshAddress ELSE ctx[c].definitions

\* History.  A cold cell stays shared across a mutation of what it is computed
\* from: whoever fills it first answers for contexts that no longer agree.
LeftShared(table, objects, c) ==
    {<<k, ctx[c].cell[k]>> : k \in
        {k \in Kinds : /\ Inputs(table, objects, c, k) # Own(c, k)
                       /\ ~CellOf(c, k).warm
                       /\ \E d \in Live \ {c} : ctx[d].cell[k] = ctx[c].cell[k]}}

Mutate(c, fields, objects) ==
    /\ c \in Live /\ Owned(c) /\ RoomToAllocate
    /\ LET table == [ctx EXCEPT ![c] = fields]
       IN  Commit(table, objects, memo, tainted \cup LeftShared(table, objects, c))

SetDefinitions(c, defs, kinds) ==
    LET a == MakeMut(c)
    IN  Mutate(c, [ctx[c] EXCEPT !.definitions = a, !.cell = Invalidated(c, kinds)],
               [heap EXCEPT ![a] = defs])

\* Mutant: the prefix terms outlive the definitions they were collected from.
SetNormal_KeepsPrefixTerms(c, v) ==
    SetDefinitions(c, [heap[ctx[c].definitions] EXCEPT !.normal = v], IriCaches)

SetNormal(c, v) ==
    SetDefinitions(c, [heap[ctx[c].definitions] EXCEPT !.normal = v], IriCaches \cup {"prefix_terms"})

SetType(c, v) ==
    SetDefinitions(c, [heap[ctx[c].definitions] EXCEPT !.type_ = v], IriCaches \ {"inverse"})

\* set_base_iri, set_vocabulary, set_default_language, set_default_base_direction
SetScalar(c, f, v) ==
    Mutate(c, [ctx[c] EXCEPT !.scalar[f] = v, !.cell = Invalidated(c, IriCaches)], heap)

\* No cache is touched, although the term memo's answers depend on the mode.
SetProcessingMode(c, m) ==
    LET k == "term_resolution_cache"
    IN  /\ c \in Live /\ Owned(c) /\ m # ctx[c].mode
        /\ Commit([ctx EXCEPT ![c].mode = m], heap, memo, tainted \cup {<<k, ctx[c].cell[k]>>})

\* The previous context is moved in; the one it replaces loses a reference.
SetPreviousContext(c, p) ==
    /\ c \in Live /\ p \in Live /\ c # p /\ Owned(c) /\ Owned(p) /\ RoomToAllocate
    /\ ctx[c].fork = ctx[p].fork    \* a run interns in one vocabulary
    /\ LET table == [ctx EXCEPT ![c].previous = p, ![c].cell = Invalidated(c, IriCaches)]
           left == Reachable(table, {d \in Live : Owned(d)} \ {p})
       IN  Commit(Restrict(table, left), heap, memo, tainted)

-----------------------------------------------------------------------------
(* Readers.                                                                  *)

\* OnceCell::get_or_init followed by an insert of a missing answer.  A full
\* shard loses its entries first: `kept` is what remains.
Remember(cells, c, k, q, fresh, kept) ==
    [cells EXCEPT ![k][ctx[c].cell[k]] =
        [warm |-> TRUE,
         entries |-> IF Hit(c, k, q) THEN @.entries ELSE kept \cup {[query |-> q, answer |-> fresh]}]]

Fresh(c, k, q) == Answer(k, Own(c, k), q)

\* inverse() and prefix_terms() on a cell nobody computed yet.
Derive(c, k) ==
    /\ c \in Live /\ k \in {"inverse", "prefix_terms"} /\ ~CellOf(c, k).warm
    /\ Commit(ctx, heap, Remember(memo, c, k, Whole, Fresh(c, k, Whole), {}), tainted)

\* expand_iri_simple in its memoised shape.
ExpandTerm(c, t, kept) ==
    LET k == "term_resolution_cache"
    IN  /\ c \in Live /\ ~Hit(c, k, t) /\ kept \subseteq CellOf(c, k).entries
        /\ Commit(ctx, heap, Remember(memo, c, k, t, Fresh(c, k, t), kept), tainted)

\* The work of a compact_iri miss: the inverse context and the prefix terms are
\* consulted, computed if need be, and the result enters the memo.
CompactNow(c, q) ==
    Compacted(c, q, Served(c, "inverse", Whole, Fresh(c, "inverse", Whole)),
                    Served(c, "prefix_terms", Whole, Fresh(c, "prefix_terms", Whole)))

Consulted(c) ==
    Remember(Remember(memo, c, "inverse", Whole, Fresh(c, "inverse", Whole), {}),
             c, "prefix_terms", Whole, Fresh(c, "prefix_terms", Whole), {})

\* History.  What is computed from a stale cell is stale.
Downstream(c, sources, k) ==
    IF \E s \in sources : <<s, ctx[c].cell[s]>> \in tainted THEN {<<k, ctx[c].cell[k]>>} ELSE {}

CompactIri(c, q, kept) ==
    LET k == "compact_iri_cache"
    IN  /\ c \in Live /\ ~Hit(c, k, q) /\ kept \subseteq CellOf(c, k).entries
        /\ Commit(ctx, heap, Remember(Consulted(c), c, k, q, CompactNow(c, q), kept),
                  tainted \cup Downstream(c, {"inverse", "prefix_terms"}, k))

\* keyword_alias: each slot is filled from what compact_iri returned for the
\* keywords, and memoised, just before.
KeywordAlias(c, m) ==
    LET q == <<"keyword", m>>
        k == "keyword_aliases"
    IN  /\ c \in Live /\ ~Hit(c, k, m) /\ Hit(c, "compact_iri_cache", q)
        /\ Commit(ctx, heap,
                  Remember(memo, c, k, m, Served(c, "compact_iri_cache", q, q), CellOf(c, k).entries),
                  tainted \cup Downstream(c, {"compact_iri_cache"}, k))

-----------------------------------------------------------------------------
Init ==
    /\ ctx = [c \in {} |-> Unset]
    /\ heap = [a \in Addresses |-> NewDefinitions]
    /\ memo = [k \in Kinds |-> [a \in Cells |-> ColdCell]]
    /\ tainted = {}

Mutation ==
    \E c \in Live :
        \/ \E v \in Values : SetNormal(c, v)
        \/ \E v \in Values : SetType(c, v)
        \/ \E f \in Scalars, v \in Values : SetScalar(c, f, v)
        \/ \E m \in Modes : SetProcessingMode(c, m)
        \/ \E p \in Live : SetPreviousContext(c, p)

Reading ==
    \E c \in Live :
        \/ \E k \in {"inverse", "prefix_terms"} : Derive(c, k)
        \/ \E t \in Terms : \E kept \in SUBSET CellOf(c, "term_resolution_cache").entries :
              ExpandTerm(c, t, kept)
        \/ \E q \in CompactKeys : \E kept \in SUBSET CellOf(c, "compact_iri_cache").entries :
              CompactIri(c, q, kept)
        \/ \E m \in Modes : KeywordAlias(c, m)

Lifetime ==
    \/ \E fork \in Forks : New(fork)
    \/ \E c \in Live : Clone(c) \/ Drop(c)
    \/ \E c \in Live, fork \in Forks : WithPrivateCaches(c, fork)

Next == Lifetime \/ Mutation \/ Reading

Spec == Init /\ [][Next]_vars

-----------------------------------------------------------------------------
\* A memo answers as its owner would without one (memo.rs: a miss recomputes a
\* deterministic function).  It does not hold of the code: a cold cell stays
\* shared across a mutation, and the mutated clone's answers reach the original.
Coherent ==
    \A c \in Live, k \in Kinds : \A e \in CellOf(c, k).entries : e.answer = Pure(c, k, e.query)

\* The only ways to lose coherence: every cell answers correctly for every context
\* holding it, unless it was cold and shared when a holder's inputs changed, its
\* holder's processing mode changed, or it was filled from such a cell.
UntaintedCoherent ==
    \A c \in Live, k \in Kinds :
        <<k, ctx[c].cell[k]>> \notin tainted =>
            \A e \in CellOf(c, k).entries : e.answer = Pure(c, k, e.query)

\* Copy-on-write: no step changes what two contexts mean, so a mutator never
\* reaches a context that shares the definitions of the one it was called on.
State(c) == <<heap[ctx[c].definitions], ctx[c].scalar, ctx[c].mode, ctx[c].previous>>

CopyOnWrite ==
    [][\A c, d \in Live \cap Live' : State(c)' # State(c) /\ State(d)' # State(d) => c = d]_vars

\* with_private_caches: contexts of different vocabularies never share a memo
\* that holds identifiers, and a context never reverts to one of another fork.
ForkPrivacy ==
    \A c, d \in Live : ctx[c].fork # ctx[d].fork =>
        /\ ctx[c].previous # d
        /\ \A k \in PrivateKinds : ctx[c].cell[k] # ctx[d].cell[k]

=============================================================================
