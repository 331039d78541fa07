-------------------------- MODULE ActiveContextProofs --------------------------
(***************************************************************************)
(* What ActiveContext promises, for any number of contexts, terms, modes   *)
(* and vocabularies: mutation is copy-on-write, copies with private caches *)
(* share no identifier, and a cell answers as its holders would without it *)
(* unless one of the ways listed at UntaintedCoherent spoiled it.          *)
(*                                                                         *)
(* Every step commits a table of contexts, the definitions, the cells and  *)
(* the history.  The invariants are written as conditions on those four,   *)
(* so that each action has only to establish them of what it commits.      *)
(***************************************************************************)
EXTENDS ActiveContext, TLAPS

-----------------------------------------------------------------------------
(* The inductive invariant.                                                *)

FieldSet ==
    [definitions : Addresses, scalar : [Scalars -> Values], mode : Modes,
     previous : Contexts \cup {NoContext}, fork : Forks, cell : [Kinds -> Cells]]

\* Every previous context is alive.
Closed(table) == \A c \in DOMAIN table : table[c].previous \in DOMAIN table \cup {NoContext}

TableOK(table) ==
    /\ DOMAIN table \subseteq Contexts
    /\ \A c \in DOMAIN table : table[c] \in FieldSet
    /\ Closed(table)

\* A cell remembers what was asked of it, and nothing while it is cold.
CellOK(k, cell) ==
    /\ cell = [warm |-> cell.warm, entries |-> cell.entries]
    /\ \A e \in cell.entries : e.query \in Queries(k)
    /\ ~cell.warm => cell.entries = {}

CellsOK(cells) ==
    /\ DOMAIN cells = Kinds
    /\ \A k \in Kinds : DOMAIN cells[k] = Cells /\ \A a \in Cells : CellOK(k, cells[k][a])

ObjectsOK(objects) == objects \in [Addresses -> Definitions]

\* What no context holds is as good as new.
Spare(table, cells) ==
    \A k \in Kinds : \A a \in Cells : ~UsedCell(table, k, a) => cells[k][a] = ColdCell

\* The holders of an untainted cell agree on what it is computed from.
Agreed(table, objects, taint) ==
    \A c, d \in DOMAIN table, k \in Kinds :
        table[c].cell[k] = table[d].cell[k] /\ <<k, table[c].cell[k]>> \notin taint
            => Inputs(table, objects, c, k) = Inputs(table, objects, d, k)

\* Pure, of any table of contexts.
Plain(table, objects, c, q) ==
    Answer("compact_iri_cache",
           <<IF q[1] = "keyword" THEN Inputs(table, objects, c, "keyword_aliases")
             ELSE Inputs(table, objects, c, "compact_iri_cache"),
             Answer("inverse", Inputs(table, objects, c, "inverse"), Whole),
             Answer("prefix_terms", Inputs(table, objects, c, "prefix_terms"), Whole)>>, q)

Computed(table, objects, c, k, q) ==
    CASE k = "compact_iri_cache" -> Plain(table, objects, c, q)
      [] k = "keyword_aliases" -> Plain(table, objects, c, <<"keyword", q>>)
      [] OTHER -> Answer(k, Inputs(table, objects, c, k), q)

Correct(table, objects, cells, taint) ==
    \A c \in DOMAIN table, k \in Kinds :
        <<k, table[c].cell[k]>> \notin taint =>
            \A e \in cells[k][table[c].cell[k]].entries :
                e.answer = Computed(table, objects, c, k, e.query)

\* ForkPrivacy, of any table of contexts.
Private(table) ==
    \A c, d \in DOMAIN table : table[c].fork # table[d].fork =>
        /\ table[c].previous # d
        /\ \A k \in PrivateKinds : table[c].cell[k] # table[d].cell[k]

\* What an action owes of what it commits.
Sound(table, objects, cells, taint) ==
    /\ TableOK(table) /\ ObjectsOK(objects) /\ CellsOK(cells)
    /\ Private(table)
    /\ Agreed(table, objects, taint)
    /\ Correct(table, objects, cells, taint)

IInv == Sound(ctx, heap, memo, tainted) /\ Spare(ctx, memo)

-----------------------------------------------------------------------------
(* What is computed depends on the inputs alone.                           *)

\* Contexts with the same fields have the same inputs.
LEMMA SameFields ==
    ASSUME NEW table, NEW other, NEW objects, NEW c, NEW d, table[c] = other[d], NEW k
    PROVE  Inputs(table, objects, c, k) = Inputs(other, objects, d, k)
BY DEF Inputs, Scalar

\* So have those with the same fields and the same definitions.
LEMMA SameState ==
    ASSUME NEW table, NEW other, NEW objects, NEW instead, NEW c, NEW d, table[c] = other[d],
           objects[table[c].definitions] = instead[other[d].definitions], NEW k
    PROVE  Inputs(table, objects, c, k) = Inputs(other, instead, d, k)
BY DEF Inputs, Scalar

\* The inputs of a kind of cell determine every answer a lookup of that kind
\* computes: those of the compact-IRI memo and of the keyword aliases determine
\* the inputs of the inverse context and of the prefix terms they read.
LEMMA SameInputs ==
    ASSUME NEW table, NEW objects, NEW c, NEW other, NEW instead, NEW d, NEW k \in Kinds,
           Inputs(table, objects, c, k) = Inputs(other, instead, d, k), NEW q
    PROVE  Computed(table, objects, c, k, q) = Computed(other, instead, d, k, q)
<1>1. CASE k = "compact_iri_cache"
  <2>1. /\ objects[table[c].definitions] = instead[other[d].definitions]
        /\ table[c].scalar = other[d].scalar
    BY <1>1 DEF Inputs
  <2>2. \A j \in {"inverse", "prefix_terms", "keyword_aliases"} :
           Inputs(table, objects, c, j) = Inputs(other, instead, d, j)
    BY <2>1 DEF Inputs, Scalar
  <2> QED
    BY <1>1, <2>2 DEF Computed, Plain
<1>2. CASE k = "keyword_aliases"
  <2>1. /\ objects[table[c].definitions] = instead[other[d].definitions]
        /\ table[c].scalar = other[d].scalar
    BY <1>2 DEF Inputs
  <2>2. \A j \in {"inverse", "prefix_terms", "keyword_aliases"} :
           Inputs(table, objects, c, j) = Inputs(other, instead, d, j)
    BY <2>1 DEF Inputs, Scalar
  <2> QED
    BY <1>2, <2>2 DEF Computed, Plain
<1>3. CASE k \notin {"compact_iri_cache", "keyword_aliases"}
  BY <1>3 DEF Computed
<1> QED
  BY <1>1, <1>2, <1>3

LEMMA ComputedIsPure ==
    ASSUME NEW c, NEW k, NEW q
    PROVE  Pure(c, k, q) = Computed(ctx, heap, c, k, q)
BY DEF Pure, Compacted, Own, Computed, Plain

-----------------------------------------------------------------------------
(* Committing.                                                             *)

\* Freeing what no context of the table holds changes nothing for those in it.
LEMMA Committed ==
    ASSUME NEW table, NEW objects, NEW cells, NEW taint,
           Sound(table, objects, cells, taint), Commit(table, objects, cells, taint)
    PROVE  /\ IInv'
           /\ ctx' = table
           /\ \A c \in DOMAIN table : heap'[table[c].definitions] = objects[table[c].definitions]
<1>1. ctx' = table
  BY DEF Commit
<1>2. \A c \in DOMAIN table : table[c].definitions \in Addresses /\ table[c].cell \in [Kinds -> Cells]
  BY DEF Sound, TableOK, FieldSet
<1>3. /\ heap' = [a \in Addresses |-> IF UsedAddress(table, a) THEN objects[a] ELSE NewDefinitions]
      /\ memo' = [k \in Kinds |-> [a \in Cells |-> IF UsedCell(table, k, a) THEN cells[k][a] ELSE ColdCell]]
      /\ tainted' = {t \in taint : UsedCell(table, t[1], t[2])}
  BY DEF Commit
<1>4. \A c \in DOMAIN table : heap'[table[c].definitions] = objects[table[c].definitions]
  BY <1>2, <1>3 DEF UsedAddress
<1>5. \A c \in DOMAIN table, k \in Kinds : UsedCell(table, k, table[c].cell[k])
  BY DEF UsedCell
<1>6. \A c \in DOMAIN table, k \in Kinds : memo'[k][table[c].cell[k]] = cells[k][table[c].cell[k]]
  BY <1>2, <1>3, <1>5
<1>7. \A c \in DOMAIN table, k \in Kinds :
         <<k, table[c].cell[k]>> \in tainted' <=> <<k, table[c].cell[k]>> \in taint
  BY <1>3, <1>5
<1>8. \A c \in DOMAIN table, k \in Kinds : Inputs(table, heap', c, k) = Inputs(table, objects, c, k)
  BY <1>4 DEF Inputs
<1>9. ObjectsOK(heap')
  <2>1. NewDefinitions \in Definitions
    BY ConstantsAssumption DEF NewDefinitions, Definitions
  <2> QED
    BY <1>3, <2>1 DEF Sound, ObjectsOK
<1>10. CellsOK(memo')
  <2>1. ASSUME NEW k \in Kinds, NEW a \in Cells
        PROVE  CellOK(k, memo'[k][a])
    <3>1. CellOK(k, ColdCell)
      BY DEF CellOK, ColdCell
    <3>2. CellOK(k, cells[k][a])
      BY DEF Sound, CellsOK
    <3>3. memo'[k][a] = cells[k][a] \/ memo'[k][a] = ColdCell
      BY <1>3
    <3> QED
      BY <3>1, <3>2, <3>3
  <2> QED
    BY <1>3, <2>1 DEF CellsOK
<1>11. Spare(ctx', memo')
  BY <1>1, <1>3 DEF Spare
<1>12. Agreed(ctx', heap', tainted')
  BY <1>1, <1>7, <1>8 DEF Sound, Agreed
<1>13. Correct(ctx', heap', memo', tainted')
  <2> SUFFICES ASSUME NEW c \in DOMAIN table, NEW k \in Kinds, <<k, table[c].cell[k]>> \notin tainted',
                      NEW e \in memo'[k][table[c].cell[k]].entries
               PROVE  e.answer = Computed(table, heap', c, k, e.query)
    BY <1>1 DEF Correct
  <2>1. e.answer = Computed(table, objects, c, k, e.query)
    BY <1>6, <1>7 DEF Sound, Correct
  <2> QED
    BY <1>8, <2>1, SameInputs
<1>14. IInv'
  BY <1>1, <1>9, <1>10, <1>11, <1>12, <1>13 DEF IInv, Sound
<1> QED
  BY <1>1, <1>4, <1>14

-----------------------------------------------------------------------------
(* Tables.                                                                 *)

\* What falls back to a context of a chain is in the chain, or nothing.
LEMMA ChainClosed ==
    ASSUME NEW table, TableOK(table), NEW c, NEW d \in Chain(table, c)
    PROVE  /\ d \in DOMAIN table
           /\ table[d].previous \in Chain(table, c) \cup {NoContext}
<1>1. d \in DOMAIN table
  BY DEF Chain
<1>2. CASE table[d].previous # NoContext
  <2>1. table[d].previous \in DOMAIN table
    BY <1>1, <1>2 DEF TableOK, Closed
  <2>2. ASSUME NEW S \in SUBSET DOMAIN table,
               c \in S /\ \A e \in S : table[e].previous \in S \cup {NoContext}
        PROVE  table[d].previous \in S
    <3>1. d \in S
      BY <2>2 DEF Chain
    <3> QED
      BY <1>2, <2>2, <3>1
  <2> QED
    BY <1>1, <2>1, <2>2 DEF Chain
<1> QED
  BY <1>1, <1>2

LEMMA ReachableClosed ==
    ASSUME NEW table, TableOK(table), NEW roots
    PROVE  /\ Reachable(table, roots) \subseteq DOMAIN table
           /\ \A d \in Reachable(table, roots) : table[d].previous \in Reachable(table, roots) \cup {NoContext}
<1> SUFFICES ASSUME NEW d \in Reachable(table, roots)
             PROVE  /\ d \in DOMAIN table
                    /\ table[d].previous \in Reachable(table, roots) \cup {NoContext}
  OBVIOUS
<1>1. PICK r \in roots : d \in Chain(table, r)
  BY DEF Reachable
<1>2. d \in DOMAIN table /\ table[d].previous \in Chain(table, r) \cup {NoContext}
  BY <1>1, ChainClosed
<1>3. table[d].previous \in Chain(table, r) => table[d].previous \in Reachable(table, roots)
  BY <1>1 DEF Reachable, Chain
<1> QED
  BY <1>2, <1>3

\* Contexts going away leave the others as they are.
LEMMA Restricted ==
    ASSUME NEW table, NEW objects, NEW cells, NEW taint, Sound(table, objects, cells, taint),
           NEW left, left \subseteq DOMAIN table,
           \A d \in left : table[d].previous \in left \cup {NoContext}
    PROVE  Sound(Restrict(table, left), objects, cells, taint)
<1> DEFINE rest == Restrict(table, left)
<1>1. DOMAIN rest = left /\ \A c \in left : rest[c] = table[c]
  BY DEF Restrict
<1>2. TableOK(rest)
  BY <1>1 DEF Sound, TableOK, Closed
<1>3. \A c \in left, k \in Kinds : Inputs(rest, objects, c, k) = Inputs(table, objects, c, k)
  BY <1>1, SameFields
<1>4. Agreed(rest, objects, taint)
  BY <1>1, <1>3 DEF Sound, Agreed
<1>5. Correct(rest, objects, cells, taint)
  <2> SUFFICES ASSUME NEW c \in left, NEW k \in Kinds, <<k, table[c].cell[k]>> \notin taint,
                      NEW e \in cells[k][table[c].cell[k]].entries
               PROVE  e.answer = Computed(rest, objects, c, k, e.query)
    BY <1>1 DEF Correct
  <2>1. e.answer = Computed(table, objects, c, k, e.query)
    BY DEF Sound, Correct
  <2> QED
    BY <1>3, <2>1, SameInputs
<1>6. Private(rest)
  BY <1>1 DEF Sound, Private
<1> QED
  BY <1>2, <1>4, <1>5, <1>6 DEF Sound

\* A new context takes each cell from a live one with the same inputs, or a free
\* one nobody else takes.
Borrows(n, fields, k) ==
    \E d \in Live : fields.cell[k] = ctx[d].cell[k] /\ Inputs([x \in {n} |-> fields], heap, n, k) = Own(d, k)

LEMMA Extended ==
    ASSUME IInv, NEW more, DOMAIN more \subseteq Contexts \ Live,
           Private(Extend(ctx, more)),
           \A n \in DOMAIN more :
               /\ more[n] \in FieldSet
               /\ more[n].previous \in Live \cup DOMAIN more \cup {NoContext}
               /\ \A k \in Kinds :
                     \/ Borrows(n, more[n], k)
                     \/ /\ more[n].cell[k] \in FreeCells(k)
                        /\ \A m \in DOMAIN more : more[m].cell[k] = more[n].cell[k] => m = n
    PROVE  Sound(Extend(ctx, more), heap, memo, tainted)
<1> DEFINE table == Extend(ctx, more)
<1>1. /\ DOMAIN table = Live \cup DOMAIN more
      /\ \A c \in Live : table[c] = ctx[c]
      /\ \A n \in DOMAIN more : n \notin Live /\ table[n] = more[n]
  BY DEF Extend, Live
<1>2. Sound(ctx, heap, memo, tainted) /\ Spare(ctx, memo)
  BY DEF IInv
<1>3. TableOK(table)
  BY <1>1, <1>2 DEF Sound, TableOK, Closed, Live
<1>4. \A c \in Live, k \in Kinds : Inputs(table, heap, c, k) = Own(c, k)
  BY <1>1, SameFields DEF Own
<1>5. ASSUME NEW n \in DOMAIN more, NEW k \in Kinds
      PROVE  \/ \E d \in Live : more[n].cell[k] = ctx[d].cell[k] /\ Inputs(table, heap, n, k) = Own(d, k)
             \/ /\ \A d \in Live : more[n].cell[k] # ctx[d].cell[k]
                /\ \A m \in DOMAIN more : more[m].cell[k] = more[n].cell[k] => m = n
                /\ memo[k][more[n].cell[k]] = ColdCell
  <2>1. Inputs([x \in {n} |-> more[n]], heap, n, k) = Inputs(table, heap, n, k)
    BY <1>1, SameFields
  <2>2. more[n].cell[k] \in Cells
    BY DEF FieldSet
  <2> QED
    BY <1>2, <2>1, <2>2 DEF Borrows, FreeCells, UsedCell, Spare, Live
<1>6. \* Each context of the table holds each cell with a live one of its inputs, or alone.
      ASSUME NEW c \in DOMAIN table, NEW k \in Kinds
      PROVE  \/ \E d \in Live : table[c].cell[k] = ctx[d].cell[k] /\ Inputs(table, heap, c, k) = Own(d, k)
             \/ /\ memo[k][table[c].cell[k]] = ColdCell
                /\ \A d \in DOMAIN table : table[d].cell[k] = table[c].cell[k] => d = c
  BY <1>1, <1>4, <1>5
<1>7. Agreed(table, heap, tainted)
  <2> SUFFICES ASSUME NEW c \in DOMAIN table, NEW d \in DOMAIN table, NEW k \in Kinds,
                      table[c].cell[k] = table[d].cell[k], <<k, table[c].cell[k]>> \notin tainted
               PROVE  Inputs(table, heap, c, k) = Inputs(table, heap, d, k)
    BY DEF Agreed
  <2>1. CASE c = d
    BY <2>1
  <2>2. CASE c # d
    <3>1. PICK x \in Live : table[c].cell[k] = ctx[x].cell[k] /\ Inputs(table, heap, c, k) = Own(x, k)
      BY <1>6, <2>2
    <3>2. PICK y \in Live : table[d].cell[k] = ctx[y].cell[k] /\ Inputs(table, heap, d, k) = Own(y, k)
      BY <1>6, <2>2
    <3>3. ctx[x].cell[k] = ctx[y].cell[k] /\ <<k, ctx[x].cell[k]>> \notin tainted
      BY <3>1, <3>2
    <3>4. Own(x, k) = Own(y, k)
      BY <1>2, <3>3 DEF Sound, Agreed, Own, Live
    <3> QED
      BY <3>1, <3>2, <3>4
  <2> QED
    BY <2>1, <2>2
<1>8. Correct(table, heap, memo, tainted)
  <2> SUFFICES ASSUME NEW c \in DOMAIN table, NEW k \in Kinds, <<k, table[c].cell[k]>> \notin tainted,
                      NEW e \in memo[k][table[c].cell[k]].entries
               PROVE  e.answer = Computed(table, heap, c, k, e.query)
    BY DEF Correct
  <2>1. memo[k][table[c].cell[k]] # ColdCell
    BY DEF ColdCell
  <2>2. PICK d \in Live : table[c].cell[k] = ctx[d].cell[k] /\ Inputs(table, heap, c, k) = Own(d, k)
    BY <1>6, <2>1
  <2>3. e.answer = Computed(ctx, heap, d, k, e.query)
    BY <1>2, <2>2 DEF Sound, Correct, Live
  <2> QED
    BY <2>2, <2>3, SameInputs DEF Own
<1> QED
  BY <1>2, <1>3, <1>7, <1>8 DEF Sound

-----------------------------------------------------------------------------
(* Allocation.                                                             *)

LEMMA Allocated ==
    ASSUME RoomToAllocate
    PROVE  /\ FreshAddress \in Addresses /\ \A c \in Live : ctx[c].definitions # FreshAddress
           /\ \A k \in Kinds : FreshCell(k) \in FreeCells(k)
BY DEF RoomToAllocate, FreshAddress, FreshCell, FreeAddress, UsedAddress, Live

LEMMA NewHandle ==
    ASSUME RoomForHandle
    PROVE  FreshHandle \in Contexts \ Live
BY DEF RoomForHandle, FreshHandle

LEMMA FreeCellsUnused ==
    ASSUME NEW k, NEW a \in FreeCells(k)
    PROVE  a \in Cells /\ \A c \in Live : ctx[c].cell[k] # a
BY DEF FreeCells, UsedCell, Live

-----------------------------------------------------------------------------
(* Lifetime: New, Clone, Drop, WithPrivateCaches.                          *)

LEMMA NewSound ==
    ASSUME IInv, NEW fork \in Forks, New(fork)
    PROVE  Sound(Extend(ctx, [x \in {FreshHandle} |-> FreshFields(fork)]), heap, memo, tainted)
<1> DEFINE more == [x \in {FreshHandle} |-> FreshFields(fork)]
<1>1. RoomForHandle /\ RoomToAllocate
  BY DEF New
<1>2. FreshFields(fork) \in FieldSet
  <2>1. \A k \in Kinds : FreshCell(k) \in Cells
    BY <1>1, Allocated, FreeCellsUnused
  <2> QED
    BY <1>1, <2>1, Allocated, ConstantsAssumption DEF FreshFields, FieldSet
<1>3. \A n \in DOMAIN more : more[n] = FreshFields(fork)
  OBVIOUS
<1>4. \A k \in Kinds : FreshFields(fork).cell[k] \in FreeCells(k)
  BY <1>1, Allocated DEF FreshFields
<1>5. DOMAIN more = {FreshHandle} /\ FreshHandle \in Contexts \ Live
  BY <1>1, NewHandle
<1>6. FreshFields(fork).previous = NoContext
  BY DEF FreshFields
<1>7. Private(Extend(ctx, more))
  <2>1. \A k \in PrivateKinds, d \in Live : FreshFields(fork).cell[k] # ctx[d].cell[k]
    BY <1>4, FreeCellsUnused DEF PrivateKinds, Kinds
  <2>2. Private(ctx) /\ \A d \in Live : ctx[d].previous # FreshHandle
    BY <1>5, ConstantsAssumption DEF IInv, Sound, TableOK, Closed, Live
  <2>3. NoContext \notin Live
    BY ConstantsAssumption DEF IInv, Sound, TableOK, Live
  <2> HIDE DEF more
  <2> QED
    BY <1>3, <1>5, <1>6, <2>1, <2>2, <2>3, ConstantsAssumption DEF Private, Extend, Live
<1> QED
  BY <1>2, <1>3, <1>4, <1>5, <1>6, <1>7, Extended

LEMMA CloneSound ==
    ASSUME IInv, NEW c \in Live, Clone(c)
    PROVE  Sound(Extend(ctx, [x \in {FreshHandle} |-> ctx[c]]), heap, memo, tainted)
<1> DEFINE more == [x \in {FreshHandle} |-> ctx[c]]
<1>1. DOMAIN more = {FreshHandle} /\ FreshHandle \in Contexts \ Live
  BY NewHandle DEF Clone
<1>2. ctx[c] \in FieldSet /\ ctx[c].previous \in Live \cup {NoContext}
  BY DEF IInv, Sound, TableOK, Closed, Live
<1>3. \A n \in DOMAIN more : more[n] = ctx[c]
  OBVIOUS
<1>4. ASSUME NEW n \in DOMAIN more, NEW k \in Kinds
      PROVE  Borrows(n, more[n], k)
  <2>1. Inputs([x \in {n} |-> ctx[c]], heap, n, k) = Own(c, k)
    BY SameFields DEF Own
  <2> QED
    BY <1>3, <2>1 DEF Borrows
<1>5. Private(Extend(ctx, more))
  <2>1. Private(ctx) /\ \A d \in Live : ctx[d].previous # FreshHandle
    BY <1>1, ConstantsAssumption DEF IInv, Sound, TableOK, Closed, Live
  <2> HIDE DEF more
  <2> QED
    BY <1>1, <1>2, <1>3, <2>1, ConstantsAssumption DEF Private, Extend, Live
<1> QED
  BY <1>1, <1>2, <1>3, <1>4, <1>5, Extended

LEMMA DropSound ==
    ASSUME IInv, NEW c, Drop(c)
    PROVE  LET left == Reachable(ctx, {d \in Live : Owned(d)} \ {c})
           IN  Sound(Restrict(ctx, left), heap, memo, tainted)
<1>1. Sound(ctx, heap, memo, tainted) /\ TableOK(ctx)
  BY DEF IInv, Sound
<1> QED
  BY <1>1, ReachableClosed, Restricted

\* The copies of a chain: each one a twin of what it copies, but for the
\* vocabulary, the private cells and the copy it falls back to.
Twins(c, fork, more) ==
    /\ DOMAIN more \subseteq Contexts \ Live
    /\ \A n \in DOMAIN more :
          /\ more[n].fork = fork /\ more[n] \in FieldSet
          /\ more[n].previous \in DOMAIN more \cup {NoContext}
          /\ \E d \in Chain(ctx, c) :
                /\ more[n].definitions = ctx[d].definitions /\ more[n].scalar = ctx[d].scalar
                /\ \A k \in Kinds \ PrivateKinds : more[n].cell[k] = ctx[d].cell[k]
          /\ \A k \in PrivateKinds :
                /\ more[n].cell[k] \in FreeCells(k)
                /\ \A m \in DOMAIN more : more[m].cell[k] = more[n].cell[k] => m = n

LEMMA CopiesAreTwins ==
    ASSUME IInv, NEW c \in Live, NEW fork \in Forks, WithPrivateCaches(c, fork)
    PROVE  \E more : Twins(c, fork, more) /\ Commit(Extend(ctx, more), heap, memo, tainted)
<1> DEFINE chain == Chain(ctx, c)
           copying == Injections(chain, Contexts \ Live)
           copy == CHOOSE f \in copying : TRUE
           copies == {copy[d] : d \in chain}
           placing(k) == Injections(copies, FreeCells(k))
           cells == [k \in PrivateKinds |-> CHOOSE f \in placing(k) : TRUE]
           twin(d) == [ctx[d] EXCEPT
                         !.previous = IF @ = NoContext THEN NoContext ELSE copy[@],
                         !.fork = fork,
                         !.cell = [k \in Kinds |-> IF k \in PrivateKinds THEN cells[k][copy[d]] ELSE @[k]]]
           original(n) == CHOOSE d \in chain : copy[d] = n
           more == [n \in copies |-> twin(original(n))]
<1>1. /\ copying # {} /\ \A k \in PrivateKinds : placing(k) # {}
      /\ Commit(Extend(ctx, more), heap, memo, tainted)
  BY DEF WithPrivateCaches
<1>2. copy \in [chain -> Contexts \ Live]
  <2>1. copy \in copying
    BY <1>1
  <2> QED
    BY <2>1 DEF Injections
<1>3. ASSUME NEW k \in PrivateKinds
      PROVE  /\ cells[k] \in [copies -> FreeCells(k)]
             /\ \A m, n \in copies : cells[k][m] = cells[k][n] => m = n
  <2>1. cells[k] \in placing(k)
    BY <1>1
  <2> QED
    BY <2>1 DEF Injections
<1>4. TableOK(ctx)
  BY DEF IInv, Sound
<1>5. ASSUME NEW n \in copies
      PROVE  original(n) \in chain /\ copy[original(n)] = n
  OBVIOUS
<1>6. ASSUME NEW n \in copies
      PROVE  \E d \in chain : copy[d] = n /\ more[n] = twin(d)
  <2> HIDE DEF original, twin, copy, copies, chain
  <2> QED
    BY <1>5
<1>7. ASSUME NEW n \in copies
      PROVE  /\ more[n].fork = fork /\ more[n] \in FieldSet
             /\ more[n].previous \in copies \cup {NoContext}
             /\ \E d \in chain :
                   /\ more[n].definitions = ctx[d].definitions /\ more[n].scalar = ctx[d].scalar
                   /\ \A k \in Kinds \ PrivateKinds : more[n].cell[k] = ctx[d].cell[k]
             /\ \A k \in PrivateKinds : more[n].cell[k] = cells[k][n]
  <2> HIDE DEF copy, cells, copies, chain, more
  <2>1. PICK d \in chain : copy[d] = n /\ more[n] = twin(d)
    BY <1>6
  <2>2. ctx[d] \in FieldSet /\ ctx[d].previous \in chain \cup {NoContext}
    BY <1>4, ChainClosed DEF chain, TableOK, Live
  <2>3. /\ more[n].definitions = ctx[d].definitions /\ more[n].scalar = ctx[d].scalar
        /\ more[n].mode = ctx[d].mode /\ more[n].fork = fork
        /\ more[n].previous = IF ctx[d].previous = NoContext THEN NoContext ELSE copy[ctx[d].previous]
        /\ more[n].cell = [k \in Kinds |-> IF k \in PrivateKinds THEN cells[k][copy[d]] ELSE ctx[d].cell[k]]
        /\ more[n] = [definitions |-> more[n].definitions, scalar |-> more[n].scalar, mode |-> more[n].mode,
                      previous |-> more[n].previous, fork |-> more[n].fork, cell |-> more[n].cell]
    BY <2>1, <2>2 DEF FieldSet
  <2>4. more[n].previous \in copies \cup {NoContext}
    BY <2>2, <2>3 DEF copies
  <2>5. copies \subseteq Contexts
    BY <1>2 DEF copies
  <2>6. more[n].cell \in [Kinds -> Cells]
    <3>1. \A k \in PrivateKinds : cells[k][n] \in Cells
      BY <1>3, FreeCellsUnused
    <3> QED
      BY <2>1, <2>2, <2>3, <3>1 DEF FieldSet
  <2>7. more[n] \in FieldSet
    BY <2>2, <2>3, <2>4, <2>5, <2>6 DEF FieldSet
  <2> QED
    BY <2>1, <2>3, <2>4, <2>7 DEF PrivateKinds, Kinds
<1> HIDE DEF cells
<1>8. Twins(c, fork, more)
  <2>1. DOMAIN more = copies /\ copies \subseteq Contexts \ Live
    BY <1>2
  <2> HIDE DEF more, copies
  <2> QED
    BY <1>3, <1>7, <2>1 DEF Twins
<1> QED
  BY <1>1, <1>8

LEMMA TwinsSound ==
    ASSUME IInv, NEW c \in Live, NEW fork, NEW more, Twins(c, fork, more)
    PROVE  Sound(Extend(ctx, more), heap, memo, tainted)
<1>1. TableOK(ctx)
  BY DEF IInv, Sound
<1>2. ASSUME NEW n \in DOMAIN more, NEW k \in Kinds \ PrivateKinds
      PROVE  Borrows(n, more[n], k)
  <2>1. PICK d \in Chain(ctx, c) :
            /\ more[n].definitions = ctx[d].definitions /\ more[n].scalar = ctx[d].scalar
            /\ more[n].cell[k] = ctx[d].cell[k]
    BY <1>2 DEF Twins
  <2>2. d \in Live
    BY <1>1, ChainClosed DEF Live
  <2>3. k \in {"inverse", "prefix_terms", "keyword_aliases"}
    BY DEF Kinds, PrivateKinds
  <2>4. Inputs([x \in {n} |-> more[n]], heap, n, k) = Own(d, k)
    BY <2>1, <2>3 DEF Inputs, Own, Scalar
  <2> QED
    BY <2>1, <2>2, <2>4 DEF Borrows
<1>3. ASSUME NEW n \in DOMAIN more, NEW k \in PrivateKinds
      PROVE  /\ more[n].cell[k] \in FreeCells(k)
             /\ \A m \in DOMAIN more : more[m].cell[k] = more[n].cell[k] => m = n
  BY DEF Twins
<1>4. /\ DOMAIN more \subseteq Contexts \ Live
      /\ \A n \in DOMAIN more : more[n] \in FieldSet /\ more[n].previous \in Live \cup DOMAIN more \cup {NoContext}
  BY DEF Twins
<1>5. Private(Extend(ctx, more))
  <2>1. Private(ctx) /\ NoContext \notin Contexts
        /\ \A d \in Live : ctx[d].previous \in Live \cup {NoContext}
        /\ Live \subseteq Contexts
    BY ConstantsAssumption DEF IInv, Sound, TableOK, Closed, Live
  <2>2. \A n \in DOMAIN more, k \in PrivateKinds, d \in Live : more[n].cell[k] # ctx[d].cell[k]
    BY <1>3, FreeCellsUnused
  <2>3. \A n \in DOMAIN more : more[n].fork = fork /\ more[n].previous \in DOMAIN more \cup {NoContext}
    BY DEF Twins
  <2> QED
    BY <1>4, <2>1, <2>2, <2>3 DEF Private, Extend, Live
<1> QED
  BY <1>2, <1>3, <1>4, <1>5, Extended

-----------------------------------------------------------------------------
(* Mutators.                                                               *)

\* The table after one context got other fields.
Replaced(table, c, fields) ==
    /\ DOMAIN table = Live /\ table[c] = fields
    /\ \A d \in Live \ {c} : table[d] = ctx[d]

\* One context gets other fields.  Each of its cells is a fresh one, or still has
\* the inputs it had, or is tainted, or cold and nobody else's.
LEMMA Mutated ==
    ASSUME IInv, NEW c \in Live, NEW fields \in FieldSet, fields.fork = ctx[c].fork,
           fields.previous \in Live \cup {NoContext},
           \A d \in Live : fields.previous = d => ctx[d].fork = ctx[c].fork,
           NEW objects, ObjectsOK(objects), NEW taint, tainted \subseteq taint,
           NEW table, Replaced(table, c, fields),
           \A d \in Live \ {c} : objects[ctx[d].definitions] = heap[ctx[d].definitions],
           \A k \in Kinds :
               \/ fields.cell[k] \in FreeCells(k)
               \/ /\ fields.cell[k] = ctx[c].cell[k]
                  /\ \/ Inputs(table, objects, c, k) = Own(c, k)
                     \/ <<k, ctx[c].cell[k]>> \in taint
                     \/ /\ ~CellOf(c, k).warm
                        /\ \A d \in Live \ {c} : ctx[d].cell[k] # ctx[c].cell[k]
    PROVE  Sound(table, objects, memo, taint)
<1>1. Sound(ctx, heap, memo, tainted) /\ Spare(ctx, memo)
  BY DEF IInv
<1>2. /\ DOMAIN table = Live /\ table[c] = fields
      /\ \A d \in Live \ {c} : table[d] = ctx[d]
  BY DEF Replaced
<1>3. TableOK(table)
  BY <1>1, <1>2 DEF Sound, TableOK, Closed, Live
<1>4. ASSUME NEW d \in Live \ {c}, NEW k \in Kinds
      PROVE  Inputs(table, objects, d, k) = Own(d, k)
  <2>1. table[d] = ctx[d] /\ objects[table[d].definitions] = heap[ctx[d].definitions]
    BY <1>2
  <2> QED
    BY <2>1, SameState DEF Own
<1>5. ASSUME NEW d \in Live, NEW k \in Kinds
      PROVE  table[d].cell[k] \in Cells /\ CellOK(k, memo[k][table[d].cell[k]])
  BY <1>1, <1>2, <1>3 DEF TableOK, FieldSet, Sound, CellsOK
<1>6. Agreed(table, objects, taint)
  <2>1. ASSUME NEW d \in Live \ {c}, NEW k \in Kinds,
               fields.cell[k] = ctx[d].cell[k], <<k, fields.cell[k]>> \notin taint
        PROVE  Inputs(table, objects, c, k) = Own(d, k)
    <3>1. fields.cell[k] \notin FreeCells(k)
      BY <2>1, FreeCellsUnused
    <3>2. fields.cell[k] = ctx[c].cell[k] /\ Inputs(table, objects, c, k) = Own(c, k)
      BY <2>1, <3>1
    <3>3. ctx[c].cell[k] = ctx[d].cell[k] /\ <<k, ctx[c].cell[k]>> \notin tainted
      BY <2>1, <3>2
    <3>4. Own(c, k) = Own(d, k)
      BY <1>1, <3>3 DEF Sound, Agreed, Own, Live
    <3> QED
      BY <3>2, <3>4
  <2>2. ASSUME NEW d \in Live \ {c}, NEW e \in Live \ {c}, NEW k \in Kinds,
               ctx[d].cell[k] = ctx[e].cell[k], <<k, ctx[d].cell[k]>> \notin taint
        PROVE  Own(d, k) = Own(e, k)
    BY <1>1, <2>2 DEF Sound, Agreed, Own, Live
  <2>3. ASSUME NEW d \in Live, NEW e \in Live, NEW k \in Kinds,
               table[d].cell[k] = table[e].cell[k], <<k, table[d].cell[k]>> \notin taint
        PROVE  Inputs(table, objects, d, k) = Inputs(table, objects, e, k)
    <3>1. CASE d = c /\ e = c
      BY <3>1
    <3>2. CASE d = c /\ e # c
      BY <1>2, <1>4, <2>1, <2>3, <3>2
    <3>3. CASE d # c /\ e = c
      BY <1>2, <1>4, <2>1, <2>3, <3>3
    <3>4. CASE d # c /\ e # c
      BY <1>2, <1>4, <2>2, <2>3, <3>4
    <3> QED
      BY <3>1, <3>2, <3>3, <3>4
  <2> QED
    BY <1>2, <2>3 DEF Agreed
<1>7. Correct(table, objects, memo, taint)
  <2> SUFFICES ASSUME NEW d \in Live, NEW k \in Kinds, <<k, table[d].cell[k]>> \notin taint,
                      NEW e \in memo[k][table[d].cell[k]].entries
               PROVE  e.answer = Computed(table, objects, d, k, e.query)
    BY <1>2 DEF Correct
  <2>1. memo[k][table[d].cell[k]].warm
    BY <1>5 DEF CellOK
  <2>2. table[d].cell[k] \notin FreeCells(k)
    BY <1>1, <1>5, <2>1 DEF Spare, FreeCells, ColdCell
  <2>3. table[d].cell[k] = ctx[d].cell[k] /\ Inputs(table, objects, d, k) = Own(d, k)
    <3>1. CASE d = c
      BY <1>2, <2>1, <2>2, <3>1 DEF CellOf
    <3>2. CASE d # c
      BY <1>2, <1>4, <3>2
    <3> QED
      BY <3>1, <3>2
  <2>4. e.answer = Computed(ctx, heap, d, k, e.query)
    BY <1>1, <2>3 DEF Sound, Correct, Live
  <2> QED
    BY <2>3, <2>4, SameInputs DEF Own
<1>8. Private(table)
  <2>1. Private(ctx)
    BY <1>1 DEF Sound
  <2>2. \A d \in Live : table[d].fork = ctx[d].fork
    BY <1>2
  <2>3. \A d \in Live : fields.previous = d => ctx[d].fork = ctx[c].fork
    OBVIOUS
  <2>4. ASSUME NEW d \in Live \ {c}, ctx[d].fork # ctx[c].fork
        PROVE  /\ fields.previous # d /\ ctx[d].previous # c
               /\ \A k \in PrivateKinds : fields.cell[k] # ctx[d].cell[k]
    <3>1. ASSUME NEW k \in PrivateKinds
          PROVE  fields.cell[k] # ctx[d].cell[k]
      <4>1. fields.cell[k] \in FreeCells(k) \/ fields.cell[k] = ctx[c].cell[k]
        BY DEF Kinds, PrivateKinds
      <4>2. ctx[c].cell[k] # ctx[d].cell[k]
        BY <2>1, <2>4 DEF Private, Live
      <4> QED
        BY <4>1, <4>2, FreeCellsUnused
    <3>2. ctx[d].previous # c
      BY <2>1, <2>4 DEF Private, Live
    <3> QED
      BY <2>3, <2>4, <3>1, <3>2
  <2>5. ASSUME NEW d \in Live \ {c}, NEW e \in Live \ {c}, ctx[d].fork # ctx[e].fork
        PROVE  /\ ctx[d].previous # e
               /\ \A k \in PrivateKinds : ctx[d].cell[k] # ctx[e].cell[k]
    BY <2>1, <2>5 DEF Private, Live
  <2>6. ASSUME NEW d \in Live, NEW e \in Live, table[d].fork # table[e].fork
        PROVE  /\ table[d].previous # e
               /\ \A k \in PrivateKinds : table[d].cell[k] # table[e].cell[k]
    <3>1. CASE d = c
      BY <1>2, <2>2, <2>4, <2>6, <3>1
    <3>2. CASE d # c /\ e = c
      BY <1>2, <2>2, <2>4, <2>6, <3>2
    <3>3. CASE d # c /\ e # c
      BY <1>2, <2>2, <2>5, <2>6, <3>3
    <3> QED
      BY <3>1, <3>2, <3>3
  <2> QED
    BY <1>2, <2>6 DEF Private
<1> QED
  BY <1>1, <1>3, <1>6, <1>7, <1>8 DEF Sound

\* What a mutator leaves in place of the cells it invalidates.
LEMMA InvalidatedCells ==
    ASSUME IInv, NEW c \in Live, NEW kinds, RoomToAllocate
    PROVE  /\ Invalidated(c, kinds) \in [Kinds -> Cells]
           /\ \A k \in Kinds :
                 \/ Invalidated(c, kinds)[k] \in FreeCells(k)
                 \/ Invalidated(c, kinds)[k] = ctx[c].cell[k] /\ (k \in kinds => ~CellOf(c, k).warm)
<1>1. ctx[c].cell \in [Kinds -> Cells]
  BY DEF IInv, Sound, TableOK, FieldSet, Live
<1>2. \A k \in Kinds : FreshCell(k) \in FreeCells(k) /\ FreshCell(k) \in Cells
  BY Allocated, FreeCellsUnused
<1> QED
  BY <1>1, <1>2 DEF Invalidated

\* Mutators that leave alone only caches whose inputs they do not change.
LEMMA MutateSound ==
    ASSUME IInv, NEW c \in Live, RoomToAllocate,
           NEW fields \in FieldSet, fields.previous = ctx[c].previous, fields.fork = ctx[c].fork,
           NEW objects, ObjectsOK(objects),
           NEW table, Replaced(table, c, fields),
           \A d \in Live \ {c} : objects[ctx[d].definitions] = heap[ctx[d].definitions],
           NEW kinds, fields.cell = Invalidated(c, kinds),
           \A k \in Kinds \ kinds : Inputs(table, objects, c, k) = Own(c, k)
    PROVE  Sound(table, objects, memo, tainted \cup LeftShared(table, objects, c))
<1> DEFINE taint == tainted \cup LeftShared(table, objects, c)
<1>1. /\ fields.previous \in Live \cup {NoContext}
      /\ \A d \in Live : fields.previous = d => ctx[d].fork = ctx[c].fork
  BY DEF IInv, Sound, TableOK, Closed, Private, Live
<1>2. ASSUME NEW k \in Kinds
      PROVE  \/ fields.cell[k] \in FreeCells(k)
             \/ /\ fields.cell[k] = ctx[c].cell[k]
                /\ \/ Inputs(table, objects, c, k) = Own(c, k)
                   \/ <<k, ctx[c].cell[k]>> \in taint
                   \/ /\ ~CellOf(c, k).warm
                      /\ \A d \in Live \ {c} : ctx[d].cell[k] # ctx[c].cell[k]
  <2>1. CASE fields.cell[k] \in FreeCells(k)
    BY <2>1
  <2>2. CASE fields.cell[k] = ctx[c].cell[k] /\ (k \in kinds => ~CellOf(c, k).warm)
    <3>1. CASE Inputs(table, objects, c, k) = Own(c, k)
      BY <2>2, <3>1
    <3>2. CASE Inputs(table, objects, c, k) # Own(c, k)
      <4>1. ~CellOf(c, k).warm
        BY <2>2, <3>2
      <4>2. (\E d \in Live \ {c} : ctx[d].cell[k] = ctx[c].cell[k]) => <<k, ctx[c].cell[k]>> \in taint
        BY <3>2, <4>1 DEF LeftShared
      <4> QED
        BY <2>2, <4>1, <4>2
    <3> QED
      BY <3>1, <3>2
  <2> QED
    BY <2>1, <2>2, InvalidatedCells
<1>3. tainted \subseteq taint
  OBVIOUS
<1> HIDE DEF taint
<1>4. Sound(table, objects, memo, taint)
  BY <1>1, <1>2, <1>3, Mutated
<1> QED
  BY <1>4 DEF taint

\* What holds of the fields that name an address where other definitions were put.
Made(objects, fields, a, c, defs, kinds) ==
    /\ ObjectsOK(objects) /\ fields \in FieldSet
    /\ fields.scalar = ctx[c].scalar /\ fields.mode = ctx[c].mode /\ fields.fork = ctx[c].fork
    /\ fields.previous = ctx[c].previous /\ fields.cell = Invalidated(c, kinds)
    /\ fields.definitions = a /\ objects[a] = defs
    /\ \A d \in Live \ {c} : objects[ctx[d].definitions] = heap[ctx[d].definitions]

\* Definitions change on an address that no other context holds.
LEMMA DefinitionsMade ==
    ASSUME IInv, NEW c \in Live, RoomToAllocate, NEW defs \in Definitions, NEW kinds
    PROVE  Made([heap EXCEPT ![MakeMut(c)] = defs],
                [ctx[c] EXCEPT !.definitions = MakeMut(c), !.cell = Invalidated(c, kinds)],
                MakeMut(c), c, defs, kinds)
<1> DEFINE a == MakeMut(c)
           objects == [heap EXCEPT ![a] = defs]
           fields == [ctx[c] EXCEPT !.definitions = a, !.cell = Invalidated(c, kinds)]
<1>1. ctx[c] \in FieldSet /\ heap \in [Addresses -> Definitions]
  BY DEF IInv, Sound, TableOK, ObjectsOK, Live
<1>2. a \in Addresses /\ \A d \in Live \ {c} : ctx[d].definitions # a
  BY <1>1, Allocated DEF MakeMut, Shared, FieldSet
<1> HIDE DEF a
<1>3. /\ objects \in [Addresses -> Definitions] /\ objects[a] = defs
      /\ \A d \in Live \ {c} : objects[ctx[d].definitions] = heap[ctx[d].definitions]
  <2>1. \A b \in Addresses : b # a => objects[b] = heap[b]
    BY <1>1
  <2>2. \A d \in Live : ctx[d].definitions \in Addresses
    BY DEF IInv, Sound, TableOK, FieldSet, Live
  <2>3. objects \in [Addresses -> Definitions] /\ objects[a] = defs
    BY <1>1, <1>2
  <2> QED
    BY <1>2, <2>1, <2>2, <2>3
<1>4. /\ fields \in FieldSet
      /\ fields.scalar = ctx[c].scalar /\ fields.mode = ctx[c].mode /\ fields.fork = ctx[c].fork
      /\ fields.previous = ctx[c].previous /\ fields.cell = Invalidated(c, kinds)
      /\ fields.definitions = a
  BY <1>1, <1>2, InvalidatedCells DEF FieldSet
<1>5. ObjectsOK(objects)
  BY <1>3 DEF ObjectsOK
<1> HIDE DEF objects, fields
<1>6. Made(objects, fields, a, c, defs, kinds)
  BY <1>3, <1>4, <1>5 DEF Made
<1> QED
  BY ONLY <1>6 DEF objects, fields, a

LEMMA ReplacedByExcept ==
    ASSUME NEW c \in Live, NEW fields
    PROVE  Replaced([ctx EXCEPT ![c] = fields], c, fields)
BY DEF Replaced, Live

\* A mutator commits a table in which one context has other fields: the others
\* mean what they meant.
Touches(table, objects, c) ==
    \A d \in (Live \cap DOMAIN table) \ {c} :
        /\ objects[table[d].definitions] = heap[ctx[d].definitions]
        /\ table[d].scalar = ctx[d].scalar /\ table[d].mode = ctx[d].mode
        /\ table[d].previous = ctx[d].previous

LEMMA SetNormalSound ==
    ASSUME IInv, NEW c \in Live, NEW v \in Values, SetNormal(c, v)
    PROVE  \E table, objects, taint : /\ Sound(table, objects, memo, taint)
                                      /\ Commit(table, objects, memo, taint)
                                      /\ Touches(table, objects, c)
<1> DEFINE defs == [heap[ctx[c].definitions] EXCEPT !.normal = v]
           kinds == IriCaches \cup {"prefix_terms"}
           a == MakeMut(c)
           objects == [heap EXCEPT ![a] = defs]
           fields == [ctx[c] EXCEPT !.definitions = a, !.cell = Invalidated(c, kinds)]
           table == [ctx EXCEPT ![c] = fields]
           taint == tainted \cup LeftShared(table, objects, c)
<1>1. RoomToAllocate /\ Commit(table, objects, memo, taint)
  BY DEF SetNormal, SetDefinitions, Mutate
<1>2. defs \in Definitions
  BY DEF IInv, Sound, ObjectsOK, TableOK, FieldSet, Definitions, Live
<1>3. Kinds \ kinds = {}
  BY DEF Kinds, IriCaches
<1>4. Replaced(table, c, fields)
  BY ReplacedByExcept
<1> HIDE DEF defs, kinds
<1>0. Made(objects, fields, a, c, defs, kinds)
  BY ONLY IInv, <1>1, <1>2, DefinitionsMade
<1> HIDE DEF a, objects, fields, table
<1>5. /\ ObjectsOK(objects) /\ fields \in FieldSet
      /\ fields.previous = ctx[c].previous /\ fields.cell = Invalidated(c, kinds)
      /\ fields.fork = ctx[c].fork
      /\ \A d \in Live \ {c} : objects[ctx[d].definitions] = heap[ctx[d].definitions]
  BY ONLY <1>0 DEF Made
<1>6. Sound(table, objects, memo, taint)
  BY <1>1, <1>3, <1>4, <1>5, MutateSound
<1>7. Touches(table, objects, c)
  BY <1>4, <1>5 DEF Touches, Replaced
<1> QED
  BY <1>1, <1>6, <1>7

\* The inverse context and the prefix terms do not look at the @type entry.
LEMMA SetTypeSound ==
    ASSUME IInv, NEW c \in Live, NEW v \in Values, SetType(c, v)
    PROVE  \E table, objects, taint : /\ Sound(table, objects, memo, taint)
                                      /\ Commit(table, objects, memo, taint)
                                      /\ Touches(table, objects, c)
<1> DEFINE defs == [heap[ctx[c].definitions] EXCEPT !.type_ = v]
           kinds == IriCaches \ {"inverse"}
           a == MakeMut(c)
           objects == [heap EXCEPT ![a] = defs]
           fields == [ctx[c] EXCEPT !.definitions = a, !.cell = Invalidated(c, kinds)]
           table == [ctx EXCEPT ![c] = fields]
           taint == tainted \cup LeftShared(table, objects, c)
<1>1. RoomToAllocate /\ Commit(table, objects, memo, taint)
  BY DEF SetType, SetDefinitions, Mutate
<1>2. defs \in Definitions /\ defs.normal = heap[ctx[c].definitions].normal
  BY DEF IInv, Sound, ObjectsOK, TableOK, FieldSet, Definitions, Live
<1>3. Kinds \ kinds = {"inverse", "prefix_terms"}
  BY DEF Kinds, IriCaches
<1>4. Replaced(table, c, fields)
  BY ReplacedByExcept
<1> HIDE DEF defs, kinds
<1>0. Made(objects, fields, a, c, defs, kinds)
  BY ONLY IInv, <1>1, <1>2, DefinitionsMade
<1> HIDE DEF a, objects, fields, table
<1>5. /\ ObjectsOK(objects) /\ fields \in FieldSet
      /\ fields.previous = ctx[c].previous /\ fields.cell = Invalidated(c, kinds)
      /\ fields.fork = ctx[c].fork
      /\ \A d \in Live \ {c} : objects[ctx[d].definitions] = heap[ctx[d].definitions]
  BY ONLY <1>0 DEF Made
<1>6. fields.scalar = ctx[c].scalar
  BY ONLY <1>0 DEF Made
<1>7. objects[fields.definitions] = defs
  BY ONLY <1>0 DEF Made
<1>8. \A k \in Kinds \ kinds : Inputs(table, objects, c, k) = Own(c, k)
  BY <1>2, <1>3, <1>4, <1>6, <1>7 DEF Inputs, Own, Scalar, Replaced
<1>9. Sound(table, objects, memo, taint)
  BY <1>1, <1>4, <1>5, <1>8, MutateSound
<1>10. Touches(table, objects, c)
  BY <1>4, <1>5 DEF Touches, Replaced
<1> QED
  BY <1>1, <1>9, <1>10

\* The prefix terms look at no scalar.
LEMMA SetScalarSound ==
    ASSUME IInv, NEW c \in Live, NEW f \in Scalars, NEW v \in Values, SetScalar(c, f, v)
    PROVE  \E table, objects, taint : /\ Sound(table, objects, memo, taint)
                                      /\ Commit(table, objects, memo, taint)
                                      /\ Touches(table, objects, c)
<1> DEFINE fields == [ctx[c] EXCEPT !.scalar[f] = v, !.cell = Invalidated(c, IriCaches)]
           table == [ctx EXCEPT ![c] = fields]
           taint == tainted \cup LeftShared(table, heap, c)
<1>1. RoomToAllocate /\ Commit(table, heap, memo, taint)
  BY DEF SetScalar, Mutate
<1>2. ctx[c] \in FieldSet /\ ObjectsOK(heap)
  BY DEF IInv, Sound, TableOK, Live
<1>3. Kinds \ IriCaches = {"prefix_terms"}
  BY DEF Kinds, IriCaches
<1>4. /\ fields \in FieldSet
      /\ fields.definitions = ctx[c].definitions
      /\ fields.fork = ctx[c].fork
      /\ fields.previous = ctx[c].previous /\ fields.cell = Invalidated(c, IriCaches)
  BY <1>1, <1>2, InvalidatedCells DEF FieldSet
<1>5. Replaced(table, c, fields)
  BY ReplacedByExcept
<1> HIDE DEF fields, table
<1>6. \A k \in Kinds \ IriCaches : Inputs(table, heap, c, k) = Own(c, k)
  BY <1>3, <1>4, <1>5 DEF Inputs, Own, Scalar, Replaced
<1>7. Sound(table, heap, memo, taint)
  BY <1>1, <1>2, <1>4, <1>5, <1>6, MutateSound
<1>8. Touches(table, heap, c)
  BY <1>5 DEF Touches, Replaced
<1> QED
  BY <1>1, <1>7, <1>8

\* The term memo is the one cache computed from the mode.
LEMMA SetProcessingModeSound ==
    ASSUME IInv, NEW c \in Live, NEW m \in Modes, SetProcessingMode(c, m)
    PROVE  \E table, objects, taint : /\ Sound(table, objects, memo, taint)
                                      /\ Commit(table, objects, memo, taint)
                                      /\ Touches(table, objects, c)
<1> DEFINE fields == [ctx[c] EXCEPT !.mode = m]
           table == [ctx EXCEPT ![c].mode = m]
           memoised == "term_resolution_cache"
           taint == tainted \cup {<<memoised, ctx[c].cell[memoised]>>}
<1>1. Commit(table, heap, memo, taint)
  BY DEF SetProcessingMode
<1>2. /\ ctx[c] \in FieldSet /\ ctx[c].previous \in Live \cup {NoContext} /\ ObjectsOK(heap)
      /\ \A d \in Live : ctx[c].previous = d => ctx[d].fork = ctx[c].fork
  BY DEF IInv, Sound, TableOK, Closed, Private, Live
<1>3. /\ fields \in FieldSet
      /\ fields.definitions = ctx[c].definitions /\ fields.scalar = ctx[c].scalar
      /\ fields.fork = ctx[c].fork
      /\ fields.previous = ctx[c].previous /\ fields.cell = ctx[c].cell
  BY <1>2 DEF FieldSet
<1>4. Replaced(table, c, fields)
  BY DEF Replaced, Live
<1> HIDE DEF fields, table
<1>5. \A k \in Kinds \ {memoised} : Inputs(table, heap, c, k) = Own(c, k)
  BY <1>3, <1>4 DEF Inputs, Own, Scalar, Replaced, Kinds
<1>6. \A k \in Kinds : /\ fields.cell[k] = ctx[c].cell[k]
                       /\ Inputs(table, heap, c, k) = Own(c, k) \/ <<k, ctx[c].cell[k]>> \in taint
  BY <1>3, <1>5
<1>7. tainted \subseteq taint
  OBVIOUS
<1> HIDE DEF taint
<1>8. Sound(table, heap, memo, taint)
  BY <1>2, <1>3, <1>4, <1>6, <1>7, Mutated
<1>9. Touches(table, heap, c)
  BY <1>4 DEF Touches, Replaced
<1> QED
  BY <1>1, <1>8, <1>9

\* No cache looks at the previous context.
LEMMA SetPreviousContextSound ==
    ASSUME IInv, NEW c \in Live, NEW p \in Live, SetPreviousContext(c, p)
    PROVE  \E table, objects, taint : /\ Sound(table, objects, memo, taint)
                                      /\ Commit(table, objects, memo, taint)
                                      /\ Touches(table, objects, c)
<1> DEFINE fields == [ctx[c] EXCEPT !.previous = p, !.cell = Invalidated(c, IriCaches)]
           table == [ctx EXCEPT ![c].previous = p, ![c].cell = Invalidated(c, IriCaches)]
           left == Reachable(table, {d \in Live : Owned(d)} \ {p})
<1>1. /\ RoomToAllocate /\ ctx[c].fork = ctx[p].fork
      /\ Commit(Restrict(table, left), heap, memo, tainted)
  BY DEF SetPreviousContext
<1>2. ctx[c] \in FieldSet /\ ObjectsOK(heap) /\ Live \subseteq Contexts
  BY DEF IInv, Sound, TableOK, Live
<1>3. /\ fields \in FieldSet
      /\ fields.definitions = ctx[c].definitions /\ fields.scalar = ctx[c].scalar
      /\ fields.mode = ctx[c].mode /\ fields.fork = ctx[c].fork
      /\ fields.previous = p /\ fields.cell = Invalidated(c, IriCaches)
  BY <1>1, <1>2, InvalidatedCells DEF FieldSet
<1>4. Replaced(table, c, fields)
  BY DEF Replaced, Live
<1> HIDE DEF fields, table
<1>5. \A k \in Kinds : Inputs(table, heap, c, k) = Own(c, k)
  BY <1>3, <1>4 DEF Inputs, Own, Scalar, Replaced
<1>6. \A k \in Kinds : fields.cell[k] \in FreeCells(k) \/ fields.cell[k] = ctx[c].cell[k]
  BY <1>1, <1>3, InvalidatedCells
<1>7. Sound(table, heap, memo, tainted)
  BY <1>1, <1>2, <1>3, <1>4, <1>5, <1>6, Mutated
<1>8. TableOK(table)
  BY <1>7 DEF Sound
<1>9. Sound(Restrict(table, left), heap, memo, tainted)
  BY <1>7, <1>8, ReachableClosed, Restricted
<1>10. Touches(Restrict(table, left), heap, c)
  <2>1. left \subseteq Live
    BY <1>4, <1>8, ReachableClosed DEF Replaced
  <2> QED
    BY <1>4, <2>1 DEF Touches, Replaced, Restrict
<1> QED
  BY <1>1, <1>9, <1>10

-----------------------------------------------------------------------------
(* Readers: the contexts stay, the cells learn.                            *)

\* A longer history excuses more.
LEMMA MoreTaint ==
    ASSUME NEW table, NEW objects, NEW cells, NEW taint, Sound(table, objects, cells, taint),
           NEW more, taint \subseteq more
    PROVE  Sound(table, objects, cells, more)
BY DEF Sound, Agreed, Correct

\* An answer that is right for one holder of a cell, unless the cell is tainted,
\* is right for all of them; kinds of cell do not disturb one another.
LEMMA Remembered ==
    ASSUME NEW cells, NEW taint, Sound(ctx, heap, cells, taint),
           NEW c \in Live, NEW k \in Kinds, NEW q \in Queries(k), NEW fresh, NEW kept,
           kept \subseteq cells[k][ctx[c].cell[k]].entries,
           <<k, ctx[c].cell[k]>> \notin taint => fresh = Computed(ctx, heap, c, k, q)
    PROVE  /\ Sound(ctx, heap, Remember(cells, c, k, q, fresh, kept), taint)
           /\ \A j \in Kinds : j # k => Remember(cells, c, k, q, fresh, kept)[j] = cells[j]
<1> DEFINE a == ctx[c].cell[k]
           entry == [query |-> q, answer |-> fresh]
           entries == IF Hit(c, k, q) THEN cells[k][a].entries ELSE kept \cup {entry}
           new == Remember(cells, c, k, q, fresh, kept)
<1>1. a \in Cells /\ \A d \in Live : ctx[d].cell[k] \in Cells
  BY DEF Sound, TableOK, FieldSet, Live
<1>2. DOMAIN cells = Kinds /\ DOMAIN cells[k] = Cells
  BY DEF Sound, CellsOK
<1>3. /\ DOMAIN new = Kinds /\ DOMAIN new[k] = Cells
      /\ \A j \in Kinds : j # k => new[j] = cells[j]
      /\ \A b \in Cells : b # a => new[k][b] = cells[k][b]
      /\ new[k][a] = [warm |-> TRUE, entries |-> entries]
  BY <1>1, <1>2 DEF Remember
<1>4. \A e \in entries : e \in cells[k][a].entries \/ e = entry
  OBVIOUS
<1> HIDE DEF new, entries
<1>5. CellsOK(new)
  <2>1. CellOK(k, new[k][a])
    <3>1. CellOK(k, cells[k][a])
      BY <1>1 DEF Sound, CellsOK
    <3>2. \A e \in cells[k][a].entries : e.query \in Queries(k)
      BY <3>1 DEF CellOK
    <3>3. entry.query \in Queries(k)
      OBVIOUS
    <3> HIDE DEF entry
    <3>4. \A e \in entries : e.query \in Queries(k)
      BY ONLY <1>4, <3>2, <3>3
    <3> QED
      BY <1>3, <3>4 DEF CellOK
  <2>2. \A j \in Kinds : DOMAIN new[j] = Cells
    BY <1>3 DEF Sound, CellsOK
  <2>3. \A j \in Kinds, b \in Cells : new[j][b] = cells[j][b] \/ (j = k /\ b = a)
    BY <1>3
  <2>4. \A j \in Kinds, b \in Cells : CellOK(j, new[j][b])
    BY <2>1, <2>3 DEF Sound, CellsOK
  <2> QED
    BY <1>3, <2>2, <2>4 DEF CellsOK
<1>6. Correct(ctx, heap, new, taint)
  <2> SUFFICES ASSUME NEW d \in Live, NEW j \in Kinds, <<j, ctx[d].cell[j]>> \notin taint,
                      NEW e \in new[j][ctx[d].cell[j]].entries
               PROVE  e.answer = Computed(ctx, heap, d, j, e.query)
    BY DEF Correct, Live
  <2>1. CASE e \in cells[j][ctx[d].cell[j]].entries
    BY <2>1 DEF Sound, Correct, Live
  <2>2. CASE e \notin cells[j][ctx[d].cell[j]].entries
    <3>0. ctx[d].cell[j] \in Cells
      BY <1>1, <1>2 DEF Sound, TableOK, FieldSet, Live
    <3> DEFINE b == ctx[d].cell[j]
    <3>1. j = k /\ ctx[d].cell[k] = a
      <4>1. j = k
        BY ONLY <1>3, <2>2
      <4>2. b # a => new[k][b] = cells[k][b]
        BY ONLY <1>3, <3>0
      <4> QED
        BY ONLY <2>2, <4>1, <4>2
    <3>2. e = entry
      <4>1. e \in new[k][a].entries /\ e \notin cells[k][a].entries
        BY ONLY <2>2, <3>1
      <4>2. new[k][a].entries = entries
        BY ONLY <1>3
      <4> QED
        BY ONLY <1>4, <4>1, <4>2
    <3>3. fresh = Computed(ctx, heap, c, k, q)
      BY <3>1
    <3>4. Inputs(ctx, heap, c, k) = Inputs(ctx, heap, d, k)
      BY <3>1 DEF Sound, Agreed, Live
    <3>5. Computed(ctx, heap, c, k, q) = Computed(ctx, heap, d, k, q)
      BY <3>4, SameInputs
    <3> QED
      BY <3>1, <3>2, <3>3, <3>5
  <2> QED
    BY <2>1, <2>2
<1>7. Sound(ctx, heap, new, taint)
  BY <1>5, <1>6 DEF Sound
<1> QED
  BY <1>3, <1>7 DEF new

\* What a lookup through an untainted cell serves is what it would compute.
LEMMA ServedRight ==
    ASSUME IInv, NEW c \in Live, NEW k \in Kinds, <<k, ctx[c].cell[k]>> \notin tainted,
           NEW q, NEW fresh, Hit(c, k, q) \/ fresh = Computed(ctx, heap, c, k, q)
    PROVE  Served(c, k, q, fresh) = Computed(ctx, heap, c, k, q)
<1>1. \A e \in CellOf(c, k).entries : e.answer = Computed(ctx, heap, c, k, e.query)
  BY DEF IInv, Sound, Correct, CellOf, Live
<1>2. CASE Hit(c, k, q)
  <2> DEFINE e == CHOOSE x \in CellOf(c, k).entries : x.query = q
  <2>1. e \in CellOf(c, k).entries /\ e.query = q
    BY <1>2 DEF Hit
  <2>2. Served(c, k, q, fresh) = e.answer
    BY <1>2 DEF Served
  <2> HIDE DEF e
  <2> QED
    BY <1>1, <2>1, <2>2
<1>3. CASE ~Hit(c, k, q)
  BY <1>3 DEF Served
<1> QED
  BY <1>2, <1>3

LEMMA QueriesOf ==
    /\ Queries("inverse") = {Whole} /\ Queries("prefix_terms") = {Whole}
    /\ Queries("compact_iri_cache") = CompactKeys
    /\ Queries("term_resolution_cache") = Terms
    /\ Queries("keyword_aliases") = Modes
    /\ {"inverse", "prefix_terms", "compact_iri_cache", "term_resolution_cache", "keyword_aliases"} = Kinds
BY DEF Queries, Kinds

\* What the two derived caches and the term memo compute has no other source.
LEMMA FreshRight ==
    ASSUME NEW c, NEW k \in {"inverse", "prefix_terms", "term_resolution_cache"}, NEW q
    PROVE  Fresh(c, k, q) = Computed(ctx, heap, c, k, q)
BY DEF Fresh, Own, Computed

LEMMA DeriveSound ==
    ASSUME NEW cells, Sound(ctx, heap, cells, tainted),
           NEW c \in Live, NEW k \in {"inverse", "prefix_terms"}
    PROVE  /\ Sound(ctx, heap, Remember(cells, c, k, Whole, Fresh(c, k, Whole), {}), tainted)
           /\ Remember(cells, c, k, Whole, Fresh(c, k, Whole), {})["compact_iri_cache"]
                 = cells["compact_iri_cache"]
<1>1. k \in Kinds /\ Whole \in Queries(k) /\ "compact_iri_cache" \in Kinds \ {k}
  BY QueriesOf
<1>2. Fresh(c, k, Whole) = Computed(ctx, heap, c, k, Whole)
  BY FreshRight
<1>3. ASSUME NEW kept, kept = {}
      PROVE  /\ Sound(ctx, heap, Remember(cells, c, k, Whole, Fresh(c, k, Whole), kept), tainted)
             /\ \A j \in Kinds : j # k => Remember(cells, c, k, Whole, Fresh(c, k, Whole), kept)[j] = cells[j]
  <2>1. kept \subseteq cells[k][ctx[c].cell[k]].entries
    BY <1>3
  <2>2. \A fresh :
           (<<k, ctx[c].cell[k]>> \notin tainted => fresh = Computed(ctx, heap, c, k, Whole)) =>
               /\ Sound(ctx, heap, Remember(cells, c, k, Whole, fresh, kept), tainted)
               /\ \A j \in Kinds : j # k => Remember(cells, c, k, Whole, fresh, kept)[j] = cells[j]
    BY <1>1, <2>1, Remembered
  <2> QED
    BY <1>2, <2>2
<1> QED
  BY <1>1, <1>3

LEMMA ExpandTermSound ==
    ASSUME IInv, NEW c \in Live, NEW t \in Terms,
           NEW kept \in SUBSET CellOf(c, "term_resolution_cache").entries
    PROVE  LET k == "term_resolution_cache"
           IN  Sound(ctx, heap, Remember(memo, c, k, t, Fresh(c, k, t), kept), tainted)
BY FreshRight, QueriesOf, Remembered DEF IInv, CellOf

\* A compact-IRI answer is computed from the inverse context and the prefix terms
\* served; where one of them is tainted, the memo becomes so.
LEMMA CompactIriSound ==
    ASSUME IInv, NEW c \in Live, NEW q \in CompactKeys,
           NEW kept \in SUBSET CellOf(c, "compact_iri_cache").entries
    PROVE  LET k == "compact_iri_cache"
           IN  Sound(ctx, heap, Remember(Consulted(c), c, k, q, CompactNow(c, q), kept),
                     tainted \cup Downstream(c, {"inverse", "prefix_terms"}, k))
<1> DEFINE k == "compact_iri_cache"
           first == Remember(memo, c, "inverse", Whole, Fresh(c, "inverse", Whole), {})
           more == tainted \cup Downstream(c, {"inverse", "prefix_terms"}, k)
<1>1. Sound(ctx, heap, first, tainted) /\ first[k] = memo[k]
  BY DeriveSound DEF IInv
<1>2. Consulted(c) = Remember(first, c, "prefix_terms", Whole, Fresh(c, "prefix_terms", Whole), {})
  BY DEF Consulted
<1> HIDE DEF first
<1>3. Sound(ctx, heap, Consulted(c), tainted) /\ Consulted(c)[k] = memo[k]
  BY <1>1, <1>2, DeriveSound
<1>4. Sound(ctx, heap, Consulted(c), more)
  BY <1>3, MoreTaint
<1>5. ASSUME <<k, ctx[c].cell[k]>> \notin more
      PROVE  CompactNow(c, q) = Computed(ctx, heap, c, k, q)
  <2>1. ASSUME NEW j \in {"inverse", "prefix_terms"}
        PROVE  Served(c, j, Whole, Fresh(c, j, Whole)) = Computed(ctx, heap, c, j, Whole)
    <3>1. <<j, ctx[c].cell[j]>> \notin tainted
      BY <1>5 DEF Downstream
    <3>2. j \in Kinds /\ Fresh(c, j, Whole) = Computed(ctx, heap, c, j, Whole)
      BY QueriesOf, FreshRight
    <3> QED
      BY <3>1, <3>2, ServedRight
  <2>2. \A j \in {"inverse", "prefix_terms"} :
           Computed(ctx, heap, c, j, Whole) = Answer(j, Inputs(ctx, heap, c, j), Whole)
    BY DEF Computed
  <2>3. CompactNow(c, q) = Plain(ctx, heap, c, q)
    BY <2>1, <2>2 DEF CompactNow, Compacted, Own, Plain
  <2> QED
    BY <2>3 DEF Computed
<1>6. kept \subseteq Consulted(c)[k][ctx[c].cell[k]].entries
  BY <1>3 DEF CellOf
<1>7. k \in Kinds /\ q \in Queries(k)
  BY QueriesOf
<1> HIDE DEF k, more
<1>8. Sound(ctx, heap, Remember(Consulted(c), c, k, q, CompactNow(c, q), kept), more)
  BY <1>4, <1>5, <1>6, <1>7, Remembered
<1> QED
  BY <1>8 DEF k, more

\* An alias is what the compact-IRI memo holds for the keyword.
LEMMA KeywordAliasSound ==
    ASSUME IInv, NEW c \in Live, NEW m \in Modes, Hit(c, "compact_iri_cache", <<"keyword", m>>)
    PROVE  LET q == <<"keyword", m>>
               k == "keyword_aliases"
           IN  Sound(ctx, heap,
                     Remember(memo, c, k, m, Served(c, "compact_iri_cache", q, q), CellOf(c, k).entries),
                     tainted \cup Downstream(c, {"compact_iri_cache"}, k))
<1> DEFINE k == "keyword_aliases"
           q == <<"keyword", m>>
           more == tainted \cup Downstream(c, {"compact_iri_cache"}, k)
           fresh == Served(c, "compact_iri_cache", q, q)
<1>1. Sound(ctx, heap, memo, more)
  BY MoreTaint DEF IInv
<1>2. ASSUME <<k, ctx[c].cell[k]>> \notin more
      PROVE  fresh = Computed(ctx, heap, c, k, m)
  <2>1. <<"compact_iri_cache", ctx[c].cell["compact_iri_cache"]>> \notin tainted
    BY <1>2 DEF Downstream
  <2>2. fresh = Computed(ctx, heap, c, "compact_iri_cache", q)
    BY <2>1, QueriesOf, ServedRight
  <2> QED
    BY <2>2 DEF Computed
<1>3. k \in Kinds /\ m \in Queries(k) /\ CellOf(c, k).entries \subseteq memo[k][ctx[c].cell[k]].entries
  BY QueriesOf DEF CellOf
<1> HIDE DEF k, more, fresh
<1>4. Sound(ctx, heap, Remember(memo, c, k, m, fresh, CellOf(c, k).entries), more)
  BY <1>1, <1>2, <1>3, Remembered
<1> QED
  BY <1>4 DEF k, more, fresh

-----------------------------------------------------------------------------
(* Every step.                                                             *)

\* What a step commits is sound, and gives new meaning to one context at most.
Outcome ==
    \E table, objects, cells, taint, c :
        /\ Sound(table, objects, cells, taint) /\ Commit(table, objects, cells, taint)
        /\ Touches(table, objects, c)

LEMMA ReadingOutcome == ASSUME IInv, Reading PROVE Outcome
<1>1. Touches(ctx, heap, NoContext)
  BY DEF Touches
<1>2. ASSUME NEW c \in Live, NEW k \in {"inverse", "prefix_terms"}, Derive(c, k)
      PROVE  Outcome
  BY <1>1, <1>2, DeriveSound DEF Derive, Outcome, IInv
<1>3. ASSUME NEW c \in Live, NEW t \in Terms,
             NEW kept \in SUBSET CellOf(c, "term_resolution_cache").entries, ExpandTerm(c, t, kept)
      PROVE  Outcome
  BY <1>1, <1>3, ExpandTermSound DEF ExpandTerm, Outcome
<1>4. ASSUME NEW c \in Live, NEW q \in CompactKeys,
             NEW kept \in SUBSET CellOf(c, "compact_iri_cache").entries, CompactIri(c, q, kept)
      PROVE  Outcome
  BY <1>1, <1>4, CompactIriSound DEF CompactIri, Outcome
<1>5. ASSUME NEW c \in Live, NEW m \in Modes, KeywordAlias(c, m)
      PROVE  Outcome
  BY <1>1, <1>5, KeywordAliasSound DEF KeywordAlias, Outcome
<1> QED
  BY <1>2, <1>3, <1>4, <1>5 DEF Reading

LEMMA MutationOutcome == ASSUME IInv, Mutation PROVE Outcome
<1>1. ASSUME NEW c \in Live, NEW v \in Values, SetNormal(c, v) PROVE Outcome
  BY <1>1, SetNormalSound DEF Outcome
<1>2. ASSUME NEW c \in Live, NEW v \in Values, SetType(c, v) PROVE Outcome
  BY <1>2, SetTypeSound DEF Outcome
<1>3. ASSUME NEW c \in Live, NEW f \in Scalars, NEW v \in Values, SetScalar(c, f, v) PROVE Outcome
  BY <1>3, SetScalarSound DEF Outcome
<1>4. ASSUME NEW c \in Live, NEW m \in Modes, SetProcessingMode(c, m) PROVE Outcome
  BY <1>4, SetProcessingModeSound DEF Outcome
<1>5. ASSUME NEW c \in Live, NEW p \in Live, SetPreviousContext(c, p) PROVE Outcome
  BY <1>5, SetPreviousContextSound DEF Outcome
<1> QED
  BY <1>1, <1>2, <1>3, <1>4, <1>5 DEF Mutation

LEMMA LifetimeOutcome == ASSUME IInv, Lifetime PROVE Outcome
<1>1. ASSUME NEW more, DOMAIN more \cap Live = {}
      PROVE  Touches(Extend(ctx, more), heap, NoContext)
  BY <1>1 DEF Touches, Extend, Live
<1>2. ASSUME NEW fork \in Forks, New(fork) PROVE Outcome
  <2>1. FreshHandle \notin Live
    BY <1>2, NewHandle DEF New
  <2>2. Touches(Extend(ctx, [x \in {FreshHandle} |-> FreshFields(fork)]), heap, NoContext)
    BY <1>1, <2>1
  <2> QED
    BY <1>2, <2>2, NewSound DEF New, Outcome
<1>3. ASSUME NEW c \in Live, Clone(c) PROVE Outcome
  <2>1. FreshHandle \notin Live
    BY <1>3, NewHandle DEF Clone
  <2>2. Touches(Extend(ctx, [x \in {FreshHandle} |-> ctx[c]]), heap, NoContext)
    BY <1>1, <2>1
  <2> QED
    BY <1>3, <2>2, CloneSound DEF Clone, Outcome
<1>4. ASSUME NEW c \in Live, Drop(c) PROVE Outcome
  <2> DEFINE left == Reachable(ctx, {d \in Live : Owned(d)} \ {c})
  <2>1. Touches(Restrict(ctx, left), heap, NoContext)
    BY DEF Touches, Restrict, Reachable, Live
  <2> QED
    BY <1>4, <2>1, DropSound DEF Drop, Outcome
<1>5. ASSUME NEW c \in Live, NEW fork \in Forks, WithPrivateCaches(c, fork) PROVE Outcome
  <2>1. PICK more : Twins(c, fork, more) /\ Commit(Extend(ctx, more), heap, memo, tainted)
    BY <1>5, CopiesAreTwins
  <2>2. Touches(Extend(ctx, more), heap, NoContext)
    BY <1>1, <2>1 DEF Twins
  <2> QED
    BY <2>1, <2>2, TwinsSound DEF Outcome
<1> QED
  BY <1>2, <1>3, <1>4, <1>5 DEF Lifetime

\* At most one context changes its meaning.
LEMMA OutcomeKeeps ==
    ASSUME IInv, Outcome
    PROVE  /\ IInv'
           /\ \A c, d \in Live \cap Live' : State(c)' # State(c) /\ State(d)' # State(d) => c = d
<1>1. PICK table, objects, cells, taint, x :
          /\ Sound(table, objects, cells, taint) /\ Commit(table, objects, cells, taint)
          /\ Touches(table, objects, x)
  BY DEF Outcome
<1>2. /\ IInv' /\ ctx' = table
      /\ \A c \in DOMAIN table : heap'[table[c].definitions] = objects[table[c].definitions]
  BY <1>1, Committed
<1>3. ASSUME NEW c \in Live \cap Live', c # x
      PROVE  State(c)' = State(c)
  <2>1. c \in Live \cap DOMAIN table
    BY <1>2, <1>3 DEF Live
  <2>2. /\ objects[table[c].definitions] = heap[ctx[c].definitions]
        /\ table[c].scalar = ctx[c].scalar /\ table[c].mode = ctx[c].mode
        /\ table[c].previous = ctx[c].previous
    BY <1>1, <1>3, <2>1 DEF Touches
  <2> QED
    BY <1>2, <2>1, <2>2 DEF State
<1> QED
  BY <1>2, <1>3

LEMMA InitInvariant == Init => IInv
<1> SUFFICES ASSUME Init PROVE IInv
  OBVIOUS
<1>1. DOMAIN ctx = {}
  BY DEF Init
<1>2. ObjectsOK(heap)
  BY ConstantsAssumption DEF Init, ObjectsOK, NewDefinitions, Definitions
<1>3. CellsOK(memo) /\ Spare(ctx, memo)
  BY DEF Init, CellsOK, CellOK, ColdCell, Spare
<1> QED
  BY <1>1, <1>2, <1>3 DEF IInv, Sound, TableOK, Closed, Private, Agreed, Correct

LEMMA StepInvariant ==
    ASSUME IInv, [Next]_vars
    PROVE  /\ IInv'
           /\ \A c, d \in Live \cap Live' : State(c)' # State(c) /\ State(d)' # State(d) => c = d
<1>1. CASE Next
  BY <1>1, LifetimeOutcome, MutationOutcome, ReadingOutcome, OutcomeKeeps DEF Next
<1>2. CASE UNCHANGED vars
  <2>1. ctx' = ctx /\ heap' = heap /\ memo' = memo /\ tainted' = tainted
    BY <1>2 DEF vars
  <2> QED
    BY <2>1 DEF IInv, State
<1> QED
  BY <1>1, <1>2

-----------------------------------------------------------------------------
(* The theorems.                                                           *)

\* Contexts, definitions and cells keep their shape, previous contexts stay alive,
\* and the holders of an untainted cell agree on what it is computed from.
THEOREM Invariance == Spec => []IInv
<1>1. IInv /\ [Next]_vars => IInv'
  BY StepInvariant
<1> QED
  BY InitInvariant, <1>1, PTL DEF Spec

\* Arc::make_mut is copy-on-write: no step changes what two contexts mean, however
\* many of them share definitions, cells and previous contexts.
THEOREM CopiesOnWrite == Spec => CopyOnWrite
<1>1. IInv /\ [Next]_vars =>
        [\A c, d \in Live \cap Live' : State(c)' # State(c) /\ State(d)' # State(d) => c = d]_vars
  BY StepInvariant
<1> QED
  BY Invariance, <1>1, PTL DEF Spec, CopyOnWrite

\* with_private_caches isolates vocabularies: no memo of identifiers is ever shared
\* between two of them, and no context falls back to one of another vocabulary.
THEOREM Privacy == Spec => []ForkPrivacy
<1>1. IInv => ForkPrivacy
  BY DEF IInv, Sound, Private, ForkPrivacy, Live
<1> QED
  BY Invariance, <1>1, PTL

\* A cell answers as its holder would compute, unless it was cold and shared when a
\* holder's inputs changed, its holder's mode changed, or it was filled from such a
\* cell: invalidation misses nothing else (context/mod.rs: the mutators' lists).
THEOREM Coherence == Spec => []UntaintedCoherent
<1>1. IInv => UntaintedCoherent
  BY ComputedIsPure DEF IInv, Sound, Correct, UntaintedCoherent, CellOf, Live
<1> QED
  BY Invariance, <1>1, PTL

=============================================================================
