---------------------------- MODULE NodeMapProofs ----------------------------
EXTENDS NodeMap, WellFoundedInduction, TLAPS

(***************************************************************************)
(* The inductive invariant.                                                *)
(***************************************************************************)

FrameFields ==
    {"kind", "active", "id", "index", "section", "property", "queue", "collected", "sections"}

Kinds == {"document", "list", "node"}
Operations == {"types", "graph", "included", "property", "reverse"}

\* What a section goes through: identifiers if types, nodes if a reverse property.
QueueOK(section, queue) ==
    /\ section = "types" => queue \in Seq(Identifiers)
    /\ section # "types" => queue \in Seq(Objects)
    /\ section = "reverse" => queue \in Seq(NodeObjects)

SectionOK(s) == s.op \in Operations /\ QueueOK(s.op, s.objects)

SectionsOK(sections) ==
    IsSequence(sections) /\ \A i \in DOMAIN sections : SectionOK(sections[i])

\* A call knows graphs and nodes that have been declared; only a node object has
\* sections; the subject a reverse property is about to link is declared.
Placed(f, m) ==
    /\ f.active \in DOMAIN m
    /\ f.kind = "node" => f.id \in DOMAIN m[f.active] /\ f.id # Default
    /\ f.section = "graph" => f.id \in DOMAIN m

Sectioned(f) ==
    /\ f.kind \in Kinds
    /\ f.section \in Operations \cup {"items", "between"}
    /\ f.kind # "node" => f.section = "items" /\ f.sections = <<>>
    /\ f.section = "between" => f.collected = <<>> /\ f.queue = <<>>
    /\ IsSequence(f.collected)
    /\ f.section = "types" => f.collected \in Seq(Identifiers)

Subject(f, m) ==
    f.section = "reverse" =>
        \/ f.collected = <<>>
        \/ f.collected = <<f.collected[1]>> /\ f.collected[1].id \in DOMAIN m[f.active]

FrameOK(f, m) ==
    /\ DOMAIN f = FrameFields
    /\ Sectioned(f) /\ QueueOK(f.section, f.queue) /\ SectionsOK(f.sections)
    /\ Placed(f, m) /\ Subject(f, m)

\* How a call and the one that made it fit together.
Fits(caller, f) ==
    /\ f.active = Target(caller) /\ caller.queue # <<>>
    /\ caller.section \notin {"types", "between"}
    /\ caller.section = "reverse" => caller.collected = <<>> /\ f.kind = "node"

StackOK(calls, m) ==
    /\ IsSequence(calls)
    /\ \A i \in DOMAIN calls : FrameOK(calls[i], m)
    /\ \A i \in DOMAIN calls : i > 1 => Fits(calls[i - 1], calls[i])

\* Types are identifiers, and the objects of a property a sequence; only a node that names a
\* graph has a graph entry.
Neat(n) ==
    /\ n.types = None \/ n.types \in Seq(Identifiers)
    /\ \A p \in DOMAIN n.properties : IsSequence(n.properties[p])

NodeOK(n, id, m) ==
    /\ DOMAIN n = {"types", "index", "graph", "properties"} /\ Neat(n)
    /\ n.graph # {} => id \in DOMAIN m \ {Default}

MapOK(m) ==
    /\ Default \in DOMAIN m
    /\ \A g \in DOMAIN m : \A id \in DOMAIN m[g] : NodeOK(m[g][id], id, m)

\* The identifiers the generator has yielded.
Drawn(n) == {Generated[k] : k \in 1 .. n}

RelabelOK(r, n) ==
    /\ n \in 0 .. Len(Generated)
    /\ DOMAIN r \subseteq Blanks
    /\ \A b \in DOMAIN r : r[b] \in Drawn(n)
    /\ \A b, c \in DOMAIN r : r[b] = r[c] => b = c

\* A label is an IRI, which keeps its name, a blank node identifier, which is
\* relabelled, or an anonymous node, with a name no other label has.
NameOK(l, name, r, n) ==
    /\ l \in Identifiers \cup Objects
    /\ l \in Iris => name = l
    /\ l \in Blanks => l \in DOMAIN r /\ name = r[l]
    /\ l \in Objects => name \in Drawn(n) /\ \A b \in DOMAIN r : r[b] # name

NamesOK(ns, r, n) ==
    /\ \A l \in DOMAIN ns : NameOK(l, ns[l], r, n)
    /\ \A k, l \in DOMAIN ns \cap Objects : ns[k] = ns[l] => k = l

IInv ==
    /\ StackOK(stack, map)
    /\ MapOK(map)
    /\ RelabelOK(relabel, issued)
    /\ NamesOK(names, relabel, issued)
    /\ LookupsDefined
    /\ FlattenKeeps
-----------------------------------------------------------------------------
(* Sequences.                                                                *)

\* A sequence over any set is a sequence over its elements.
LEMMA SequenceOver ==
    ASSUME NEW S, NEW s \in Seq(S)
    PROVE  IsSequence(s) /\ DOMAIN s = 1 .. Len(s) /\ Len(s) \in Nat /\ \A i \in DOMAIN s : s[i] \in S
<1>1. DOMAIN s = 1 .. Len(s) /\ Len(s) \in Nat /\ \A i \in DOMAIN s : s[i] \in S
  OBVIOUS
<1>2. \A i \in 1 .. Len(s) : s[i] \in ToSet(s)
  BY <1>1 DEF ToSet
<1>3. s \in Seq(ToSet(s))
  BY <1>1, <1>2
<1> QED
  BY <1>1, <1>3 DEF IsSequence

LEMMA EmptySequence == IsSequence(<<>>) /\ DOMAIN <<>> = {} /\ ToSet(<<>>) = {}
  BY DEF IsSequence, ToSet

LEMMA Singleton ==
    ASSUME NEW x
    PROVE  IsSequence(<<x>>) /\ DOMAIN <<x>> = {1} /\ <<x>>[1] = x /\ ToSet(<<x>>) = {x}
<1>1. <<x>> \in Seq({x})
  OBVIOUS
<1>2. IsSequence(<<x>>)
  BY <1>1, SequenceOver
<1>3. DOMAIN <<x>> = {1} /\ <<x>>[1] = x
  OBVIOUS
<1> QED
  BY <1>2, <1>3 DEF ToSet

\* The rest of a sequence.
LEMMA Rest ==
    ASSUME NEW s, IsSequence(s), s # <<>>
    PROVE  /\ Head(s) = s[1] /\ 1 \in DOMAIN s
           /\ IsSequence(Tail(s))
           /\ \A i \in DOMAIN Tail(s) : i + 1 \in DOMAIN s /\ Tail(s)[i] = s[i + 1]
<1>1. s \in Seq(ToSet(s))
  BY DEF IsSequence
<1>2. Tail(s) \in Seq(ToSet(s)) /\ DOMAIN s = 1 .. Len(s) /\ Len(s) \in Nat \ {0}
  BY <1>1
<1>3. Head(s) = s[1] /\ 1 \in DOMAIN s
  BY <1>1, <1>2
<1>4. DOMAIN Tail(s) = 1 .. Len(s) - 1
  BY <1>1, <1>2
<1>5. \A i \in 1 .. Len(s) - 1 : i + 1 \in DOMAIN s /\ Tail(s)[i] = s[i + 1]
  BY <1>1, <1>2
<1> QED
  BY <1>2, <1>3, <1>4, <1>5, SequenceOver

\* The last element of a sequence, and what is before it.
LEMMA Ahead ==
    ASSUME NEW s, IsSequence(s), s # <<>>
    PROVE  /\ Len(s) \in Nat \ {0} /\ DOMAIN s = 1 .. Len(s)
           /\ Last(s) = s[Len(s)] /\ Len(s) \in DOMAIN s
           /\ IsSequence(Front(s)) /\ Len(Front(s)) = Len(s) - 1
           /\ DOMAIN Front(s) = 1 .. Len(s) - 1
           /\ \A i \in DOMAIN Front(s) : i \in DOMAIN s /\ Front(s)[i] = s[i]
<1>1. s \in Seq(ToSet(s))
  BY DEF IsSequence
<1>2. DOMAIN s = 1 .. Len(s) /\ Len(s) \in Nat \ {0}
  BY <1>1
<1>3. Front(s) \in Seq(ToSet(s)) /\ Len(Front(s)) = Len(s) - 1
  BY <1>1, <1>2 DEF Front
<1>4. \A i \in 1 .. Len(s) - 1 : Front(s)[i] = s[i]
  BY <1>1, <1>2 DEF Front
<1> QED
  BY <1>2, <1>3, <1>4, SequenceOver DEF Last

\* Appending to a sequence.
LEMMA Longer ==
    ASSUME NEW s, IsSequence(s), NEW e
    PROVE  /\ IsSequence(Append(s, e)) /\ Len(Append(s, e)) = Len(s) + 1 /\ Len(s) \in Nat
           /\ DOMAIN Append(s, e) = 1 .. Len(s) + 1 /\ DOMAIN s = 1 .. Len(s)
           /\ Append(s, e)[Len(s) + 1] = e
           /\ \A i \in 1 .. Len(s) : Append(s, e)[i] = s[i]
<1>1. s \in Seq(ToSet(s) \cup {e}) /\ e \in ToSet(s) \cup {e}
  <2>1. s \in Seq(ToSet(s))
    BY DEF IsSequence
  <2> QED
    BY <2>1
<1>2. Append(s, e) \in Seq(ToSet(s) \cup {e}) /\ Len(s) \in Nat /\ DOMAIN s = 1 .. Len(s)
  BY <1>1
<1>3. Len(Append(s, e)) = Len(s) + 1 /\ DOMAIN Append(s, e) = 1 .. Len(s) + 1
  BY <1>1, <1>2
<1>4. Append(s, e)[Len(s) + 1] = e /\ \A i \in 1 .. Len(s) : Append(s, e)[i] = s[i]
  BY <1>1, <1>2
<1> QED
  BY <1>2, <1>3, <1>4, SequenceOver

\* Appending to a sequence adds one element.
LEMMA Lengthened ==
    ASSUME NEW s, IsSequence(s), NEW e
    PROVE  IsSequence(Append(s, e)) /\ ToSet(Append(s, e)) = ToSet(s) \cup {e}
<1> DEFINE t == Append(s, e)
           n == Len(s)
<1>1. /\ IsSequence(t) /\ n \in Nat /\ DOMAIN t = 1 .. n + 1 /\ DOMAIN s = 1 .. n
      /\ t[n + 1] = e /\ \A i \in 1 .. n : t[i] = s[i]
  BY Longer
<1> HIDE DEF t, n
<1>2. 1 .. n + 1 = (1 .. n) \cup {n + 1}
  BY <1>1
<1>3. ToSet(t) = ToSet(s) \cup {e}
  BY <1>1, <1>2 DEF ToSet
<1> QED
  BY <1>1, <1>3 DEF t

\* Two sequences one after the other.
LEMMA Joining ==
    ASSUME NEW s, IsSequence(s), NEW t, IsSequence(t)
    PROVE  IsSequence(s \o t) /\ ToSet(s \o t) = ToSet(s) \cup ToSet(t)
<1> DEFINE S == ToSet(s) \cup ToSet(t)
           u == s \o t
<1>1. s \in Seq(S) /\ t \in Seq(S)
  <2>1. s \in Seq(ToSet(s)) /\ t \in Seq(ToSet(t))
    BY DEF IsSequence
  <2> QED
    BY <2>1
<1>2. /\ u \in Seq(S) /\ Len(u) = Len(s) + Len(t) /\ Len(s) \in Nat /\ Len(t) \in Nat
      /\ DOMAIN s = 1 .. Len(s) /\ DOMAIN t = 1 .. Len(t) /\ DOMAIN u = 1 .. Len(u)
      /\ \A i \in 1 .. Len(s) : u[i] = s[i]
      /\ \A i \in Len(s) + 1 .. Len(u) : u[i] = t[i - Len(s)]
  BY <1>1
<1> HIDE DEF u
<1>3. \A i \in DOMAIN s : i \in DOMAIN u /\ u[i] = s[i]
  BY <1>2
<1>4. \A i \in DOMAIN t : i + Len(s) \in DOMAIN u /\ u[i + Len(s)] = t[i]
  BY <1>2
<1>5. \A i \in DOMAIN u : (i \in DOMAIN s /\ u[i] = s[i]) \/ (i - Len(s) \in DOMAIN t /\ u[i] = t[i - Len(s)])
  BY <1>2
<1>6. ToSet(u) = ToSet(s) \cup ToSet(t)
  BY <1>3, <1>4, <1>5 DEF ToSet
<1> QED
  BY <1>2, <1>6, SequenceOver DEF u
-----------------------------------------------------------------------------
(* Numbers, and going through a sequence from the left.                      *)

\* A set of numbers has a least one.
LEMMA Least ==
    ASSUME NEW T \in SUBSET Nat, T # {}
    PROVE  \E n \in T : \A m \in T : n <= m
<1> DEFINE R == OpToRel(<, Nat)
<1>1. IsWellFoundedOn(R, Nat)
  BY NatLessThanWellFounded
<1>2. \A a, b \in Nat : <<a, b>> \in R <=> a < b
  BY DEF OpToRel
<1> HIDE DEF R
<1>3. PICK n \in T : \A m \in T : ~ (<<m, n>> \in R)
  BY <1>1, WFMin
<1>4. \A m \in T : ~(m < n)
  BY <1>2, <1>3
<1> QED
  BY <1>4

\* Induction over the numbers.
LEMMA Induct ==
    ASSUME NEW S, 0 \in S, \A n \in Nat : n \in S => n + 1 \in S
    PROVE  Nat \subseteq S
<1> DEFINE T == Nat \ S
<1>1. ASSUME T # {} PROVE FALSE
  <2>1. PICK n \in T : \A m \in T : n <= m
    BY <1>1, Least
  <2>2. n # 0 /\ n \in Nat
    OBVIOUS
  <2>3. n - 1 \in Nat /\ n - 1 \notin T
    BY <2>1, <2>2
  <2> QED
    BY <2>2, <2>3
<1> QED
  BY <1>1

\* The greatest number of a set that has the numbers up to it, or only those.
LEMMA Greatest ==
    ASSUME NEW n \in Nat
    PROVE  /\ \A s \in SUBSET (1 .. n + 1) : n + 1 \in s => Max(s) = n + 1 /\ s \ {n + 1} \in SUBSET (1 .. n)
           /\ \A s \in SUBSET (1 .. n + 1) : n + 1 \notin s => s \in SUBSET (1 .. n)
           /\ Max(1 .. n + 1) = n + 1 /\ (1 .. n + 1) \ {n + 1} = 1 .. n
<1>1. ASSUME NEW s \in SUBSET (1 .. n + 1), n + 1 \in s
      PROVE  Max(s) = n + 1
  <2>1. \A y \in s : n + 1 >= y
    OBVIOUS
  <2>2. \A x \in s : (\A y \in s : x >= y) => x = n + 1
    BY <1>1
  <2>3. Max(s) \in s /\ \A y \in s : Max(s) >= y
    BY <1>1, <2>1 DEF Max
  <2> QED
    BY <2>2, <2>3
<1>2. \A s \in SUBSET (1 .. n + 1) : n + 1 \in s => s \ {n + 1} \in SUBSET (1 .. n)
  OBVIOUS
<1>3. \A s \in SUBSET (1 .. n + 1) : n + 1 \notin s => s \in SUBSET (1 .. n)
  OBVIOUS
<1>4. (1 .. n + 1) \ {n + 1} = 1 .. n /\ n + 1 \in 1 .. n + 1
  OBVIOUS
<1> QED
  BY <1>1, <1>2, <1>3, <1>4

\* Going through a sequence of objects from the left: `r` is what there is after each.
Unfolded(base, objects, m, r) ==
    /\ r[0] = base
    /\ \A k \in 0 .. m - 1 : r[k + 1] = AppendUnique(r[k], objects[k + 1])
    /\ AppendAll(base, objects) = r[m]

LEMMA AppendsUnfold ==
    ASSUME NEW base, NEW objects, NEW m \in Nat, DOMAIN objects = 1 .. m
    PROVE  \E r : Unfolded(base, objects, m, r)
<1> DEFINE Of(s, t) == IF s = {} THEN base ELSE AppendUnique(t[s \ {Max(s)}], objects[Max(s)])
           Table(n, t) == t = [s \in SUBSET (1 .. n) |-> Of(s, t)]
           S == {n \in Nat : \E t : Table(n, t)}
<1>1. 0 \in S
  <2> DEFINE t == [s \in SUBSET (1 .. 0) |-> base]
  <2>1. 1 .. 0 = {}
    OBVIOUS
  <2>2. t = [s \in SUBSET (1 .. 0) |-> Of(s, t)]
    BY <2>1
  <2>3. Table(0, t)
    BY <2>2
  <2> HIDE DEF Table, t
  <2> QED
    BY <2>3
<1>2. ASSUME NEW n \in Nat, n \in S
      PROVE  n + 1 \in S
  <2>1. PICK t : Table(n, t)
    BY <1>2
  <2> DEFINE u == [s \in SUBSET (1 .. n + 1) |-> IF n + 1 \in s THEN Of(s, t) ELSE t[s]]
  <2>2. t = [s \in SUBSET (1 .. n) |-> Of(s, t)]
    BY <2>1
  <2> HIDE DEF Table
  <2>3. \A s \in SUBSET (1 .. n) : n + 1 \notin s /\ s \in SUBSET (1 .. n + 1)
    OBVIOUS
  <2>4. \A s \in SUBSET (1 .. n) : u[s] = t[s] /\ t[s] = Of(s, t)
    <3> HIDE DEF Of
    <3> QED
      BY <2>2, <2>3
  <2>5. \A s : s \ {Max(s)} \subseteq s
    OBVIOUS
  <2>6. \A s \in SUBSET (1 .. n) : s \ {Max(s)} \in SUBSET (1 .. n)
    BY <2>5
  <2>7. \A s \in SUBSET (1 .. n + 1) : n + 1 \in s => s \ {Max(s)} \in SUBSET (1 .. n)
    BY Greatest
  <2>8. \A s \in SUBSET (1 .. n + 1) : n + 1 \notin s => s \in SUBSET (1 .. n)
    BY Greatest
  <2>9. \A s \in SUBSET (1 .. n + 1) : s \ {Max(s)} \in SUBSET (1 .. n)
    BY <2>6, <2>7, <2>8
  <2>10. \A s \in SUBSET (1 .. n + 1) : u[s \ {Max(s)}] = t[s \ {Max(s)}]
    BY <2>4, <2>9
  <2>11. \A s \in SUBSET (1 .. n + 1) : Of(s, u) = Of(s, t)
    BY <2>10
  <2>12. \A s \in SUBSET (1 .. n + 1) : u[s] = Of(s, t)
    <3> HIDE DEF Of
    <3> QED
      BY <2>4, <2>8
  <2>13. u = [s \in SUBSET (1 .. n + 1) |-> Of(s, u)]
    <3>1. \A s \in SUBSET (1 .. n + 1) : u[s] = Of(s, u)
      BY <2>11, <2>12
    <3>2. u = [s \in SUBSET (1 .. n + 1) |-> u[s]]
      OBVIOUS
    <3> HIDE DEF Of, u
    <3> QED
      BY <3>1, <3>2
  <2>14. Table(n + 1, u)
    BY <2>13 DEF Table
  <2> HIDE DEF u
  <2> QED
    BY <2>14
<1>3. m \in S
  <2> HIDE DEF S
  <2> QED
    BY <1>1, <1>2, Induct
<1> DEFINE iter == CHOOSE t : Table(m, t)
<1>4. Table(m, iter)
  <2> HIDE DEF Table
  <2> QED
    BY <1>3
<1>5. AppendAll(base, objects) = iter[1 .. m]
  BY DEF AppendAll, FoldLeft, MapThenFoldSet
<1> DEFINE r == [k \in 0 .. m |-> iter[1 .. k]]
<1>6. iter = [s \in SUBSET (1 .. m) |-> Of(s, iter)]
  BY <1>4
<1> HIDE DEF iter, S, Table
<1>7. \A k \in 0 .. m : 1 .. k \in SUBSET (1 .. m)
  OBVIOUS
<1>8. \A k \in 0 .. m : iter[1 .. k] = Of(1 .. k, iter)
  <2> HIDE DEF Of
  <2> QED
    BY <1>6, <1>7
<1>9. r[0] = base
  <2>1. 1 .. 0 = {} /\ 0 \in 0 .. m
    OBVIOUS
  <2>2. iter[1 .. 0] = Of(1 .. 0, iter) /\ r[0] = iter[1 .. 0]
    BY <1>8, <2>1
  <2> HIDE DEF r
  <2> QED
    BY <2>1, <2>2
<1>10. ASSUME NEW k \in 0 .. m - 1
       PROVE  r[k + 1] = AppendUnique(r[k], objects[k + 1])
  <2> k \in Nat
    OBVIOUS
  <2>1. Max(1 .. k + 1) = k + 1 /\ (1 .. k + 1) \ {k + 1} = 1 .. k
    BY Greatest
  <2>3. k + 1 \in 1 .. k + 1
    OBVIOUS
  <2>2. k + 1 \in 0 .. m /\ k \in 0 .. m
    OBVIOUS
  <2> QED
    BY <1>8, <2>1, <2>2, <2>3
<1>11. r[m] = iter[1 .. m]
  OBVIOUS
<1> HIDE DEF r
<1>12. Unfolded(base, objects, m, r)
  BY <1>5, <1>9, <1>10, <1>11 DEF Unfolded
<1> QED
  BY <1>12

\* Inserting one object.
LEMMA AppendedOne ==
    ASSUME NEW s, IsSequence(s), NEW o
    PROVE  /\ IsSequence(AppendUnique(s, o))
           /\ ToSet(AppendUnique(s, o)) = ToSet(s) \cup {o}
<1>1. CASE \E i \in DOMAIN s : Equivalent(s[i], o)
  <2>1. AppendUnique(s, o) = s
    BY <1>1 DEF AppendUnique
  <2>2. o \in ToSet(s)
    BY <1>1 DEF Equivalent, ToSet
  <2> QED
    BY <2>1, <2>2
<1>2. CASE ~ \E i \in DOMAIN s : Equivalent(s[i], o)
  <2>1. AppendUnique(s, o) = Append(s, o)
    BY <1>2 DEF AppendUnique
  <2>2. IsSequence(Append(s, o)) /\ ToSet(Append(s, o)) = ToSet(s) \cup {o}
    BY Lengthened
  <2> QED
    BY <2>1, <2>2
<1> QED
  BY <1>1, <1>2

\* What is inserted are the objects there were and those given.
LEMMA Appended ==
    ASSUME NEW base, IsSequence(base), NEW objects, IsSequence(objects)
    PROVE  /\ IsSequence(AppendAll(base, objects))
           /\ ToSet(AppendAll(base, objects)) = ToSet(base) \cup ToSet(objects)
<1>1. PICK m \in Nat : DOMAIN objects = 1 .. m
  BY DEF IsSequence
<1>0. PICK r : Unfolded(base, objects, m, r)
  BY <1>1, AppendsUnfold
<1>2. /\ r[0] = base
      /\ \A k \in 0 .. m - 1 : r[k + 1] = AppendUnique(r[k], objects[k + 1])
      /\ AppendAll(base, objects) = r[m]
  BY <1>0 DEF Unfolded
<1> DEFINE First(k) == {objects[i] : i \in 1 .. k}
           S == {k \in Nat : k <= m => IsSequence(r[k]) /\ ToSet(r[k]) = ToSet(base) \cup First(k)}
<1>3. 0 \in S
  BY <1>2
<1>4. ASSUME NEW k \in Nat, k \in S
      PROVE  k + 1 \in S
  <2>1. SUFFICES ASSUME k + 1 <= m
                 PROVE  IsSequence(r[k + 1]) /\ ToSet(r[k + 1]) = ToSet(base) \cup First(k + 1)
    BY DEF S
  <2>2. IsSequence(r[k]) /\ ToSet(r[k]) = ToSet(base) \cup First(k)
    BY <1>4, <2>1
  <2>3. r[k + 1] = AppendUnique(r[k], objects[k + 1])
    BY <1>2, <2>1
  <2>4. First(k + 1) = First(k) \cup {objects[k + 1]}
    <3>1. 1 .. k + 1 = (1 .. k) \cup {k + 1}
      OBVIOUS
    <3> QED
      BY <3>1
  <2>5. IsSequence(r[k + 1]) /\ ToSet(r[k + 1]) = ToSet(r[k]) \cup {objects[k + 1]}
    BY <2>2, <2>3, AppendedOne
  <2> HIDE DEF First
  <2> QED
    BY <2>2, <2>4, <2>5
<1>5. m \in S
  <2> HIDE DEF S
  <2> QED
    BY <1>3, <1>4, Induct
<1>6. First(m) = ToSet(objects)
  BY <1>1 DEF ToSet
<1> HIDE DEF First
<1> QED
  BY <1>2, <1>5, <1>6
\* Merging graph after graph.
LEMMA MergesUnfold ==
    ASSUME NEW graphs, NEW old, NEW m \in Nat, DOMAIN graphs = 1 .. m
    PROVE  \E r : /\ r[0] = old[Default]
                  /\ \A k \in 0 .. m - 1 : r[k + 1] = MergeWith(r[k], old[graphs[k + 1]])
                  /\ MergeAll(old, graphs) = r[m]
<1> DEFINE Of(s, t) == IF s = {} THEN old[Default] ELSE MergeWith(t[s \ {Max(s)}], old[graphs[Max(s)]])
           Table(n, t) == t = [s \in SUBSET (1 .. n) |-> Of(s, t)]
           S == {n \in Nat : \E t : Table(n, t)}
<1>1. 0 \in S
  <2> DEFINE t == [s \in SUBSET (1 .. 0) |-> old[Default]]
  <2>1. 1 .. 0 = {}
    OBVIOUS
  <2>2. t = [s \in SUBSET (1 .. 0) |-> Of(s, t)]
    BY <2>1
  <2>3. Table(0, t)
    BY <2>2
  <2> HIDE DEF Table, t
  <2> QED
    BY <2>3
<1>2. ASSUME NEW n \in Nat, n \in S
      PROVE  n + 1 \in S
  <2>1. PICK t : Table(n, t)
    BY <1>2
  <2> DEFINE u == [s \in SUBSET (1 .. n + 1) |-> IF n + 1 \in s THEN Of(s, t) ELSE t[s]]
  <2>2. t = [s \in SUBSET (1 .. n) |-> Of(s, t)]
    BY <2>1
  <2> HIDE DEF Table
  <2>3. \A s \in SUBSET (1 .. n) : n + 1 \notin s /\ s \in SUBSET (1 .. n + 1)
    OBVIOUS
  <2>4. \A s \in SUBSET (1 .. n) : u[s] = t[s] /\ t[s] = Of(s, t)
    <3> HIDE DEF Of
    <3> QED
      BY <2>2, <2>3
  <2>5. \A s : s \ {Max(s)} \subseteq s
    OBVIOUS
  <2>6. \A s \in SUBSET (1 .. n) : s \ {Max(s)} \in SUBSET (1 .. n)
    BY <2>5
  <2>7. \A s \in SUBSET (1 .. n + 1) : n + 1 \in s => s \ {Max(s)} \in SUBSET (1 .. n)
    BY Greatest
  <2>8. \A s \in SUBSET (1 .. n + 1) : n + 1 \notin s => s \in SUBSET (1 .. n)
    BY Greatest
  <2>9. \A s \in SUBSET (1 .. n + 1) : s \ {Max(s)} \in SUBSET (1 .. n)
    BY <2>6, <2>7, <2>8
  <2>10. \A s \in SUBSET (1 .. n + 1) : u[s \ {Max(s)}] = t[s \ {Max(s)}]
    BY <2>4, <2>9
  <2>11. \A s \in SUBSET (1 .. n + 1) : Of(s, u) = Of(s, t)
    BY <2>10
  <2>12. \A s \in SUBSET (1 .. n + 1) : u[s] = Of(s, t)
    <3> HIDE DEF Of
    <3> QED
      BY <2>4, <2>8
  <2>13. u = [s \in SUBSET (1 .. n + 1) |-> Of(s, u)]
    <3>1. \A s \in SUBSET (1 .. n + 1) : u[s] = Of(s, u)
      BY <2>11, <2>12
    <3>2. u = [s \in SUBSET (1 .. n + 1) |-> u[s]]
      OBVIOUS
    <3> HIDE DEF Of, u
    <3> QED
      BY <3>1, <3>2
  <2>14. Table(n + 1, u)
    BY <2>13 DEF Table
  <2> HIDE DEF u
  <2> QED
    BY <2>14
<1>3. m \in S
  <2> HIDE DEF S
  <2> QED
    BY <1>1, <1>2, Induct
<1> DEFINE iter == CHOOSE t : Table(m, t)
<1>4. Table(m, iter)
  <2> HIDE DEF Table
  <2> QED
    BY <1>3
<1>5. MergeAll(old, graphs) = iter[1 .. m]
  BY DEF MergeAll, FoldLeft, MapThenFoldSet
<1> DEFINE r == [k \in 0 .. m |-> iter[1 .. k]]
<1>6. iter = [s \in SUBSET (1 .. m) |-> Of(s, iter)]
  BY <1>4
<1> HIDE DEF iter, S, Table
<1>7. \A k \in 0 .. m : 1 .. k \in SUBSET (1 .. m)
  OBVIOUS
<1>8. \A k \in 0 .. m : iter[1 .. k] = Of(1 .. k, iter)
  <2> HIDE DEF Of
  <2> QED
    BY <1>6, <1>7
<1>9. r[0] = old[Default]
  <2>1. 1 .. 0 = {} /\ 0 \in 0 .. m
    OBVIOUS
  <2>2. iter[1 .. 0] = Of(1 .. 0, iter) /\ r[0] = iter[1 .. 0]
    BY <1>8, <2>1
  <2> HIDE DEF r
  <2> QED
    BY <2>1, <2>2
<1>10. ASSUME NEW k \in 0 .. m - 1
       PROVE  r[k + 1] = MergeWith(r[k], old[graphs[k + 1]])
  <2> k \in Nat
    OBVIOUS
  <2>1. Max(1 .. k + 1) = k + 1 /\ (1 .. k + 1) \ {k + 1} = 1 .. k
    BY Greatest
  <2>3. k + 1 \in 1 .. k + 1
    OBVIOUS
  <2>2. k + 1 \in 0 .. m /\ k \in 0 .. m
    OBVIOUS
  <2> QED
    BY <1>8, <2>1, <2>2, <2>3
<1>11. r[m] = iter[1 .. m]
  OBVIOUS
<1> HIDE DEF r
<1> QED
  BY <1>5, <1>9, <1>10, <1>11
-----------------------------------------------------------------------------
(* The stack of calls.                                                       *)

\* Graphs and nodes are declared, never withdrawn.
Grown(m, n) == DOMAIN m \subseteq DOMAIN n /\ \A g \in DOMAIN m : DOMAIN m[g] \subseteq DOMAIN n[g]

\* What a call knows is known in a map that has more.
LEMMA FrameGrown ==
    ASSUME NEW f, NEW m, NEW n, FrameOK(f, m), Grown(m, n)
    PROVE  FrameOK(f, n)
<1>1. Placed(f, n)
  BY DEF FrameOK, Placed, Grown
<1>2. Subject(f, n)
  BY DEF FrameOK, Placed, Subject, Grown
<1> QED
  BY <1>1, <1>2 DEF FrameOK

LEMMA StackGrown ==
    ASSUME NEW st, NEW m, NEW n, StackOK(st, m), Grown(m, n)
    PROVE  StackOK(st, n)
  BY FrameGrown DEF StackOK

\* The innermost call changes its state.
LEMMA Updates ==
    ASSUME NEW st, NEW m, NEW n, NEW f, StackOK(st, m), st # <<>>, Grown(m, n),
           FrameOK(f, n), f.active = Last(st).active, f.kind = Last(st).kind
    PROVE  StackOK(Append(Front(st), f), n)
<1> DEFINE before == Front(st)
           after == Append(before, f)
<1>1. /\ IsSequence(st) /\ Len(st) \in Nat \ {0} /\ DOMAIN st = 1 .. Len(st) /\ Last(st) = st[Len(st)]
      /\ IsSequence(before) /\ Len(before) = Len(st) - 1
      /\ \A i \in 1 .. Len(st) - 1 : before[i] = st[i]
  BY Ahead DEF StackOK
<1>2. /\ IsSequence(after) /\ DOMAIN after = 1 .. Len(st)
      /\ after[Len(st)] = f /\ \A i \in 1 .. Len(st) - 1 : after[i] = st[i]
  <2> HIDE DEF before
  <2>0. IsSequence(before)
    BY <1>1
  <2>1. /\ IsSequence(Append(before, f)) /\ Len(Append(before, f)) = Len(before) + 1 /\ Len(before) \in Nat
        /\ DOMAIN Append(before, f) = 1 .. Len(before) + 1 /\ DOMAIN before = 1 .. Len(before)
        /\ Append(before, f)[Len(before) + 1] = f
        /\ \A i \in 1 .. Len(before) : Append(before, f)[i] = before[i]
    BY ONLY <2>0, Longer
  <2>2. Len(before) + 1 = Len(st) /\ Len(before) = Len(st) - 1
    BY <1>1
  <2>3. \A i \in 1 .. Len(st) - 1 : Append(before, f)[i] = st[i]
    BY <1>1, <2>1, <2>2
  <2> QED
    BY <2>1, <2>2, <2>3
<1> HIDE DEF before, after
<1>3. \A i \in 1 .. Len(st) - 1 : FrameOK(st[i], n)
  BY <1>1, FrameGrown DEF StackOK
<1>4. \A i \in DOMAIN after : FrameOK(after[i], n)
  BY <1>1, <1>2, <1>3
<1>5. ASSUME NEW i \in DOMAIN after, i > 1
      PROVE  Fits(after[i - 1], after[i])
  <2>0. i \in 2 .. Len(st)
    BY <1>1, <1>2, <1>5
  <2>1. after[i - 1] = st[i - 1] /\ Fits(st[i - 1], st[i])
    BY <1>1, <1>2, <2>0 DEF StackOK
  <2>2. CASE i = Len(st)
    BY <1>1, <1>2, <2>1, <2>2 DEF Fits
  <2>3. CASE i # Len(st)
    BY <1>1, <1>2, <2>0, <2>1, <2>3
  <2> QED
    BY <2>2, <2>3
<1> QED
  BY <1>2, <1>4, <1>5 DEF StackOK, before, after

\* The innermost call makes another.
LEMMA Calls ==
    ASSUME NEW st, NEW m, NEW f, StackOK(st, m), st # <<>>, FrameOK(f, m), Fits(Last(st), f)
    PROVE  StackOK(Append(st, f), m)
<1> DEFINE after == Append(st, f)
<1>1. /\ IsSequence(st) /\ Len(st) \in Nat \ {0} /\ DOMAIN st = 1 .. Len(st) /\ Last(st) = st[Len(st)]
  BY Ahead DEF StackOK
<1>2. /\ IsSequence(after) /\ DOMAIN after = 1 .. Len(st) + 1
      /\ after[Len(st) + 1] = f /\ \A i \in 1 .. Len(st) : after[i] = st[i]
  BY <1>1, Longer
<1> HIDE DEF after
<1>3. \A i \in DOMAIN after : FrameOK(after[i], m)
  BY <1>1, <1>2 DEF StackOK
<1>4. ASSUME NEW i \in DOMAIN after, i > 1
      PROVE  Fits(after[i - 1], after[i])
  <2>1. CASE i = Len(st) + 1
    BY <1>1, <1>2, <2>1
  <2>2. CASE i # Len(st) + 1
    <3>1. i \in 2 .. Len(st)
      BY <1>1, <1>2, <1>4, <2>2
    <3>2. Fits(st[i - 1], st[i])
      BY <1>1, <3>1 DEF StackOK
    <3> QED
      BY <1>1, <1>2, <3>1, <3>2
  <2> QED
    BY <2>1, <2>2
<1> QED
  BY <1>2, <1>3, <1>4 DEF StackOK, after

\* The call that made the innermost one.
LEMMA Callers ==
    ASSUME NEW st, NEW m, StackOK(st, m), Len(st) > 1
    PROVE  /\ StackOK(Front(st), m) /\ Front(st) # <<>>
           /\ FrameOK(Last(Front(st)), m) /\ FrameOK(Last(st), m)
           /\ Fits(Last(Front(st)), Last(st))
<1>0. st # <<>> /\ IsSequence(st)
  BY DEF StackOK
<1>1. /\ Len(st) \in Nat \ {0} /\ DOMAIN st = 1 .. Len(st) /\ Last(st) = st[Len(st)]
      /\ IsSequence(Front(st)) /\ Len(Front(st)) = Len(st) - 1 /\ DOMAIN Front(st) = 1 .. Len(st) - 1
      /\ \A i \in 1 .. Len(st) - 1 : Front(st)[i] = st[i]
  BY <1>0, Ahead
<1>2. Front(st) # <<>>
  BY <1>1
<1>3. Last(Front(st)) = st[Len(st) - 1]
  BY <1>1, <1>2, Ahead
<1>4. StackOK(Front(st), m)
  <2>1. \A i \in DOMAIN Front(st) : FrameOK(Front(st)[i], m)
    BY <1>1 DEF StackOK
  <2>2. \A i \in DOMAIN Front(st) : i > 1 => Fits(Front(st)[i - 1], Front(st)[i])
    BY <1>1 DEF StackOK
  <2> QED
    BY <1>1, <2>1, <2>2 DEF StackOK
<1>5. FrameOK(st[Len(st) - 1], m) /\ FrameOK(st[Len(st)], m) /\ Fits(st[Len(st) - 1], st[Len(st)])
  BY <1>1 DEF StackOK
<1> QED
  BY <1>1, <1>2, <1>3, <1>4, <1>5
-----------------------------------------------------------------------------
(* What a call does with its own state.                                      *)

\* What these leave alone.
Steady(f, g) == g.active = f.active /\ g.kind = f.kind /\ g.id = f.id

LEMMA Enters ==
    ASSUME NEW f, NEW m, FrameOK(f, m), f.section = "between", f.sections # <<>>, NEW p,
           Head(f.sections).op = "graph" => f.id \in DOMAIN m
    PROVE  FrameOK(Entered(f, p), m) /\ Steady(f, Entered(f, p))
<1> DEFINE s == Head(f.sections)
           g == Entered(f, p)
<1>1. IsSequence(f.sections) /\ \A i \in DOMAIN f.sections : SectionOK(f.sections[i])
  BY DEF FrameOK, SectionsOK
<1>2. /\ s = f.sections[1] /\ 1 \in DOMAIN f.sections /\ IsSequence(Tail(f.sections))
      /\ \A i \in DOMAIN Tail(f.sections) : i + 1 \in DOMAIN f.sections /\ Tail(f.sections)[i] = f.sections[i + 1]
  BY <1>1, Rest
<1>3. SectionOK(s) /\ SectionsOK(Tail(f.sections))
  BY <1>1, <1>2 DEF SectionsOK
<1>4. /\ DOMAIN g = FrameFields
      /\ g.kind = f.kind /\ g.active = f.active /\ g.id = f.id /\ g.collected = f.collected
      /\ g.section = s.op /\ g.queue = s.objects /\ g.sections = Tail(f.sections)
  BY DEF FrameOK, FrameFields, Entered
<1>5. f.kind = "node" /\ f.kind \in Kinds /\ f.collected = <<>>
  BY DEF FrameOK, Sectioned
<1> HIDE DEF s, g
<1>9. <<>> \in Seq(Identifiers)
  OBVIOUS
<1>6. Sectioned(g) /\ QueueOK(g.section, g.queue) /\ SectionsOK(g.sections)
  BY <1>9, <1>3, <1>4, <1>5, EmptySequence DEF Sectioned, SectionOK, Operations
<1>7. Placed(g, m) /\ Subject(g, m)
  BY <1>4, <1>5 DEF Placed, Subject, FrameOK, s
<1>8. FrameOK(g, m) /\ Steady(f, g)
  BY <1>4, <1>6, <1>7 DEF FrameOK, Steady
<1> QED
  BY <1>8 DEF g

LEMMA Passes ==
    ASSUME NEW f, NEW m, FrameOK(f, m), f.queue # <<>>
    PROVE  /\ FrameOK(Passed(f), m) /\ Steady(f, Passed(f))
           /\ Passed(f).section = f.section /\ Passed(f).collected = f.collected
           /\ f.section # "types" => Head(f.queue) \in Objects
           /\ f.section = "types" => Head(f.queue) \in Identifiers
           /\ f.section = "reverse" => Head(f.queue) \in NodeObjects
<1> DEFINE g == Passed(f)
<1>1. /\ DOMAIN g = FrameFields
      /\ g.kind = f.kind /\ g.active = f.active /\ g.id = f.id /\ g.collected = f.collected
      /\ g.section = f.section /\ g.queue = Tail(f.queue) /\ g.sections = f.sections
  BY DEF FrameOK, FrameFields, Passed
<1>2. ASSUME NEW S, f.queue \in Seq(S)
      PROVE  Head(f.queue) \in S /\ Tail(f.queue) \in Seq(S)
  BY <1>2
<1>3. QueueOK(f.section, f.queue)
  BY DEF FrameOK
<1>4. f.section # "types" => Head(f.queue) \in Objects /\ Tail(f.queue) \in Seq(Objects)
  BY <1>2, <1>3 DEF QueueOK
<1>5. f.section = "reverse" => Head(f.queue) \in NodeObjects /\ Tail(f.queue) \in Seq(NodeObjects)
  BY <1>2, <1>3 DEF QueueOK
<1>10. f.section = "types" => Head(f.queue) \in Identifiers /\ Tail(f.queue) \in Seq(Identifiers)
  BY <1>2, <1>3 DEF QueueOK
<1> HIDE DEF g
<1>6. QueueOK(g.section, g.queue)
  BY <1>1, <1>4, <1>5, <1>10 DEF QueueOK
<1>7. Sectioned(g) /\ Placed(g, m) /\ Subject(g, m) /\ SectionsOK(g.sections)
  BY <1>1 DEF FrameOK, Sectioned, Placed, Subject
<1>8. FrameOK(g, m) /\ Steady(f, g)
  BY <1>1, <1>6, <1>7 DEF FrameOK, Steady
<1> QED
  BY <1>1, <1>4, <1>5, <1>8, <1>10 DEF g

LEMMA Gives ==
    ASSUME NEW f, NEW m, FrameOK(f, m), NEW object, f.section # "between",
           f.section = "types" => object \in Identifiers,
           f.section = "reverse" => f.collected = <<>> /\ object.id \in DOMAIN m[f.active]
    PROVE  FrameOK(Given(f, object), m) /\ Steady(f, Given(f, object))
<1> DEFINE g == Given(f, object)
<1>1. /\ DOMAIN g = FrameFields
      /\ g.kind = f.kind /\ g.active = f.active /\ g.id = f.id /\ g.collected = Append(f.collected, object)
      /\ g.section = f.section /\ g.queue = f.queue /\ g.sections = f.sections
  BY DEF FrameOK, FrameFields, Given
<1> HIDE DEF g
<1>9. IsSequence(f.collected)
  BY DEF FrameOK, Sectioned
<1>10. IsSequence(g.collected)
  BY <1>1, <1>9, Longer
<1>11. f.section = "types" => g.collected \in Seq(Identifiers)
  BY <1>1 DEF FrameOK, Sectioned
<1>2. Sectioned(g) /\ Placed(g, m) /\ SectionsOK(g.sections) /\ QueueOK(g.section, g.queue)
  BY <1>1, <1>10, <1>11 DEF FrameOK, Sectioned, Placed
<1>3. f.collected = <<>> => Append(f.collected, object) = <<object>>
  OBVIOUS
<1>4. Subject(g, m)
  BY <1>1, <1>3 DEF Subject
<1>5. FrameOK(g, m) /\ Steady(f, g)
  BY <1>1, <1>2, <1>4 DEF FrameOK, Steady
<1> QED
  BY <1>5 DEF g

LEMMA Links ==
    ASSUME NEW f, NEW m, FrameOK(f, m)
    PROVE  FrameOK(Linked(f), m) /\ Steady(f, Linked(f))
<1> DEFINE g == Linked(f)
<1>1. /\ DOMAIN g = FrameFields
      /\ g.kind = f.kind /\ g.active = f.active /\ g.id = f.id /\ g.collected = <<>>
      /\ g.section = f.section /\ g.queue = f.queue /\ g.sections = f.sections
  BY DEF FrameOK, FrameFields, Linked
<1> HIDE DEF g
<1>3. <<>> \in Seq(Identifiers)
  OBVIOUS
<1>2. FrameOK(g, m) /\ Steady(f, g)
  BY <1>1, <1>3, EmptySequence DEF FrameOK, Sectioned, Placed, Subject, Steady
<1> QED
  BY <1>2 DEF g

LEMMA Ends ==
    ASSUME NEW f, NEW m, FrameOK(f, m), f.section # "items", f.queue = <<>>
    PROVE  FrameOK(Ended(f), m) /\ Steady(f, Ended(f))
<1> DEFINE g == Ended(f)
<1>1. /\ DOMAIN g = FrameFields
      /\ g.kind = f.kind /\ g.active = f.active /\ g.id = f.id /\ g.collected = <<>>
      /\ g.section = "between" /\ g.queue = <<>> /\ g.sections = f.sections
  BY DEF FrameOK, FrameFields, Ended
<1>2. f.kind = "node" /\ f.kind \in Kinds
  BY DEF FrameOK, Sectioned
<1>3. <<>> \in Seq(Objects)
  OBVIOUS
<1> HIDE DEF g
<1>4. Sectioned(g) /\ QueueOK(g.section, g.queue) /\ SectionsOK(g.sections)
  BY <1>1, <1>2, <1>3, EmptySequence DEF FrameOK, Sectioned, QueueOK
<1>5. Placed(g, m) /\ Subject(g, m)
  BY <1>1 DEF FrameOK, Placed, Subject
<1>6. FrameOK(g, m) /\ Steady(f, g)
  BY <1>1, <1>4, <1>5 DEF FrameOK, Steady
<1> QED
  BY <1>6 DEF g
-----------------------------------------------------------------------------
(* The map.                                                                  *)

\* declare_node: the node is there, and everything that was.
LEMMA Declares ==
    ASSUME NEW m, MapOK(m), NEW g \in DOMAIN m, NEW id, NEW index, NEW n,
           n = [m EXCEPT ![g] = WithNode(@, id, index)]
    PROVE  MapOK(n) /\ Grown(m, n) /\ id \in DOMAIN n[g]
<1> DEFINE new == WithNode(m[g], id, index)
<1>1. DOMAIN n = DOMAIN m /\ n[g] = new /\ \A h \in DOMAIN m : h # g => n[h] = m[h]
  OBVIOUS
<1>2. \A i \in DOMAIN m[g] : NodeOK(m[g][i], i, m)
  BY DEF MapOK
<1>3. /\ DOMAIN new = DOMAIN m[g] \cup {id}
      /\ \A i \in DOMAIN new : NodeOK(new[i], i, m)
  <2>1. CASE id \in DOMAIN m[g]
    <3> DEFINE old == m[g][id]
               changed == [old EXCEPT !.index = IF index = None THEN @ ELSE index]
    <3>1. new = [m[g] EXCEPT ![id] = changed]
      BY <2>1 DEF WithNode
    <3>2. DOMAIN new = DOMAIN m[g] /\ new[id] = changed /\ \A i \in DOMAIN m[g] : i # id => new[i] = m[g][i]
      BY <2>1, <3>1
    <3>3. NodeOK(old, id, m)
      BY <1>2, <2>1
    <3>4. /\ DOMAIN changed = DOMAIN old /\ changed.graph = old.graph
          /\ changed.types = old.types /\ changed.properties = old.properties
      BY <3>3 DEF NodeOK
    <3>5. NodeOK(changed, id, m)
      <4> HIDE DEF changed, old
      <4> QED
        BY <3>3, <3>4 DEF NodeOK, Neat
    <3> HIDE DEF new, changed
    <3> QED
      BY <1>2, <2>1, <3>2, <3>5
  <2>2. CASE id \notin DOMAIN m[g]
    <3>1. new = Put(m[g], id, NewNode(index))
      BY <2>2 DEF WithNode
    <3>2. DOMAIN new = DOMAIN m[g] \cup {id} /\ new[id] = NewNode(index)
          /\ \A i \in DOMAIN m[g] : i # id => new[i] = m[g][i]
      BY <3>1 DEF Put
    <3>3. NodeOK(NewNode(index), id, m)
      BY DEF NodeOK, Neat, NewNode, Empty
    <3> HIDE DEF new
    <3> QED
      BY <1>2, <2>2, <3>2, <3>3
  <2> QED
    BY <2>1, <2>2
<1> HIDE DEF new
<1>4. Grown(m, n) /\ id \in DOMAIN n[g]
  BY <1>1, <1>3 DEF Grown
<1>5. ASSUME NEW h \in DOMAIN n, NEW i \in DOMAIN n[h]
      PROVE  NodeOK(n[h][i], i, n)
  <2>1. NodeOK(n[h][i], i, m)
    BY <1>1, <1>3, <1>5 DEF MapOK
  <2> QED
    BY <1>1, <2>1 DEF NodeOK
<1> QED
  BY <1>1, <1>4, <1>5 DEF MapOK

\* declare_graph: the graph is there, and everything that was.
LEMMA Opens ==
    ASSUME NEW m, MapOK(m), NEW g, g \notin DOMAIN m, NEW n, n = Put(m, g, Empty)
    PROVE  MapOK(n) /\ Grown(m, n) /\ g \in DOMAIN n
<1>1. /\ DOMAIN n = DOMAIN m \cup {g}
      /\ \A h \in DOMAIN m : n[h] = m[h]
      /\ n[g] = Empty
  BY DEF Put
<1>2. Grown(m, n) /\ g \in DOMAIN n
  BY <1>1 DEF Grown
<1>3. DOMAIN Empty = {}
  BY DEF Empty
<1>4. ASSUME NEW h \in DOMAIN n, NEW i \in DOMAIN n[h]
      PROVE  NodeOK(n[h][i], i, n)
  <2>1. h \in DOMAIN m
    BY <1>1, <1>3
  <2>2. NodeOK(n[h][i], i, m)
    BY <1>1, <2>1 DEF MapOK
  <2> QED
    BY <1>1, <2>2 DEF NodeOK
<1> QED
  BY <1>1, <1>2, <1>4 DEF MapOK

\* A node that was looked up changes.
LEMMA Changes ==
    ASSUME NEW m, MapOK(m), NEW g \in DOMAIN m, NEW id \in DOMAIN m[g], NEW node, NodeOK(node, id, m),
           NEW n, n = [m EXCEPT ![g] = [@ EXCEPT ![id] = node]]
    PROVE  MapOK(n) /\ Grown(m, n)
<1> DEFINE new == [m[g] EXCEPT ![id] = node]
<1>1. DOMAIN n = DOMAIN m /\ n[g] = new /\ \A h \in DOMAIN m : h # g => n[h] = m[h]
  OBVIOUS
<1>2. DOMAIN new = DOMAIN m[g] /\ new[id] = node /\ \A i \in DOMAIN m[g] : i # id => new[i] = m[g][i]
  OBVIOUS
<1> HIDE DEF new
<1>3. Grown(m, n)
  BY <1>1, <1>2 DEF Grown
<1>4. ASSUME NEW h \in DOMAIN n, NEW i \in DOMAIN n[h]
      PROVE  NodeOK(n[h][i], i, n)
  <2>1. NodeOK(n[h][i], i, m)
    BY <1>1, <1>2 DEF MapOK
  <2> QED
    BY <1>1, <2>1 DEF NodeOK
<1> QED
  BY <1>1, <1>3, <1>4 DEF MapOK
-----------------------------------------------------------------------------
(* Identifiers.                                                              *)

\* What the generator yields next is an identifier it has not yielded.
LEMMA Fresh ==
    ASSUME NEW n \in Nat, n + 1 <= Len(Generated)
    PROVE  /\ n + 1 \in 0 .. Len(Generated)
           /\ NextId(n) = Generated[n + 1] /\ NextId(n) \in Drawn(n + 1)
           /\ NextId(n) \notin Drawn(n) /\ Drawn(n) \subseteq Drawn(n + 1)
<1>1. Generated \in Seq(Blanks) /\ Len(Generated) \in Nat /\ DOMAIN Generated = 1 .. Len(Generated)
  BY NodeMapAssumption
<1>2. NextId(n) = Generated[n + 1] /\ n + 1 \in DOMAIN Generated
  BY <1>1 DEF NextId
<1>3. \A k \in 1 .. n : k \in DOMAIN Generated /\ k # n + 1
  BY <1>1
<1>4. \A k \in 1 .. n : Generated[k] # Generated[n + 1]
  BY <1>2, <1>3, NodeMapAssumption
<1> QED
  BY <1>1, <1>2, <1>4 DEF Drawn

LEMMA DrawnBlank ==
    ASSUME NEW n \in 0 .. Len(Generated)
    PROVE  Drawn(n) \subseteq Blanks
<1>1. Generated \in Seq(Blanks) /\ Len(Generated) \in Nat /\ DOMAIN Generated = 1 .. Len(Generated)
  BY NodeMapAssumption
<1>2. \A k \in 1 .. n : Generated[k] \in Blanks
  BY <1>1
<1> QED
  BY <1>2 DEF Drawn

\* More identifiers drawn, or another blank node relabelled, names stay as they are.
LEMMA NamesStay ==
    ASSUME NEW ns, NEW r, NEW n, NEW q, NEW o, NamesOK(ns, r, n), Drawn(n) \subseteq Drawn(o),
           DOMAIN r \subseteq DOMAIN q, \A b \in DOMAIN r : q[b] = r[b],
           \A b \in DOMAIN q \ DOMAIN r : q[b] \notin Drawn(n)
    PROVE  NamesOK(ns, q, o)
<1>1. ASSUME NEW l \in DOMAIN ns
      PROVE  NameOK(l, ns[l], q, o)
  <2>1. NameOK(l, ns[l], r, n)
    BY DEF NamesOK
  <2>2. l \in Objects => ns[l] \in Drawn(n) /\ \A b \in DOMAIN q : q[b] # ns[l]
    BY <2>1 DEF NameOK
  <2> QED
    BY <2>1, <2>2 DEF NameOK
<1> QED
  BY <1>1 DEF NamesOK

\* assign_node_id on an identifier.
LEMMA Assigns ==
    ASSUME NEW ns, NEW r, NEW n, NEW id, RelabelOK(r, n), NamesOK(ns, r, n),
           NEW env, env = Assigned([relabel |-> r, issued |-> n], id), ~Exhausted(env)
    PROVE  /\ RelabelOK(env.relabel, env.issued) /\ NamesOK(ns, env.relabel, env.issued)
           /\ id \in Blanks => id \in DOMAIN env.relabel /\ Relabelled(env, id) = env.relabel[id]
           /\ id \notin Blanks => Relabelled(env, id) = id
<1>1. CASE id \in Blanks /\ id \notin DOMAIN r
  <2> DEFINE q == Put(r, id, NextId(n))
  <2>1. env.relabel = q /\ env.issued = n + 1
    BY <1>1 DEF Assigned
  <2>2. n \in Nat /\ Len(Generated) \in Nat /\ n + 1 <= Len(Generated)
    BY <2>1, NodeMapAssumption DEF Exhausted, RelabelOK
  <2>3. /\ n + 1 \in 0 .. Len(Generated)
        /\ NextId(n) \in Drawn(n + 1) /\ NextId(n) \notin Drawn(n) /\ Drawn(n) \subseteq Drawn(n + 1)
    BY <2>2, Fresh
  <2>4. DOMAIN q = DOMAIN r \cup {id} /\ q[id] = NextId(n) /\ \A b \in DOMAIN r : q[b] = r[b]
    BY <1>1 DEF Put
  <2>5. \A b \in DOMAIN r : r[b] \in Drawn(n) /\ \A c \in DOMAIN r : r[b] = r[c] => b = c
    BY DEF RelabelOK
  <2> HIDE DEF q
  <2>6. \A b, c \in DOMAIN q : q[b] = q[c] => b = c
    BY <2>3, <2>4, <2>5
  <2>7. DOMAIN q \subseteq Blanks /\ \A b \in DOMAIN q : q[b] \in Drawn(n + 1)
    BY <1>1, <2>3, <2>4, <2>5 DEF RelabelOK
  <2>8. RelabelOK(q, n + 1)
    BY <2>3, <2>6, <2>7 DEF RelabelOK
  <2>9. \A b \in DOMAIN q \ DOMAIN r : q[b] \notin Drawn(n)
    BY <2>3, <2>4
  <2>10. NamesOK(ns, q, n + 1)
    BY <2>3, <2>4, <2>9, NamesStay
  <2> QED
    BY <1>1, <2>1, <2>4, <2>8, <2>10 DEF Relabelled
<1>2. CASE ~(id \in Blanks /\ id \notin DOMAIN r)
  <2>1. env.relabel = r /\ env.issued = n
    BY <1>2 DEF Assigned
  <2> QED
    BY <1>2, <2>1 DEF Relabelled
<1> QED
  BY <1>1, <1>2

\* A node object gets its name.
LEMMA Naming ==
    ASSUME NEW ns, NEW r, NEW n, NEW l, NEW name, NamesOK(ns, r, n), l \notin DOMAIN ns, NameOK(l, name, r, n),
           l \in Objects => \A k \in DOMAIN ns \cap Objects : ns[k] # name
    PROVE  NamesOK(Put(ns, l, name), r, n)
<1> DEFINE new == Put(ns, l, name)
<1>1. DOMAIN new = DOMAIN ns \cup {l} /\ new[l] = name /\ \A k \in DOMAIN ns : new[k] = ns[k]
  BY DEF Put
<1> HIDE DEF new
<1>2. \A k \in DOMAIN new : NameOK(k, new[k], r, n)
  BY <1>1 DEF NamesOK
<1>3. \A j, k \in DOMAIN new \cap Objects : new[j] = new[k] => j = k
  BY <1>1 DEF NamesOK
<1>4. NamesOK(new, r, n)
  BY <1>2, <1>3 DEF NamesOK
<1> QED
  BY <1>4 DEF new

\* The names of an IRI, a blank node and an anonymous node differ.
LEMMA Apart ==
    ASSUME NEW ns, NEW r, NEW n, RelabelOK(r, n), NamesOK(ns, r, n)
    PROVE  /\ \A k, l \in DOMAIN ns : ns[k] = ns[l] => k = l
           /\ \A l \in Iris \cap DOMAIN ns : ns[l] = l
           /\ \A l \in DOMAIN ns : ns[l] \in Identifiers
<1>1. Drawn(n) \subseteq Blanks
  BY DrawnBlank DEF RelabelOK
<1>2. ASSUME NEW k \in DOMAIN ns, NEW l \in DOMAIN ns, ns[k] = ns[l]
      PROVE  k = l
  <2>1. NameOK(k, ns[k], r, n) /\ NameOK(l, ns[l], r, n)
    BY DEF NamesOK
  <2>2. k \in Blanks \/ l \in Blanks => ns[k] \in Blanks
    BY <1>1, <1>2, <2>1 DEF NameOK, RelabelOK
  <2>3. k \in Objects \/ l \in Objects => ns[k] \in Blanks
    BY <1>1, <1>2, <2>1 DEF NameOK
  <2>4. CASE k \in Iris \/ l \in Iris
    <3>1. ns[k] \notin Blanks
      BY <1>2, <2>1, <2>4, NodeMapAssumption DEF NameOK
    <3>2. k \in Iris /\ l \in Iris
      BY <2>1, <2>2, <2>3, <3>1 DEF NameOK, Identifiers
    <3> QED
      BY <1>2, <2>1, <3>2 DEF NameOK
  <2>5. CASE k \in Blanks /\ l \in Blanks
    BY <1>2, <2>1, <2>5 DEF NameOK, RelabelOK
  <2>6. CASE k \in Objects /\ l \in Objects
    BY <1>2, <2>6 DEF NamesOK
  <2>7. CASE k \in Blanks /\ l \in Objects
    BY <1>2, <2>1, <2>7 DEF NameOK
  <2>8. CASE k \in Objects /\ l \in Blanks
    BY <1>2, <2>1, <2>8 DEF NameOK
  <2> QED
    BY <2>1, <2>4, <2>5, <2>6, <2>7, <2>8 DEF NameOK, Identifiers
<1>3. \A l \in Iris \cap DOMAIN ns : ns[l] = l
  BY DEF NamesOK, NameOK
<1>4. \A l \in DOMAIN ns : ns[l] \in Identifiers
  BY <1>1 DEF NamesOK, NameOK, RelabelOK, Identifiers
<1> QED
  BY <1>2, <1>3, <1>4
-----------------------------------------------------------------------------
(* The sections of a node object.                                            *)

\* Sections one after another.
LEMMA Joined ==
    ASSUME NEW s, NEW t, SectionsOK(s), SectionsOK(t)
    PROVE  SectionsOK(s \o t)
<1> DEFINE S == ToSet(s) \cup ToSet(t)
<1>1. s \in Seq(ToSet(s)) /\ t \in Seq(ToSet(t))
  BY DEF SectionsOK, IsSequence
<1>2. s \in Seq(S) /\ t \in Seq(S)
  BY <1>1
<1>3. \A e \in S : SectionOK(e)
  BY DEF SectionsOK, ToSet
<1>4. s \o t \in Seq(S)
  BY <1>2
<1> HIDE DEF S
<1>5. IsSequence(s \o t) /\ \A i \in DOMAIN (s \o t) : (s \o t)[i] \in S
  BY <1>4, SequenceOver
<1> QED
  BY <1>3, <1>5 DEF SectionsOK

LEMMA NoSections == SectionsOK(<<>>)
<1>1. <<>> \in Seq(ToSet(<<>>))
  OBVIOUS
<1>2. DOMAIN <<>> = {}
  OBVIOUS
<1> QED
  BY <1>1, <1>2 DEF SectionsOK, IsSequence

LEMMA One ==
    ASSUME NEW s, SectionOK(s)
    PROVE  SectionsOK(<<s>>)
<1>1. <<s>> \in Seq({s})
  OBVIOUS
<1>2. IsSequence(<<s>>) /\ \A i \in DOMAIN <<s>> : <<s>>[i] \in {s}
  BY <1>1, SequenceOver
<1> QED
  BY <1>2 DEF SectionsOK

LEMMA Entries ==
    ASSUME NEW op \in {"property", "reverse"}, NEW entries, IsSequence(entries),
           \A i \in DOMAIN entries : QueueOK(op, entries[i].values)
    PROVE  SectionsOK(OfEntries(op, entries))
<1> DEFINE s == OfEntries(op, entries)
           S == {s[i] : i \in DOMAIN entries}
<1>1. entries \in Seq(ToSet(entries))
  BY DEF IsSequence
<1>2. DOMAIN entries = 1 .. Len(entries) /\ Len(entries) \in Nat
  BY <1>1
<1>3. s \in Seq(S) /\ DOMAIN s = DOMAIN entries
  <2>1. s = [i \in 1 .. Len(entries) |-> Section(op, entries[i].property, entries[i].values)]
    BY <1>2 DEF OfEntries
  <2>2. \A i \in 1 .. Len(entries) : s[i] \in S
    BY <1>2
  <2> QED
    BY <1>2, <2>1, <2>2
<1>4. \A i \in DOMAIN entries : s[i] = Section(op, entries[i].property, entries[i].values)
  BY DEF OfEntries
<1>5. \A i \in DOMAIN entries : SectionOK(s[i])
  <2> HIDE DEF s
  <2>1. \A property, values : QueueOK(op, values) => SectionOK(Section(op, property, values))
    BY DEF SectionOK, Section, Operations
  <2> QED
    BY <1>4, <2>1
<1>6. IsSequence(s)
  <2> HIDE DEF s
  <2> QED
    BY <1>3, SequenceOver
<1> QED
  BY <1>3, <1>5, <1>6 DEF SectionsOK

LEMMA SectionsAre ==
    ASSUME NEW node \in NodeObjects
    PROVE  SectionsOK(Sections(node))
<1>1. WellFormed(node) /\ node.kind = "node"
  BY NodeMapAssumption DEF NodeObjects
<1>2. /\ node.graph = None \/ node.graph \in Seq(Objects)
      /\ node.included \in Seq(NodeObjects)
      /\ EntriesOver(node.properties, Objects) /\ EntriesOver(node.reverse, NodeObjects)
  BY <1>1 DEF WellFormed
<1>3. NodeObjects \subseteq Objects
  BY DEF NodeObjects
<1>4. \A s \in Seq(NodeObjects) : s \in Seq(Objects)
  BY <1>3
<1>5. SectionsOK(OfTypes(node))
  <2>1. node.types # None => SectionOK(Section("types", None, node.types))
    BY <1>1 DEF WellFormed, SectionOK, Section, QueueOK, Operations
  <2> QED
    BY <2>1, One, NoSections DEF OfTypes
<1>6. SectionsOK(OfGraph(node))
  <2>1. node.graph # None => SectionOK(Section("graph", None, node.graph))
    BY <1>2 DEF SectionOK, Section, QueueOK, Operations
  <2> QED
    BY <2>1, One, NoSections DEF OfGraph
<1>7. SectionsOK(OfIncluded(node))
  <2>1. SectionOK(Section("included", None, node.included))
    BY <1>2, <1>4 DEF SectionOK, Section, QueueOK, Operations
  <2> QED
    BY <2>1, One, NoSections DEF OfIncluded
<1>8. SectionsOK(OfEntries("property", node.properties))
  <2>1. IsSequence(node.properties) /\ \A i \in DOMAIN node.properties : QueueOK("property", node.properties[i].values)
    BY <1>2 DEF EntriesOver, QueueOK
  <2> QED
    BY <2>1, Entries
<1>9. SectionsOK(OfEntries("reverse", node.reverse))
  <2>1. IsSequence(node.reverse) /\ \A i \in DOMAIN node.reverse : QueueOK("reverse", node.reverse[i].values)
    BY <1>2, <1>4 DEF EntriesOver, QueueOK
  <2> QED
    BY <2>1, Entries
<1>10. SectionsOK(OfTypes(node) \o OfGraph(node))
  BY <1>5, <1>6, Joined
<1>11. SectionsOK(OfTypes(node) \o OfGraph(node) \o OfIncluded(node))
  BY <1>7, <1>10, Joined
<1>12. SectionsOK(OfTypes(node) \o OfGraph(node) \o OfIncluded(node) \o OfEntries("property", node.properties))
  BY <1>8, <1>11, Joined
<1> QED
  BY <1>9, <1>12, Joined DEF Sections
-----------------------------------------------------------------------------
(* The steps.                                                                *)

\* The innermost call is well formed and knows the graph it visits objects in.
LEMMA Innermost ==
    ASSUME IInv, Running
    PROVE  /\ outcome = "running" /\ stack # <<>> /\ StackOK(stack, map) /\ FrameOK(Frame, map)
           /\ MapOK(map) /\ RelabelOK(relabel, issued) /\ NamesOK(names, relabel, issued)
           /\ Frame.active \in DOMAIN map /\ Target(Frame) \in DOMAIN map
<1>1. stack # <<>> /\ StackOK(stack, map) /\ outcome = "running"
  BY DEF IInv, Running
<1>2. Frame = stack[Len(stack)] /\ Len(stack) \in DOMAIN stack
  BY <1>1, Ahead DEF StackOK, Frame
<1>3. FrameOK(Frame, map)
  BY <1>1, <1>2 DEF StackOK
<1>4. Frame.active \in DOMAIN map /\ Target(Frame) \in DOMAIN map
  BY <1>3 DEF FrameOK, Placed, Target
<1> QED
  BY <1>1, <1>3, <1>4 DEF IInv

\* An error leaves everything as it is.
LEMMA Failing ==
    ASSUME IInv, NEW error \in {"UnsupportedTerm", "ConflictingIndexes"}, Fail(error)
    PROVE  IInv'
<1>1. /\ outcome' = error /\ stack' = stack /\ map' = map /\ relabel' = relabel
      /\ issued' = issued /\ names' = names
  BY DEF Fail
<1>2. LookupsDefined' /\ FlattenKeeps'
  BY <1>1 DEF LookupsDefined, FlattenKeeps
<1> QED
  BY <1>1, <1>2 DEF IInv

\* While the calls go on, nothing is said about what is flattened.
LEMMA GoesOn ==
    ASSUME outcome' \in {"running", "mapped", "merged"}, StackOK(stack', map'), MapOK(map'),
           RelabelOK(relabel', issued'), NamesOK(names', relabel', issued')
    PROVE  IInv'
<1>1. LookupsDefined' /\ FlattenKeeps'
  BY DEF LookupsDefined, FlattenKeeps
<1> QED
  BY <1>1 DEF IInv

\* The innermost call changes its state, and the map.
LEMMA Moves ==
    ASSUME IInv, Running, outcome' = outcome, NEW f, Update(f), Steady(Frame, f), FrameOK(f, map'),
           MapOK(map'), Grown(map, map'), RelabelOK(relabel', issued'), NamesOK(names', relabel', issued')
    PROVE  IInv'
<1>1. outcome = "running" /\ stack # <<>> /\ StackOK(stack, map)
  BY Innermost
<1>2. f.active = Last(stack).active /\ f.kind = Last(stack).kind
  BY DEF Steady, Frame
<1>3. StackOK(Append(Front(stack), f), map')
  BY <1>1, <1>2, Updates
<1> QED
  BY <1>1, <1>3, GoesOn DEF Update

LEMMA Unmoved ==
    ASSUME NEW m
    PROVE  Grown(m, m)
  BY DEF Grown

\* The innermost call changes its state and nothing else.
LEMMA Turns ==
    ASSUME IInv, Running, NEW f, Update(f), Steady(Frame, f), FrameOK(f, map),
           UNCHANGED <<map, relabel, issued, names, outcome>>
    PROVE  IInv'
<1>1. MapOK(map) /\ RelabelOK(relabel, issued) /\ NamesOK(names, relabel, issued)
  BY Innermost
<1>2. Grown(map, map')
  BY Unmoved
<1> QED
  BY <1>1, <1>2, Moves

LEMMA ValueVisited ==
    ASSUME IInv, VisitValue
    PROVE  IInv'
<1>1. Visiting("value") /\ Running
  BY DEF VisitValue, Visiting
<1>2. FrameOK(Frame, map)
  BY <1>1, Innermost
<1> DEFINE f == Passed(Frame)
           object == Head(Frame.queue)
<1>3. /\ FrameOK(f, map) /\ Steady(Frame, f)
      /\ f.section = Frame.section
      /\ f.section = "reverse" => object \in NodeObjects
  BY <1>1, <1>2, Passes DEF Visiting
<1>4. f.section \notin {"types", "reverse", "between"}
  BY <1>1, <1>3 DEF Visiting, NodeObjects
<1>5. FrameOK(Given(f, object), map) /\ Steady(f, Given(f, object))
  <2> HIDE DEF f, object
  <2> QED
    BY <1>3, <1>4, Gives
<1>6. Update(Given(f, object)) /\ UNCHANGED <<map, relabel, issued, names, outcome>>
  BY DEF VisitValue
<1> HIDE DEF f, object
<1>7. Steady(Frame, Given(f, object))
  BY <1>3, <1>5 DEF Steady
<1> QED
  BY <1>1, <1>5, <1>6, <1>7, Turns

\* A call is made.
LEMMA CallMade ==
    ASSUME IInv, Running, NEW f, Call(f), outcome' = outcome, Frame.queue # <<>>,
           f.active = Target(Frame), Frame.section \notin {"types", "between"},
           Frame.section = "reverse" => Frame.collected = <<>> /\ f.kind = "node",
           FrameOK(f, map'), MapOK(map'), Grown(map, map'),
           RelabelOK(relabel', issued'), NamesOK(names', relabel', issued')
    PROVE  IInv'
<1>1. outcome = "running" /\ stack # <<>> /\ StackOK(stack, map)
  BY Innermost
<1>2. StackOK(stack, map')
  BY <1>1, StackGrown
<1>3. Fits(Last(stack), f)
  BY DEF Fits, Frame
<1>4. StackOK(Append(stack, f), map')
  BY <1>1, <1>2, <1>3, Calls
<1> QED
  BY <1>1, <1>4, GoesOn DEF Call

LEMMA ListVisited ==
    ASSUME IInv, VisitList
    PROVE  IInv'
<1>1. Visiting("list") /\ Running
  BY DEF VisitList, Visiting
<1>2. FrameOK(Frame, map) /\ Target(Frame) \in DOMAIN map
      /\ MapOK(map) /\ RelabelOK(relabel, issued) /\ NamesOK(names, relabel, issued)
  BY <1>1, Innermost
<1> DEFINE list == Head(Frame.queue)
           f == CallOn("list", Target(Frame), None, list.index, "items", list.items, <<>>)
<1>3. list.kind = "list" /\ Frame.section \notin {"types", "between"} /\ Frame.queue # <<>>
  BY <1>1 DEF Visiting
<1>4. list \in Objects /\ (Frame.section = "reverse" => list \in NodeObjects)
  BY <1>2, <1>3, Passes
<1>5. Frame.section # "reverse" /\ list.items \in Seq(Objects)
  BY <1>3, <1>4, NodeMapAssumption DEF NodeObjects, WellFormed
<1>6. /\ DOMAIN f = FrameFields
      /\ f.kind = "list" /\ f.active = Target(Frame) /\ f.section = "items" /\ f.queue = list.items
      /\ f.collected = <<>> /\ f.sections = <<>>
  BY DEF CallOn, FrameFields
<1>7. Call(f) /\ UNCHANGED <<map, relabel, issued, names, outcome>>
  BY DEF VisitList
<1> HIDE DEF list, f
<1>8. FrameOK(f, map)
  BY <1>2, <1>5, <1>6, NoSections, EmptySequence DEF FrameOK, Sectioned, Kinds, QueueOK, Placed, Subject
<1>9. Grown(map, map')
  BY <1>7, Unmoved
<1> QED
  BY <1>1, <1>2, <1>3, <1>5, <1>6, <1>7, <1>8, <1>9, CallMade
\* A node object is named as it is declared.
LEMMA NodeNames ==
    ASSUME NEW ns, NEW r, NEW n, RelabelOK(r, n), NamesOK(ns, r, n), NEW node \in NodeObjects, NEW env, NEW id,
           env = IF node.id = None THEN [relabel |-> r, issued |-> n + 1]
                 ELSE Assigned([relabel |-> r, issued |-> n], node.id),
           id = IF node.id = None THEN NextId(n) ELSE Relabelled(env, node.id),
           ~Exhausted(env)
    PROVE  /\ RelabelOK(env.relabel, env.issued)
           /\ NameOK(Label(node), id, env.relabel, env.issued) /\ id \in Identifiers
           /\ NamesOK(IF Label(node) \in DOMAIN ns THEN ns ELSE Put(ns, Label(node), id), env.relabel, env.issued)
<1>2. node \in Objects /\ node.kind = "node" /\ WellFormed(node)
  BY NodeMapAssumption DEF NodeObjects
<1>3. node.id \in Identifiers \cup {None}
  BY <1>2 DEF WellFormed
<1>4. /\ RelabelOK(env.relabel, env.issued) /\ NamesOK(ns, env.relabel, env.issued)
      /\ NameOK(Label(node), id, env.relabel, env.issued)
      /\ Label(node) \in Objects => \A k \in DOMAIN ns \cap Objects : ns[k] # id
  <2>1. CASE node.id = None
    <3>1. env.relabel = r /\ env.issued = n + 1 /\ id = NextId(n) /\ Label(node) = node
      BY <2>1 DEF Label
    <3>2. n \in Nat /\ n + 1 <= Len(Generated)
      <4>1. n \in 0 .. Len(Generated) /\ Len(Generated) \in Nat
        BY NodeMapAssumption DEF RelabelOK
      <4>2. ~(n + 1 > Len(Generated))
        BY <3>1 DEF Exhausted
      <4> QED
        BY <4>1, <4>2
    <3>3. /\ n + 1 \in 0 .. Len(Generated) /\ id \in Drawn(n + 1) /\ id \notin Drawn(n)
          /\ Drawn(n) \subseteq Drawn(n + 1)
      BY <3>1, <3>2, Fresh
    <3>4. RelabelOK(r, n + 1)
      BY <3>3 DEF RelabelOK
    <3>5. NamesOK(ns, r, n + 1)
      BY <3>3, NamesStay
    <3>6. \A k \in DOMAIN ns \cap Objects : ns[k] # id
      BY <3>3 DEF NamesOK, NameOK
    <3>7. \A b \in DOMAIN r : r[b] # id
      BY <3>3 DEF RelabelOK
    <3>8. NameOK(node, id, r, n + 1)
      <4>1. node \notin Identifiers /\ Iris \subseteq Identifiers /\ Blanks \subseteq Identifiers
        BY <1>2, NodeMapAssumption DEF Identifiers
      <4> QED
        BY <1>2, <3>3, <3>7, <4>1 DEF NameOK
    <3> QED
      BY <3>1, <3>4, <3>5, <3>6, <3>8
  <2>2. CASE node.id # None
    <3>1. env = Assigned([relabel |-> r, issued |-> n], node.id)
          /\ id = Relabelled(env, node.id) /\ Label(node) = node.id
      BY <2>2 DEF Label
    <3>2. /\ RelabelOK(env.relabel, env.issued) /\ NamesOK(ns, env.relabel, env.issued)
          /\ node.id \in Blanks => node.id \in DOMAIN env.relabel /\ id = env.relabel[node.id]
          /\ node.id \notin Blanks => id = node.id
      <4>1. ~Exhausted(env) /\ RelabelOK(r, n) /\ NamesOK(ns, r, n)
        OBVIOUS
      <4>2. /\ RelabelOK(env.relabel, env.issued) /\ NamesOK(ns, env.relabel, env.issued)
            /\ node.id \in Blanks => node.id \in DOMAIN env.relabel /\ Relabelled(env, node.id) = env.relabel[node.id]
            /\ node.id \notin Blanks => Relabelled(env, node.id) = node.id
        BY ONLY <3>1, <4>1, Assigns
      <4> QED
        BY ONLY <3>1, <4>2
    <3>3. node.id \in Identifiers
      BY <1>3, <2>2
    <3>4. NameOK(node.id, id, env.relabel, env.issued) /\ node.id \notin Objects
      BY <3>2, <3>3, NodeMapAssumption DEF NameOK, Identifiers
    <3> QED
      BY <3>1, <3>2, <3>4
  <2> QED
    BY <2>1, <2>2
<1>5. NamesOK(IF Label(node) \in DOMAIN ns THEN ns ELSE Put(ns, Label(node), id), env.relabel, env.issued)
  <2>1. CASE Label(node) \in DOMAIN ns
    BY <1>4, <2>1
  <2>2. CASE Label(node) \notin DOMAIN ns
    BY <1>4, <2>2, Naming
  <2> QED
    BY <2>1, <2>2
<1>6. id \in Identifiers
  <2>1. Drawn(env.issued) \subseteq Blanks /\ \A b \in DOMAIN env.relabel : env.relabel[b] \in Blanks
    BY <1>4, DrawnBlank DEF RelabelOK
  <2> QED
    BY <1>4, <2>1 DEF NameOK, Identifiers
<1> QED
  BY <1>4, <1>5, <1>6

LEMMA NodeVisited ==
    ASSUME IInv, VisitNode
    PROVE  IInv'
<1>1. Visiting("node") /\ Running
  BY DEF VisitNode, Visiting
<1>2. FrameOK(Frame, map) /\ Target(Frame) \in DOMAIN map /\ MapOK(map) /\ outcome = "running"
  BY <1>1, Innermost
<1> DEFINE node == Head(Frame.queue)
           active == Target(Frame)
           env == IF node.id = None THEN [Env EXCEPT !.issued = @ + 1] ELSE Assigned(Env, node.id)
           id == IF node.id = None THEN NextId(issued) ELSE Relabelled(env, node.id)
           f == CallOn("node", active, id, None, "between", <<>>, Sections(node))
<1>3. node.kind = "node" /\ Frame.section \notin {"types", "between"} /\ Frame.queue # <<>>
      /\ (Frame.section = "reverse" => Frame.collected = <<>>)
  BY <1>1 DEF Visiting
<1>4. node \in NodeObjects
  BY <1>2, <1>3, Passes DEF NodeObjects
<1>5. \/ Fail("UnsupportedTerm") \/ Fail("ConflictingIndexes")
      \/ /\ ~Exhausted(env) /\ relabel' = env.relabel /\ issued' = env.issued
         /\ map' = [map EXCEPT ![active] = WithNode(@, id, node.index)]
         /\ names' = IF Label(node) \in DOMAIN names THEN names ELSE Put(names, Label(node), id)
         /\ Call(f) /\ outcome' = outcome
  BY <1>2 DEF VisitNode
<1>6. CASE Fail("UnsupportedTerm") \/ Fail("ConflictingIndexes")
  BY <1>6, Failing
<1>7. CASE /\ ~Exhausted(env) /\ relabel' = env.relabel /\ issued' = env.issued
           /\ map' = [map EXCEPT ![active] = WithNode(@, id, node.index)]
           /\ names' = IF Label(node) \in DOMAIN names THEN names ELSE Put(names, Label(node), id)
           /\ Call(f) /\ outcome' = outcome
  <2>1. RelabelOK(relabel', issued') /\ NamesOK(names', relabel', issued') /\ id # Default
    <3>1. RelabelOK(relabel, issued) /\ NamesOK(names, relabel, issued)
      BY <1>1, Innermost
    <3>2. /\ env = IF node.id = None THEN [relabel |-> relabel, issued |-> issued + 1]
                   ELSE Assigned([relabel |-> relabel, issued |-> issued], node.id)
          /\ id = IF node.id = None THEN NextId(issued) ELSE Relabelled(env, node.id)
      BY DEF Env
    <3> HIDE DEF env, id, node
    <3>3. /\ RelabelOK(env.relabel, env.issued) /\ id \in Identifiers
          /\ NamesOK(IF Label(node) \in DOMAIN names THEN names ELSE Put(names, Label(node), id), env.relabel, env.issued)
      BY <1>4, <1>7, <3>1, <3>2, NodeNames
    <3> QED
      BY <1>7, <3>3, NodeMapAssumption
  <2>2. /\ DOMAIN f = FrameFields
        /\ f.kind = "node" /\ f.active = active /\ f.id = id /\ f.section = "between" /\ f.queue = <<>>
        /\ f.collected = <<>> /\ f.sections = Sections(node)
    BY DEF CallOn, FrameFields
  <2>3. SectionsOK(Sections(node))
    BY <1>4, SectionsAre
  <2> HIDE DEF node, active, env, id
  <2>4. active \in DOMAIN map
    BY <1>2 DEF active
  <2>5. MapOK(map') /\ Grown(map, map') /\ id \in DOMAIN map'[active] /\ active \in DOMAIN map'
    <3>1. map' = [map EXCEPT ![active] = WithNode(@, id, node.index)]
      BY <1>7
    <3>2. MapOK(map') /\ Grown(map, map') /\ id \in DOMAIN map'[active]
      BY <1>2, <2>4, <3>1, Declares
    <3> QED
      BY <2>4, <3>2 DEF Grown
  <2> HIDE DEF f
  <2>6. <<>> \in Seq(Objects)
    OBVIOUS
  <2>7. FrameOK(f, map')
    BY <2>1, <2>2, <2>3, <2>5, <2>6, EmptySequence DEF FrameOK, Sectioned, Kinds, QueueOK, Placed, Subject
  <2>8. f.active = Target(Frame)
    BY <2>2 DEF active
  <2> QED
    BY <1>1, <1>3, <1>7, <2>1, <2>2, <2>5, <2>7, <2>8, CallMade
<1> QED
  BY <1>5, <1>6, <1>7

LEMMA Left ==
    ASSUME IInv, Leave
    PROVE  IInv'
<1>1. Running /\ Len(stack) > 1 /\ stack # <<>>
  BY DEF Leave, Running
<1>2. StackOK(stack, map) /\ outcome = "running" /\ MapOK(map)
      /\ RelabelOK(relabel, issued) /\ NamesOK(names, relabel, issued)
  BY <1>1, Innermost
<1> DEFINE before == Front(stack)
           caller == Last(before)
           object == Returned(Frame)
           passed == Passed(caller)
           f == Given(passed, object)
<1>3. /\ StackOK(before, map) /\ before # <<>>
      /\ FrameOK(caller, map) /\ FrameOK(Frame, map) /\ Fits(caller, Frame)
  BY <1>1, <1>2, Callers DEF Frame
<1>4. /\ stack' = Append(Front(before), f)
      /\ map' = map /\ relabel' = relabel /\ issued' = issued /\ names' = names /\ outcome' = outcome
  BY DEF Leave
<1> HIDE DEF before
<1>5. caller.section = "reverse" => caller.collected = <<>> /\ object.id \in DOMAIN map[caller.active]
  <2>1. ASSUME caller.section = "reverse"
        PROVE  /\ caller.collected = <<>> /\ Frame.kind = "node"
               /\ Frame.active = caller.active
    BY <1>3, <2>1 DEF Fits, Target
  <2>2. Frame.kind = "node" => object.id = Frame.id /\ Frame.id \in DOMAIN map[Frame.active]
    BY <1>3 DEF Returned, Reference, FrameOK, Placed
  <2> QED
    BY <2>1, <2>2
<1>6. caller.section \notin {"types", "between"} /\ caller.queue # <<>>
  BY <1>3 DEF Fits
<1>7. FrameOK(f, map) /\ Steady(caller, f)
  <2> HIDE DEF caller, object
  <2>1. /\ FrameOK(passed, map) /\ Steady(caller, passed)
        /\ passed.section = caller.section /\ passed.collected = caller.collected
    BY <1>3, <1>6, Passes
  <2>2. FrameOK(f, map) /\ Steady(passed, f)
    <3>1. passed.section \notin {"types", "between"}
      BY <1>6, <2>1
    <3>2. passed.section = "reverse" => passed.collected = <<>> /\ object.id \in DOMAIN map[passed.active]
      BY <1>5, <2>1 DEF Steady
    <3> HIDE DEF passed
    <3> QED
      BY <2>1, <3>1, <3>2, Gives
  <2> QED
    BY <2>1, <2>2 DEF Steady
<1>8. StackOK(Append(Front(before), f), map)
  <2>1. f.active = Last(before).active /\ f.kind = Last(before).kind
    BY <1>7 DEF Steady
  <2> HIDE DEF f
  <2> QED
    BY <1>3, <1>7, <2>1, Unmoved, Updates
<1> QED
  BY <1>2, <1>4, <1>8, GoesOn

LEMMA Begun ==
    ASSUME IInv, Begin
    PROVE  IInv'
<1> DEFINE f == Entered(Frame, Head(Frame.sections).property)
<1>1. /\ Running /\ Frame.section = "between" /\ Frame.sections # <<>>
      /\ Head(Frame.sections).op # "graph"
  BY DEF Begin, Before, In
<1>2. FrameOK(Frame, map)
  BY <1>1, Innermost
<1>3. FrameOK(f, map) /\ Steady(Frame, f)
  BY <1>1, <1>2, Enters
<1>4. Update(f) /\ UNCHANGED <<map, relabel, issued, names, outcome>>
  BY DEF Begin
<1> HIDE DEF f
<1> QED
  BY <1>1, <1>3, <1>4, Turns

LEMMA SectionEnded ==
    ASSUME IInv, End
    PROVE  IInv'
<1> DEFINE f == Ended(Frame)
<1>1. Running /\ Frame.section # "items" /\ Frame.queue = <<>>
  BY DEF End, Over, In
<1>2. FrameOK(Frame, map)
  BY <1>1, Innermost
<1>3. FrameOK(f, map) /\ Steady(Frame, f)
  BY <1>1, <1>2, Ends
<1>4. Update(f) /\ UNCHANGED <<map, relabel, issued, names, outcome>>
  BY DEF End
<1> HIDE DEF f
<1> QED
  BY <1>1, <1>3, <1>4, Turns

LEMMA TypeRelabelled ==
    ASSUME IInv, RelabelType
    PROVE  IInv'
<1> DEFINE type == Head(Frame.queue)
           env == Assigned(Env, type)
           f == Given(Passed(Frame), Relabelled(env, type))
<1>1. Running /\ Frame.section = "types" /\ Frame.queue # <<>>
  BY DEF RelabelType, In
<1>2. FrameOK(Frame, map) /\ MapOK(map) /\ RelabelOK(relabel, issued) /\ NamesOK(names, relabel, issued)
  BY <1>1, Innermost
<1>3. \/ Fail("UnsupportedTerm")
      \/ /\ ~Exhausted(env) /\ relabel' = env.relabel /\ issued' = env.issued
         /\ Update(f) /\ map' = map /\ names' = names /\ outcome' = outcome
  BY DEF RelabelType
<1>4. CASE ~Exhausted(env) /\ relabel' = env.relabel /\ issued' = env.issued
           /\ Update(f) /\ map' = map /\ names' = names /\ outcome' = outcome
  <2>1. RelabelOK(relabel', issued') /\ NamesOK(names', relabel', issued')
    <3>1. env = Assigned([relabel |-> relabel, issued |-> issued], type)
      BY DEF Env
    <3> HIDE DEF env, type
    <3>2. RelabelOK(env.relabel, env.issued) /\ NamesOK(names, env.relabel, env.issued)
      BY <1>2, <1>4, <3>1, Assigns
    <3> QED
      BY <1>4, <3>2
  <2>2. FrameOK(Passed(Frame), map) /\ Steady(Frame, Passed(Frame)) /\ Passed(Frame).section = "types"
    BY <1>1, <1>2, Passes
  <2>5. Relabelled(env, type) \in Identifiers
    <3>1. type \in Identifiers
      BY <1>1, <1>2, Passes
    <3>2. \A b \in DOMAIN env.relabel : env.relabel[b] \in Blanks
      BY <1>4, <2>1, DrawnBlank DEF RelabelOK
    <3>3. env = Assigned([relabel |-> relabel, issued |-> issued], type)
      BY DEF Env
    <3> HIDE DEF env, type
    <3>4. /\ type \in Blanks => type \in DOMAIN env.relabel /\ Relabelled(env, type) = env.relabel[type]
          /\ type \notin Blanks => Relabelled(env, type) = type
      BY <1>2, <1>4, <3>3, Assigns
    <3> QED
      BY <3>1, <3>2, <3>4 DEF Identifiers
  <2>3. FrameOK(f, map) /\ Steady(Passed(Frame), f)
    <3> HIDE DEF env, type
    <3> QED
      BY <2>2, <2>5, Gives
  <2>4. Steady(Frame, f)
    BY <2>2, <2>3 DEF Steady
  <2> HIDE DEF f
  <2> QED
    BY <1>1, <1>2, <1>4, <2>1, <2>3, <2>4, Unmoved, Moves
<1> QED
  BY <1>3, <1>4, Failing

LEMMA PropertyRelabelled ==
    ASSUME IInv, RelabelProperty
    PROVE  IInv'
<1> DEFINE property == Head(Frame.sections).property
           env == Assigned(Env, property)
           f == Entered(Frame, Relabelled(env, property))
<1>1. Running /\ Frame.section = "between" /\ Frame.sections # <<>> /\ Head(Frame.sections).op # "graph"
  BY DEF RelabelProperty, Before, In
<1>2. FrameOK(Frame, map) /\ MapOK(map) /\ RelabelOK(relabel, issued) /\ NamesOK(names, relabel, issued)
  BY <1>1, Innermost
<1>3. \/ Fail("UnsupportedTerm")
      \/ /\ ~Exhausted(env) /\ relabel' = env.relabel /\ issued' = env.issued
         /\ Update(f) /\ map' = map /\ names' = names /\ outcome' = outcome
  BY DEF RelabelProperty
<1>4. CASE ~Exhausted(env) /\ relabel' = env.relabel /\ issued' = env.issued
           /\ Update(f) /\ map' = map /\ names' = names /\ outcome' = outcome
  <2>1. RelabelOK(relabel', issued') /\ NamesOK(names', relabel', issued')
    <3>1. env = Assigned([relabel |-> relabel, issued |-> issued], property)
      BY DEF Env
    <3> HIDE DEF env, property
    <3>2. RelabelOK(env.relabel, env.issued) /\ NamesOK(names, env.relabel, env.issued)
      BY <1>2, <1>4, <3>1, Assigns
    <3> QED
      BY <1>4, <3>2
  <2>2. FrameOK(f, map) /\ Steady(Frame, f)
    BY <1>1, <1>2, Enters
  <2> HIDE DEF f
  <2> QED
    BY <1>1, <1>2, <1>4, <2>1, <2>2, Unmoved, Moves
<1> QED
  BY <1>3, <1>4, Failing
LEMMA GraphDeclared ==
    ASSUME IInv, DeclareGraph
    PROVE  IInv'
<1> DEFINE f == Entered(Frame, None)
<1>1. Running /\ Frame.section = "between" /\ Frame.sections # <<>>
  BY DEF DeclareGraph, Before, In
<1>2. FrameOK(Frame, map) /\ MapOK(map) /\ RelabelOK(relabel, issued) /\ NamesOK(names, relabel, issued)
  BY <1>1, Innermost
<1>3. /\ Update(f) /\ UNCHANGED <<relabel, issued, names, outcome>>
      /\ map' = IF Frame.id \in DOMAIN map THEN map ELSE Put(map, Frame.id, Empty)
  BY DEF DeclareGraph
<1>4. MapOK(map') /\ Grown(map, map') /\ Frame.id \in DOMAIN map'
  BY <1>2, <1>3, Opens, Unmoved
<1>5. FrameOK(Frame, map')
  BY <1>2, <1>4, FrameGrown
<1>6. FrameOK(f, map') /\ Steady(Frame, f)
  BY <1>1, <1>4, <1>5, Enters
<1> HIDE DEF f
<1> QED
  BY <1>1, <1>2, <1>3, <1>4, <1>6, Moves

\* A node that is looked up is there, and changes.
LEMMA Changed ==
    ASSUME IInv, Running, NEW id \in DOMAIN map[Frame.active], NEW node, NodeOK(node, id, map),
           NEW f, FrameOK(f, map), Steady(Frame, f), Change(id, node, f)
    PROVE  IInv'
<1>1. Frame.active \in DOMAIN map /\ MapOK(map) /\ RelabelOK(relabel, issued) /\ NamesOK(names, relabel, issued)
  BY Innermost
<1>2. /\ map' = [map EXCEPT ![Frame.active] = [@ EXCEPT ![id] = node]]
      /\ Update(f) /\ UNCHANGED <<relabel, issued, names, outcome>>
  BY <1>1 DEF Change, Found
<1>3. MapOK(map') /\ Grown(map, map')
  BY <1>1, <1>2, Changes
<1>4. FrameOK(f, map')
  BY <1>3, FrameGrown
<1> QED
  BY <1>1, <1>2, <1>3, <1>4, Moves

LEMMA LookedUp ==
    ASSUME IInv, Running, NEW id \in DOMAIN map[Frame.active]
    PROVE  NodeOK(Looked(id), id, map)
  BY Innermost DEF Looked, MapOK

\* A node object in a section of its own is declared.
LEMMA Itself ==
    ASSUME IInv, Running, Frame.section # "items"
    PROVE  /\ FrameOK(Frame, map) /\ Frame.id \in DOMAIN map[Frame.active]
           /\ NodeOK(Looked(Frame.id), Frame.id, map)
           /\ Frame.section = "graph" => Frame.id \in DOMAIN map \ {Default}
<1>1. FrameOK(Frame, map)
  BY Innermost
<1>2. Frame.kind = "node"
  BY <1>1 DEF FrameOK, Sectioned
<1>3. /\ Frame.id \in DOMAIN map[Frame.active]
      /\ Frame.section = "graph" => Frame.id \in DOMAIN map \ {Default}
  BY <1>1, <1>2 DEF FrameOK, Placed
<1> QED
  BY <1>1, <1>3, LookedUp

\* The objects of a node for a property, after some are inserted.
LEMMA ListedAre ==
    ASSUME NEW node, Neat(node), NEW property
    PROVE  IsSequence(Listed(node, property))
  BY EmptySequence DEF Neat, Listed

LEMMA Inserted ==
    ASSUME NEW node, NEW id, NEW m, NodeOK(node, id, m), NEW property, NEW objects, IsSequence(objects)
    PROVE  NodeOK(WithObjects(node, property, objects), id, m)
<1> DEFINE all == AppendAll(Listed(node, property), objects)
           new == WithObjects(node, property, objects)
<1>1. IsSequence(all)
  BY ListedAre, Appended DEF NodeOK
<1>2. /\ DOMAIN new = DOMAIN node /\ new.types = node.types /\ new.graph = node.graph
      /\ new.properties = Put(node.properties, property, all)
  BY DEF NodeOK, WithObjects
<1> HIDE DEF new, all
<1>3. \A p \in DOMAIN new.properties : IsSequence(new.properties[p])
  BY <1>1, <1>2 DEF Put, NodeOK, Neat
<1>4. NodeOK(new, id, m)
  BY <1>2, <1>3 DEF NodeOK, Neat
<1> QED
  BY <1>4 DEF new

LEMMA TypesChanged ==
    ASSUME NEW node, NEW id, NEW m, NodeOK(node, id, m), NEW types \in Seq(Identifiers)
    PROVE  NodeOK([node EXCEPT !.types = types], id, m)
<1> DEFINE new == [node EXCEPT !.types = types]
<1>1. /\ DOMAIN new = DOMAIN node /\ new.types = types /\ new.graph = node.graph
      /\ new.properties = node.properties
  BY DEF NodeOK
<1> HIDE DEF new
<1>2. NodeOK(new, id, m)
  BY <1>1 DEF NodeOK, Neat
<1> QED
  BY <1>2 DEF new

LEMMA GraphChanged ==
    ASSUME NEW node, NEW id, NEW m, NodeOK(node, id, m), NEW graph, id \in DOMAIN m \ {Default}
    PROVE  NodeOK([node EXCEPT !.graph = graph], id, m)
<1> DEFINE new == [node EXCEPT !.graph = graph]
<1>1. /\ DOMAIN new = DOMAIN node /\ new.types = node.types /\ new.graph = graph
      /\ new.properties = node.properties
  BY DEF NodeOK
<1> HIDE DEF new
<1>2. NodeOK(new, id, m)
  BY <1>1 DEF NodeOK, Neat
<1> QED
  BY <1>2 DEF new

LEMMA TypesSet ==
    ASSUME IInv, SetTypes
    PROVE  IInv'
<1> DEFINE node == [Looked(Frame.id) EXCEPT !.types = Frame.collected]
<1>1. Running /\ Frame.section = "types" /\ Frame.queue = <<>>
  BY DEF SetTypes, Over, In
<1>2. /\ FrameOK(Frame, map) /\ Frame.id \in DOMAIN map[Frame.active]
      /\ NodeOK(Looked(Frame.id), Frame.id, map)
  BY <1>1, Itself
<1>3. NodeOK(node, Frame.id, map)
  <2>1. Frame.collected \in Seq(Identifiers)
    BY <1>1, <1>2 DEF FrameOK, Sectioned
  <2> QED
    BY <1>2, <2>1, TypesChanged
<1>4. FrameOK(Ended(Frame), map) /\ Steady(Frame, Ended(Frame))
  BY <1>1, <1>2, Ends
<1>5. Change(Frame.id, node, Ended(Frame))
  BY DEF SetTypes
<1> HIDE DEF node
<1> QED
  BY <1>1, <1>2, <1>3, <1>4, <1>5, Changed

LEMMA GraphSet ==
    ASSUME IInv, SetGraph
    PROVE  IInv'
<1> DEFINE old == Looked(Frame.id)
           graph == IF old.graph = {} THEN {Frame.collected} ELSE {g \o Frame.collected : g \in old.graph}
           node == [old EXCEPT !.graph = graph]
<1>1. Running /\ Frame.section = "graph" /\ Frame.queue = <<>>
  BY DEF SetGraph, Over, In
<1>2. /\ FrameOK(Frame, map) /\ Frame.id \in DOMAIN map[Frame.active]
      /\ NodeOK(old, Frame.id, map) /\ Frame.id \in DOMAIN map \ {Default}
  BY <1>1, Itself
<1>3. NodeOK(node, Frame.id, map)
  <2> HIDE DEF old, graph
  <2> QED
    BY <1>2, GraphChanged
<1>4. FrameOK(Ended(Frame), map) /\ Steady(Frame, Ended(Frame))
  BY <1>1, <1>2, Ends
<1>5. Change(Frame.id, node, Ended(Frame))
  BY DEF SetGraph
<1> HIDE DEF node
<1> QED
  BY <1>1, <1>2, <1>3, <1>4, <1>5, Changed

LEMMA PropertyInserted ==
    ASSUME IInv, Insert
    PROVE  IInv'
<1> DEFINE node == WithObjects(Looked(Frame.id), Frame.property, Frame.collected)
<1>1. Running /\ Frame.section = "property" /\ Frame.queue = <<>>
  BY DEF Insert, Over, In
<1>2. /\ FrameOK(Frame, map) /\ Frame.id \in DOMAIN map[Frame.active]
      /\ NodeOK(Looked(Frame.id), Frame.id, map)
  BY <1>1, Itself
<1>3. NodeOK(node, Frame.id, map)
  <2>1. IsSequence(Frame.collected)
    BY <1>2 DEF FrameOK, Sectioned
  <2> QED
    BY <1>2, <2>1, Inserted
<1>4. FrameOK(Ended(Frame), map) /\ Steady(Frame, Ended(Frame))
  BY <1>1, <1>2, Ends
<1>5. Change(Frame.id, node, Ended(Frame))
  BY DEF Insert
<1> HIDE DEF node
<1> QED
  BY <1>1, <1>2, <1>3, <1>4, <1>5, Changed

\* The subject a reverse property is about to link is declared.
LEMMA SubjectKnown ==
    ASSUME IInv, Running, Frame.section = "reverse", Frame.collected # <<>>
    PROVE  Last(Frame.collected).id \in DOMAIN map[Frame.active]
<1>1. FrameOK(Frame, map)
  BY Innermost
<1>2. /\ Frame.collected = <<Frame.collected[1]>>
      /\ Frame.collected[1].id \in DOMAIN map[Frame.active]
  BY <1>1 DEF FrameOK, Subject
<1>3. \A x : Last(<<x>>) = x
  BY DEF Last
<1>4. Last(Frame.collected) = Frame.collected[1]
  BY <1>2, <1>3
<1> QED
  BY <1>2, <1>4

LEMMA SubjectLinked ==
    ASSUME IInv, Link
    PROVE  IInv'
<1> DEFINE subject == Last(Frame.collected).id
           node == WithObjects(Looked(subject), Frame.property, <<Reference(Frame.id)>>)
<1>1. Running /\ Frame.section = "reverse" /\ Frame.collected # <<>>
  BY DEF Link, In
<1>2. FrameOK(Frame, map)
  BY <1>1, Innermost
<1>3. subject \in DOMAIN map[Frame.active]
  BY <1>1, SubjectKnown
<1>4. Change(subject, node, Linked(Frame))
  BY DEF Link
<1> HIDE DEF subject
<1>5. NodeOK(node, subject, map)
  <2>1. IsSequence(<<Reference(Frame.id)>>)
    BY Singleton
  <2> QED
    BY <1>1, <1>3, <2>1, LookedUp, Inserted
<1>6. FrameOK(Linked(Frame), map) /\ Steady(Frame, Linked(Frame))
  BY <1>2, Links
<1> HIDE DEF node
<1> QED
  BY <1>1, <1>3, <1>4, <1>5, <1>6, Changed

LEMMA NoCalls ==
    ASSUME NEW m
    PROVE  StackOK(<<>>, m)
<1>1. <<>> \in Seq(ToSet(<<>>))
  OBVIOUS
<1>2. DOMAIN <<>> = {}
  OBVIOUS
<1> QED
  BY <1>1, <1>2 DEF StackOK, IsSequence

LEMMA Finished ==
    ASSUME IInv, Finish
    PROVE  IInv'
<1>1. /\ Running /\ stack' = <<>> /\ outcome' = "mapped"
      /\ map' = map /\ relabel' = relabel /\ issued' = issued /\ names' = names
  BY DEF Finish
<1>2. StackOK(stack', map')
  BY <1>1, NoCalls
<1> QED
  BY <1>1, <1>2, Innermost, GoesOn

LEMMA Merged ==
    ASSUME IInv, Merge
    PROVE  IInv'
<1>1. /\ outcome' = "merged" /\ stack' = stack
      /\ map' = map /\ relabel' = relabel /\ issued' = issued /\ names' = names
  BY DEF Merge
<1> QED
  BY <1>1, GoesOn DEF IInv
-----------------------------------------------------------------------------
(* Flattening.                                                               *)

\* A statement of a graph is made by a node of it.
Makes(nodes, g, s) ==
    \E id \in DOMAIN nodes : \E p \in DOMAIN nodes[id].properties : \E o \in ToSet(nodes[id].properties[p]) :
        s = <<g, id, p, o>>

LEMMA Made ==
    ASSUME NEW g, NEW nodes, NEW s
    PROVE  s \in Statements(g, nodes) <=> Makes(nodes, g, s)
  BY DEF Statements, Makes

\* Two graphs whose nodes have the same properties, but for nodes that have none,
\* say the same.
LEMMA SaySame ==
    ASSUME NEW g, NEW a, NEW b,
           \A id \in DOMAIN a : DOMAIN a[id].properties # {} => id \in DOMAIN b /\ b[id].properties = a[id].properties,
           \A id \in DOMAIN b : DOMAIN b[id].properties # {} => id \in DOMAIN a /\ a[id].properties = b[id].properties
    PROVE  Statements(g, a) = Statements(g, b)
<1>1. ASSUME NEW s, Makes(a, g, s)
      PROVE  Makes(b, g, s)
  <2>1. PICK id \in DOMAIN a : \E p \in DOMAIN a[id].properties : \E o \in ToSet(a[id].properties[p]) :
                s = <<g, id, p, o>>
    BY <1>1 DEF Makes
  <2>2. id \in DOMAIN b /\ b[id].properties = a[id].properties
    BY <2>1
  <2> QED
    BY <2>1, <2>2 DEF Makes
<1>2. ASSUME NEW s, Makes(b, g, s)
      PROVE  Makes(a, g, s)
  <2>1. PICK id \in DOMAIN b : \E p \in DOMAIN b[id].properties : \E o \in ToSet(b[id].properties[p]) :
                s = <<g, id, p, o>>
    BY <1>2 DEF Makes
  <2>2. id \in DOMAIN a /\ a[id].properties = b[id].properties
    BY <2>1
  <2> QED
    BY <2>1, <2>2 DEF Makes
<1> QED
  BY <1>1, <1>2, Made

\* What is left of a named graph says what the graph said.
LEMMA SubGraphKeeps ==
    ASSUME NEW m, MapOK(m), NEW g \in DOMAIN m
    PROVE  Statements(g, SubGraph(m[g])) = Statements(g, m[g])
<1> DEFINE nodes == m[g]
           kept == Pick(nodes, FilterSubGraph)
           sub == SubGraph(nodes)
<1>1. DOMAIN kept = {id \in DOMAIN nodes : FilterSubGraph(nodes[id])} /\ \A id \in DOMAIN kept : kept[id] = nodes[id]
  BY DEF Pick
<1>2. DOMAIN sub = DOMAIN kept /\ \A id \in DOMAIN kept : sub[id] = [kept[id] EXCEPT !.graph = {}]
  BY DEF SubGraph
<1>3. \A id \in DOMAIN nodes : NodeOK(nodes[id], id, m)
  BY DEF MapOK
<1> HIDE DEF nodes, kept, sub
<1>4. \A id \in DOMAIN sub : id \in DOMAIN nodes /\ sub[id].properties = nodes[id].properties
  BY <1>1, <1>2, <1>3 DEF NodeOK
<1>5. \A id \in DOMAIN nodes : DOMAIN nodes[id].properties # {} => id \in DOMAIN sub
  BY <1>1, <1>2 DEF FilterSubGraph
<1>6. Statements(g, sub) = Statements(g, nodes)
  BY <1>4, <1>5, SaySame
<1> QED
  BY <1>6 DEF nodes, sub

\* The nodes of the default graph with those of the graphs, before the filter.
Whole ==
    LET graphs == DOMAIN map \ {Default}
        nodes == [id \in DOMAIN map[Default] \cup graphs |->
                    IF id \in DOMAIN map[Default] THEN map[Default][id] ELSE NewNode(None)]
    IN  [id \in DOMAIN nodes |->
           IF id \in graphs THEN [nodes[id] EXCEPT !.graph = {SubGraph(map[id])}] ELSE nodes[id]]

\* What flatten_with makes of the map.
LEMMA WholeIs ==
    ASSUME MapOK(map)
    PROVE  /\ DOMAIN Whole = DOMAIN map[Default] \cup (DOMAIN map \ {Default})
           /\ \A id \in DOMAIN map \ {Default} : Whole[id].graph = {SubGraph(map[id])}
           /\ \A id \in DOMAIN Whole : id \notin DOMAIN map \ {Default} => Whole[id].graph = {}
           /\ \A id \in DOMAIN Whole : id \notin DOMAIN map[Default] => Whole[id].properties = Empty
           /\ \A id \in DOMAIN map[Default] :
                 /\ Whole[id].properties = map[Default][id].properties
                 /\ Whole[id].types = map[Default][id].types
                 /\ Whole[id].index = map[Default][id].index
<1> DEFINE graphs == DOMAIN map \ {Default}
           old == map[Default]
           node(id) == IF id \in DOMAIN old THEN old[id] ELSE NewNode(None)
<1>1. /\ DOMAIN Whole = DOMAIN old \cup graphs
      /\ \A id \in DOMAIN old \cup graphs :
            Whole[id] = IF id \in graphs THEN [node(id) EXCEPT !.graph = {SubGraph(map[id])}] ELSE node(id)
  BY DEF Whole
<1>2. \A id \in DOMAIN old : NodeOK(old[id], id, map)
  BY DEF MapOK
<1>3. /\ DOMAIN NewNode(None) = {"types", "index", "graph", "properties"}
      /\ NewNode(None).graph = {} /\ NewNode(None).properties = Empty
  BY DEF NewNode
<1>4. \A id \in DOMAIN old \cup graphs :
         /\ DOMAIN node(id) = {"types", "index", "graph", "properties"}
         /\ id \notin graphs => node(id).graph = {}
         /\ id \notin DOMAIN old => node(id).properties = Empty
         /\ id \in DOMAIN old => node(id) = old[id]
  BY <1>2, <1>3 DEF NodeOK
<1> HIDE DEF node, old, graphs
<1>5. \A id \in DOMAIN old \cup graphs :
         /\ Whole[id].types = node(id).types /\ Whole[id].index = node(id).index
         /\ Whole[id].properties = node(id).properties
         /\ id \in graphs => Whole[id].graph = {SubGraph(map[id])}
         /\ id \notin graphs => Whole[id].graph = {}
  BY <1>1, <1>4
<1>6. /\ DOMAIN Whole = DOMAIN old \cup graphs
      /\ \A id \in graphs : Whole[id].graph = {SubGraph(map[id])}
      /\ \A id \in DOMAIN Whole : id \notin graphs => Whole[id].graph = {}
      /\ \A id \in DOMAIN Whole : id \notin DOMAIN old => Whole[id].properties = Empty
      /\ \A id \in DOMAIN old :
            /\ Whole[id].properties = old[id].properties
            /\ Whole[id].types = old[id].types
            /\ Whole[id].index = old[id].index
  BY <1>1, <1>4, <1>5
<1> QED
  BY <1>6 DEF old, graphs

LEMMA Flattens ==
    ASSUME IInv, Flatten
    PROVE  IInv'
<1>1. MapOK(map) /\ StackOK(stack, map) /\ RelabelOK(relabel, issued) /\ NamesOK(names, relabel, issued)
  BY DEF IInv
<1>2. /\ outcome' = "flattened" /\ stack' = stack
      /\ map' = map /\ relabel' = relabel /\ issued' = issued /\ names' = names
      /\ flat' = Pick(Whole, FilterGraph)
  BY DEF Flatten, Whole
<1> DEFINE old == map[Default]
           graphs == DOMAIN map \ {Default}
<1>3. /\ DOMAIN Whole = DOMAIN old \cup graphs
      /\ \A id \in graphs : Whole[id].graph = {SubGraph(map[id])}
      /\ \A id \in DOMAIN Whole : id \notin graphs => Whole[id].graph = {}
      /\ \A id \in DOMAIN Whole : id \notin DOMAIN old => Whole[id].properties = Empty
      /\ \A id \in DOMAIN old :
            /\ Whole[id].properties = old[id].properties
            /\ Whole[id].types = old[id].types
            /\ Whole[id].index = old[id].index
  BY <1>1, WholeIs
<1>4. /\ DOMAIN flat' = {id \in DOMAIN Whole : FilterGraph(Whole[id])}
      /\ \A id \in DOMAIN flat' : flat'[id] = Whole[id]
  BY <1>2 DEF Pick
<1> HIDE DEF old, graphs
<1>5. Statements(Default, flat') = Statements(Default, old)
  <2>1. \A id \in DOMAIN flat' : DOMAIN flat'[id].properties # {} =>
           id \in DOMAIN old /\ old[id].properties = flat'[id].properties
    BY <1>3, <1>4 DEF Empty
  <2>2. \A id \in DOMAIN old : DOMAIN old[id].properties # {} =>
           id \in DOMAIN flat' /\ flat'[id].properties = old[id].properties
    BY <1>3, <1>4 DEF FilterGraph, IsEmpty
  <2> QED
    BY <2>1, <2>2, SaySame
<1>6. \A g \in graphs : g \in DOMAIN flat' /\ flat'[g].graph = {SubGraph(map[g])}
  BY <1>3, <1>4 DEF FilterGraph, IsEmpty
<1>7. \A id \in DOMAIN flat' : id \notin graphs => flat'[id].graph = {}
  BY <1>3, <1>4
<1>8. \A g \in graphs : Statements(g, SubGraph(map[g])) = Statements(g, map[g])
  BY <1>1, SubGraphKeeps DEF graphs
<1>9. \A s : s \in Flattened' <=>
         \/ s \in Statements(Default, flat')
         \/ \E id \in DOMAIN flat' : \E nodes \in flat'[id].graph : s \in Statements(id, nodes)
  BY DEF Flattened
<1>10. \A s : s \in Mapped' <=> \E g \in DOMAIN map : s \in Statements(g, map[g])
  BY <1>2 DEF Mapped
<1>11. DOMAIN map = graphs \cup {Default} /\ old = map[Default]
  BY <1>1 DEF MapOK, graphs, old
<1>12. ASSUME NEW s
       PROVE  s \in Flattened' <=> s \in Mapped'
  <2>1. ASSUME s \in Flattened'
        PROVE  s \in Mapped'
    <3>1. CASE s \in Statements(Default, flat')
      BY <1>5, <1>10, <1>11, <3>1
    <3>2. CASE \E id \in DOMAIN flat' : \E nodes \in flat'[id].graph : s \in Statements(id, nodes)
      <4>1. PICK id \in DOMAIN flat' : \E nodes \in flat'[id].graph : s \in Statements(id, nodes)
        BY <3>2
      <4>2. PICK nodes \in flat'[id].graph : s \in Statements(id, nodes)
        BY <4>1
      <4>3. id \in graphs /\ nodes = SubGraph(map[id])
        BY <1>6, <1>7, <4>1, <4>2
      <4>4. s \in Statements(id, map[id])
        BY <1>8, <4>2, <4>3
      <4> QED
        BY <1>10, <1>11, <4>3, <4>4
    <3> QED
      BY <1>9, <2>1, <3>1, <3>2
  <2>2. ASSUME s \in Mapped'
        PROVE  s \in Flattened'
    <3>1. PICK g \in DOMAIN map : s \in Statements(g, map[g])
      BY <1>10, <2>2
    <3>2. CASE g = Default
      BY <1>5, <1>9, <1>11, <3>1, <3>2
    <3>3. CASE g \in graphs
      <4>1. g \in DOMAIN flat' /\ SubGraph(map[g]) \in flat'[g].graph
        BY <1>6, <3>3
      <4>2. s \in Statements(g, SubGraph(map[g]))
        BY <1>8, <3>1, <3>3
      <4> QED
        BY <1>9, <4>1, <4>2
    <3> QED
      BY <1>11, <3>1, <3>2, <3>3
  <2> QED
    BY <2>1, <2>2
<1>13. Flattened' = Mapped'
  BY <1>12 DEF Flattened, Mapped
<1>14. \A id \in DOMAIN old : old[id].types # None \/ old[id].index # None =>
          /\ id \in DOMAIN flat' /\ flat'[id].types = old[id].types /\ flat'[id].index = old[id].index
  BY <1>3, <1>4 DEF FilterGraph, IsEmpty
<1>15. FlattenKeeps'
  BY <1>2, <1>13, <1>14 DEF FlattenKeeps, old
<1>16. LookupsDefined'
  BY <1>2 DEF LookupsDefined
<1> QED
  BY <1>1, <1>2, <1>15, <1>16 DEF IInv
-----------------------------------------------------------------------------
(* The theorems.                                                             *)

LEMMA Initially == Init => IInv
<1> SUFFICES ASSUME Init
             PROVE  IInv
  OBVIOUS
<1> DEFINE f == CallOn("document", Default, None, None, "items", document, <<>>)
<1>1. /\ stack = <<f>> /\ map = [g \in {Default} |-> Empty] /\ document \in Seq(Objects)
      /\ relabel = Empty /\ issued = 0 /\ names = Empty /\ outcome = "running"
  BY NodeMapAssumption DEF Init
<1>2. DOMAIN map = {Default} /\ DOMAIN map[Default] = {} /\ DOMAIN Empty = {}
  BY <1>1 DEF Empty
<1>3. /\ DOMAIN f = FrameFields
      /\ f.kind = "document" /\ f.active = Default /\ f.section = "items" /\ f.queue = document
      /\ f.collected = <<>> /\ f.sections = <<>>
  BY DEF CallOn, FrameFields
<1> HIDE DEF f
<1>4. FrameOK(f, map)
  BY <1>1, <1>2, <1>3, NoSections, EmptySequence DEF FrameOK, Sectioned, Kinds, QueueOK, Placed, Subject
<1>5. StackOK(stack, map)
  <2>1. IsSequence(<<f>>) /\ DOMAIN <<f>> = {1} /\ <<f>>[1] = f
    <3>1. <<f>> \in Seq({f})
      OBVIOUS
    <3>2. IsSequence(<<f>>)
      BY <3>1, SequenceOver
    <3>3. DOMAIN <<f>> = {1} /\ <<f>>[1] = f
      OBVIOUS
    <3> QED
      BY <3>2, <3>3
  <2> QED
    BY <1>1, <1>4, <2>1 DEF StackOK
<1>6. MapOK(map)
  BY <1>2 DEF MapOK
<1>7. RelabelOK(relabel, issued)
  BY <1>1, <1>2, NodeMapAssumption DEF RelabelOK
<1>8. NamesOK(names, relabel, issued)
  BY <1>1, <1>2 DEF NamesOK
<1>9. LookupsDefined /\ FlattenKeeps
  BY <1>1 DEF LookupsDefined, FlattenKeeps
<1> QED
  BY <1>5, <1>6, <1>7, <1>8, <1>9 DEF IInv

LEMMA Steps == IInv /\ [Next]_vars => IInv'
<1> SUFFICES ASSUME IInv, [Next]_vars
             PROVE  IInv'
  OBVIOUS
<1>1. CASE VisitValue
  BY <1>1, ValueVisited
<1>2. CASE VisitList
  BY <1>2, ListVisited
<1>3. CASE VisitNode
  BY <1>3, NodeVisited
<1>4. CASE Leave
  BY <1>4, Left
<1>5. CASE Begin
  BY <1>5, Begun
<1>6. CASE RelabelType
  BY <1>6, TypeRelabelled
<1>7. CASE SetTypes
  BY <1>7, TypesSet
<1>8. CASE DeclareGraph
  BY <1>8, GraphDeclared
<1>9. CASE SetGraph
  BY <1>9, GraphSet
<1>10. CASE RelabelProperty
  BY <1>10, PropertyRelabelled
<1>11. CASE Insert
  BY <1>11, PropertyInserted
<1>12. CASE Link
  BY <1>12, SubjectLinked
<1>13. CASE End
  BY <1>13, SectionEnded
<1>14. CASE Finish
  BY <1>14, Finished
<1>15. CASE Flatten
  BY <1>15, Flattens
<1>16. CASE Merge
  BY <1>16, Merged
<1>17. CASE UNCHANGED vars
  <2>1. /\ stack' = stack /\ map' = map /\ relabel' = relabel /\ issued' = issued /\ names' = names
        /\ outcome' = outcome /\ flat' = flat
    BY <1>17 DEF vars
  <2>2. FlattenKeeps'
    BY <2>1 DEF IInv, FlattenKeeps, Flattened, Mapped
  <2> QED
    BY <2>1, <2>2 DEF IInv, LookupsDefined
<1> QED
  BY <1>1, <1>2, <1>3, <1>4, <1>5, <1>6, <1>7, <1>8, <1>9, <1>10, <1>11, <1>12, <1>13, <1>14, <1>15, <1>16, <1>17
     DEF Next

\* The invariant is inductive: a behaviour of the specification never leaves it.
THEOREM Invariance == Spec => []IInv
  BY Initially, Steps, PTL DEF Spec

\* The lookups of extend_node_map_from_node that the code does not check find
\* their graph and their node, whatever the document and the identifiers.
THEOREM Lookups == Spec => []LookupsDefined
<1>1. IInv => LookupsDefined
  BY DEF IInv
<1> QED
  BY <1>1, Invariance, PTL

\* assign_node_id never gives two node objects with different identifiers, or
\* without any, one identifier, and never renames an IRI: at every moment of the
\* generation, and whichever identifiers the generator draws.
THEOREM Distinctness == Spec => []DistinctNodes
<1>1. IInv => DistinctNodes
  BY Apart DEF IInv, DistinctNodes
<1> QED
  BY <1>1, Invariance, PTL

\* flatten_with keeps every statement of the map, and the types and index of the
\* nodes of the default graph.
THEOREM Flattening == Spec => []FlattenKeeps
<1>1. IInv => FlattenKeeps
  BY DEF IInv
<1> QED
  BY <1>1, Invariance, PTL

-----------------------------------------------------------------------------
(* Merging.                                                                  *)

\* Every graph that is declared, and no other, is in the map.
DeclaredOK(graphs, m) == IsSequence(graphs) /\ DOMAIN m = ToSet(graphs) \cup {Default}

MergeInv == DeclaredOK(declared, map) /\ MergeKeeps

\* What a node says, and what types it has.
SaidOf(nodes, id, p, o) ==
    id \in DOMAIN nodes /\ p \in DOMAIN nodes[id].properties /\ o \in ToSet(nodes[id].properties[p])
TypedAs(nodes, id, t) == id \in DOMAIN nodes /\ t \in ToSet(Types(nodes[id]))

AllNeat(nodes) == \A id \in DOMAIN nodes : Neat(nodes[id])

\* A node that is merged with another says what they both do.
LEMMA NodesMerged ==
    ASSUME NEW a, Neat(a), NEW b, Neat(b)
    PROVE  LET c == MergeNode(a, b)
           IN  /\ Neat(c)
               /\ ToSet(Types(c)) = ToSet(Types(a)) \cup ToSet(Types(b))
               /\ DOMAIN c.properties = DOMAIN a.properties \cup DOMAIN b.properties
               /\ \A p \in DOMAIN c.properties :
                     ToSet(c.properties[p]) = ToSet(Listed(a, p)) \cup ToSet(Listed(b, p))
<1> DEFINE c == MergeNode(a, b)
<1>1. c.types = (IF b.types = None THEN a.types ELSE Types(a) \o b.types) /\ c.properties = ExtendUnique(a, b)
  BY DEF MergeNode
<1> HIDE DEF c
<1>2. Types(a) \in Seq(Identifiers) /\ Types(b) \in Seq(Identifiers)
  <2>1. <<>> \in Seq(Identifiers)
    OBVIOUS
  <2> QED
    BY <2>1 DEF Types, Neat
<1>3. /\ c.types = None \/ c.types \in Seq(Identifiers)
      /\ ToSet(Types(c)) = ToSet(Types(a)) \cup ToSet(Types(b))
  <2>1. CASE b.types = None
    <3>1. c.types = a.types /\ Types(c) = Types(a) /\ Types(b) = <<>>
      BY <1>1, <2>1 DEF Types
    <3> QED
      BY <3>1, EmptySequence DEF Neat
  <2>2. CASE b.types # None
    <3>1. c.types = Types(a) \o Types(b)
      BY <1>1, <2>2 DEF Types
    <3>2. c.types \in Seq(Identifiers)
      BY <1>2, <3>1
    <3>3. Types(c) = c.types
      BY <3>2, NodeMapAssumption DEF Types
    <3>4. IsSequence(Types(a)) /\ IsSequence(Types(b))
      BY <1>2, SequenceOver
    <3> QED
      BY <3>1, <3>2, <3>3, <3>4, Joining
  <2> QED
    BY <2>1, <2>2
<1>4. \A p : IsSequence(Listed(a, p)) /\ IsSequence(Listed(b, p))
  BY ListedAre
<1>5. /\ DOMAIN c.properties = DOMAIN a.properties \cup DOMAIN b.properties
      /\ \A p \in DOMAIN c.properties : c.properties[p] = AppendAll(Listed(a, p), Listed(b, p))
  BY <1>1 DEF ExtendUnique
<1>6. \A p \in DOMAIN c.properties :
         /\ IsSequence(c.properties[p])
         /\ ToSet(c.properties[p]) = ToSet(Listed(a, p)) \cup ToSet(Listed(b, p))
  BY <1>4, <1>5, Appended
<1>7. Neat(c)
  BY <1>3, <1>6 DEF Neat
<1> QED
  BY <1>3, <1>5, <1>6, <1>7 DEF c

\* Two graphs merged say what they both say.
LEMMA TwoMerged ==
    ASSUME NEW a, AllNeat(a), NEW b, AllNeat(b)
    PROVE  /\ AllNeat(MergeWith(a, b))
           /\ DOMAIN MergeWith(a, b) = DOMAIN a \cup DOMAIN b
           /\ \A id, p, o : SaidOf(MergeWith(a, b), id, p, o) <=> SaidOf(a, id, p, o) \/ SaidOf(b, id, p, o)
           /\ \A id, t : TypedAs(MergeWith(a, b), id, t) <=> TypedAs(a, id, t) \/ TypedAs(b, id, t)
<1> DEFINE c == MergeWith(a, b)
<1>1. /\ DOMAIN c = DOMAIN a \cup DOMAIN b
      /\ \A id \in DOMAIN c :
            /\ id \notin DOMAIN b => c[id] = a[id]
            /\ id \notin DOMAIN a => c[id] = b[id]
            /\ id \in DOMAIN a /\ id \in DOMAIN b => c[id] = MergeNode(a[id], b[id])
  BY DEF MergeWith
<1> HIDE DEF c
<1>2. ASSUME NEW id \in DOMAIN a, id \in DOMAIN b
      PROVE  /\ Neat(c[id])
             /\ ToSet(Types(c[id])) = ToSet(Types(a[id])) \cup ToSet(Types(b[id]))
             /\ DOMAIN c[id].properties = DOMAIN a[id].properties \cup DOMAIN b[id].properties
             /\ \A p \in DOMAIN c[id].properties :
                   ToSet(c[id].properties[p]) = ToSet(Listed(a[id], p)) \cup ToSet(Listed(b[id], p))
  <2>1. c[id] = MergeNode(a[id], b[id]) /\ Neat(a[id]) /\ Neat(b[id])
    BY <1>1, <1>2 DEF AllNeat
  <2> QED
    BY <2>1, NodesMerged
<1>3. AllNeat(c)
  BY <1>1, <1>2 DEF AllNeat
<1>4. ASSUME NEW id, NEW p, NEW o
      PROVE  SaidOf(c, id, p, o) <=> SaidOf(a, id, p, o) \/ SaidOf(b, id, p, o)
  <2>1. CASE id \in DOMAIN a /\ id \in DOMAIN b
    <3>1. \A n : o \in ToSet(Listed(n, p)) <=> p \in DOMAIN n.properties /\ o \in ToSet(n.properties[p])
      BY EmptySequence DEF Listed
    <3> QED
      BY <1>1, <1>2, <2>1, <3>1 DEF SaidOf
  <2>2. CASE ~(id \in DOMAIN a /\ id \in DOMAIN b)
    BY <1>1, <2>2 DEF SaidOf
  <2> QED
    BY <2>1, <2>2
<1>5. ASSUME NEW id, NEW t
      PROVE  TypedAs(c, id, t) <=> TypedAs(a, id, t) \/ TypedAs(b, id, t)
  <2>1. CASE id \in DOMAIN a /\ id \in DOMAIN b
    BY <1>1, <1>2, <2>1 DEF TypedAs
  <2>2. CASE ~(id \in DOMAIN a /\ id \in DOMAIN b)
    BY <1>1, <2>2 DEF TypedAs
  <2> QED
    BY <2>1, <2>2
<1> QED
  BY <1>1, <1>3, <1>4, <1>5 DEF c

\* What has been merged after a number of graphs.
MergedSoFar(nodes, m, S) ==
    /\ AllNeat(nodes)
    /\ DOMAIN nodes = UNION {DOMAIN m[g] : g \in S}
    /\ \A id, p, o : SaidOf(nodes, id, p, o) <=> \E g \in S : SaidOf(m[g], id, p, o)
    /\ \A id, t : TypedAs(nodes, id, t) <=> \E g \in S : TypedAs(m[g], id, t)

LEMMA OneMore ==
    ASSUME NEW nodes, NEW m, NEW S, MergedSoFar(nodes, m, S), NEW g, AllNeat(m[g])
    PROVE  MergedSoFar(MergeWith(nodes, m[g]), m, S \cup {g})
<1>1. AllNeat(nodes)
  BY DEF MergedSoFar
<1> DEFINE new == MergeWith(nodes, m[g])
<1>2. /\ AllNeat(new) /\ DOMAIN new = DOMAIN nodes \cup DOMAIN m[g]
      /\ \A id, p, o : SaidOf(new, id, p, o) <=> SaidOf(nodes, id, p, o) \/ SaidOf(m[g], id, p, o)
      /\ \A id, t : TypedAs(new, id, t) <=> TypedAs(nodes, id, t) \/ TypedAs(m[g], id, t)
  BY <1>1, TwoMerged
<1> HIDE DEF new
<1>3. DOMAIN new = UNION {DOMAIN m[h] : h \in S \cup {g}}
  BY <1>2 DEF MergedSoFar
<1>4. \A id, p, o : SaidOf(new, id, p, o) <=> \E h \in S \cup {g} : SaidOf(m[h], id, p, o)
  BY <1>2 DEF MergedSoFar
<1>5. \A id, t : TypedAs(new, id, t) <=> \E h \in S \cup {g} : TypedAs(m[h], id, t)
  BY <1>2 DEF MergedSoFar
<1>6. MergedSoFar(new, m, S \cup {g})
  BY <1>2, <1>3, <1>4, <1>5 DEF MergedSoFar
<1> QED
  BY <1>6 DEF new

LEMMA AllMerged ==
    ASSUME NEW m, MapOK(m), NEW graphs, DeclaredOK(graphs, m)
    PROVE  MergedSoFar(MergeAll(m, graphs), m, DOMAIN m)
<1>1. PICK n \in Nat : DOMAIN graphs = 1 .. n
  BY DEF DeclaredOK, IsSequence
<1>2. PICK r : /\ r[0] = m[Default]
               /\ \A k \in 0 .. n - 1 : r[k + 1] = MergeWith(r[k], m[graphs[k + 1]])
               /\ MergeAll(m, graphs) = r[n]
  BY <1>1, MergesUnfold
<1>3. Default \in DOMAIN m /\ \A g \in DOMAIN m : AllNeat(m[g])
  BY DEF MapOK, NodeOK, AllNeat
<1>4. \A k \in 1 .. n : graphs[k] \in DOMAIN m
  BY <1>1 DEF DeclaredOK, ToSet
<1> DEFINE Until(k) == {Default} \cup {graphs[i] : i \in 1 .. k}
           S == {k \in Nat : k <= n => MergedSoFar(r[k], m, Until(k))}
<1>5. 0 \in S
  <2>1. Until(0) = {Default}
    OBVIOUS
  <2>2. MergedSoFar(m[Default], m, {Default})
    BY <1>3 DEF MergedSoFar
  <2> HIDE DEF Until
  <2> QED
    BY <1>2, <2>1, <2>2
<1>6. ASSUME NEW k \in Nat, k \in S
      PROVE  k + 1 \in S
  <2>1. Until(k + 1) = Until(k) \cup {graphs[k + 1]}
    <3>1. 1 .. k + 1 = (1 .. k) \cup {k + 1}
      OBVIOUS
    <3> QED
      BY <3>1
  <2> HIDE DEF Until
  <2>2. ASSUME k + 1 <= n
        PROVE  MergedSoFar(r[k + 1], m, Until(k + 1))
    <3>1. MergedSoFar(r[k], m, Until(k))
      BY <1>6, <2>2
    <3>2. r[k + 1] = MergeWith(r[k], m[graphs[k + 1]]) /\ AllNeat(m[graphs[k + 1]])
      BY <1>2, <1>3, <1>4, <2>2
    <3> QED
      BY <2>1, <3>1, <3>2, OneMore
  <2> QED
    BY <2>2
<1>7. n \in S
  <2> HIDE DEF S
  <2> QED
    BY <1>5, <1>6, Induct
<1>8. Until(n) = DOMAIN m
  BY <1>1 DEF DeclaredOK, ToSet
<1> HIDE DEF Until
<1> QED
  BY <1>2, <1>7, <1>8

\* What flatten_with makes says what the map says.
LEMMA Merges ==
    ASSUME MapOK(map), DeclaredOK(declared, map), Merge
    PROVE  MergeKeeps'
<1>1. /\ flat' = MergeAll(map, declared) /\ map' = map
  BY DEF Merge
<1>2. MergedSoFar(flat', map, DOMAIN map)
  BY <1>1, AllMerged
<1>3. Statements(Default, flat') = {<<Default, s[2], s[3], s[4]>> : s \in Mapped}
  <2>1. ASSUME NEW s \in Statements(Default, flat')
        PROVE  \E u \in Mapped : s = <<Default, u[2], u[3], u[4]>>
    <3>1. Makes(flat', Default, s)
      BY Made
    <3>2. PICK id, p, o : SaidOf(flat', id, p, o) /\ s = <<Default, id, p, o>>
      BY <3>1 DEF Makes, SaidOf
    <3>3. PICK g \in DOMAIN map : SaidOf(map[g], id, p, o)
      BY <1>2, <3>2 DEF MergedSoFar
    <3> DEFINE u == <<g, id, p, o>>
    <3>4. Makes(map[g], g, u)
      BY <3>3 DEF Makes, SaidOf
    <3>5. u \in Mapped
      BY <3>4, Made DEF Mapped
    <3>6. u[2] = id /\ u[3] = p /\ u[4] = o
      OBVIOUS
    <3> HIDE DEF u
    <3> QED
      BY <3>2, <3>5, <3>6
  <2>2. ASSUME NEW u \in Mapped
        PROVE  <<Default, u[2], u[3], u[4]>> \in Statements(Default, flat')
    <3>1. PICK g \in DOMAIN map : u \in Statements(g, map[g])
      BY <2>2 DEF Mapped
    <3>2. Makes(map[g], g, u)
      BY <3>1, Made
    <3>3. PICK id, p, o : SaidOf(map[g], id, p, o) /\ u = <<g, id, p, o>>
      BY <3>2 DEF Makes, SaidOf
    <3>4. u[2] = id /\ u[3] = p /\ u[4] = o
      BY <3>3
    <3>5. SaidOf(flat', id, p, o)
      BY <1>2, <3>3 DEF MergedSoFar
    <3>6. Makes(flat', Default, <<Default, id, p, o>>)
      BY <3>5 DEF Makes, SaidOf
    <3> QED
      BY <3>4, <3>6, Made
  <2> QED
    BY <2>1, <2>2
<1>4. ASSUME NEW id \in DOMAIN flat'
      PROVE  ToSet(Types(flat'[id])) = UNION {ToSet(Types(map[g][id])) : g \in {h \in DOMAIN map : id \in DOMAIN map[h]}}
  <2>1. \A t : t \in ToSet(Types(flat'[id])) <=> TypedAs(flat', id, t)
    BY DEF TypedAs
  <2>2. \A t : TypedAs(flat', id, t) <=> \E g \in DOMAIN map : TypedAs(map[g], id, t)
    BY <1>2 DEF MergedSoFar
  <2>3. \A t : (\E g \in DOMAIN map : TypedAs(map[g], id, t))
               <=> t \in UNION {ToSet(Types(map[g][id])) : g \in {h \in DOMAIN map : id \in DOMAIN map[h]}}
    BY DEF TypedAs
  <2> QED
    BY <2>1, <2>2, <2>3
<1> QED
  BY <1>1, <1>3, <1>4 DEF MergeKeeps, Mapped

\* Graphs are declared by declare_graph alone.
LEMMA DeclaredStays ==
    ASSUME IInv, DeclaredOK(declared, map), Running, declared' = declared, outcome' # "merged",
           \/ map' = map
           \/ \E g, nodes : map' = [map EXCEPT ![g] = nodes]
    PROVE  MergeInv'
<1>1. DOMAIN map' = DOMAIN map
  OBVIOUS
<1> QED
  BY <1>1 DEF MergeInv, DeclaredOK, MergeKeeps

LEMMA ChangeKeepsGraphs ==
    ASSUME NEW id, NEW node, NEW f, Change(id, node, f)
    PROVE  /\ declared' = declared /\ outcome' \in {outcome, "undefined"}
           /\ map' = map \/ \E g, nodes : map' = [map EXCEPT ![g] = nodes]
  BY DEF Change, Fail

LEMMA MergeSteps ==
    ASSUME IInv, MergeInv, [Next]_vars
    PROVE  MergeInv'
<1>0. DeclaredOK(declared, map) /\ MapOK(map) /\ MergeKeeps
  BY DEF MergeInv, IInv
<1>1. CASE VisitValue \/ VisitList \/ Leave \/ Begin \/ RelabelType \/ RelabelProperty \/ End \/ Finish
  <2>1. /\ Running /\ map' = map /\ declared' = declared
        /\ outcome' \in {outcome, "UnsupportedTerm", "mapped"}
    BY <1>1 DEF VisitValue, VisitList, Leave, Begin, RelabelType, RelabelProperty, End, Finish, Fail,
                Visiting, Before, In, Over
  <2>2. outcome = "running"
    BY <2>1 DEF Running
  <2> QED
    BY <1>0, <2>1, <2>2, DeclaredStays
<1>2. CASE VisitNode
  <2>1. /\ Running /\ declared' = declared
        /\ outcome' \in {outcome, "UnsupportedTerm", "undefined", "ConflictingIndexes"}
        /\ map' = map \/ \E g, nodes : map' = [map EXCEPT ![g] = nodes]
    BY <1>2 DEF VisitNode, Visiting, Fail
  <2>2. outcome = "running"
    BY <2>1 DEF Running
  <2> QED
    BY <1>0, <2>1, <2>2, DeclaredStays
<1>3. CASE SetTypes \/ SetGraph \/ Insert \/ Link
  <2>1. Running /\ \E id, node, f : Change(id, node, f)
    BY <1>3 DEF SetTypes, SetGraph, Insert, Link, Over, In
  <2>2. outcome = "running"
    BY <2>1 DEF Running
  <2>3. PICK id, node, f : Change(id, node, f)
    BY <2>1
  <2>4. /\ declared' = declared /\ outcome' \in {outcome, "undefined"}
        /\ map' = map \/ \E g, nodes : map' = [map EXCEPT ![g] = nodes]
    BY <2>3, ChangeKeepsGraphs
  <2> QED
    BY <1>0, <2>1, <2>2, <2>4, DeclaredStays
<1>4. CASE DeclareGraph
  <2>1. /\ outcome' = outcome /\ Running
        /\ \/ map' = map /\ declared' = declared
           \/ map' = Put(map, Frame.id, Empty) /\ declared' = Append(declared, Frame.id)
    BY <1>4 DEF DeclareGraph, Before, In
  <2>2. outcome = "running"
    BY <2>1 DEF Running
  <2>3. DeclaredOK(declared', map')
    <3>1. CASE map' = map /\ declared' = declared
      BY <1>0, <3>1
    <3>2. CASE map' = Put(map, Frame.id, Empty) /\ declared' = Append(declared, Frame.id)
      <4>1. IsSequence(declared') /\ ToSet(declared') = ToSet(declared) \cup {Frame.id}
        BY <1>0, <3>2, Lengthened DEF DeclaredOK
      <4>2. DOMAIN map' = DOMAIN map \cup {Frame.id}
        BY <3>2 DEF Put
      <4> QED
        BY <1>0, <4>1, <4>2 DEF DeclaredOK
    <3> QED
      BY <2>1, <3>1, <3>2
  <2>4. MergeKeeps'
    BY <2>1, <2>2 DEF MergeKeeps
  <2> QED
    BY <2>3, <2>4 DEF MergeInv
<1>5. CASE Flatten
  <2>1. map' = map /\ declared' = declared /\ outcome' = "flattened"
    BY <1>5 DEF Flatten
  <2> QED
    BY <1>0, <2>1 DEF MergeInv, MergeKeeps
<1>6. CASE Merge
  <2>1. map' = map /\ declared' = declared
    BY <1>6 DEF Merge
  <2> QED
    BY <1>0, <1>6, <2>1, Merges DEF MergeInv
<1>7. CASE UNCHANGED vars
  <2>1. map' = map /\ declared' = declared /\ outcome' = outcome /\ flat' = flat
    BY <1>7 DEF vars
  <2>2. MergeKeeps'
    BY <1>0, <2>1 DEF MergeKeeps, Mapped
  <2> QED
    BY <1>0, <2>1, <2>2 DEF MergeInv
<1> QED
  BY <1>1, <1>2, <1>3, <1>4, <1>5, <1>6, <1>7 DEF Next

LEMMA MergeBegins == Init => MergeInv
<1> SUFFICES ASSUME Init
             PROVE  MergeInv
  OBVIOUS
<1>1. DOMAIN map = {Default} /\ declared = <<>> /\ outcome = "running"
  BY DEF Init
<1> QED
  BY <1>1, EmptySequence DEF MergeInv, DeclaredOK, MergeKeeps

\* merge says what the graphs say, whatever it merges in which order; and the
\* types of a node are those it has in each of them.
THEOREM Merging == Spec => []MergeKeeps
<1>1. IInv /\ MergeInv /\ [Next]_vars => MergeInv'
  BY MergeSteps
<1>2. MergeInv => MergeKeeps
  BY DEF MergeInv
<1> QED
  BY <1>1, <1>2, Invariance, MergeBegins, PTL DEF Spec

-----------------------------------------------------------------------------
(* The node objects in an object.                                            *)

Self(o) == [graph |-> Default, node |-> o]
Placings == [graph : Identifiers \cup NodeObjects \cup {Default}, node : NodeObjects]

AmongObjects(f, objects, x) == \E i \in DOMAIN objects : x \in f[objects[i]]
AmongEntries(f, entries, x) == \E i \in DOMAIN entries : AmongObjects(f, entries[i].values, x)

\* What NodesIn says of an object, if f says it of its parts.
Gathers(f, o, x) ==
    \/ o.kind = "list" /\ AmongObjects(f, o.items, x)
    \/ /\ o.kind = "node"
       /\ \/ x = Self(o)
          \/ AmongObjects(f, o.included, x)
          \/ AmongEntries(f, o.properties, x) \/ AmongEntries(f, o.reverse, x)
          \/ o.graph # None /\ \E y : AmongObjects(f, o.graph, y) /\ x = InGraph(Label(o), y)

\* NodesIn's body.
Gathered(f, o) ==
    LET Inside(objects) == UNION {f[objects[i]] : i \in DOMAIN objects}
        Along(entries) == UNION {Inside(entries[i].values) : i \in DOMAIN entries}
    IN  CASE o.kind = "value" -> {}
          [] o.kind = "list" -> Inside(o.items)
          [] o.kind = "node" ->
               {[graph |-> Default, node |-> o]}
               \cup Inside(o.included) \cup Along(o.properties) \cup Along(o.reverse)
               \cup (IF o.graph = None THEN {} ELSE {InGraph(Label(o), x) : x \in Inside(o.graph)})

\* The parts of an object are objects, and its label is none of a graph's.
LEMMA Parts ==
    ASSUME NEW o \in Objects
    PROVE  /\ o.kind \in {"value", "list", "node"}
           /\ o.kind = "list" => \A i \in DOMAIN o.items : o.items[i] \in Objects
           /\ o.kind = "node" =>
                 /\ o \in NodeObjects /\ Label(o) \in Identifiers \cup NodeObjects /\ Label(o) # Default
                 /\ \A i \in DOMAIN o.included : o.included[i] \in Objects
                 /\ o.graph # None => \A i \in DOMAIN o.graph : o.graph[i] \in Objects
                 /\ \A i \in DOMAIN o.properties : \A k \in DOMAIN o.properties[i].values : o.properties[i].values[k] \in Objects
                 /\ \A i \in DOMAIN o.reverse : \A k \in DOMAIN o.reverse[i].values : o.reverse[i].values[k] \in Objects
<1>1. WellFormed(o)
  BY NodeMapAssumption
<1>2. \A S : \A s \in Seq(S) : \A i \in DOMAIN s : s[i] \in S
  OBVIOUS
<1>3. o.kind \in {"value", "list", "node"}
  BY <1>1 DEF WellFormed
<1>4. o.kind = "list" => \A i \in DOMAIN o.items : o.items[i] \in Objects
  BY <1>1, <1>2 DEF WellFormed
<1>5. ASSUME o.kind = "node"
      PROVE  /\ o \in NodeObjects /\ Label(o) \in Identifiers \cup NodeObjects /\ Label(o) # Default
             /\ \A i \in DOMAIN o.included : o.included[i] \in Objects
             /\ o.graph # None => \A i \in DOMAIN o.graph : o.graph[i] \in Objects
             /\ \A i \in DOMAIN o.properties : \A k \in DOMAIN o.properties[i].values : o.properties[i].values[k] \in Objects
             /\ \A i \in DOMAIN o.reverse : \A k \in DOMAIN o.reverse[i].values : o.reverse[i].values[k] \in Objects
  <2>1. /\ o.id \in Identifiers \cup {None}
        /\ o.graph = None \/ o.graph \in Seq(Objects)
        /\ o.included \in Seq(NodeObjects)
        /\ EntriesOver(o.properties, Objects) /\ EntriesOver(o.reverse, NodeObjects)
    BY <1>1, <1>5 DEF WellFormed
  <2>2. o \in NodeObjects /\ NodeObjects \subseteq Objects
    BY <1>5 DEF NodeObjects
  <2>3. Label(o) \in Identifiers \cup NodeObjects
    BY <2>1, <2>2 DEF Label
  <2>4. Label(o) # Default
    BY <2>2, <2>3, NodeMapAssumption
  <2>5. \A i \in DOMAIN o.included : o.included[i] \in Objects
    BY <1>2, <2>1, <2>2
  <2>6. o.graph # None => \A i \in DOMAIN o.graph : o.graph[i] \in Objects
    BY <1>2, <2>1
  <2>7. \A i \in DOMAIN o.properties : \A k \in DOMAIN o.properties[i].values : o.properties[i].values[k] \in Objects
    BY <1>2, <2>1 DEF EntriesOver
  <2>8. \A i \in DOMAIN o.reverse : \A k \in DOMAIN o.reverse[i].values : o.reverse[i].values[k] \in Objects
    BY <1>2, <2>1, <2>2 DEF EntriesOver
  <2> QED
    BY <2>2, <2>3, <2>4, <2>5, <2>6, <2>7, <2>8
<1> QED
  BY <1>3, <1>4, <1>5

LEMMA GatheredIs ==
    ASSUME NEW f, NEW o \in Objects
    PROVE  \A x : x \in Gathered(f, o) <=> Gathers(f, o, x)
<1>1. o.kind \in {"value", "list", "node"}
  BY Parts
<1>2. \A x, objects : x \in UNION {f[objects[i]] : i \in DOMAIN objects} <=> AmongObjects(f, objects, x)
  BY DEF AmongObjects
<1>3. \A x, entries : x \in UNION {UNION {f[(entries[i].values)[k]] : k \in DOMAIN entries[i].values} : i \in DOMAIN entries}
                        <=> AmongEntries(f, entries, x)
  BY DEF AmongObjects, AmongEntries
<1>4. CASE o.kind = "value"
  BY <1>4 DEF Gathered, Gathers
<1>5. CASE o.kind = "list"
  BY <1>2, <1>5 DEF Gathered, Gathers
<1>6. CASE o.kind = "node"
  <2>1. ASSUME NEW x
        PROVE  x \in (IF o.graph = None THEN {} ELSE {InGraph(Label(o), y) : y \in UNION {f[o.graph[i]] : i \in DOMAIN o.graph}})
                 <=> o.graph # None /\ \E y : AmongObjects(f, o.graph, y) /\ x = InGraph(Label(o), y)
    BY DEF AmongObjects
  <2>2. Gathered(f, o) =
          {[graph |-> Default, node |-> o]}
               \cup (UNION {f[o.included[i]] : i \in DOMAIN o.included})
               \cup (UNION {UNION {f[(o.properties[i].values)[k]] : k \in DOMAIN o.properties[i].values} : i \in DOMAIN o.properties})
               \cup (UNION {UNION {f[(o.reverse[i].values)[k]] : k \in DOMAIN o.reverse[i].values} : i \in DOMAIN o.reverse})
               \cup (IF o.graph = None THEN {} ELSE {InGraph(Label(o), y) : y \in UNION {f[o.graph[i]] : i \in DOMAIN o.graph}})
    BY <1>6 DEF Gathered
  <2> QED
    BY <1>2, <1>3, <1>6, <2>1, <2>2 DEF Gathers, Self
<1> QED
  BY <1>1, <1>4, <1>5, <1>6

LEMMA AmongMore ==
    ASSUME NEW f, NEW g, NEW objects, \A i \in DOMAIN objects : f[objects[i]] \subseteq g[objects[i]], NEW x
    PROVE  AmongObjects(f, objects, x) => AmongObjects(g, objects, x)
  BY DEF AmongObjects

\* The more is in the parts of an object, the more is in it.
LEMMA GathersMore ==
    ASSUME NEW f, NEW g, \A o \in Objects : f[o] \subseteq g[o], NEW o \in Objects, NEW x, Gathers(f, o, x)
    PROVE  Gathers(g, o, x)
<1>1. CASE o.kind = "list"
  BY <1>1, AmongMore, Parts DEF Gathers
<1>2. CASE o.kind = "node"
  <2>1. \A y : AmongObjects(f, o.included, y) => AmongObjects(g, o.included, y)
    BY <1>2, AmongMore, Parts
  <2>2. o.graph # None => \A y : AmongObjects(f, o.graph, y) => AmongObjects(g, o.graph, y)
    BY <1>2, AmongMore, Parts
  <2>3. AmongEntries(f, o.properties, x) => AmongEntries(g, o.properties, x)
    <3>1. \A i \in DOMAIN o.properties : \A k \in DOMAIN o.properties[i].values :
             f[o.properties[i].values[k]] \subseteq g[o.properties[i].values[k]]
      BY <1>2, Parts
    <3>2. \A i \in DOMAIN o.properties : AmongObjects(f, o.properties[i].values, x) => AmongObjects(g, o.properties[i].values, x)
      BY <3>1, AmongMore
    <3> QED
      BY <3>2 DEF AmongEntries
  <2>4. AmongEntries(f, o.reverse, x) => AmongEntries(g, o.reverse, x)
    <3>1. \A i \in DOMAIN o.reverse : \A k \in DOMAIN o.reverse[i].values :
             f[o.reverse[i].values[k]] \subseteq g[o.reverse[i].values[k]]
      BY <1>2, Parts
    <3>2. \A i \in DOMAIN o.reverse : AmongObjects(f, o.reverse[i].values, x) => AmongObjects(g, o.reverse[i].values, x)
      BY <3>1, AmongMore
    <3> QED
      BY <3>2 DEF AmongEntries
  <2> QED
    BY <1>2, <2>1, <2>2, <2>3, <2>4 DEF Gathers
<1> QED
  BY <1>1, <1>2 DEF Gathers

\* What is in every object, if all that an object gathers is in it.
Collects(f) == \A o \in Objects : \A x : Gathers(f, o, x) => x \in f[o]
Tables == [Objects -> SUBSET Placings]
Smallest == [o \in Objects |-> {x \in Placings : \A f \in Tables : Collects(f) => x \in f[o]}]

\* What an object gathers is an occurrence of a node object.
LEMMA GathersPlacings ==
    ASSUME NEW f \in Tables, NEW o \in Objects, NEW x, Gathers(f, o, x)
    PROVE  x \in Placings
<1>1. ASSUME NEW objects, \A i \in DOMAIN objects : objects[i] \in Objects, NEW y, AmongObjects(f, objects, y)
      PROVE  y \in Placings
  BY <1>1 DEF AmongObjects, Tables
<1>2. CASE o.kind = "list"
  BY <1>1, <1>2, Parts DEF Gathers
<1>3. CASE o.kind = "node"
  <2>1. Self(o) \in Placings
    BY <1>3, Parts DEF Self, Placings
  <2>2. AmongEntries(f, o.properties, x) => x \in Placings
    BY <1>1, <1>3, Parts DEF AmongEntries
  <2>3. AmongEntries(f, o.reverse, x) => x \in Placings
    BY <1>1, <1>3, Parts DEF AmongEntries
  <2>4. AmongObjects(f, o.included, x) => x \in Placings
    BY <1>1, <1>3, Parts
  <2>5. ASSUME NEW y, o.graph # None, AmongObjects(f, o.graph, y)
        PROVE  InGraph(Label(o), y) \in Placings
    <3>1. y \in Placings /\ Label(o) \in Identifiers \cup NodeObjects
      BY <1>1, <1>3, <2>5, Parts
    <3> QED
      BY <3>1 DEF InGraph, Placings
  <2> QED
    BY <1>3, <2>1, <2>2, <2>3, <2>4, <2>5 DEF Gathers
<1> QED
  BY <1>2, <1>3 DEF Gathers

\* The least table says of an object what it gathers, and no more.
LEMMA LeastIs ==
    ASSUME NEW o \in Objects
    PROVE  Smallest \in Tables /\ \A x : x \in Smallest[o] <=> Gathers(Smallest, o, x)
<1>1. Smallest \in Tables
  BY DEF Smallest, Tables
<1>2. \A f \in Tables : Collects(f) => \A p \in Objects : Smallest[p] \subseteq f[p]
  BY DEF Smallest
<1>3. ASSUME NEW p \in Objects, NEW x, Gathers(Smallest, p, x)
      PROVE  x \in Smallest[p]
  <2>1. x \in Placings
    BY <1>1, <1>3, GathersPlacings
  <2>2. ASSUME NEW f \in Tables, Collects(f)
        PROVE  x \in f[p]
    <3>1. \A q \in Objects : Smallest[q] \subseteq f[q]
      BY <1>2, <2>2
    <3>2. Gathers(f, p, x)
      BY <1>3, <3>1, GathersMore
    <3> QED
      BY <2>2, <3>2 DEF Collects
  <2> QED
    BY <2>1, <2>2 DEF Smallest
<1>4. ASSUME NEW x \in Smallest[o]
      PROVE  Gathers(Smallest, o, x)
  <2> DEFINE T == [p \in Objects |-> {y \in Placings : Gathers(Smallest, p, y)}]
  <2>1. T \in Tables
    BY DEF Tables
  <2>2. \A p \in Objects : \A y : y \in T[p] <=> y \in Placings /\ Gathers(Smallest, p, y)
    OBVIOUS
  <2> HIDE DEF T
  <2>3. \A p \in Objects : T[p] \subseteq Smallest[p]
    BY <1>3, <2>2
  <2>4. Collects(T)
    <3>1. ASSUME NEW p \in Objects, NEW y, Gathers(T, p, y)
          PROVE  y \in T[p]
      <4>1. Gathers(Smallest, p, y)
        BY <2>3, <3>1, GathersMore
      <4>2. y \in Placings
        BY <2>1, <3>1, GathersPlacings
      <4> QED
        BY <2>2, <4>1, <4>2
    <3> QED
      BY <3>1 DEF Collects
  <2>5. Smallest[o] \subseteq T[o]
    BY <1>2, <2>1, <2>4
  <2> QED
    BY <2>2, <2>5
<1> QED
  BY <1>1, <1>3, <1>4

\* NodesIn says of an object what it gathers from its parts.
LEMMA NodesInIs ==
    ASSUME NEW o \in Objects
    PROVE  \A x : x \in NodesIn[o] <=> Gathers(NodesIn, o, x)
<1> DEFINE Is(f) == f = [p \in Objects |-> Gathered(f, p)]
<1>1. NodesIn = CHOOSE f : Is(f)
  BY DEF NodesIn, Gathered
<1>2. Is(Smallest)
  <2>1. \A p \in Objects : Smallest[p] = Gathered(Smallest, p)
    BY LeastIs, GatheredIs
  <2>2. Smallest = [p \in Objects |-> Smallest[p]]
    BY DEF Smallest
  <2> QED
    BY <2>1, <2>2
<1>3. Is(NodesIn)
  <2> HIDE DEF Is
  <2> QED
    BY <1>1, <1>2
<1>4. NodesIn[o] = Gathered(NodesIn, o)
  BY <1>3
<1> QED
  BY <1>4, GatheredIs

-----------------------------------------------------------------------------
(* What calls still have to visit.                                           *)

\* The sections of a call, counted from the last, the one it is in first.
PartAt(f, s) ==
    IF s = Len(f.sections) THEN Section(f.section, None, f.queue) ELSE f.sections[Len(f.sections) - s]

\* The objects in them, counted from the last.
Places(f) ==
    {w \in Nat \X (Nat \ {0}) :
        w[1] <= Len(f.sections) /\ PartAt(f, w[1]).op # "types" /\ w[2] <= Len(PartAt(f, w[1]).objects)}

\* What is at such a place, and the graph it is to be visited in.
AtPlace(f, w) ==
    LET part == PartAt(f, w[1])
    IN  [graph |-> IF part.op = "graph" THEN f.id ELSE f.active,
         object |-> part.objects[Len(part.objects) - w[2] + 1]]

Work(f) == [w \in Places(f) |-> AtPlace(f, w)]

\* The place of the object that is visited next.
Top(f) == <<Len(f.sections), Len(f.queue)>>

Without(work, w) == [v \in DOMAIN work \ {w} |-> work[v]]

LEMMA WorkSame ==
    ASSUME NEW f, NEW g, Steady(f, g), g.section = f.section, g.queue = f.queue, g.sections = f.sections
    PROVE  Work(g) = Work(f)
<1>1. \A s : PartAt(g, s) = PartAt(f, s)
  BY DEF PartAt
<1>2. Places(g) = Places(f)
  BY <1>1 DEF Places
<1>3. \A w : AtPlace(g, w) = AtPlace(f, w)
  BY <1>1 DEF AtPlace, Steady
<1> QED
  BY <1>2, <1>3 DEF Work

\* A frame with its lengths.
LEMMA Lengths ==
    ASSUME NEW f, NEW m, FrameOK(f, m)
    PROVE  /\ Len(f.sections) \in Nat /\ DOMAIN f.sections = 1 .. Len(f.sections)
           /\ Len(f.queue) \in Nat /\ DOMAIN f.queue = 1 .. Len(f.queue)
           /\ f.section # "types" => \A i \in DOMAIN f.queue : f.queue[i] \in Objects
           /\ \A i \in DOMAIN f.sections : SectionOK(f.sections[i])
<1>1. f.sections \in Seq(ToSet(f.sections)) /\ \A i \in DOMAIN f.sections : SectionOK(f.sections[i])
  BY DEF FrameOK, SectionsOK, IsSequence
<1>2. f.section # "types" => f.queue \in Seq(Objects)
  BY DEF FrameOK, QueueOK
<1>3. f.section = "types" => f.queue \in Seq(Identifiers)
  BY DEF FrameOK, QueueOK
<1>4. Len(f.sections) \in Nat /\ DOMAIN f.sections = 1 .. Len(f.sections)
  BY <1>1
<1>5. Len(f.queue) \in Nat /\ DOMAIN f.queue = 1 .. Len(f.queue)
  BY <1>2, <1>3
<1>6. f.section # "types" => \A i \in DOMAIN f.queue : f.queue[i] \in Objects
  BY <1>2
<1> QED
  BY <1>1, <1>4, <1>5, <1>6

\* A section of a call, and one of those to come.
LEMMA PartIs ==
    ASSUME NEW f, NEW m, FrameOK(f, m)
    PROVE  /\ PartAt(f, Len(f.sections)) = Section(f.section, None, f.queue)
           /\ \A s \in Nat : s < Len(f.sections) =>
                 Len(f.sections) - s \in DOMAIN f.sections /\ PartAt(f, s) = f.sections[Len(f.sections) - s]
           /\ \A s \in Nat : s <= Len(f.sections) /\ PartAt(f, s).op # "types" =>
                 /\ PartAt(f, s).objects \in Seq(Objects)
<1>1. /\ Len(f.sections) \in Nat /\ DOMAIN f.sections = 1 .. Len(f.sections)
      /\ \A i \in DOMAIN f.sections : SectionOK(f.sections[i])
  BY Lengths
<1>2. PartAt(f, Len(f.sections)) = Section(f.section, None, f.queue)
  BY DEF PartAt
<1>3. ASSUME NEW s \in Nat, s < Len(f.sections)
      PROVE  Len(f.sections) - s \in DOMAIN f.sections /\ PartAt(f, s) = f.sections[Len(f.sections) - s]
  BY <1>1, <1>3 DEF PartAt
<1>4. ASSUME NEW s \in Nat, s <= Len(f.sections), PartAt(f, s).op # "types"
      PROVE  PartAt(f, s).objects \in Seq(Objects)
  <2>1. CASE s = Len(f.sections)
    <3>1. PartAt(f, s) = Section(f.section, None, f.queue) /\ f.section # "types"
      BY <1>2, <1>4, <2>1 DEF Section
    <3> QED
      BY <3>1 DEF Section, FrameOK, QueueOK
  <2>2. CASE s < Len(f.sections)
    BY <1>1, <1>3, <1>4, <2>2 DEF SectionOK, QueueOK
  <2> QED
    BY <1>1, <1>4, <2>1, <2>2
<1> QED
  BY <1>2, <1>3, <1>4

LEMMA PlacesAre ==
    ASSUME NEW f, NEW m, FrameOK(f, m), NEW w \in Places(f)
    PROVE  /\ w[1] \in Nat /\ w[2] \in Nat \ {0} /\ w = <<w[1], w[2]>>
           /\ Work(f)[w] = AtPlace(f, w) /\ Work(f)[w].object \in Objects
           /\ DOMAIN Work(f) = Places(f)
<1>1. /\ w[1] \in Nat /\ w[2] \in Nat \ {0} /\ w = <<w[1], w[2]>>
      /\ w[1] <= Len(f.sections) /\ PartAt(f, w[1]).op # "types" /\ w[2] <= Len(PartAt(f, w[1]).objects)
  BY DEF Places
<1>2. PartAt(f, w[1]).objects \in Seq(Objects)
  BY <1>1, PartIs
<1>3. AtPlace(f, w).object \in Objects
  BY <1>1, <1>2 DEF AtPlace
<1>4. DOMAIN Work(f) = Places(f) /\ Work(f)[w] = AtPlace(f, w)
  BY DEF Work
<1> QED
  BY <1>1, <1>3, <1>4

\* Entering a section changes nothing of that.
LEMMA WorkEntered ==
    ASSUME NEW f, NEW m, FrameOK(f, m), f.section = "between", f.sections # <<>>, NEW p
    PROVE  Work(Entered(f, p)) = Work(f)
<1> DEFINE g == Entered(f, p)
           n == Len(f.sections)
<1>1. /\ g.active = f.active /\ g.id = f.id
      /\ g.section = Head(f.sections).op /\ g.queue = Head(f.sections).objects /\ g.sections = Tail(f.sections)
  BY DEF FrameOK, FrameFields, Entered
<1>2. n \in Nat /\ DOMAIN f.sections = 1 .. n /\ f.queue = <<>>
  BY Lengths DEF FrameOK, Sectioned
<1>3. IsSequence(f.sections)
  BY DEF FrameOK, SectionsOK
<1>4. n # 0 /\ Len(g.sections) = n - 1 /\ Head(f.sections) = f.sections[1]
      /\ \A i \in 1 .. n - 1 : g.sections[i] = f.sections[i + 1]
  <2>1. f.sections \in Seq(ToSet(f.sections))
    BY <1>3 DEF IsSequence
  <2> QED
    BY <1>1, <2>1
<1> HIDE DEF g
<1>5. ASSUME NEW s \in Nat, s < n - 1
      PROVE  PartAt(g, s) = PartAt(f, s)
  <2>1. s # n /\ s # n - 1 /\ n - 1 - s \in 1 .. n - 1 /\ (n - 1 - s) + 1 = n - s
    BY <1>2, <1>5
  <2>2. PartAt(g, s) = g.sections[n - 1 - s] /\ PartAt(f, s) = f.sections[n - s]
    BY <1>4, <2>1 DEF PartAt
  <2> QED
    BY <1>4, <2>1, <2>2
<1>6. PartAt(g, n - 1).op = PartAt(f, n - 1).op /\ PartAt(g, n - 1).objects = PartAt(f, n - 1).objects
  BY <1>1, <1>2, <1>4 DEF PartAt, Section
<1>7. PartAt(f, n).objects = <<>>
  BY <1>2 DEF PartAt, Section
<1>8. \A s \in Nat : s <= n - 1 => PartAt(g, s).op = PartAt(f, s).op /\ PartAt(g, s).objects = PartAt(f, s).objects
  <2>1. \A s \in Nat : s <= n - 1 => s < n - 1 \/ s = n - 1
    BY <1>2, <1>4
  <2> HIDE DEF n
  <2> QED
    BY <1>5, <1>6, <2>1
<1>9. Places(g) = Places(f)
  <2>1. Places(g) = {w \in Nat \X (Nat \ {0}) :
              w[1] <= n - 1 /\ PartAt(f, w[1]).op # "types" /\ w[2] <= Len(PartAt(f, w[1]).objects)}
    BY <1>4, <1>8 DEF Places
  <2>2. Places(f) = {w \in Nat \X (Nat \ {0}) :
              w[1] <= n - 1 /\ PartAt(f, w[1]).op # "types" /\ w[2] <= Len(PartAt(f, w[1]).objects)}
    <3>1. ASSUME NEW w \in Places(f)
          PROVE  w[1] <= n - 1
      <4>1. w[1] \in Nat /\ w[2] \in Nat \ {0} /\ w[1] <= n /\ w[2] <= Len(PartAt(f, w[1]).objects)
        BY DEF Places
      <4>2. w[1] # n
        BY <1>7, <4>1
      <4> QED
        BY <1>2, <4>1, <4>2
    <3>2. \A s \in Nat : s <= n - 1 => s <= n
      BY <1>2
    <3> QED
      BY <3>1, <3>2 DEF Places
  <2> QED
    BY <2>1, <2>2
<1>10. \A w \in Places(g) : AtPlace(g, w) = AtPlace(f, w)
  <2>1. \A w \in Places(g) : w[1] \in Nat /\ w[1] <= n - 1
    BY <1>4 DEF Places
  <2> QED
    BY <1>1, <1>8, <2>1 DEF AtPlace
<1> QED
  BY <1>9, <1>10 DEF Work, g

\* Ending one that is over neither.
LEMMA WorkEnded ==
    ASSUME NEW f, NEW m, FrameOK(f, m), f.queue = <<>>
    PROVE  Work(Ended(f)) = Work(f)
<1> DEFINE g == Ended(f)
           n == Len(f.sections)
<1>1. /\ g.active = f.active /\ g.id = f.id
      /\ g.section = "between" /\ g.queue = f.queue /\ g.sections = f.sections
  BY DEF FrameOK, FrameFields, Ended
<1>2. n \in Nat
  BY Lengths
<1> HIDE DEF g
<1>3. \A s \in Nat : s # n => PartAt(g, s) = PartAt(f, s)
  BY <1>1 DEF PartAt
<1>4. PartAt(f, n).objects = <<>> /\ PartAt(g, n).objects = <<>>
  BY <1>1 DEF PartAt, Section
<1>5. \A w \in Places(g) : w[1] \in Nat /\ w[1] # n
  BY <1>4 DEF Places
<1>6. \A w \in Places(f) : w[1] \in Nat /\ w[1] # n
  BY <1>4 DEF Places
<1>7. Places(g) = Places(f)
  BY <1>1, <1>3, <1>5, <1>6 DEF Places
<1>8. \A w \in Places(g) : AtPlace(g, w) = AtPlace(f, w)
  BY <1>1, <1>3, <1>5 DEF AtPlace
<1> QED
  BY <1>7, <1>8 DEF Work, g

\* Passing an object takes it from its place.
LEMMA WorkPassed ==
    ASSUME NEW f, NEW m, FrameOK(f, m), f.queue # <<>>
    PROVE  /\ f.section = "types" => Work(Passed(f)) = Work(f)
           /\ f.section # "types" =>
                 /\ Top(f) \in DOMAIN Work(f)
                 /\ Work(f)[Top(f)] = [graph |-> Target(f), object |-> Head(f.queue)]
                 /\ Work(Passed(f)) = Without(Work(f), Top(f))
<1> DEFINE g == Passed(f)
           n == Len(f.sections)
           k == Len(f.queue)
<1>1. /\ g.active = f.active /\ g.id = f.id
      /\ g.section = f.section /\ g.queue = Tail(f.queue) /\ g.sections = f.sections
  BY DEF FrameOK, FrameFields, Passed
<1>2. n \in Nat /\ k \in Nat
  BY Lengths
<1> HIDE DEF g
<1>3. \A s \in Nat : s # n => PartAt(g, s) = PartAt(f, s)
  BY <1>1 DEF PartAt
<1>4. PartAt(f, n) = Section(f.section, None, f.queue) /\ PartAt(g, n) = Section(f.section, None, Tail(f.queue))
  BY <1>1 DEF PartAt
<1>5. ASSUME f.section = "types"
      PROVE  Work(g) = Work(f)
  <2>1. \A w \in Places(g) : w[1] \in Nat /\ w[1] # n
    BY <1>4, <1>5 DEF Places, Section
  <2>2. \A w \in Places(f) : w[1] \in Nat /\ w[1] # n
    BY <1>4, <1>5 DEF Places, Section
  <2>3. Places(g) = Places(f)
    BY <1>1, <1>3, <2>1, <2>2 DEF Places
  <2>4. \A w \in Places(g) : AtPlace(g, w) = AtPlace(f, w)
    BY <1>1, <1>3, <2>1 DEF AtPlace
  <2> QED
    BY <2>3, <2>4 DEF Work
<1>6. ASSUME f.section # "types"
      PROVE  /\ Top(f) \in DOMAIN Work(f)
             /\ Work(f)[Top(f)] = [graph |-> Target(f), object |-> Head(f.queue)]
             /\ Work(g) = Without(Work(f), Top(f))
  <2>1. f.queue \in Seq(Objects)
    BY <1>6 DEF FrameOK, QueueOK
  <2>2. k \in Nat \ {0} /\ Len(g.queue) = k - 1 /\ Head(f.queue) = f.queue[1]
        /\ \A i \in 1 .. k - 1 : g.queue[i] = f.queue[i + 1]
    BY <1>1, <2>1
  <2> DEFINE t == <<n, k>>
  <2>3. t \in Nat \X (Nat \ {0}) /\ t[1] = n /\ t[2] = k
    BY <1>2, <2>2
  <2>4. PartAt(f, n).op = f.section /\ PartAt(f, n).objects = f.queue
        /\ PartAt(g, n).op = f.section /\ PartAt(g, n).objects = g.queue
    BY <1>1, <1>4 DEF Section
  <2>5. t \in Places(f)
    BY <1>2, <1>6, <2>2, <2>3, <2>4 DEF Places
  <2>6. AtPlace(f, t) = [graph |-> Target(f), object |-> Head(f.queue)]
    <3>1. Len(f.queue) - t[2] + 1 = 1
      BY <2>2, <2>3
    <3> QED
      BY <2>2, <2>3, <2>4, <3>1 DEF AtPlace, Target
  <2> HIDE DEF t
  <2>7. ASSUME NEW w \in Nat \X (Nat \ {0})
        PROVE  w \in Places(g) <=> w \in Places(f) /\ w # t
    <3>1. CASE w[1] = n
      <4>1. w[2] \in Nat /\ (w = t <=> w[2] = k)
        BY <2>3, <3>1
      <4>2. w \in Places(g) <=> w[2] <= k - 1
        <5>1. w \in Places(g) <=>
                w[1] <= Len(g.sections) /\ PartAt(g, w[1]).op # "types" /\ w[2] <= Len(PartAt(g, w[1]).objects)
          BY DEF Places
        <5>2. w[1] <= Len(g.sections) /\ PartAt(g, w[1]).op = f.section /\ Len(PartAt(g, w[1]).objects) = k - 1
          <6>1. Len(g.sections) = n /\ n <= n
            BY <1>1, <1>2
          <6>2. PartAt(g, w[1]) = PartAt(g, n)
            BY <3>1
          <6>3. PartAt(g, n).op = f.section /\ Len(PartAt(g, n).objects) = k - 1
            BY <2>2, <2>4
          <6> QED
            BY <3>1, <6>1, <6>2, <6>3
        <5> QED
          BY <1>6, <5>1, <5>2
      <4>3. w \in Places(f) <=> w[2] <= k
        BY <1>2, <1>6, <2>2, <2>4, <3>1 DEF Places
      <4> QED
        BY <2>2, <4>1, <4>2, <4>3
    <3>2. CASE w[1] # n
      BY <1>1, <1>3, <2>3, <3>2 DEF Places
    <3> QED
      BY <3>1, <3>2
  <2>8. Places(g) = Places(f) \ {t}
    <3>1. Places(g) \subseteq Nat \X (Nat \ {0}) /\ Places(f) \subseteq Nat \X (Nat \ {0})
      BY DEF Places
    <3> QED
      BY <2>7, <3>1
  <2>9. ASSUME NEW w \in Places(g)
        PROVE  AtPlace(g, w) = AtPlace(f, w)
    <3>1. CASE w[1] = n
      <4>1. w[2] \in 1 .. k - 1
        BY <2>2, <2>4, <3>1 DEF Places
      <4>2. Len(g.queue) - w[2] + 1 \in 1 .. k - 1 /\ Len(f.queue) - w[2] + 1 = (Len(g.queue) - w[2] + 1) + 1
        BY <2>2, <4>1
      <4>3. g.queue[Len(g.queue) - w[2] + 1] = f.queue[Len(f.queue) - w[2] + 1]
        BY <2>2, <4>2
      <4> QED
        BY <1>1, <2>4, <3>1, <4>3 DEF AtPlace
    <3>2. CASE w[1] # n
      <4>1. w[1] \in Nat
        BY DEF Places
      <4> QED
        BY <1>1, <1>3, <3>2, <4>1 DEF AtPlace
    <3> QED
      BY <3>1, <3>2
  <2>10. Top(f) = t
    BY DEF Top, t
  <2> QED
    BY <2>5, <2>6, <2>8, <2>9, <2>10 DEF Work, Without
<1> QED
  BY <1>5, <1>6 DEF g

\* The sections of a node object.
IsSection(o, s) ==
    \/ o.types # None /\ s = Section("types", None, o.types)
    \/ o.graph # None /\ s = Section("graph", None, o.graph)
    \/ o.included # <<>> /\ s = Section("included", None, o.included)
    \/ \E i \in DOMAIN o.properties : s = Section("property", o.properties[i].property, o.properties[i].values)
    \/ \E i \in DOMAIN o.reverse : s = Section("reverse", o.reverse[i].property, o.reverse[i].values)

LEMMA EntrySections ==
    ASSUME NEW op, NEW entries, IsSequence(entries)
    PROVE  /\ IsSequence(OfEntries(op, entries))
           /\ \A s : s \in ToSet(OfEntries(op, entries)) <=>
                       \E i \in DOMAIN entries : s = Section(op, entries[i].property, entries[i].values)
<1> DEFINE t == OfEntries(op, entries)
           S == {Section(op, entries[i].property, entries[i].values) : i \in DOMAIN entries}
<1>1. DOMAIN t = DOMAIN entries /\ \A i \in DOMAIN entries : t[i] = Section(op, entries[i].property, entries[i].values)
  BY DEF OfEntries
<1>2. t \in Seq(S)
  <2>1. DOMAIN entries = 1 .. Len(entries) /\ Len(entries) \in Nat
    BY DEF IsSequence
  <2>2. t = [i \in 1 .. Len(entries) |-> Section(op, entries[i].property, entries[i].values)]
    BY <2>1 DEF OfEntries
  <2> QED
    BY <2>1, <2>2
<1> HIDE DEF t
<1>3. IsSequence(t)
  BY <1>2, SequenceOver
<1>4. \A s : s \in ToSet(t) <=> \E i \in DOMAIN entries : s = Section(op, entries[i].property, entries[i].values)
  BY <1>1 DEF ToSet
<1> QED
  BY <1>3, <1>4 DEF t

LEMMA SectionsOf ==
    ASSUME NEW o \in NodeObjects
    PROVE  \A s : s \in ToSet(Sections(o)) <=> IsSection(o, s)
<1>1. IsSequence(o.properties) /\ IsSequence(o.reverse)
  BY NodeMapAssumption DEF NodeObjects, WellFormed, EntriesOver
<1> DEFINE a == OfTypes(o)
           b == OfGraph(o)
           c == OfIncluded(o)
           d == OfEntries("property", o.properties)
           e == OfEntries("reverse", o.reverse)
<1>2. IsSequence(a) /\ \A s : s \in ToSet(a) <=> o.types # None /\ s = Section("types", None, o.types)
  BY EmptySequence, Singleton DEF OfTypes
<1>3. IsSequence(b) /\ \A s : s \in ToSet(b) <=> o.graph # None /\ s = Section("graph", None, o.graph)
  BY EmptySequence, Singleton DEF OfGraph
<1>4. IsSequence(c) /\ \A s : s \in ToSet(c) <=> o.included # <<>> /\ s = Section("included", None, o.included)
  BY EmptySequence, Singleton DEF OfIncluded
<1>5. IsSequence(d) /\ \A s : s \in ToSet(d) <=>
         \E i \in DOMAIN o.properties : s = Section("property", o.properties[i].property, o.properties[i].values)
  BY <1>1, EntrySections
<1>6. IsSequence(e) /\ \A s : s \in ToSet(e) <=>
         \E i \in DOMAIN o.reverse : s = Section("reverse", o.reverse[i].property, o.reverse[i].values)
  BY <1>1, EntrySections
<1>7. Sections(o) = a \o b \o c \o d \o e
  BY DEF Sections
<1> HIDE DEF a, b, c, d, e
<1>8. IsSequence(a \o b) /\ ToSet(a \o b) = ToSet(a) \cup ToSet(b)
  BY <1>2, <1>3, Joining
<1>9. IsSequence(a \o b \o c) /\ ToSet(a \o b \o c) = ToSet(a \o b) \cup ToSet(c)
  BY <1>4, <1>8, Joining
<1>10. IsSequence(a \o b \o c \o d) /\ ToSet(a \o b \o c \o d) = ToSet(a \o b \o c) \cup ToSet(d)
  BY <1>5, <1>9, Joining
<1>11. ToSet(a \o b \o c \o d \o e) = ToSet(a \o b \o c \o d) \cup ToSet(e)
  BY <1>6, <1>10, Joining
<1>12. ToSet(Sections(o)) = ToSet(a) \cup ToSet(b) \cup ToSet(c) \cup ToSet(d) \cup ToSet(e)
  BY <1>7, <1>8, <1>9, <1>10, <1>11
<1> QED
  BY <1>2, <1>3, <1>4, <1>5, <1>6, <1>12 DEF IsSection

\* An occurrence in a section, as one in its node.
Outward(o, op, y) == IF op = "graph" THEN InGraph(Label(o), y) ELSE y

LEMMA GathersSections ==
    ASSUME NEW o \in NodeObjects, NEW x
    PROVE  x \in NodesIn[o] <=>
             \/ x = Self(o)
             \/ \E s \in ToSet(Sections(o)) : s.op # "types" /\ \E i \in DOMAIN s.objects : \E y \in NodesIn[s.objects[i]] :
                    x = Outward(o, s.op, y)
<1> DEFINE Has(s) == s.op # "types" /\ \E i \in DOMAIN s.objects : \E y \in NodesIn[s.objects[i]] : x = Outward(o, s.op, y)
<1>1. o \in Objects /\ o.kind = "node"
  BY DEF NodeObjects
<1>2. x \in NodesIn[o] <=> Gathers(NodesIn, o, x)
  BY <1>1, NodesInIs
<1>3. \A objects, p : Has(Section("property", p, objects)) <=> AmongObjects(NodesIn, objects, x)
  BY DEF Section, Outward, AmongObjects
<1>4. \A objects, p : Has(Section("reverse", p, objects)) <=> AmongObjects(NodesIn, objects, x)
  BY DEF Section, Outward, AmongObjects
<1>5. \A objects : Has(Section("included", None, objects)) <=> AmongObjects(NodesIn, objects, x)
  BY DEF Section, Outward, AmongObjects
<1>6. \A objects : Has(Section("graph", None, objects)) <=> \E y : AmongObjects(NodesIn, objects, y) /\ x = InGraph(Label(o), y)
  BY DEF Section, Outward, AmongObjects
<1>7. \A objects : ~Has(Section("types", None, objects))
  BY DEF Section
<1>8. o.included = <<>> => ~AmongObjects(NodesIn, o.included, x)
  BY EmptySequence DEF AmongObjects
<1> HIDE DEF Has
<1>9. (\E s : IsSection(o, s) /\ Has(s)) <=>
        \/ AmongObjects(NodesIn, o.included, x)
        \/ AmongEntries(NodesIn, o.properties, x) \/ AmongEntries(NodesIn, o.reverse, x)
        \/ o.graph # None /\ \E y : AmongObjects(NodesIn, o.graph, y) /\ x = InGraph(Label(o), y)
  <2>1. ASSUME NEW s, IsSection(o, s), Has(s)
        PROVE  \/ AmongObjects(NodesIn, o.included, x)
               \/ AmongEntries(NodesIn, o.properties, x) \/ AmongEntries(NodesIn, o.reverse, x)
               \/ o.graph # None /\ \E y : AmongObjects(NodesIn, o.graph, y) /\ x = InGraph(Label(o), y)
    BY <1>3, <1>4, <1>5, <1>6, <1>7, <2>1 DEF IsSection, AmongEntries
  <2>2. ASSUME AmongObjects(NodesIn, o.included, x)
        PROVE  \E s : IsSection(o, s) /\ Has(s)
    BY <1>5, <1>8, <2>2 DEF IsSection
  <2>3. ASSUME AmongEntries(NodesIn, o.properties, x)
        PROVE  \E s : IsSection(o, s) /\ Has(s)
    BY <1>3, <2>3 DEF IsSection, AmongEntries
  <2>4. ASSUME AmongEntries(NodesIn, o.reverse, x)
        PROVE  \E s : IsSection(o, s) /\ Has(s)
    BY <1>4, <2>4 DEF IsSection, AmongEntries
  <2>5. ASSUME o.graph # None /\ \E y : AmongObjects(NodesIn, o.graph, y) /\ x = InGraph(Label(o), y)
        PROVE  \E s : IsSection(o, s) /\ Has(s)
    BY <1>6, <2>5 DEF IsSection
  <2> QED
    BY <2>1, <2>2, <2>3, <2>4, <2>5
<1>10. x \in NodesIn[o] <=> x = Self(o) \/ \E s : IsSection(o, s) /\ Has(s)
  BY <1>1, <1>2, <1>9 DEF Gathers
<1>11. x \in NodesIn[o] <=> x = Self(o) \/ \E s \in ToSet(Sections(o)) : Has(s)
  BY <1>10, SectionsOf
<1> QED
  BY <1>11 DEF Has

\* What an object has in it is not as deep as the object.
LEMMA ContentsAre ==
    /\ \A o \in Objects : o.kind = "list" => Contents(o) = <<o.items>>
    /\ \A o \in NodeObjects :
          /\ DOMAIN Contents(o) = DOMAIN Sections(o)
          /\ \A i \in DOMAIN Sections(o) : Sections(o)[i].op # "types" => Contents(o)[i] = Sections(o)[i].objects
<1>1. \A o \in Objects : o.kind = "list" => Contents(o) = <<o.items>>
  BY DEF Contents
<1>2. \A o \in NodeObjects : Contents(o) = [i \in DOMAIN Sections(o) |->
                               IF Sections(o)[i].op = "types" THEN <<>> ELSE Sections(o)[i].objects]
  BY DEF Contents, NodeObjects
<1>3. \A o \in NodeObjects :
        /\ DOMAIN Contents(o) = DOMAIN Sections(o)
        /\ \A i \in DOMAIN Sections(o) : Sections(o)[i].op # "types" => Contents(o)[i] = Sections(o)[i].objects
  BY <1>2
<1> QED
  BY <1>1, <1>3

LEMMA Shallower ==
    ASSUME NEW o \in Objects
    PROVE  /\ Depth(o) \in Nat
           /\ o.kind = "list" => \A i \in DOMAIN o.items : o.items[i] \in Objects /\ Depth(o.items[i]) < Depth(o)
           /\ o.kind = "node" =>
                 \A s \in ToSet(Sections(o)) : s.op # "types" =>
                    \A i \in DOMAIN s.objects : s.objects[i] \in Objects /\ Depth(s.objects[i]) < Depth(o)
<1>1. /\ Depth(o) \in Nat
      /\ \A i \in DOMAIN Contents(o) : \A k \in DOMAIN Contents(o)[i] : Depth(Contents(o)[i][k]) < Depth(o)
  BY TreeAssumption
<1>2. ASSUME o.kind = "list"
      PROVE  \A i \in DOMAIN o.items : o.items[i] \in Objects /\ Depth(o.items[i]) < Depth(o)
  <2>1. DOMAIN Contents(o) = {1} /\ Contents(o)[1] = o.items
    BY <1>2, ContentsAre, Singleton
  <2> QED
    BY <1>1, <1>2, <2>1, Parts
<1>3. ASSUME o.kind = "node", NEW s \in ToSet(Sections(o)), s.op # "types", NEW k \in DOMAIN s.objects
      PROVE  s.objects[k] \in Objects /\ Depth(s.objects[k]) < Depth(o)
  <2>1. o \in NodeObjects
    BY <1>3 DEF NodeObjects
  <2>2. PICK i \in DOMAIN Sections(o) : s = Sections(o)[i]
    BY DEF ToSet
  <2>3. Contents(o)[i] = s.objects /\ i \in DOMAIN Contents(o)
    BY <1>3, <2>1, <2>2, ContentsAre
  <2>4. SectionOK(s)
    BY <2>1, <2>2, SectionsAre DEF SectionsOK
  <2>5. s.objects \in Seq(Objects)
    BY <1>3, <2>4 DEF SectionOK, QueueOK
  <2> QED
    BY <1>1, <1>3, <2>3, <2>5
<1> QED
  BY <1>1, <1>2, <1>3

LEMMA Nested ==
    ASSUME NEW o \in Objects, NEW x \in NodesIn[o]
    PROVE  x \in Placings /\ Depth(x.node) <= Depth(o)
<1> DEFINE Fine(p) == \A y \in NodesIn[p] : y \in Placings /\ Depth(y.node) <= Depth(p)
           S == {n \in Nat : \A p \in Objects : Depth(p) < n => Fine(p)}
<1>1. 0 \in S
  <2>1. \A p \in Objects : ~(Depth(p) < 0)
    BY Shallower
  <2> QED
    BY <2>1
<1>2. ASSUME NEW n \in Nat, n \in S
      PROVE  n + 1 \in S
  <2>1. SUFFICES ASSUME NEW p \in Objects, Depth(p) < n + 1
                 PROVE  Fine(p)
    BY DEF S
  <2>2. \A q \in Objects : Depth(q) < Depth(p) => Fine(q) /\ Depth(q) \in Nat
    BY <1>2, <2>1, Shallower
  <2>3. Depth(p) \in Nat
    BY Shallower
  <2>4. SUFFICES ASSUME NEW y \in NodesIn[p]
                 PROVE  y \in Placings /\ Depth(y.node) <= Depth(p)
    OBVIOUS
  <2>5. Gathers(NodesIn, p, y)
    BY NodesInIs
  <2>6. CASE p.kind = "list"
    <3>1. PICK i \in DOMAIN p.items : y \in NodesIn[p.items[i]]
      BY <2>5, <2>6 DEF Gathers, AmongObjects
    <3>2. p.items[i] \in Objects /\ Depth(p.items[i]) < Depth(p)
      BY <2>6, Shallower
    <3>3. y \in Placings /\ Depth(y.node) <= Depth(p.items[i]) /\ Depth(p.items[i]) \in Nat
      BY <2>2, <3>1, <3>2
    <3>4. y.node \in Objects
      BY <3>3 DEF Placings, NodeObjects
    <3>5. Depth(y.node) \in Nat
      BY <3>4, Shallower
    <3> QED
      BY <2>3, <3>2, <3>3, <3>5
  <2>7. CASE p.kind = "node"
    <3>1. p \in NodeObjects
      BY <2>7 DEF NodeObjects
    <3>2. CASE y = Self(p)
      <4>1. y \in Placings /\ y.node = p
        BY <3>1, <3>2 DEF Self, Placings
      <4> QED
        BY <2>3, <4>1
    <3>3. CASE y # Self(p)
      <4>1. PICK s \in ToSet(Sections(p)) : s.op # "types" /\ \E i \in DOMAIN s.objects : \E z \in NodesIn[s.objects[i]] :
                    y = Outward(p, s.op, z)
        BY <3>1, <3>3, GathersSections
      <4>2. PICK i \in DOMAIN s.objects : \E z \in NodesIn[s.objects[i]] : y = Outward(p, s.op, z)
        BY <4>1
      <4>3. PICK z \in NodesIn[s.objects[i]] : y = Outward(p, s.op, z)
        BY <4>2
      <4>4. s.objects[i] \in Objects /\ Depth(s.objects[i]) < Depth(p)
        BY <2>7, <4>1, Shallower
      <4>5. z \in Placings /\ Depth(z.node) <= Depth(s.objects[i]) /\ Depth(s.objects[i]) \in Nat
        BY <2>2, <4>4
      <4>6. Label(p) \in Identifiers \cup NodeObjects
        BY <2>7, Parts
      <4>7. y \in Placings /\ y.node = z.node
        BY <4>3, <4>5, <4>6 DEF Outward, InGraph, Placings
      <4>8. z.node \in Objects
        BY <4>5 DEF Placings, NodeObjects
      <4>9. Depth(z.node) \in Nat
        BY <4>8, Shallower
      <4> QED
        BY <2>3, <4>4, <4>5, <4>7, <4>9
    <3> QED
      BY <3>2, <3>3
  <2> QED
    BY <2>5, <2>6, <2>7 DEF Gathers
<1>3. Depth(o) + 1 \in S
  <2>1. Depth(o) + 1 \in Nat
    BY Shallower
  <2> HIDE DEF S
  <2> QED
    BY <1>1, <1>2, <2>1, Induct
<1>4. Fine(o)
  <2>1. Depth(o) < Depth(o) + 1
    BY Shallower
  <2> HIDE DEF Fine
  <2> QED
    BY <1>3, <2>1
<1> QED
  BY <1>4

\* No anonymous node is at two places.
Alone(work) ==
    \A v, w \in DOMAIN work : v # w => Anonymous(work[v].object) \cap Anonymous(work[w].object) = {}

\* A call over a list, or a document, has its items to visit.
LEMMA ItemsWork ==
    ASSUME NEW f, NEW m, FrameOK(f, m), f.section = "items", f.sections = <<>>, Unshared(<<f.queue>>)
    PROVE  /\ \A w \in DOMAIN Work(f) : \E i \in DOMAIN f.queue : Work(f)[w] = [graph |-> f.active, object |-> f.queue[i]]
           /\ \A i \in DOMAIN f.queue : \E w \in DOMAIN Work(f) : Work(f)[w] = [graph |-> f.active, object |-> f.queue[i]]
           /\ Alone(Work(f))
<1> DEFINE k == Len(f.queue)
           At(w) == k - w[2] + 1
<1>1. k \in Nat /\ DOMAIN f.queue = 1 .. k /\ Len(f.sections) = 0
  BY Lengths
<1>2. PartAt(f, 0) = Section("items", None, f.queue)
  BY <1>1, PartIs
<1>3. PartAt(f, 0).op = "items" /\ PartAt(f, 0).objects = f.queue
  BY <1>2 DEF Section
<1>4. ASSUME NEW w \in Places(f)
      PROVE  /\ w[1] = 0 /\ w[2] \in 1 .. k /\ At(w) \in DOMAIN f.queue /\ w = <<0, w[2]>>
             /\ Work(f)[w] = [graph |-> f.active, object |-> f.queue[At(w)]]
  <2>1. w[1] \in Nat /\ w[2] \in Nat \ {0} /\ w[1] <= 0 /\ w[2] <= Len(PartAt(f, w[1]).objects) /\ w = <<w[1], w[2]>>
    BY <1>1 DEF Places
  <2>2. w[1] = 0
    BY <2>1
  <2>3. w[2] \in 1 .. k /\ At(w) \in DOMAIN f.queue
    BY <1>1, <1>3, <2>1, <2>2
  <2>4. Work(f)[w] = [graph |-> f.active, object |-> f.queue[At(w)]]
    BY <1>3, <2>2 DEF Work, AtPlace
  <2> QED
    BY <2>1, <2>2, <2>3, <2>4
<1>5. ASSUME NEW i \in DOMAIN f.queue
      PROVE  \E w \in DOMAIN Work(f) : Work(f)[w] = [graph |-> f.active, object |-> f.queue[i]]
  <2> DEFINE w == <<0, k - i + 1>>
  <2>1. w \in Nat \X (Nat \ {0}) /\ w[1] = 0 /\ w[2] = k - i + 1 /\ k - i + 1 <= k
    BY <1>1
  <2> HIDE DEF w
  <2>2. w[2] <= Len(PartAt(f, w[1]).objects) /\ PartAt(f, w[1]).op # "types" /\ w[1] <= Len(f.sections)
    BY <1>1, <1>3, <2>1
  <2>3. w \in Places(f)
    BY <2>1, <2>2 DEF Places
  <2>4. At(w) = i
    BY <1>1, <2>1
  <2>5. DOMAIN Work(f) = Places(f)
    BY DEF Work
  <2> QED
    BY <1>4, <2>3, <2>4, <2>5
<1>6. DOMAIN Work(f) = Places(f)
  BY DEF Work
<1>7. Alone(Work(f))
  <2>1. SUFFICES ASSUME NEW v \in Places(f), NEW w \in Places(f), v # w
                 PROVE  Anonymous(Work(f)[v].object) \cap Anonymous(Work(f)[w].object) = {}
    BY <1>6 DEF Alone
  <2>7. /\ v[2] \in 1 .. k /\ At(v) \in DOMAIN f.queue /\ v = <<0, v[2]>>
        /\ Work(f)[v] = [graph |-> f.active, object |-> f.queue[At(v)]]
    BY <1>4
  <2>8. /\ w[2] \in 1 .. k /\ At(w) \in DOMAIN f.queue /\ w = <<0, w[2]>>
        /\ Work(f)[w] = [graph |-> f.active, object |-> f.queue[At(w)]]
    BY <1>4
  <2>9. v[2] # w[2]
    BY <2>1, <2>7, <2>8
  <2>2. At(v) # At(w) /\ At(v) \in DOMAIN f.queue /\ At(w) \in DOMAIN f.queue
    <3>1. v[2] \in Nat /\ w[2] \in Nat
      BY <2>7, <2>8
    <3> HIDE DEF k
    <3>2. At(v) # At(w)
      BY <1>1, <2>9, <3>1
    <3> QED
      BY <2>7, <2>8, <3>2
  <2> HIDE DEF At
  <2>3. Work(f)[v].object = f.queue[At(v)] /\ Work(f)[w].object = f.queue[At(w)]
    BY <2>7, <2>8
  <2>4. 1 \in DOMAIN <<f.queue>> /\ <<f.queue>>[1] = f.queue
    BY Singleton
  <2>5. <<1, At(v)>> # <<1, At(w)>>
    BY <2>2
  <2>6. Anonymous(<<f.queue>>[1][At(v)]) \cap Anonymous(<<f.queue>>[1][At(w)]) = {}
    BY <2>2, <2>4, <2>5 DEF Unshared
  <2> QED
    BY <2>3, <2>4, <2>6
<1> QED
  BY <1>4, <1>5, <1>6, <1>7

\* A call over a node object has what its sections have to visit.
LEMMA SectionsWork ==
    ASSUME NEW o \in NodeObjects, NEW f, NEW m, FrameOK(f, m),
           f.section = "between", f.queue = <<>>, f.sections = Sections(o)
    PROVE  /\ \A w \in DOMAIN Work(f) : \E s \in ToSet(Sections(o)) : s.op # "types" /\ \E i \in DOMAIN s.objects :
                 Work(f)[w] = [graph |-> IF s.op = "graph" THEN f.id ELSE f.active, object |-> s.objects[i]]
           /\ \A s \in ToSet(Sections(o)) : s.op # "types" => \A i \in DOMAIN s.objects : \E w \in DOMAIN Work(f) :
                 Work(f)[w] = [graph |-> IF s.op = "graph" THEN f.id ELSE f.active, object |-> s.objects[i]]
           /\ Alone(Work(f))
<1> DEFINE n == Len(f.sections)
           S(w) == n - w[1]
           Os(w) == f.sections[S(w)].objects
           At(w) == Len(Os(w)) - w[2] + 1
<1>1. n \in Nat /\ DOMAIN f.sections = 1 .. n
  BY Lengths
<1>2. PartAt(f, n).objects = <<>>
  <2>1. PartAt(f, n) = Section(f.section, None, f.queue)
    BY PartIs
  <2> QED
    BY <2>1 DEF Section
<1>3. DOMAIN Work(f) = Places(f)
  BY DEF Work
<1>4. ASSUME NEW w \in Places(f)
      PROVE  /\ w[1] \in 0 .. n - 1 /\ w[2] \in Nat \ {0} /\ w = <<w[1], w[2]>>
             /\ S(w) \in DOMAIN f.sections /\ PartAt(f, w[1]) = f.sections[S(w)]
             /\ f.sections[S(w)].op # "types"
             /\ Len(Os(w)) \in Nat /\ DOMAIN Os(w) = 1 .. Len(Os(w)) /\ At(w) \in DOMAIN Os(w)
             /\ Work(f)[w] = [graph |-> IF f.sections[S(w)].op = "graph" THEN f.id ELSE f.active, object |-> Os(w)[At(w)]]
  <2>1. /\ w[1] \in Nat /\ w[2] \in Nat \ {0} /\ w = <<w[1], w[2]>>
        /\ w[1] <= n /\ PartAt(f, w[1]).op # "types" /\ w[2] <= Len(PartAt(f, w[1]).objects)
    BY DEF Places
  <2>2. w[1] # n
    BY <1>2, <2>1
  <2>3. w[1] \in 0 .. n - 1 /\ w[1] < n
    BY <1>1, <2>1, <2>2
  <2>4. S(w) \in DOMAIN f.sections /\ PartAt(f, w[1]) = f.sections[S(w)]
    BY <2>1, <2>3, PartIs
  <2>5. Os(w) \in Seq(Objects)
    BY <2>1, <2>4, PartIs
  <2>6. Len(Os(w)) \in Nat /\ DOMAIN Os(w) = 1 .. Len(Os(w))
    BY <2>5
  <2>7. At(w) \in DOMAIN Os(w)
    BY <2>1, <2>4, <2>6
  <2>8. Work(f)[w] = AtPlace(f, w)
    BY DEF Work
  <2>9. AtPlace(f, w) = [graph |-> IF f.sections[S(w)].op = "graph" THEN f.id ELSE f.active, object |-> Os(w)[At(w)]]
    BY <2>4 DEF AtPlace
  <2> HIDE DEF Os, At, S
  <2> QED
    BY <2>1, <2>3, <2>4, <2>6, <2>7, <2>8, <2>9
<1>5. ASSUME NEW w \in Places(f)
      PROVE  \E s \in ToSet(Sections(o)) : s.op # "types" /\ \E i \in DOMAIN s.objects :
                 Work(f)[w] = [graph |-> IF s.op = "graph" THEN f.id ELSE f.active, object |-> s.objects[i]]
  <2>1. f.sections[S(w)] \in ToSet(Sections(o))
    BY <1>4 DEF ToSet
  <2> HIDE DEF S, At
  <2> QED
    BY <1>4, <2>1
<1>6. ASSUME NEW s \in ToSet(Sections(o)), s.op # "types", NEW i \in DOMAIN s.objects
      PROVE  \E w \in Places(f) : Work(f)[w] = [graph |-> IF s.op = "graph" THEN f.id ELSE f.active, object |-> s.objects[i]]
  <2>1. PICK j \in DOMAIN f.sections : s = f.sections[j]
    BY DEF ToSet
  <2>2. s.objects \in Seq(Objects)
    BY <1>6, <2>1, Lengths DEF SectionOK, QueueOK
  <2>3. Len(s.objects) \in Nat /\ i \in 1 .. Len(s.objects)
    BY <2>2
  <2> DEFINE w == <<n - j, Len(s.objects) - i + 1>>
  <2>10. n - j \in Nat /\ Len(s.objects) - i + 1 \in Nat \ {0}
    BY <1>1, <2>1, <2>3
  <2>11. \A k \in Nat, l \in Nat \ {0} : <<k, l>> \in Nat \X (Nat \ {0}) /\ <<k, l>>[1] = k /\ <<k, l>>[2] = l
    OBVIOUS
  <2>4. w \in Nat \X (Nat \ {0}) /\ w[1] = n - j /\ w[2] = Len(s.objects) - i + 1
    BY ONLY <2>10, <2>11
  <2> HIDE DEF w
  <2>5. w[1] < n /\ w[1] <= n /\ n - w[1] = j /\ w[2] <= Len(s.objects) /\ w[1] \in Nat
    BY <1>1, <2>1, <2>3, <2>4
  <2>6. PartAt(f, w[1]) = s
    BY <2>1, <2>5, PartIs
  <2>7. w \in Places(f)
    BY <1>6, <2>4, <2>5, <2>6 DEF Places
  <2>12. S(w) = j /\ Os(w) = s.objects
    BY <2>1, <2>5
  <2>8. S(w) = j /\ Os(w) = s.objects /\ At(w) = i
    <3>1. At(w) = Len(s.objects) - w[2] + 1
      BY <2>12
    <3> HIDE DEF S, Os, At
    <3> QED
      BY <2>3, <2>4, <2>12, <3>1
  <2>9. Work(f)[w] = [graph |-> IF f.sections[S(w)].op = "graph" THEN f.id ELSE f.active, object |-> Os(w)[At(w)]]
    BY <1>4, <2>7
  <2> HIDE DEF S, Os, At
  <2> QED
    BY <2>1, <2>7, <2>8, <2>9
<1>7. Alone(Work(f))
  <2>1. SUFFICES ASSUME NEW v \in Places(f), NEW w \in Places(f), v # w
                 PROVE  Anonymous(Work(f)[v].object) \cap Anonymous(Work(f)[w].object) = {}
    BY <1>3 DEF Alone
  <2>2. <<S(v), At(v)>> # <<S(w), At(w)>>
    <3>1. CASE v[1] = w[1]
      <4>1. v[2] # w[2]
        BY <1>4, <2>1, <3>1
      <4>2. Os(v) = Os(w)
        BY <3>1
      <4>3. At(v) # At(w)
        <5>1. v[2] \in Nat /\ w[2] \in Nat /\ Len(Os(w)) \in Nat
          BY <1>4
        <5> HIDE DEF Os
        <5> QED
          BY <4>1, <4>2, <5>1
      <4> QED
        BY <4>3
    <3>2. CASE v[1] # w[1]
      <4>2. v[1] \in 0 .. n - 1
        BY <1>4
      <4>3. w[1] \in 0 .. n - 1
        BY <1>4
      <4>4. v[1] \in Nat /\ w[1] \in Nat
        BY <4>2, <4>3
      <4> HIDE DEF n
      <4>1. S(v) # S(w)
        BY <1>1, <3>2, <4>4
      <4> QED
        BY <4>1
    <3> QED
      BY <3>1, <3>2
  <2>3. ASSUME NEW u \in Places(f)
        PROVE  S(u) \in DOMAIN Contents(o) /\ Contents(o)[S(u)] = Os(u)
    <3>1. S(u) \in DOMAIN f.sections /\ f.sections[S(u)].op # "types"
      BY <1>4
    <3> HIDE DEF S
    <3> QED
      BY <3>1, ContentsAre
  <2>6. S(v) \in DOMAIN Contents(o) /\ Contents(o)[S(v)] = Os(v)
    BY <2>3
  <2>7. S(w) \in DOMAIN Contents(o) /\ Contents(o)[S(w)] = Os(w)
    BY <2>3
  <2>8. At(v) \in DOMAIN Os(v) /\ Work(f)[v] = [graph |-> IF f.sections[S(v)].op = "graph" THEN f.id ELSE f.active, object |-> Os(v)[At(v)]]
    BY <1>4
  <2>9. At(w) \in DOMAIN Os(w) /\ Work(f)[w] = [graph |-> IF f.sections[S(w)].op = "graph" THEN f.id ELSE f.active, object |-> Os(w)[At(w)]]
    BY <1>4
  <2>4. /\ At(v) \in DOMAIN Os(v) /\ At(w) \in DOMAIN Os(w)
        /\ Work(f)[v].object = Os(v)[At(v)] /\ Work(f)[w].object = Os(w)[At(w)]
    <3> HIDE DEF S, Os, At
    <3> QED
      BY <2>8, <2>9
  <2>5. Unshared(Contents(o))
    BY TreeAssumption DEF NodeObjects
  <2> HIDE DEF S, Os, At
  <2> QED
    BY <2>2, <2>6, <2>7, <2>4, <2>5 DEF Unshared
<1> QED
  BY <1>3, <1>5, <1>6, <1>7

-----------------------------------------------------------------------------
(* What all calls together still have to visit.                              *)

\* What a call has left besides what an inner one is about.
Remaining(calls, n) == IF n = Len(calls) THEN calls[n] ELSE Passed(calls[n])

Spots(calls) ==
    {p \in (DOMAIN calls) \X (Nat \X (Nat \ {0})) : p[2] \in Places(Remaining(calls, p[1]))}

Held(calls) == [p \in Spots(calls) |-> AtPlace(Remaining(calls, p[1]), p[2])]

LEMMA HeldIs ==
    ASSUME NEW calls
    PROVE  /\ DOMAIN Held(calls) = Spots(calls)
           /\ \A p \in Spots(calls) :
                 /\ p = <<p[1], p[2]>> /\ p[1] \in DOMAIN calls /\ p[2] \in DOMAIN Work(Remaining(calls, p[1]))
                 /\ Held(calls)[p] = Work(Remaining(calls, p[1]))[p[2]]
           /\ \A n \in DOMAIN calls : \A w \in DOMAIN Work(Remaining(calls, n)) :
                 <<n, w>> \in Spots(calls) /\ Held(calls)[<<n, w>>] = Work(Remaining(calls, n))[w]
<1>1. \A f : DOMAIN Work(f) = Places(f) /\ Places(f) \subseteq Nat \X (Nat \ {0})
  BY DEF Work, Places
<1>2. \A f : \A w \in Places(f) : Work(f)[w] = AtPlace(f, w)
  BY DEF Work
<1>3. DOMAIN Held(calls) = Spots(calls) /\ \A p \in Spots(calls) : Held(calls)[p] = AtPlace(Remaining(calls, p[1]), p[2])
  BY DEF Held
<1>4. ASSUME NEW p \in Spots(calls)
      PROVE  /\ p = <<p[1], p[2]>> /\ p[1] \in DOMAIN calls /\ p[2] \in Places(Remaining(calls, p[1]))
  BY DEF Spots
<1>5. ASSUME NEW n \in DOMAIN calls, NEW w \in Places(Remaining(calls, n))
      PROVE  <<n, w>> \in Spots(calls) /\ <<n, w>>[1] = n /\ <<n, w>>[2] = w
  <2>1. w \in Nat \X (Nat \ {0})
    BY <1>1
  <2>2. <<n, w>> \in (DOMAIN calls) \X (Nat \X (Nat \ {0}))
    BY <2>1
  <2> QED
    BY <2>2 DEF Spots
<1>6. \A p \in Spots(calls) :
                 /\ p = <<p[1], p[2]>> /\ p[1] \in DOMAIN calls /\ p[2] \in DOMAIN Work(Remaining(calls, p[1]))
                 /\ Held(calls)[p] = Work(Remaining(calls, p[1]))[p[2]]
  BY <1>1, <1>2, <1>3, <1>4
<1>7. ASSUME NEW n \in DOMAIN calls, NEW w \in DOMAIN Work(Remaining(calls, n))
      PROVE  <<n, w>> \in Spots(calls) /\ Held(calls)[<<n, w>>] = Work(Remaining(calls, n))[w]
  <2>1. w \in Places(Remaining(calls, n))
    BY <1>1
  <2>2. <<n, w>> \in Spots(calls) /\ <<n, w>>[1] = n /\ <<n, w>>[2] = w
    BY <1>5, <2>1
  <2>3. Held(calls)[<<n, w>>] = AtPlace(Remaining(calls, n), w)
    BY <1>3, <2>2
  <2> QED
    BY <1>2, <2>1, <2>2, <2>3
<1> QED
  BY <1>3, <1>6, <1>7

\* Calls with the same work hold the same; a call without work holds nothing.
LEMMA HeldSame ==
    ASSUME NEW a, NEW b, DOMAIN b \subseteq DOMAIN a,
           \A n \in DOMAIN b : Work(Remaining(b, n)) = Work(Remaining(a, n)),
           \A n \in DOMAIN a \ DOMAIN b : DOMAIN Work(Remaining(a, n)) = {}
    PROVE  Held(b) = Held(a)
<1>1. /\ DOMAIN Held(a) = Spots(a)
      /\ \A p \in Spots(a) :
                 /\ p = <<p[1], p[2]>> /\ p[1] \in DOMAIN a /\ p[2] \in DOMAIN Work(Remaining(a, p[1]))
                 /\ Held(a)[p] = Work(Remaining(a, p[1]))[p[2]]
      /\ \A n \in DOMAIN a : \A w \in DOMAIN Work(Remaining(a, n)) :
                 <<n, w>> \in Spots(a) /\ Held(a)[<<n, w>>] = Work(Remaining(a, n))[w]
  BY HeldIs
<1>2. /\ DOMAIN Held(b) = Spots(b)
      /\ \A p \in Spots(b) :
                 /\ p = <<p[1], p[2]>> /\ p[1] \in DOMAIN b /\ p[2] \in DOMAIN Work(Remaining(b, p[1]))
                 /\ Held(b)[p] = Work(Remaining(b, p[1]))[p[2]]
      /\ \A n \in DOMAIN b : \A w \in DOMAIN Work(Remaining(b, n)) :
                 <<n, w>> \in Spots(b) /\ Held(b)[<<n, w>>] = Work(Remaining(b, n))[w]
  BY HeldIs
<1>3. ASSUME NEW p \in Spots(a)
      PROVE  p \in Spots(b)
  BY <1>1, <1>2
<1>4. ASSUME NEW p \in Spots(b)
      PROVE  p \in Spots(a) /\ Held(a)[p] = Held(b)[p]
  BY <1>1, <1>2
<1>5. Held(a) = [p \in Spots(a) |-> Held(a)[p]] /\ Held(b) = [p \in Spots(b) |-> Held(b)[p]]
  BY DEF Held
<1>6. Spots(a) = Spots(b)
  BY <1>3, <1>4
<1> QED
  BY <1>4, <1>5, <1>6

\* `b` has what `a` has but at place `t`, and what call M has, which is `h`.
Exchanged(a, t, h, M, b) ==
    /\ t \in DOMAIN a
    /\ DOMAIN b = (DOMAIN a \ {t}) \cup {<<M, w>> : w \in DOMAIN h}
    /\ \A p \in DOMAIN a \ {t} : b[p] = a[p]
    /\ \A w \in DOMAIN h : b[<<M, w>>] = h[w] /\ <<M, w>> \notin DOMAIN a

\* An object is passed, and perhaps a call made for it.
Transfers(a, b, N, t, M, h) ==
    /\ N \in DOMAIN a /\ M \notin DOMAIN a /\ t \in DOMAIN Work(Remaining(a, N))
    /\ DOMAIN b \in {DOMAIN a, DOMAIN a \cup {M}}
    /\ \A n \in DOMAIN a \ {N} : Work(Remaining(b, n)) = Work(Remaining(a, n))
    /\ Work(Remaining(b, N)) = Without(Work(Remaining(a, N)), t)
    /\ h = IF M \in DOMAIN b THEN Work(Remaining(b, M)) ELSE Empty

LEMMA Exchange ==
    ASSUME NEW a, NEW b, NEW N, NEW M, NEW t, NEW h, Transfers(a, b, N, t, M, h)
    PROVE  /\ Exchanged(Held(a), <<N, t>>, h, M, Held(b))
           /\ Held(a)[<<N, t>>] = Work(Remaining(a, N))[t]
<1>0. /\ N \in DOMAIN a /\ M \notin DOMAIN a /\ t \in DOMAIN Work(Remaining(a, N))
      /\ DOMAIN b \in {DOMAIN a, DOMAIN a \cup {M}}
      /\ \A n \in DOMAIN a \ {N} : Work(Remaining(b, n)) = Work(Remaining(a, n))
      /\ Work(Remaining(b, N)) = Without(Work(Remaining(a, N)), t)
      /\ h = IF M \in DOMAIN b THEN Work(Remaining(b, M)) ELSE Empty
  BY DEF Transfers
<1>1. /\ DOMAIN Held(a) = Spots(a)
      /\ \A p \in Spots(a) :
                 /\ p = <<p[1], p[2]>> /\ p[1] \in DOMAIN a /\ p[2] \in DOMAIN Work(Remaining(a, p[1]))
                 /\ Held(a)[p] = Work(Remaining(a, p[1]))[p[2]]
      /\ \A n \in DOMAIN a : \A w \in DOMAIN Work(Remaining(a, n)) :
                 <<n, w>> \in Spots(a) /\ Held(a)[<<n, w>>] = Work(Remaining(a, n))[w]
  BY HeldIs
<1>2. /\ DOMAIN Held(b) = Spots(b)
      /\ \A p \in Spots(b) :
                 /\ p = <<p[1], p[2]>> /\ p[1] \in DOMAIN b /\ p[2] \in DOMAIN Work(Remaining(b, p[1]))
                 /\ Held(b)[p] = Work(Remaining(b, p[1]))[p[2]]
      /\ \A n \in DOMAIN b : \A w \in DOMAIN Work(Remaining(b, n)) :
                 <<n, w>> \in Spots(b) /\ Held(b)[<<n, w>>] = Work(Remaining(b, n))[w]
  BY HeldIs
<1> DEFINE A == Work(Remaining(a, N))
           B == Work(Remaining(b, N))
<1>3. DOMAIN B = DOMAIN A \ {t} /\ \A w \in DOMAIN B : B[w] = A[w]
  BY <1>0 DEF Without
<1>4. <<N, t>> \in Spots(a) /\ Held(a)[<<N, t>>] = A[t]
  BY <1>0, <1>1
<1>5. ASSUME NEW p \in Spots(a), p # <<N, t>>
      PROVE  p \in Spots(b) /\ Held(b)[p] = Held(a)[p]
  <2>1. p = <<p[1], p[2]>> /\ p[1] \in DOMAIN a /\ p[2] \in DOMAIN Work(Remaining(a, p[1]))
        /\ Held(a)[p] = Work(Remaining(a, p[1]))[p[2]]
    BY <1>1
  <2>2. p[1] \in DOMAIN b
    BY <1>0, <2>1
  <2>3. CASE p[1] = N
    <3>1. p[2] # t
      BY <1>5, <2>1, <2>3
    <3>2. p[2] \in DOMAIN Work(Remaining(b, p[1])) /\ Work(Remaining(b, p[1]))[p[2]] = Work(Remaining(a, p[1]))[p[2]]
      BY <1>3, <2>1, <2>3, <3>1
    <3> QED
      BY <1>2, <2>1, <2>2, <3>2
  <2>4. CASE p[1] # N
    BY <1>0, <1>2, <2>1, <2>2, <2>4
  <2> QED
    BY <2>3, <2>4
<1>6. ASSUME NEW p \in Spots(b), p[1] # M
      PROVE  p \in Spots(a) /\ p # <<N, t>>
  <2>1. p = <<p[1], p[2]>> /\ p[1] \in DOMAIN b /\ p[2] \in DOMAIN Work(Remaining(b, p[1]))
    BY <1>2
  <2>2. p[1] \in DOMAIN a
    BY <1>0, <1>6, <2>1
  <2>3. CASE p[1] = N
    <3>1. p[2] \in DOMAIN A /\ p[2] # t
      BY <1>3, <2>1, <2>3
    <3> QED
      BY <1>1, <2>1, <2>2, <2>3, <3>1
  <2>4. CASE p[1] # N
    BY <1>0, <1>1, <2>1, <2>2, <2>4
  <2> QED
    BY <2>3, <2>4
<1>7. ASSUME NEW p \in Spots(b), p[1] = M
      PROVE  \E w \in DOMAIN h : p = <<M, w>>
  BY <1>0, <1>2, <1>7
<1>8. DOMAIN Empty = {}
  BY DEF Empty
<1>9. ASSUME NEW w \in DOMAIN h
      PROVE  <<M, w>> \in Spots(b) /\ Held(b)[<<M, w>>] = h[w] /\ <<M, w>> \notin Spots(a)
  <2>1. M \in DOMAIN b /\ h = Work(Remaining(b, M))
    BY <1>0, <1>8
  <2>2. <<M, w>>[1] = M
    OBVIOUS
  <2> QED
    BY <1>0, <1>1, <1>2, <2>1, <2>2
<1>10. \A p : p \in Spots(b) <=> (p \in Spots(a) /\ p # <<N, t>>) \/ \E w \in DOMAIN h : p = <<M, w>>
  BY <1>5, <1>6, <1>7, <1>9
<1> HIDE DEF A, B
<1>11. DOMAIN Held(b) = (DOMAIN Held(a) \ {<<N, t>>}) \cup {<<M, w>> : w \in DOMAIN h}
  BY <1>1, <1>2, <1>10
<1> QED
  BY <1>1, <1>4, <1>5, <1>9, <1>11 DEF Exchanged, A

\* A frame that is complete has nothing left to visit.
LEMMA NoWork ==
    ASSUME NEW f, NEW m, FrameOK(f, m), Complete(f)
    PROVE  DOMAIN Work(f) = {}
<1>1. f.queue = <<>> /\ f.sections = <<>> /\ Len(f.sections) = 0 /\ Len(f.queue) = 0
  BY DEF Complete
<1>2. PartAt(f, 0) = Section(f.section, None, f.queue)
  BY <1>1 DEF PartAt
<1>3. ASSUME NEW w \in Places(f)
      PROVE  FALSE
  <2>1. w[1] \in Nat /\ w[2] \in Nat \ {0} /\ w[1] <= 0 /\ w[2] <= Len(PartAt(f, w[1]).objects)
    BY <1>1 DEF Places
  <2>2. w[1] = 0
    BY <2>1
  <2>3. PartAt(f, w[1]).objects = f.queue
    BY <1>2, <2>2 DEF Section
  <2>4. Len(PartAt(f, w[1]).objects) = 0
    BY <1>1, <2>3
  <2> QED
    BY <2>1, <2>4
<1> QED
  BY <1>3 DEF Work

\* The innermost call changes its state.
LEMMA Updated ==
    ASSUME NEW st, IsSequence(st), st # <<>>, NEW g
    PROVE  /\ Len(st) \in DOMAIN st /\ Len(st) + 1 \notin DOMAIN st
           /\ DOMAIN Append(Front(st), g) = DOMAIN st
           /\ Remaining(Append(Front(st), g), Len(st)) = g /\ Remaining(st, Len(st)) = Last(st)
           /\ \A n \in DOMAIN st \ {Len(st)} : Remaining(Append(Front(st), g), n) = Remaining(st, n)
<1> DEFINE b == Append(Front(st), g)
<1>1. /\ Len(st) \in Nat \ {0} /\ DOMAIN st = 1 .. Len(st) /\ Last(st) = st[Len(st)]
      /\ IsSequence(Front(st)) /\ Len(Front(st)) = Len(st) - 1
      /\ \A i \in 1 .. Len(st) - 1 : Front(st)[i] = st[i]
  BY Ahead
<1>2. /\ Len(b) = Len(Front(st)) + 1 /\ DOMAIN b = 1 .. Len(Front(st)) + 1
      /\ b[Len(Front(st)) + 1] = g
      /\ \A i \in 1 .. Len(Front(st)) : b[i] = Front(st)[i]
  <2>1. IsSequence(Front(st))
    BY <1>1
  <2> QED
    BY <2>1, Longer
<1> HIDE DEF b
<1>3. Len(b) = Len(st) /\ DOMAIN b = DOMAIN st /\ b[Len(st)] = g /\ \A i \in 1 .. Len(st) - 1 : b[i] = st[i]
  BY <1>1, <1>2
<1>4. \A n \in DOMAIN st \ {Len(st)} : Remaining(b, n) = Remaining(st, n)
  BY <1>1, <1>3 DEF Remaining
<1>5. Len(st) \in DOMAIN st /\ Len(st) + 1 \notin DOMAIN st
  BY <1>1
<1>6. Remaining(b, Len(st)) = g /\ Remaining(st, Len(st)) = Last(st)
  BY <1>1, <1>3 DEF Remaining
<1> QED
  BY <1>3, <1>4, <1>5, <1>6 DEF b

LEMMA HeldUpdated ==
    ASSUME NEW st, IsSequence(st), st # <<>>, NEW g, Work(g) = Work(Last(st))
    PROVE  Held(Append(Front(st), g)) = Held(st)
<1> DEFINE b == Append(Front(st), g)
<1>1. /\ Len(st) \in DOMAIN st /\ Len(st) + 1 \notin DOMAIN st
      /\ DOMAIN b = DOMAIN st
      /\ Remaining(b, Len(st)) = g /\ Remaining(st, Len(st)) = Last(st)
      /\ \A n \in DOMAIN st \ {Len(st)} : Remaining(b, n) = Remaining(st, n)
  BY Updated
<1> HIDE DEF b
<1>2. \A n \in DOMAIN b : Work(Remaining(b, n)) = Work(Remaining(st, n))
  BY <1>1
<1>3. Held(b) = Held(st)
  BY <1>1, <1>2, HeldSame
<1> QED
  BY <1>3 DEF b

\* The innermost call passes an object.
LEMMA HeldPassed ==
    ASSUME NEW st, NEW m, IsSequence(st), st # <<>>, FrameOK(Last(st), m),
           Last(st).queue # <<>>, Last(st).section # "types", NEW g, Work(g) = Work(Passed(Last(st)))
    PROVE  /\ Exchanged(Held(st), <<Len(st), Top(Last(st))>>, Empty, Len(st) + 1, Held(Append(Front(st), g)))
           /\ Held(st)[<<Len(st), Top(Last(st))>>] = [graph |-> Target(Last(st)), object |-> Head(Last(st).queue)]
<1> DEFINE b == Append(Front(st), g)
           f == Last(st)
           N == Len(st)
<1>1. /\ N \in DOMAIN st /\ N + 1 \notin DOMAIN st
      /\ DOMAIN b = DOMAIN st
      /\ Remaining(b, N) = g /\ Remaining(st, N) = f
      /\ \A n \in DOMAIN st \ {N} : Remaining(b, n) = Remaining(st, n)
  BY Updated
<1>2. /\ Top(f) \in DOMAIN Work(f)
      /\ Work(f)[Top(f)] = [graph |-> Target(f), object |-> Head(f.queue)]
      /\ Work(Passed(f)) = Without(Work(f), Top(f))
  BY WorkPassed
<1>3. Work(g) = Work(Passed(f))
  OBVIOUS
<1> HIDE DEF b, f, N
<1>4. /\ Top(f) \in DOMAIN Work(Remaining(st, N)) /\ N + 1 \notin DOMAIN b
      /\ DOMAIN b \in {DOMAIN st, DOMAIN st \cup {N + 1}}
      /\ \A n \in DOMAIN st \ {N} : Work(Remaining(b, n)) = Work(Remaining(st, n))
      /\ Work(Remaining(b, N)) = Without(Work(Remaining(st, N)), Top(f))
  BY <1>1, <1>2, <1>3
<1>5. /\ Exchanged(Held(st), <<N, Top(f)>>, Empty, N + 1, Held(b))
      /\ Held(st)[<<N, Top(f)>>] = Work(Remaining(st, N))[Top(f)]
  <2>1. N + 1 \notin DOMAIN b /\ N + 1 \notin DOMAIN st /\ DOMAIN b \in {DOMAIN st, DOMAIN st \cup {N + 1}}
    BY <1>1, <1>4
  <2>2. Transfers(st, b, N, Top(f), N + 1, Empty)
    BY <1>1, <1>4, <2>1 DEF Transfers
  <2> QED
    BY <2>2, Exchange
<1> QED
  BY <1>1, <1>2, <1>5 DEF b, f, N

\* A call is made for one.
LEMMA HeldCalled ==
    ASSUME NEW st, NEW m, IsSequence(st), st # <<>>, FrameOK(Last(st), m),
           Last(st).queue # <<>>, Last(st).section # "types", NEW g
    PROVE  /\ Exchanged(Held(st), <<Len(st), Top(Last(st))>>, Work(g), Len(st) + 1, Held(Append(st, g)))
           /\ Held(st)[<<Len(st), Top(Last(st))>>] = [graph |-> Target(Last(st)), object |-> Head(Last(st).queue)]
<1> DEFINE b == Append(st, g)
           f == Last(st)
           N == Len(st)
<1>1. /\ N \in Nat \ {0} /\ DOMAIN st = 1 .. N /\ f = st[N]
  BY Ahead
<1>2. /\ Len(b) = N + 1 /\ DOMAIN b = 1 .. N + 1 /\ b[N + 1] = g
      /\ \A i \in 1 .. N : b[i] = st[i]
  BY Longer
<1>3. /\ Top(f) \in DOMAIN Work(f)
      /\ Work(f)[Top(f)] = [graph |-> Target(f), object |-> Head(f.queue)]
      /\ Work(Passed(f)) = Without(Work(f), Top(f))
  BY WorkPassed
<1> HIDE DEF b, f
<1>4. /\ N \in DOMAIN st /\ N + 1 \notin DOMAIN st /\ N + 1 \in DOMAIN b /\ DOMAIN b = DOMAIN st \cup {N + 1}
  BY <1>1, <1>2
<1>6. \A n \in DOMAIN st \ {N} : Remaining(b, n) = Remaining(st, n)
  BY <1>1, <1>2 DEF Remaining
<1>9. N = Len(st)
  OBVIOUS
<1> HIDE DEF N
<1>10. N \in 1 .. N
  BY <1>1
<1>11. N # Len(b) /\ N + 1 = Len(b)
  BY <1>1, <1>2
<1>8. N # Len(b) /\ N + 1 = Len(b) /\ N = Len(st) /\ f = st[N] /\ b[N] = st[N] /\ b[N + 1] = g
  BY <1>1, <1>2, <1>9, <1>10, <1>11
<1>5. Remaining(b, N + 1) = g /\ Remaining(b, N) = Passed(f) /\ Remaining(st, N) = f
  BY <1>8 DEF Remaining
<1>7. /\ Exchanged(Held(st), <<N, Top(f)>>, Work(g), N + 1, Held(b))
      /\ Held(st)[<<N, Top(f)>>] = Work(Remaining(st, N))[Top(f)]
  <2>1. Transfers(st, b, N, Top(f), N + 1, Work(g))
    BY <1>3, <1>4, <1>5, <1>6 DEF Transfers
  <2> QED
    BY <2>1, Exchange
<1> QED
  BY <1>3, <1>5, <1>7 DEF b, f, N

\* A call that is complete returns.
LEMMA HeldLeft ==
    ASSUME NEW st, NEW m, StackOK(st, m), Len(st) > 1, Complete(Last(st)), NEW x
    PROVE  Held(Append(Front(Front(st)), Given(Passed(Last(Front(st))), x))) = Held(st)
<1> DEFINE before == Front(st)
           caller == Last(before)
           g == Given(Passed(caller), x)
           b == Append(Front(before), g)
           N == Len(before)
<1>1. /\ StackOK(before, m) /\ before # <<>>
      /\ FrameOK(caller, m) /\ FrameOK(Last(st), m) /\ Fits(caller, Last(st))
  BY Callers
<1>2. /\ st # <<>> /\ IsSequence(st)
  BY DEF StackOK
<1>3. /\ Len(st) \in Nat \ {0} /\ DOMAIN st = 1 .. Len(st) /\ Last(st) = st[Len(st)]
      /\ N = Len(st) - 1 /\ \A i \in 1 .. Len(st) - 1 : before[i] = st[i]
  BY <1>2, Ahead
<1>4. IsSequence(before)
  BY <1>1 DEF StackOK
<1>5. /\ DOMAIN before = 1 .. N /\ caller = before[N] /\ N \in DOMAIN before
  BY <1>1, <1>4, Ahead
<1>6. /\ DOMAIN b = DOMAIN before /\ Remaining(b, N) = g
      /\ \A n \in DOMAIN before \ {N} : Remaining(b, n) = Remaining(before, n)
  <2> HIDE DEF g, before
  <2> QED
    BY <1>1, <1>4, Updated
<1>7. Work(g) = Work(Passed(caller))
  <2>1. FrameOK(Passed(caller), m)
    BY <1>1, Passes DEF Fits
  <2>2. /\ g.section = Passed(caller).section /\ g.queue = Passed(caller).queue /\ g.sections = Passed(caller).sections
        /\ Steady(Passed(caller), g)
    BY <2>1 DEF FrameOK, FrameFields, Given, Steady
  <2> HIDE DEF g
  <2> QED
    BY <2>2, WorkSame
<1> HIDE DEF b, g, caller, before
<1>8. Remaining(st, N) = Passed(caller)
  <2>3. N \in 1 .. N /\ N = Len(st) - 1 /\ Len(st) \in Nat \ {0}
    BY <1>3, <1>5
  <2>1. N # Len(st) /\ N \in 1 .. Len(st) - 1
    <3> HIDE DEF N
    <3> QED
      BY <2>3
  <2>2. st[N] = caller
    BY <1>3, <1>5, <2>1
  <2> HIDE DEF N
  <2> QED
    BY <2>1, <2>2 DEF Remaining
<1>9. \A n \in DOMAIN before \ {N} : Remaining(before, n) = Remaining(st, n)
  <2>1. \A n \in DOMAIN before \ {N} : n # Len(st) /\ n # N /\ before[n] = st[n]
    BY <1>3, <1>5
  <2> QED
    BY <2>1 DEF Remaining, N
<1>10. DOMAIN b \subseteq DOMAIN st /\ DOMAIN st \ DOMAIN b = {Len(st)}
  BY <1>3, <1>5, <1>6
<1>11. Remaining(st, Len(st)) = Last(st) /\ DOMAIN Work(Last(st)) = {}
  BY <1>1, <1>3, NoWork DEF Remaining
<1>12. \A n \in DOMAIN b : Work(Remaining(b, n)) = Work(Remaining(st, n))
  BY <1>5, <1>6, <1>7, <1>8, <1>9
<1>13. Held(b) = Held(st)
  BY <1>10, <1>11, <1>12, HeldSame
<1> QED
  BY <1>13 DEF b, g, caller, before

-----------------------------------------------------------------------------
(* Accounting for the node objects of a document.                            *)

\* What a label is called, the default graph included.
Called(ns, l, g) == IF l = Default THEN g = Default ELSE l \in DOMAIN ns /\ ns[l] = g

\* Names are given, never changed.
NamesGrow(ns, q) == DOMAIN ns \subseteq DOMAIN q /\ \A l \in DOMAIN ns : q[l] = ns[l]

\* No two labels are called the same.
Separate(ns) == \A g : \A k, l : Called(ns, k, g) /\ Called(ns, l, g) => k = l

\* An occurrence that visiting an object comes to.
Brings(ns, h, x) == \E l : Called(ns, l, h.graph) /\ \E y \in NodesIn[h.object] : x = InGraph(l, y)

\* An object still to be visited: the occurrences in it are the document's, and
\* none of the anonymous nodes in it has been named.
DueOK(h, ns, occ) ==
    /\ h.object \in Objects
    /\ \E l : Called(ns, l, h.graph) /\ \A y \in NodesIn[h.object] : InGraph(l, y) \in occ
    /\ Anonymous(h.object) \cap DOMAIN ns = {}

HeldOK(held, ns, occ) ==
    /\ \A p \in DOMAIN held : DueOK(held[p], ns, occ)
    /\ Alone(held)

\* The node an occurrence was declared as.
DeclaredAs(ns, x, g, id) == Called(ns, x.graph, g) /\ Called(ns, Label(x.node), id)

\* A node has the index of one of its occurrences, or none.
Explains(ns, m, g, id, x) ==
    DeclaredAs(ns, x, g, id) /\ (m[g][id].index # None => m[g][id].index = x.node.index)
Explained(ns, m, occ) == \A g \in DOMAIN m : \A id \in DOMAIN m[g] : \E x \in occ : Explains(ns, m, g, id, x)

\* An occurrence has been declared, and its index is that of its node.
Indexed(ns, m, x) ==
    \E g \in DOMAIN m : \E id \in DOMAIN m[g] :
        DeclaredAs(ns, x, g, id) /\ (x.node.index # None => m[g][id].index = x.node.index)

\* Every occurrence has been, or is still to be visited.
Awaited(held, ns, x) == \E p \in DOMAIN held : Brings(ns, held[p], x)
Covered(held, ns, m, occ) == \A x \in occ : Awaited(held, ns, x) \/ Indexed(ns, m, x)

Account(held, ns, m, occ) == HeldOK(held, ns, occ) /\ Explained(ns, m, occ) /\ Covered(held, ns, m, occ)

LEMMA CalledStill ==
    ASSUME NEW ns, NEW q, NamesGrow(ns, q)
    PROVE  /\ \A l, g : Called(ns, l, g) => Called(q, l, g)
           /\ \A h, x : Brings(ns, h, x) => Brings(q, h, x)
           /\ \A x, g, id : DeclaredAs(ns, x, g, id) => DeclaredAs(q, x, g, id)
<1>1. \A l, g : Called(ns, l, g) => Called(q, l, g)
  BY DEF Called, NamesGrow
<1>2. \A h, x : Brings(ns, h, x) => Brings(q, h, x)
  BY <1>1 DEF Brings
<1>3. \A x, g, id : DeclaredAs(ns, x, g, id) => DeclaredAs(q, x, g, id)
  BY <1>1 DEF DeclaredAs
<1> QED
  BY <1>1, <1>2, <1>3

\* What is still to be visited, after a place is exchanged for others.
LEMMA HeldExchanged ==
    ASSUME NEW a, NEW t, NEW h, NEW M, NEW b, NEW ns, NEW q, NEW occ,
           HeldOK(a, ns, occ), Exchanged(a, t, h, M, b), NamesGrow(ns, q),
           \A w \in DOMAIN h : DueOK(h[w], q, occ), Alone(h),
           \A w \in DOMAIN h : Anonymous(h[w].object) \subseteq Anonymous(a[t].object),
           \A p \in DOMAIN a \ {t} : Anonymous(a[p].object) \cap (DOMAIN q \ DOMAIN ns) = {}
    PROVE  HeldOK(b, q, occ)
<1>1. /\ t \in DOMAIN a
      /\ \A p \in DOMAIN a \ {t} : b[p] = a[p]
      /\ \A w \in DOMAIN h : b[<<M, w>>] = h[w]
  BY DEF Exchanged
<1>2. ASSUME NEW p \in DOMAIN b
      PROVE  \/ p \in DOMAIN a \ {t}
             \/ \E w \in DOMAIN h : p = <<M, w>>
  BY DEF Exchanged
<1>3. ASSUME NEW p \in DOMAIN a \ {t}
      PROVE  DueOK(a[p], q, occ)
  <2>1. DueOK(a[p], ns, occ)
    BY DEF HeldOK
  <2>2. Anonymous(a[p].object) \cap DOMAIN q = {}
    BY <2>1 DEF DueOK
  <2> QED
    BY <2>1, <2>2, CalledStill DEF DueOK
<1>4. ASSUME NEW p \in DOMAIN b
      PROVE  DueOK(b[p], q, occ)
  BY <1>1, <1>2, <1>3
<1>5. ASSUME NEW p \in DOMAIN b, NEW o \in DOMAIN b, p # o
      PROVE  Anonymous(b[p].object) \cap Anonymous(b[o].object) = {}
  <2>1. CASE p \in DOMAIN a \ {t} /\ o \in DOMAIN a \ {t}
    BY <1>1, <1>5, <2>1 DEF HeldOK, Alone
  <2>2. ASSUME NEW w \in DOMAIN h, NEW v \in DOMAIN a \ {t}
        PROVE  Anonymous(h[w].object) \cap Anonymous(a[v].object) = {}
    <3>1. Anonymous(a[t].object) \cap Anonymous(a[v].object) = {}
      BY <1>1 DEF HeldOK, Alone
    <3> QED
      BY <3>1
  <2>3. CASE \E w \in DOMAIN h, v \in DOMAIN h : p = <<M, w>> /\ o = <<M, v>>
    <3>1. PICK w \in DOMAIN h, v \in DOMAIN h : p = <<M, w>> /\ o = <<M, v>>
      BY <2>3
    <3>2. w # v
      BY <1>5, <3>1
    <3> QED
      BY <1>1, <3>1, <3>2 DEF Alone
  <2>4. CASE p \in DOMAIN a \ {t} /\ \E w \in DOMAIN h : o = <<M, w>>
    BY <1>1, <2>2, <2>4
  <2>5. CASE o \in DOMAIN a \ {t} /\ \E w \in DOMAIN h : p = <<M, w>>
    BY <1>1, <2>2, <2>5
  <2>6. p \in DOMAIN a \ {t} \/ \E w \in DOMAIN h : p = <<M, w>>
    BY <1>2
  <2>7. o \in DOMAIN a \ {t} \/ \E w \in DOMAIN h : o = <<M, w>>
    BY <1>2
  <2> QED
    BY <2>1, <2>3, <2>4, <2>5, <2>6, <2>7
<1> QED
  BY <1>4, <1>5 DEF HeldOK, Alone

\* A node that had an index still has it.
IndexesKept(m, n) ==
    \A g \in DOMAIN m : \A id \in DOMAIN m[g] :
        /\ g \in DOMAIN n /\ id \in DOMAIN n[g]
        /\ m[g][id].index # None => n[g][id].index = m[g][id].index

LEMMA IndexedStill ==
    ASSUME NEW ns, NEW q, NEW m, NEW n, NEW x, NamesGrow(ns, q), IndexesKept(m, n), Indexed(ns, m, x)
    PROVE  Indexed(q, n, x)
<1>4. PICK g \in DOMAIN m : \E id \in DOMAIN m[g] :
         DeclaredAs(ns, x, g, id) /\ (x.node.index # None => m[g][id].index = x.node.index)
  BY DEF Indexed
<1>1. PICK id \in DOMAIN m[g] :
         DeclaredAs(ns, x, g, id) /\ (x.node.index # None => m[g][id].index = x.node.index)
  BY <1>4
<1>2. g \in DOMAIN n /\ id \in DOMAIN n[g] /\ (m[g][id].index # None => n[g][id].index = m[g][id].index)
  BY DEF IndexesKept
<1>3. DeclaredAs(q, x, g, id)
  BY <1>1, CalledStill
<1> QED
  BY <1>1, <1>2, <1>3 DEF Indexed

LEMMA CoveredExchanged ==
    ASSUME NEW a, NEW t, NEW h, NEW M, NEW b, NEW ns, NEW q, NEW m, NEW n, NEW occ,
           Covered(a, ns, m, occ), Exchanged(a, t, h, M, b), NamesGrow(ns, q), IndexesKept(m, n),
           \A x : Brings(ns, a[t], x) => Indexed(q, n, x) \/ \E w \in DOMAIN h : Brings(q, h[w], x)
    PROVE  Covered(b, q, n, occ)
<1>1. /\ \A p \in DOMAIN a \ {t} : p \in DOMAIN b /\ b[p] = a[p]
      /\ \A w \in DOMAIN h : <<M, w>> \in DOMAIN b /\ b[<<M, w>>] = h[w]
  BY DEF Exchanged
<1>2. SUFFICES ASSUME NEW x \in occ
               PROVE  Awaited(b, q, x) \/ Indexed(q, n, x)
  BY DEF Covered
<1>3. CASE Indexed(ns, m, x)
  BY <1>3, IndexedStill
<1>4. CASE \E p \in DOMAIN a \ {t} : Brings(ns, a[p], x)
  BY <1>1, <1>4, CalledStill DEF Awaited
<1>5. CASE Brings(ns, a[t], x)
  BY <1>1, <1>5 DEF Awaited
<1>6. Indexed(ns, m, x) \/ \E p \in DOMAIN a : Brings(ns, a[p], x)
  BY DEF Covered, Awaited
<1> QED
  BY <1>3, <1>4, <1>5, <1>6

\* Names of identifiers keep labels apart.
LEMMA Separated ==
    ASSUME NEW ns, NEW r, NEW n, RelabelOK(r, n), NamesOK(ns, r, n)
    PROVE  Separate(ns)
<1>1. /\ \A k, l \in DOMAIN ns : ns[k] = ns[l] => k = l
      /\ \A l \in DOMAIN ns : ns[l] \in Identifiers
  BY Apart
<1>2. Default \notin Identifiers
  BY NodeMapAssumption
<1> QED
  BY <1>1, <1>2 DEF Separate, Called

\* Visiting a node object gives its label a name, which is the one it had.
NamedAs(ns, q, node, id) ==
    /\ Separate(ns) /\ Separate(q) /\ NamesGrow(ns, q) /\ Called(q, Label(node), id)
    /\ DOMAIN q = DOMAIN ns \cup {Label(node)}

LEMMA NodeNamed ==
    ASSUME NEW ns, NEW r, NEW n, RelabelOK(r, n), NamesOK(ns, r, n), NEW node \in NodeObjects, NEW env, NEW id,
           env = IF node.id = None THEN [relabel |-> r, issued |-> n + 1]
                 ELSE Assigned([relabel |-> r, issued |-> n], node.id),
           id = IF node.id = None THEN NextId(n) ELSE Relabelled(env, node.id),
           ~Exhausted(env),
           node.id = None => node \notin DOMAIN ns
    PROVE  NamedAs(ns, IF Label(node) \in DOMAIN ns THEN ns ELSE Put(ns, Label(node), id), node, id)
<1> DEFINE l == Label(node)
           q == IF l \in DOMAIN ns THEN ns ELSE Put(ns, l, id)
<1>1. /\ RelabelOK(env.relabel, env.issued)
      /\ NameOK(l, id, env.relabel, env.issued) /\ id \in Identifiers
      /\ NamesOK(q, env.relabel, env.issued)
  BY NodeNames
<1>2. Separate(ns) /\ Separate(q)
  BY <1>1, Separated
<1>3. node \in Objects /\ node.kind = "node"
  BY DEF NodeObjects
<1>4. l \in Identifiers \cup NodeObjects /\ l # Default /\ (node.id # None => l = node.id) /\ (node.id = None => l = node)
  BY <1>3, Parts DEF Label
<1>5. Default \notin Objects /\ Identifiers \cap Objects = {} /\ NodeObjects \subseteq Objects
  BY NodeMapAssumption DEF NodeObjects
<1>6. NamesGrow(ns, q) /\ DOMAIN q = DOMAIN ns \cup {l}
  BY DEF NamesGrow, Put
<1>7. q[l] = id
  <2>1. CASE l \notin DOMAIN ns
    BY <2>1 DEF Put
  <2>2. CASE l \in DOMAIN ns
    <3>1. q = ns /\ NameOK(l, ns[l], env.relabel, env.issued)
      BY <1>1, <2>2 DEF NamesOK
    <3>2. l \notin Objects
      <4>1. node.id # None
        BY <1>4, <2>2
      <4>2. WellFormed(node)
        BY <1>3, NodeMapAssumption
      <4>3. node.id \in Identifiers
        BY <1>3, <4>1, <4>2 DEF WellFormed
      <4> QED
        BY <1>4, <1>5, <4>1, <4>3
    <3>3. l \in Iris \/ l \in Blanks
      BY <1>4, <1>5, <3>2 DEF Identifiers
    <3> QED
      BY <1>1, <3>1, <3>3 DEF NameOK
  <2> QED
    BY <2>1, <2>2
<1>8. Called(q, l, id)
  BY <1>4, <1>6, <1>7 DEF Called
<1> QED
  BY <1>2, <1>6, <1>8 DEF NamedAs

\* A node object is visited: the node it is declared as has its index.
WithIndex(m, n, g, id, index) ==
    /\ g \in DOMAIN m /\ DOMAIN n = DOMAIN m
    /\ \A k \in DOMAIN m \ {g} : n[k] = m[k]
    /\ DOMAIN n[g] = DOMAIN m[g] \cup {id}
    /\ \A k \in DOMAIN m[g] \ {id} : n[g][k] = m[g][k]
    /\ n[g][id].index = IF id \in DOMAIN m[g] /\ index = None THEN m[g][id].index ELSE index
    /\ id \in DOMAIN m[g] /\ index # None => m[g][id].index \in {None, index}

LEMMA DeclaresIndex ==
    ASSUME NEW m, MapOK(m), NEW g \in DOMAIN m, NEW id, NEW index, ~Conflict(m[g], id, index), NEW n,
           n = [m EXCEPT ![g] = WithNode(@, id, index)]
    PROVE  WithIndex(m, n, g, id, index)
<1>1. DOMAIN n = DOMAIN m /\ n[g] = WithNode(m[g], id, index) /\ \A k \in DOMAIN m \ {g} : n[k] = m[k]
  OBVIOUS
<1>2. id \in DOMAIN m[g] /\ index # None => m[g][id].index \in {None, index}
  BY DEF Conflict
<1>3. CASE id \in DOMAIN m[g]
  <2>1. DOMAIN m[g][id] = {"types", "index", "graph", "properties"}
    BY <1>3 DEF MapOK, NodeOK
  <2>2. WithNode(m[g], id, index) = [m[g] EXCEPT ![id].index = IF index = None THEN @ ELSE index]
    BY <1>3 DEF WithNode
  <2>3. /\ DOMAIN n[g] = DOMAIN m[g]
        /\ \A k \in DOMAIN m[g] \ {id} : n[g][k] = m[g][k]
        /\ n[g][id].index = IF index = None THEN m[g][id].index ELSE index
    BY <1>1, <1>3, <2>1, <2>2
  <2> QED
    BY <1>1, <1>2, <1>3, <2>3 DEF WithIndex
<1>4. CASE id \notin DOMAIN m[g]
  <2>1. n[g] = Put(m[g], id, NewNode(index))
    BY <1>1, <1>4 DEF WithNode
  <2>2. /\ DOMAIN n[g] = DOMAIN m[g] \cup {id}
        /\ \A k \in DOMAIN m[g] \ {id} : n[g][k] = m[g][k]
        /\ n[g][id] = NewNode(index)
    BY <1>4, <2>1 DEF Put
  <2>3. n[g][id].index = index
    BY <2>2 DEF NewNode
  <2> QED
    BY <1>1, <1>2, <1>4, <2>2, <2>3 DEF WithIndex
<1> QED
  BY <1>3, <1>4

\* An object in a node object.
LEMMA PartOf ==
    ASSUME NEW o \in NodeObjects, NEW s \in ToSet(Sections(o)), s.op # "types", NEW i \in DOMAIN s.objects
    PROVE  /\ s.objects[i] \in Objects
           /\ \A y \in NodesIn[s.objects[i]] :
                 /\ y \in Placings
                 /\ Outward(o, s.op, y) \in NodesIn[o] /\ Outward(o, s.op, y).node = y.node
           /\ Anonymous(s.objects[i]) \subseteq Anonymous(o)
           /\ o \notin Anonymous(s.objects[i])
<1> DEFINE part == s.objects[i]
<1>1. o \in Objects /\ o.kind = "node"
  BY DEF NodeObjects
<1>2. part \in Objects /\ Depth(part) < Depth(o) /\ Depth(o) \in Nat /\ Depth(part) \in Nat
  BY <1>1, Shallower
<1>3. ASSUME NEW y \in NodesIn[part]
      PROVE  /\ y \in Placings /\ Depth(y.node) <= Depth(part)
             /\ Outward(o, s.op, y) \in NodesIn[o] /\ Outward(o, s.op, y).node = y.node
  <2>1. y \in Placings /\ Depth(y.node) <= Depth(part)
    BY <1>2, Nested
  <2>2. Outward(o, s.op, y) \in NodesIn[o]
    BY GathersSections
  <2>3. Outward(o, s.op, y).node = y.node
    BY DEF Outward, InGraph
  <2> QED
    BY <2>1, <2>2, <2>3
<1> HIDE DEF part
<1>4. ASSUME NEW z \in Anonymous(part)
      PROVE  z \in Anonymous(o) /\ z # o
  <2>1. PICK y \in NodesIn[part] : y.node.id = None /\ z = y.node
    BY DEF Anonymous
  <2>2. z \in Anonymous(o)
    BY <1>3, <2>1 DEF Anonymous
  <2>3. Depth(z) <= Depth(part)
    BY <1>3, <2>1
  <2>4. z # o
    BY <1>2, <2>3
  <2> QED
    BY <2>2, <2>4
<1> QED
  BY <1>2, <1>3, <1>4 DEF part

\* In a graph of its own, an occurrence stays there.
LEMMA InGraphs ==
    ASSUME NEW l, NEW k, l # Default, NEW y
    PROVE  InGraph(k, InGraph(l, y)) = InGraph(l, y)
BY DEF InGraph

\* The call made for a node object that is visited.
NodeCall(f, m, node, active, id) ==
    /\ FrameOK(f, m)
    /\ f.section = "between" /\ f.queue = <<>> /\ f.sections = Sections(node)
    /\ f.active = active /\ f.id = id

\* It has left what is in the object, and the object itself is named.
Succeeds(h, work, ns, q, node, active, id, occ) ==
    /\ \A w \in DOMAIN work : DueOK(work[w], q, occ) /\ Anonymous(work[w].object) \subseteq Anonymous(node)
    /\ Alone(work)
    /\ \A x : Brings(ns, h, x) =>
          \/ x.node = node /\ DeclaredAs(q, x, active, id)
          \/ \E w \in DOMAIN work : Brings(q, work[w], x)
    /\ \E l : Called(ns, l, active) /\ [graph |-> l, node |-> node] \in occ

LEMMA NodeDue ==
    ASSUME NEW ns, NEW q, NEW node \in NodeObjects, NEW id, NamedAs(ns, q, node, id), NEW occ,
           NEW active, NEW h, h = [graph |-> active, object |-> node], DueOK(h, ns, occ),
           NEW f, NEW n, NodeCall(f, n, node, active, id)
    PROVE  Succeeds(h, Work(f), ns, q, node, active, id, occ)
<1>21. /\ FrameOK(f, n)
       /\ f.section = "between" /\ f.queue = <<>> /\ f.sections = Sections(node)
       /\ f.active = active /\ f.id = id
  BY DEF NodeCall
<1> DEFINE W == Work(f)
           L == Label(node)
<1>1. /\ \A w \in DOMAIN W : \E s \in ToSet(Sections(node)) : s.op # "types" /\ \E i \in DOMAIN s.objects :
                 W[w] = [graph |-> IF s.op = "graph" THEN f.id ELSE f.active, object |-> s.objects[i]]
      /\ \A s \in ToSet(Sections(node)) : s.op # "types" => \A i \in DOMAIN s.objects : \E w \in DOMAIN W :
                 W[w] = [graph |-> IF s.op = "graph" THEN f.id ELSE f.active, object |-> s.objects[i]]
      /\ Alone(W)
  BY <1>21, SectionsWork
<1>2. /\ \A x : x \in NodesIn[node] <=>
             \/ x = Self(node)
             \/ \E s \in ToSet(Sections(node)) : s.op # "types" /\ \E i \in DOMAIN s.objects : \E y \in NodesIn[s.objects[i]] :
                    x = Outward(node, s.op, y)
  BY GathersSections
<1>3. PICK l : Called(ns, l, active) /\ \A y \in NodesIn[node] : InGraph(l, y) \in occ
  BY DEF DueOK
<1>4. NamesGrow(ns, q) /\ Called(q, L, id) /\ DOMAIN q = DOMAIN ns \cup {L}
  BY DEF NamedAs
<1>5. Called(q, l, active)
  BY <1>3, <1>4, CalledStill
<1>6. node \in Objects /\ L # Default /\ L \in Identifiers \cup NodeObjects /\ (node.id = None => L = node)
      /\ (node.id # None => L = node.id)
  BY Parts DEF NodeObjects, Label
<1>7. node.id # None => L \in Identifiers
  BY <1>6, NodeMapAssumption DEF WellFormed, NodeObjects
<1>8. InGraph(l, Self(node)) = [graph |-> l, node |-> node]
  BY DEF InGraph, Self
<1>9. Anonymous(node) \cap DOMAIN ns = {}
  BY DEF DueOK
<1>20. f.id = id /\ f.active = active
  BY <1>21
<1> HIDE DEF W, L
<1>10. ASSUME NEW w \in DOMAIN W
       PROVE  DueOK(W[w], q, occ) /\ Anonymous(W[w].object) \subseteq Anonymous(node)
  <2>1. PICK s \in ToSet(Sections(node)) : s.op # "types" /\ \E i \in DOMAIN s.objects :
                 W[w] = [graph |-> IF s.op = "graph" THEN f.id ELSE f.active, object |-> s.objects[i]]
    BY <1>1
  <2>2. PICK i \in DOMAIN s.objects :
                 W[w] = [graph |-> IF s.op = "graph" THEN f.id ELSE f.active, object |-> s.objects[i]]
    BY <2>1
  <2> DEFINE part == s.objects[i]
             g == IF s.op = "graph" THEN id ELSE active
  <2>3. W[w].object = part /\ W[w].graph = g
    BY <1>20, <2>2
  <2>4. /\ part \in Objects
        /\ \A y \in NodesIn[part] : y \in Placings /\ Outward(node, s.op, y) \in NodesIn[node]
        /\ Anonymous(part) \subseteq Anonymous(node)
        /\ node \notin Anonymous(part)
    BY <2>1, PartOf
  <2>5. Anonymous(part) \cap DOMAIN q = {}
    <3>1. L \notin Anonymous(part)
      <4>1. Anonymous(part) \subseteq Objects
        BY <2>4 DEF Anonymous, Placings, NodeObjects
      <4>2. Identifiers \cap Objects = {}
        BY NodeMapAssumption
      <4> QED
        BY <1>6, <1>7, <2>4, <4>1, <4>2
    <3> QED
      BY <1>4, <1>9, <2>4, <3>1
  <2>6. \E k : Called(q, k, g) /\ \A y \in NodesIn[part] : InGraph(k, y) \in occ
    <3>1. CASE s.op = "graph"
      <4>1. ASSUME NEW y \in NodesIn[part]
            PROVE  InGraph(L, y) \in occ
        <5>1. InGraph(L, y) \in NodesIn[node]
          BY <2>4, <3>1 DEF Outward, L
        <5> QED
          BY <1>3, <1>6, <5>1, InGraphs
      <4> QED
        BY <1>4, <3>1, <4>1
    <3>2. CASE s.op # "graph"
      <4>1. ASSUME NEW y \in NodesIn[part]
            PROVE  InGraph(l, y) \in occ
        BY <1>3, <2>4, <3>2 DEF Outward
      <4> QED
        BY <1>5, <3>2, <4>1
    <3> QED
      BY <3>1, <3>2
  <2> HIDE DEF part, g
  <2>7. DueOK(W[w], q, occ)
    BY <2>3, <2>4, <2>5, <2>6 DEF DueOK
  <2> QED
    BY <2>3, <2>4, <2>7
<1>11. ASSUME NEW x, Brings(ns, h, x)
       PROVE  \/ x.node = node /\ DeclaredAs(q, x, active, id)
              \/ \E w \in DOMAIN W : Brings(q, W[w], x)
  <2>1. PICK k : Called(ns, k, active) /\ \E y \in NodesIn[node] : x = InGraph(k, y)
    BY <1>11 DEF Brings
  <2>2. PICK y \in NodesIn[node] : x = InGraph(k, y)
    BY <2>1
  <2>3. Called(q, k, active)
    BY <1>4, <2>1, CalledStill
  <2>4. CASE y = Self(node)
    <3>1. x.graph = k /\ x.node = node
      BY <2>2, <2>4 DEF InGraph, Self
    <3> QED
      BY <1>4, <2>3, <3>1 DEF DeclaredAs, L
  <2>5. CASE \E s \in ToSet(Sections(node)) : s.op # "types" /\ \E i \in DOMAIN s.objects : \E z \in NodesIn[s.objects[i]] :
                    y = Outward(node, s.op, z)
    <3>1. PICK s \in ToSet(Sections(node)) : s.op # "types" /\ \E i \in DOMAIN s.objects : \E z \in NodesIn[s.objects[i]] :
                    y = Outward(node, s.op, z)
      BY <2>5
    <3>2. PICK i \in DOMAIN s.objects : \E z \in NodesIn[s.objects[i]] : y = Outward(node, s.op, z)
      BY <3>1
    <3>3. PICK z \in NodesIn[s.objects[i]] : y = Outward(node, s.op, z)
      BY <3>2
    <3>4. PICK w \in DOMAIN W : W[w] = [graph |-> IF s.op = "graph" THEN id ELSE active, object |-> s.objects[i]]
      BY <1>1, <1>20, <3>1
    <3>5. CASE s.op = "graph"
      <4>1. x = InGraph(L, z)
        BY <1>6, <2>2, <3>3, <3>5, InGraphs DEF Outward, L
      <4>2. W[w].graph = id /\ W[w].object = s.objects[i]
        BY <3>4, <3>5
      <4> QED
        BY <1>4, <3>3, <4>1, <4>2 DEF Brings
    <3>6. CASE s.op # "graph"
      <4>1. x = InGraph(k, z)
        BY <2>2, <3>3, <3>6 DEF Outward
      <4>2. W[w].graph = active /\ W[w].object = s.objects[i]
        BY <3>4, <3>6
      <4> QED
        BY <2>3, <3>3, <4>1, <4>2 DEF Brings
    <3> QED
      BY <3>5, <3>6
  <2> QED
    BY <1>2, <2>4, <2>5
<1>12. [graph |-> l, node |-> node] \in occ
  BY <1>2, <1>3, <1>8
<1> QED
  BY <1>1, <1>3, <1>10, <1>11, <1>12 DEF W, Succeeds

\* A node object is visited.
LEMMA NodeAccounted ==
    ASSUME NEW ns, NEW q, NEW node \in NodeObjects, NEW id, NamedAs(ns, q, node, id), NEW occ,
           NEW active, NEW a, NEW t, NEW b, NEW M, NEW m, Account(a, ns, m, occ),
           a[t] = [graph |-> active, object |-> node],
           NEW f, NEW n, NodeCall(f, n, node, active, id),
           Exchanged(a, t, Work(f), M, b),
           WithIndex(m, n, active, id, node.index)
    PROVE  Account(b, q, n, occ)
<1> DEFINE h == Work(f)
<1>1. t \in DOMAIN a /\ HeldOK(a, ns, occ) /\ Explained(ns, m, occ) /\ Covered(a, ns, m, occ)
  BY DEF Exchanged, Account
<1>2. DueOK(a[t], ns, occ)
  BY <1>1 DEF HeldOK
<1>3. /\ \A w \in DOMAIN h : DueOK(h[w], q, occ) /\ Anonymous(h[w].object) \subseteq Anonymous(node)
      /\ Alone(h)
      /\ \A x : Brings(ns, a[t], x) =>
            \/ x.node = node /\ DeclaredAs(q, x, active, id)
            \/ \E w \in DOMAIN h : Brings(q, h[w], x)
      /\ \E l : Called(ns, l, active) /\ [graph |-> l, node |-> node] \in occ
  <2> DEFINE d == a[t]
  <2>1. d = [graph |-> active, object |-> node] /\ DueOK(d, ns, occ)
    BY <1>2
  <2> HIDE DEF d
  <2>2. Succeeds(d, Work(f), ns, q, node, active, id, occ)
    BY <2>1, NodeDue
  <2> QED
    BY <2>2 DEF d, Succeeds
<1>4. NamesGrow(ns, q) /\ Called(q, Label(node), id) /\ DOMAIN q = DOMAIN ns \cup {Label(node)}
  BY DEF NamedAs
<1>5. /\ active \in DOMAIN m /\ DOMAIN n = DOMAIN m
      /\ \A k \in DOMAIN m \ {active} : n[k] = m[k]
      /\ DOMAIN n[active] = DOMAIN m[active] \cup {id}
      /\ \A k \in DOMAIN m[active] \ {id} : n[active][k] = m[active][k]
      /\ n[active][id].index = IF id \in DOMAIN m[active] /\ node.index = None THEN m[active][id].index ELSE node.index
      /\ id \in DOMAIN m[active] /\ node.index # None => m[active][id].index \in {None, node.index}
  BY DEF WithIndex
<1>6. Exchanged(a, t, h, M, b)
  OBVIOUS
<1>20. a[t].object = node
  OBVIOUS
<1> HIDE DEF h
<1>7. ASSUME NEW p \in DOMAIN a \ {t}
      PROVE  Anonymous(a[p].object) \cap (DOMAIN q \ DOMAIN ns) = {}
  <2>1. Anonymous(a[p].object) \cap Anonymous(node) = {}
    BY <1>1, <1>20 DEF HeldOK, Alone
  <2>2. a[p].object \in Objects
    BY <1>1 DEF HeldOK, DueOK
  <2>3. Label(node) \notin Anonymous(a[p].object)
    <3>1. node \in Objects /\ node.kind = "node"
      BY DEF NodeObjects
    <3>2. CASE node.id = None
      <4>1. node \in Anonymous(node)
        <5>1. Self(node) \in NodesIn[node] /\ Self(node).node = node
          BY GathersSections DEF Self
        <5> QED
          BY <3>2, <5>1 DEF Anonymous
      <4> QED
        BY <2>1, <3>2, <4>1 DEF Label
    <3>3. CASE node.id # None
      <4>1. Label(node) \in Identifiers
        BY <3>1, <3>3, NodeMapAssumption DEF WellFormed, Label
      <4>2. Anonymous(a[p].object) \subseteq Objects
        BY <2>2, Nested DEF Anonymous, Placings, NodeObjects
      <4> QED
        BY <4>1, <4>2, NodeMapAssumption
    <3> QED
      BY <3>2, <3>3
  <2> QED
    BY <1>4, <2>3
<1>8. HeldOK(b, q, occ)
  <2>1. \A w \in DOMAIN h : DueOK(h[w], q, occ)
    BY <1>3
  <2>2. \A w \in DOMAIN h : Anonymous(h[w].object) \subseteq Anonymous(a[t].object)
    BY <1>3, <1>20
  <2> QED
    BY <1>1, <1>3, <1>4, <1>6, <1>7, <2>1, <2>2, HeldExchanged
<1>9. IndexesKept(m, n)
  <2>1. ASSUME NEW g \in DOMAIN m, NEW k \in DOMAIN m[g]
        PROVE  /\ g \in DOMAIN n /\ k \in DOMAIN n[g]
               /\ m[g][k].index # None => n[g][k].index = m[g][k].index
    BY <1>5
  <2> QED
    BY <2>1 DEF IndexesKept
<1>10. ASSUME NEW x, x.node = node, DeclaredAs(q, x, active, id)
       PROVE  Indexed(q, n, x)
  <2>1. active \in DOMAIN n /\ id \in DOMAIN n[active] /\ (node.index # None => n[active][id].index = node.index)
    BY <1>5
  <2> QED
    BY <1>10, <2>1 DEF Indexed
<1>11. Covered(b, q, n, occ)
  <2>1. \A x : Brings(ns, a[t], x) => Indexed(q, n, x) \/ \E w \in DOMAIN h : Brings(q, h[w], x)
    BY <1>3, <1>10
  <2> QED
    BY <1>1, <1>4, <1>6, <1>9, <2>1, CoveredExchanged
<1>12. ASSUME NEW g \in DOMAIN n, NEW k \in DOMAIN n[g]
       PROVE  \E x \in occ : Explains(q, n, g, k, x)
  <2>1. CASE g \in DOMAIN m /\ k \in DOMAIN m[g] /\ n[g][k].index = m[g][k].index
    <3>1. PICK x \in occ : Explains(ns, m, g, k, x)
      BY <1>1, <2>1 DEF Explained
    <3>2. Explains(q, n, g, k, x)
      BY <1>4, <2>1, <3>1, CalledStill DEF Explains
    <3> QED
      BY <3>2
  <2>2. CASE g = active /\ k = id /\ n[active][id].index = node.index
    <3>1. PICK l : Called(ns, l, active) /\ [graph |-> l, node |-> node] \in occ
      BY <1>3
    <3> DEFINE x == [graph |-> l, node |-> node]
    <3>2. x.graph = l /\ x.node = node
      OBVIOUS
    <3>3. Called(q, l, active)
      BY <1>4, <3>1, CalledStill
    <3>4. Explains(q, n, g, k, x)
      BY <1>4, <2>2, <3>2, <3>3 DEF Explains, DeclaredAs
    <3> QED
      BY <3>1, <3>4
  <2>3. \/ g \in DOMAIN m /\ k \in DOMAIN m[g] /\ n[g][k].index = m[g][k].index
        \/ g = active /\ k = id /\ n[active][id].index = node.index
    BY <1>5
  <2> QED
    BY <2>1, <2>2, <2>3
<1> QED
  BY <1>8, <1>11, <1>12 DEF Account, Explained

\* Two occurrences of a node in one graph have different indexes.
Conflicting(occ) ==
    \E x, y \in occ :
        /\ x.graph = y.graph /\ Label(x.node) = Label(y.node)
        /\ x.node.index # y.node.index /\ None \notin {x.node.index, y.node.index}

\* A node object that cannot be declared is one of two such.
LEMMA ConflictFound ==
    ASSUME NEW ns, NEW q, NEW node \in NodeObjects, NEW id, NamedAs(ns, q, node, id), NEW occ,
           NEW active, NEW a, NEW t \in DOMAIN a, NEW m, Account(a, ns, m, occ),
           a[t] = [graph |-> active, object |-> node], active \in DOMAIN m,
           Conflict(m[active], id, node.index)
    PROVE  Conflicting(occ)
<1>1. HeldOK(a, ns, occ) /\ Explained(ns, m, occ)
  BY DEF Account
<1>2. PICK l : Called(ns, l, active) /\ \A y \in NodesIn[node] : InGraph(l, y) \in occ
  BY <1>1 DEF HeldOK, DueOK
<1>3. [graph |-> l, node |-> node] \in occ
  <2>1. Self(node) \in NodesIn[node]
    BY GathersSections
  <2>2. InGraph(l, Self(node)) = [graph |-> l, node |-> node]
    BY DEF InGraph, Self
  <2> QED
    BY <1>2, <2>1, <2>2
<1>4. id \in DOMAIN m[active] /\ node.index # None /\ m[active][id].index \notin {None, node.index}
  BY DEF Conflict
<1>5. PICK y \in occ : Explains(ns, m, active, id, y)
  BY <1>1, <1>4 DEF Explained
<1>6. /\ Called(ns, y.graph, active) /\ Called(ns, Label(y.node), id)
      /\ y.node.index = m[active][id].index
  BY <1>4, <1>5 DEF Explains, DeclaredAs
<1>7. Separate(ns) /\ Separate(q) /\ NamesGrow(ns, q) /\ Called(q, Label(node), id)
  BY DEF NamedAs
<1>8. y.graph = l
  BY <1>2, <1>6, <1>7 DEF Separate
<1>9. Label(y.node) = Label(node)
  BY <1>6, <1>7, CalledStill DEF Separate
<1> DEFINE x == [graph |-> l, node |-> node]
<1>10. x.graph = l /\ x.node = node /\ x \in occ
  BY <1>3
<1> HIDE DEF x
<1> QED
  BY <1>4, <1>6, <1>8, <1>9, <1>10 DEF Conflicting

\* The nodes and their indexes are the same.
SameIndexes(m, n) ==
    /\ \A g \in DOMAIN m : g \in DOMAIN n /\ DOMAIN m[g] \subseteq DOMAIN n[g]
    /\ \A g \in DOMAIN n : \A id \in DOMAIN n[g] :
          g \in DOMAIN m /\ id \in DOMAIN m[g] /\ n[g][id].index = m[g][id].index

LEMMA AccountStill ==
    ASSUME NEW a, NEW ns, NEW m, NEW n, NEW occ, Account(a, ns, m, occ), SameIndexes(m, n)
    PROVE  Account(a, ns, n, occ)
<1>1. HeldOK(a, ns, occ) /\ Explained(ns, m, occ) /\ Covered(a, ns, m, occ)
  BY DEF Account
<1>2. /\ \A g \in DOMAIN m : g \in DOMAIN n /\ DOMAIN m[g] \subseteq DOMAIN n[g]
      /\ \A g \in DOMAIN n : \A id \in DOMAIN n[g] :
            g \in DOMAIN m /\ id \in DOMAIN m[g] /\ n[g][id].index = m[g][id].index
  BY DEF SameIndexes
<1>3. Explained(ns, n, occ)
  BY <1>1, <1>2 DEF Explained, Explains
<1>4. IndexesKept(m, n) /\ NamesGrow(ns, ns)
  BY <1>2 DEF IndexesKept, NamesGrow
<1>5. Covered(a, ns, n, occ)
  BY <1>1, <1>4, IndexedStill DEF Covered
<1> QED
  BY <1>1, <1>3, <1>5 DEF Account

\* A value is visited: there is no node in it.
LEMMA ValueAccounted ==
    ASSUME NEW a, NEW t, NEW M, NEW b, NEW ns, NEW m, NEW occ, Account(a, ns, m, occ),
           Exchanged(a, t, Empty, M, b), a[t].object.kind = "value"
    PROVE  Account(b, ns, m, occ)
<1>1. t \in DOMAIN a /\ HeldOK(a, ns, occ) /\ Explained(ns, m, occ) /\ Covered(a, ns, m, occ)
  BY DEF Exchanged, Account
<1>2. a[t].object \in Objects
  BY <1>1 DEF HeldOK, DueOK
<1>3. \A x : x \notin NodesIn[a[t].object]
  BY <1>2, NodesInIs DEF Gathers
<1>4. NamesGrow(ns, ns) /\ IndexesKept(m, m) /\ DOMAIN Empty = {} /\ DOMAIN ns \ DOMAIN ns = {}
  BY DEF NamesGrow, IndexesKept, Empty
<1>5. \A x : ~Brings(ns, a[t], x)
  BY <1>3 DEF Brings
<1>6. Covered(b, ns, m, occ)
  BY <1>1, <1>4, <1>5, CoveredExchanged
<1>7. Alone(Empty)
  BY <1>4 DEF Alone
<1>8. HeldOK(b, ns, occ)
  <2>1. \A p \in DOMAIN a \ {t} : Anonymous(a[p].object) \cap (DOMAIN ns \ DOMAIN ns) = {}
    BY <1>4
  <2>2. /\ \A w \in DOMAIN Empty : DueOK(Empty[w], ns, occ)
        /\ \A w \in DOMAIN Empty : Anonymous(Empty[w].object) \subseteq Anonymous(a[t].object)
    BY <1>4
  <2> QED
    BY <1>1, <1>4, <1>7, <2>1, <2>2, HeldExchanged
<1> QED
  BY <1>1, <1>6, <1>8 DEF Account

\* The call made for a list.
ListCall(f, m, list, active) ==
    /\ FrameOK(f, m)
    /\ f.section = "items" /\ f.queue = list.items /\ f.sections = <<>> /\ f.active = active

\* What visiting a list brings is left to the call made for it.
LEMMA ListBrings ==
    ASSUME NEW ns, NEW list \in Objects, list.kind = "list", NEW active, NEW f, NEW m, ListCall(f, m, list, active),
           NEW h, h = [graph |-> active, object |-> list], NEW x, Brings(ns, h, x)
    PROVE  \E w \in DOMAIN Work(f) : Brings(ns, Work(f)[w], x)
<1> DEFINE W == Work(f)
<1>1. /\ FrameOK(f, m) /\ f.section = "items" /\ f.sections = <<>>
      /\ f.queue = list.items /\ f.active = active
  BY DEF ListCall
<1>2. Unshared(<<f.queue>>)
  BY <1>1, ContentsAre, TreeAssumption
<1>3. \A i \in DOMAIN f.queue : \E w \in DOMAIN W : W[w] = [graph |-> f.active, object |-> f.queue[i]]
  BY <1>1, <1>2, ItemsWork
<1> HIDE DEF W
<1>4. h.graph = active /\ h.object = list
  OBVIOUS
<1>5. \A y : y \in NodesIn[list] <=> \E i \in DOMAIN list.items : y \in NodesIn[list.items[i]]
  BY NodesInIs DEF Gathers, AmongObjects
<1>6. PICK k : Called(ns, k, active) /\ \E y \in NodesIn[list] : x = InGraph(k, y)
  BY <1>4 DEF Brings
<1>7. PICK y \in NodesIn[list] : x = InGraph(k, y)
  BY <1>6
<1>8. PICK i \in DOMAIN list.items : y \in NodesIn[list.items[i]]
  BY <1>5
<1>9. PICK w \in DOMAIN W : W[w] = [graph |-> active, object |-> list.items[i]]
  BY <1>1, <1>3
<1>10. W[w].graph = active /\ W[w].object = list.items[i]
  BY <1>9
<1>11. Brings(ns, W[w], x)
  BY <1>6, <1>7, <1>8, <1>10 DEF Brings
<1> QED
  BY <1>11 DEF W

\* A list is visited.
LEMMA ListAccounted ==
    ASSUME NEW a, NEW t, NEW M, NEW b, NEW ns, NEW m, NEW occ, Account(a, ns, m, occ),
           NEW list, list.kind = "list", NEW active, a[t] = [graph |-> active, object |-> list],
           NEW f, NEW n, ListCall(f, n, list, active), Exchanged(a, t, Work(f), M, b)
    PROVE  Account(b, ns, m, occ)
<1> DEFINE W == Work(f)
<1>1. t \in DOMAIN a /\ HeldOK(a, ns, occ) /\ Explained(ns, m, occ) /\ Covered(a, ns, m, occ)
  BY DEF Exchanged, Account
<1>2. DueOK(a[t], ns, occ) /\ a[t].object = list /\ a[t].graph = active
  BY <1>1 DEF HeldOK
<1>3. list \in Objects /\ Anonymous(list) \cap DOMAIN ns = {}
  BY <1>2 DEF DueOK
<1>4. PICK l : Called(ns, l, active) /\ \A y \in NodesIn[list] : InGraph(l, y) \in occ
  BY <1>2 DEF DueOK
<1>5. /\ FrameOK(f, n) /\ f.section = "items" /\ f.sections = <<>>
      /\ f.queue = list.items /\ f.active = active
  BY DEF ListCall
<1>6. Unshared(<<f.queue>>)
  BY <1>3, <1>5, ContentsAre, TreeAssumption
<1>7. /\ \A w \in DOMAIN W : \E i \in DOMAIN f.queue : W[w] = [graph |-> f.active, object |-> f.queue[i]]
      /\ \A i \in DOMAIN f.queue : \E w \in DOMAIN W : W[w] = [graph |-> f.active, object |-> f.queue[i]]
      /\ Alone(W)
  BY <1>5, <1>6, ItemsWork
<1>8. \A i \in DOMAIN list.items : list.items[i] \in Objects
  BY <1>3, Parts
<1>9. \A x : x \in NodesIn[list] <=> \E i \in DOMAIN list.items : x \in NodesIn[list.items[i]]
  BY <1>3, NodesInIs DEF Gathers, AmongObjects
<1>10. Exchanged(a, t, W, M, b)
  OBVIOUS
<1> HIDE DEF W
<1>11. ASSUME NEW w \in DOMAIN W
       PROVE  DueOK(W[w], ns, occ) /\ Anonymous(W[w].object) \subseteq Anonymous(list)
  <2>1. PICK i \in DOMAIN list.items : W[w] = [graph |-> active, object |-> list.items[i]]
    BY <1>5, <1>7
  <2>2. W[w].graph = active /\ W[w].object = list.items[i]
    BY <2>1
  <2>3. NodesIn[list.items[i]] \subseteq NodesIn[list]
    BY <1>9
  <2>4. Anonymous(list.items[i]) \subseteq Anonymous(list)
    BY <2>3 DEF Anonymous
  <2> QED
    BY <1>3, <1>4, <1>8, <2>2, <2>3, <2>4 DEF DueOK
<1>12. ASSUME NEW x, Brings(ns, a[t], x)
       PROVE  \E w \in DOMAIN W : Brings(ns, W[w], x)
  BY <1>3, <1>12, ListBrings DEF W
<1>13. NamesGrow(ns, ns) /\ IndexesKept(m, m)
  BY DEF NamesGrow, IndexesKept
<1>14. Covered(b, ns, m, occ)
  BY <1>1, <1>10, <1>12, <1>13, CoveredExchanged
<1>15. HeldOK(b, ns, occ)
  <2>1. \A p \in DOMAIN a \ {t} : Anonymous(a[p].object) \cap (DOMAIN ns \ DOMAIN ns) = {}
    OBVIOUS
  <2>2. /\ \A w \in DOMAIN W : DueOK(W[w], ns, occ)
        /\ \A w \in DOMAIN W : Anonymous(W[w].object) \subseteq Anonymous(a[t].object)
    BY <1>2, <1>11
  <2> QED
    BY <1>1, <1>7, <1>10, <1>13, <2>1, <2>2, HeldExchanged
<1> QED
  BY <1>1, <1>14, <1>15 DEF Account

-----------------------------------------------------------------------------
(* The steps, once more.                                                     *)

Accounted ==
    /\ outcome \in {"running", "mapped"} => Account(Held(stack), names, map, Occurrences)
    /\ outcome = "mapped" => stack = <<>>
    /\ outcome = "ConflictingIndexes" => IndexConflict

\* As long as the calls go on.
LEMMA InProgress ==
    ASSUME IInv, Accounted, Running
    PROVE  /\ Account(Held(stack), names, map, Occurrences)
           /\ IsSequence(stack) /\ stack # <<>> /\ FrameOK(Frame, map) /\ Frame = Last(stack)
  BY Innermost DEF Accounted, StackOK, Frame

LEMMA StillAccounted ==
    ASSUME outcome' = "running", document' = document,
           Account(Held(stack'), names', map', Occurrences)
    PROVE  Accounted'
<1>1. Occurrences' = Occurrences
  BY DEF Occurrences
<1> QED
  BY <1>1 DEF Accounted

\* Nothing is visited, and no index changes.
LEMMA Unvisited ==
    ASSUME IInv, Accounted, Running, NEW f, Update(f), Work(f) = Work(Frame), SameIndexes(map, map'),
           UNCHANGED <<document, names, outcome>>
    PROVE  Accounted'
<1>1. /\ Account(Held(stack), names, map, Occurrences)
      /\ IsSequence(stack) /\ stack # <<>> /\ Frame = Last(stack)
  BY InProgress
<1>2. stack' = Append(Front(stack), f) /\ outcome = "running"
  BY DEF Update, Running
<1>3. Held(stack') = Held(stack)
  BY <1>1, <1>2, HeldUpdated
<1>4. Account(Held(stack'), names', map', Occurrences)
  BY <1>1, <1>3, AccountStill
<1> QED
  BY <1>2, <1>4, StillAccounted

LEMMA NoIndexes ==
    ASSUME NEW m
    PROVE  SameIndexes(m, m)
  BY DEF SameIndexes

LEMMA ValueAccountedFor ==
    ASSUME IInv, Accounted, VisitValue
    PROVE  Accounted'
<1>1. Visiting("value") /\ Running
  BY DEF VisitValue, Visiting
<1>2. /\ Account(Held(stack), names, map, Occurrences)
      /\ IsSequence(stack) /\ stack # <<>> /\ FrameOK(Frame, map) /\ Frame = Last(stack)
  BY <1>1, InProgress
<1> DEFINE v == Head(Frame.queue)
           f == Given(Passed(Frame), v)
<1>3. Frame.queue # <<>> /\ Frame.section # "types" /\ v.kind = "value"
  BY <1>1 DEF Visiting
<1>4. stack' = Append(Front(stack), f) /\ UNCHANGED <<document, names, map, outcome>> /\ outcome = "running"
  BY <1>1 DEF VisitValue, Update, Running
<1>5. Work(f) = Work(Passed(Frame))
  <2>1. FrameOK(Passed(Frame), map)
    BY <1>2, <1>3, Passes
  <2>2. f.section = Passed(Frame).section /\ f.queue = Passed(Frame).queue /\ f.sections = Passed(Frame).sections
        /\ Steady(Passed(Frame), f)
    BY <2>1 DEF FrameOK, FrameFields, Given, Steady
  <2> QED
    BY <2>2, WorkSame
<1> DEFINE t == <<Len(stack), Top(Last(stack))>>
<1> HIDE DEF f
<1>6. /\ Exchanged(Held(stack), t, Empty, Len(stack) + 1, Held(Append(Front(stack), f)))
      /\ Held(stack)[t] = [graph |-> Target(Last(stack)), object |-> Head(Last(stack).queue)]
  BY <1>2, <1>3, <1>5, HeldPassed
<1>7. Held(stack)[t].object = v
  BY <1>2, <1>6
<1> HIDE DEF t, v
<1>8. Account(Held(stack'), names, map, Occurrences)
  BY <1>2, <1>3, <1>4, <1>6, <1>7, ValueAccounted
<1> QED
  BY <1>4, <1>8, StillAccounted

\* The call just made is well formed.
LEMMA CallFits ==
    ASSUME NEW st, NEW f, IsSequence(st), NEW m, StackOK(Append(st, f), m)
    PROVE  FrameOK(f, m)
<1>1. Len(st) + 1 \in DOMAIN Append(st, f) /\ Append(st, f)[Len(st) + 1] = f
  BY Longer
<1> QED
  BY <1>1 DEF StackOK

LEMMA ListAccountedFor ==
    ASSUME IInv, Accounted, VisitList
    PROVE  Accounted'
<1>1. Visiting("list") /\ Running
  BY DEF VisitList, Visiting
<1>2. /\ Account(Held(stack), names, map, Occurrences)
      /\ IsSequence(stack) /\ stack # <<>> /\ FrameOK(Frame, map) /\ Frame = Last(stack)
  BY <1>1, InProgress
<1> DEFINE list == Head(Frame.queue)
           f == CallOn("list", Target(Frame), None, list.index, "items", list.items, <<>>)
           t == <<Len(stack), Top(Last(stack))>>
<1>3. Frame.queue # <<>> /\ Frame.section # "types" /\ list.kind = "list"
  BY <1>1 DEF Visiting
<1>4. stack' = Append(stack, f) /\ UNCHANGED <<document, names, map, outcome>> /\ outcome = "running"
  BY <1>1 DEF VisitList, Call, Running
<1>5. f.section = "items" /\ f.queue = list.items /\ f.sections = <<>> /\ f.active = Target(Frame)
  BY DEF CallOn
<1> HIDE DEF f
<1>6. FrameOK(f, map)
  <2>1. StackOK(stack', map')
    BY ListVisited DEF IInv
  <2> QED
    BY <1>2, <1>4, <2>1, CallFits
<1>7. ListCall(f, map, list, Target(Frame))
  BY <1>5, <1>6 DEF ListCall
<1>8. /\ Exchanged(Held(stack), t, Work(f), Len(stack) + 1, Held(Append(stack, f)))
      /\ Held(stack)[t] = [graph |-> Target(Last(stack)), object |-> Head(Last(stack).queue)]
  BY <1>2, <1>3, HeldCalled
<1>9. Held(stack)[t] = [graph |-> Target(Frame), object |-> list]
  BY <1>2, <1>8
<1> HIDE DEF t, list
<1>10. Account(Held(stack'), names, map, Occurrences)
  BY <1>2, <1>3, <1>4, <1>7, <1>8, <1>9, ListAccounted
<1> QED
  BY <1>4, <1>10, StillAccounted

LEMMA NodeAccountedFor ==
    ASSUME IInv, Accounted, VisitNode
    PROVE  Accounted'
<1>1. Visiting("node") /\ Running
  BY DEF VisitNode, Visiting
<1>2. /\ Account(Held(stack), names, map, Occurrences)
      /\ IsSequence(stack) /\ stack # <<>> /\ FrameOK(Frame, map) /\ Frame = Last(stack)
  BY <1>1, InProgress
<1>3. Target(Frame) \in DOMAIN map /\ MapOK(map) /\ RelabelOK(relabel, issued) /\ NamesOK(names, relabel, issued)
      /\ outcome = "running"
  BY <1>1, Innermost
<1> DEFINE node == Head(Frame.queue)
           active == Target(Frame)
           env == IF node.id = None THEN [Env EXCEPT !.issued = @ + 1] ELSE Assigned(Env, node.id)
           id == IF node.id = None THEN NextId(issued) ELSE Relabelled(env, node.id)
           f == CallOn("node", active, id, None, "between", <<>>, Sections(node))
           q == IF Label(node) \in DOMAIN names THEN names ELSE Put(names, Label(node), id)
           t == <<Len(stack), Top(Last(stack))>>
<1>4. Frame.queue # <<>> /\ Frame.section # "types" /\ node.kind = "node"
  BY <1>1 DEF Visiting
<1>5. node \in NodeObjects
  BY <1>2, <1>4, Passes DEF NodeObjects
<1>6. \/ Fail("UnsupportedTerm")
      \/ ~Exhausted(env) /\ Conflict(map[active], id, node.index) /\ Fail("ConflictingIndexes")
      \/ /\ ~Exhausted(env) /\ ~Conflict(map[active], id, node.index)
         /\ map' = [map EXCEPT ![active] = WithNode(@, id, node.index)] /\ names' = q
         /\ Call(f) /\ document' = document /\ outcome' = outcome
  BY <1>3 DEF VisitNode
<1>7. /\ env = IF node.id = None THEN [relabel |-> relabel, issued |-> issued + 1]
               ELSE Assigned([relabel |-> relabel, issued |-> issued], node.id)
      /\ id = IF node.id = None THEN NextId(issued) ELSE Relabelled(env, node.id)
  BY DEF Env
<1>8. f.section = "between" /\ f.queue = <<>> /\ f.sections = Sections(node) /\ f.active = active /\ f.id = id
  BY DEF CallOn
<1>9. q = IF Label(node) \in DOMAIN names THEN names ELSE Put(names, Label(node), id)
  OBVIOUS
<1>10. /\ Exchanged(Held(stack), t, Work(f), Len(stack) + 1, Held(Append(stack, f)))
       /\ Held(stack)[t] = [graph |-> Target(Last(stack)), object |-> Head(Last(stack).queue)]
  <2> HIDE DEF f
  <2> QED
    BY <1>2, <1>4, HeldCalled
<1>11. Held(stack)[t] = [graph |-> active, object |-> node]
  BY <1>2, <1>10
<1>12. t \in DOMAIN Held(stack)
  BY <1>10 DEF Exchanged
<1>13. node.id = None => node \notin DOMAIN names
  <2>1. DueOK(Held(stack)[t], names, Occurrences) /\ Held(stack)[t].object = node
    BY <1>2, <1>11, <1>12 DEF Account, HeldOK
  <2>2. Self(node) \in NodesIn[node] /\ Self(node).node = node
    BY <1>5, GathersSections DEF Self
  <2>3. node.id = None => node \in Anonymous(node)
    BY <2>2 DEF Anonymous
  <2> QED
    BY <2>1, <2>3 DEF DueOK
<1> HIDE DEF node, active, env, id, f, q, t
<1>14. ~Exhausted(env) => NamedAs(names, q, node, id)
  BY <1>3, <1>5, <1>7, <1>9, <1>13, NodeNamed
<1>15. CASE Fail("UnsupportedTerm")
  BY <1>15 DEF Fail, Accounted
<1>16. CASE ~Exhausted(env) /\ Conflict(map[active], id, node.index) /\ Fail("ConflictingIndexes")
  <2>1. active \in DOMAIN map
    BY <1>3 DEF active
  <2>2. Conflicting(Occurrences)
    BY <1>2, <1>5, <1>11, <1>12, <1>14, <1>16, <2>1, ConflictFound
  <2>3. outcome' = "ConflictingIndexes" /\ Occurrences' = Occurrences
    BY <1>16 DEF Fail, Occurrences
  <2>4. IndexConflict'
    BY <2>2, <2>3 DEF Conflicting, IndexConflict
  <2> QED
    BY <2>3, <2>4 DEF Accounted
<1>17. CASE /\ ~Exhausted(env) /\ ~Conflict(map[active], id, node.index)
            /\ map' = [map EXCEPT ![active] = WithNode(@, id, node.index)] /\ names' = q
            /\ Call(f) /\ document' = document /\ outcome' = outcome
  <2>1. stack' = Append(stack, f)
    BY <1>17 DEF Call
  <2>2. FrameOK(f, map')
    <3>1. StackOK(stack', map')
      BY NodeVisited DEF IInv
    <3> QED
      BY <1>2, <2>1, <3>1, CallFits
  <2>3. NodeCall(f, map', node, active, id)
    BY <1>8, <2>2 DEF NodeCall
  <2>4. WithIndex(map, map', active, id, node.index)
    <3>1. active \in DOMAIN map
      BY <1>3 DEF active
    <3> QED
      BY <1>3, <1>17, <3>1, DeclaresIndex
  <2>5. NamedAs(names, q, node, id)
    BY <1>14, <1>17
  <2>6. Account(Held(stack'), q, map', Occurrences)
    <3>1. Exchanged(Held(stack), t, Work(f), Len(stack) + 1, Held(stack'))
      BY <1>10, <2>1
    <3>2. Account(Held(stack), names, map, Occurrences)
      BY <1>2
    <3> QED
      BY <1>5, <1>11, <2>3, <2>4, <2>5, <3>1, <3>2, NodeAccounted
  <2> QED
    BY <1>3, <1>17, <2>6, StillAccounted
<1> QED
  BY <1>6, <1>15, <1>16, <1>17

LEMMA LeftAccountedFor ==
    ASSUME IInv, Accounted, Leave
    PROVE  Accounted'
<1>1. /\ Running /\ Complete(Frame) /\ Len(stack) > 1
      /\ stack' = Append(Front(Front(stack)), Given(Passed(Last(Front(stack))), Returned(Frame)))
      /\ UNCHANGED <<document, map, names, outcome>>
  BY DEF Leave
<1>2. Account(Held(stack), names, map, Occurrences) /\ Frame = Last(stack)
  BY <1>1, InProgress
<1>3. StackOK(stack, map) /\ outcome = "running"
  BY <1>1, Innermost
<1>4. Held(stack') = Held(stack)
  BY <1>1, <1>2, <1>3, HeldLeft
<1> QED
  BY <1>1, <1>2, <1>3, <1>4, StillAccounted

\* The last call has nothing left to visit.
LEMMA NothingHeld ==
    ASSUME IInv, Running, Complete(Frame), Len(stack) = 1
    PROVE  DOMAIN stack = {1} /\ stack[1] = Frame /\ Held(<<>>) = Held(stack)
<1>1. IsSequence(stack) /\ stack # <<>> /\ FrameOK(Frame, map) /\ Frame = Last(stack)
  BY Innermost DEF StackOK, Frame
<1>2. DOMAIN stack = {1} /\ stack[1] = Frame
  BY <1>1, Ahead
<1>3. DOMAIN Work(Remaining(stack, 1)) = {}
  BY <1>1, <1>2, NoWork DEF Remaining
<1>4. Held(<<>>) = Held(stack)
  <2>1. DOMAIN <<>> \subseteq DOMAIN stack /\ \A n \in DOMAIN <<>> : Work(Remaining(<<>>, n)) = Work(Remaining(stack, n))
    BY EmptySequence
  <2>2. \A n \in DOMAIN stack \ DOMAIN <<>> : DOMAIN Work(Remaining(stack, n)) = {}
    BY <1>2, <1>3
  <2> QED
    BY <2>1, <2>2, HeldSame
<1> QED
  BY <1>2, <1>4

LEMMA FinishAccountedFor ==
    ASSUME IInv, Accounted, Finish
    PROVE  Accounted'
<1>1. /\ Running /\ Complete(Frame) /\ Len(stack) = 1 /\ stack' = <<>> /\ outcome' = "mapped"
      /\ UNCHANGED <<document, map, names>>
  BY DEF Finish
<1>2. Account(Held(stack), names, map, Occurrences)
  BY <1>1, InProgress
<1>3. Held(<<>>) = Held(stack)
  BY <1>1, NothingHeld
<1>4. Occurrences' = Occurrences
  BY <1>1 DEF Occurrences
<1> QED
  BY <1>1, <1>2, <1>3, <1>4 DEF Accounted

\* A node that is looked up changes, but for its index.
LEMMA ChangedAccountedFor ==
    ASSUME IInv, Accounted, Running, NEW id \in DOMAIN map[Frame.active], NEW node, node.index = Looked(id).index,
           NEW f, Work(f) = Work(Frame), Change(id, node, f)
    PROVE  Accounted'
<1>1. Frame.active \in DOMAIN map
  BY Innermost
<1>2. /\ map' = [map EXCEPT ![Frame.active] = [@ EXCEPT ![id] = node]]
      /\ Update(f) /\ UNCHANGED <<document, names, outcome>>
  BY <1>1 DEF Change, Found
<1>3. SameIndexes(map, map')
  BY <1>1, <1>2 DEF SameIndexes, Looked
<1> QED
  BY <1>2, <1>3, Unvisited

\* The node of a call in a section that is over changes.
LEMMA SectionAccountedFor ==
    ASSUME IInv, Accounted, NEW section, section # "items", Over(section),
           NEW node, NodeOK(Looked(Frame.id), Frame.id, map) => node.index = Looked(Frame.id).index,
           Change(Frame.id, node, Ended(Frame))
    PROVE  Accounted'
<1>1. Running /\ Frame.section # "items" /\ Frame.queue = <<>>
  BY DEF Over, In
<1>2. /\ FrameOK(Frame, map) /\ Frame.id \in DOMAIN map[Frame.active]
      /\ NodeOK(Looked(Frame.id), Frame.id, map)
  BY <1>1, Itself
<1>3. Work(Ended(Frame)) = Work(Frame)
  BY <1>1, <1>2, WorkEnded
<1> QED
  BY <1>1, <1>2, <1>3, ChangedAccountedFor

LEMMA SetAccountedFor ==
    ASSUME IInv, Accounted, SetTypes \/ SetGraph \/ Insert
    PROVE  Accounted'
<1> DEFINE old == Looked(Frame.id)
           graph == IF old.graph = {} THEN {Frame.collected} ELSE {g \o Frame.collected : g \in old.graph}
<1>1. ASSUME NodeOK(old, Frame.id, map)
      PROVE  /\ [old EXCEPT !.types = Frame.collected].index = old.index
             /\ [old EXCEPT !.graph = graph].index = old.index
             /\ WithObjects(old, Frame.property, Frame.collected).index = old.index
  <2> HIDE DEF old, graph
  <2> QED
    BY <1>1 DEF NodeOK, WithObjects
<1>2. CASE SetTypes
  <2>1. Over("types") /\ Change(Frame.id, [old EXCEPT !.types = Frame.collected], Ended(Frame))
    BY <1>2 DEF SetTypes
  <2> DEFINE node == [old EXCEPT !.types = Frame.collected]
  <2>2. NodeOK(old, Frame.id, map) => node.index = old.index
    BY <1>1
  <2> HIDE DEF node
  <2> QED
    BY <2>1, <2>2, SectionAccountedFor DEF node
<1>3. CASE SetGraph
  <2> DEFINE node == [old EXCEPT !.graph = graph]
  <2>1. Over("graph") /\ Change(Frame.id, node, Ended(Frame))
    BY <1>3 DEF SetGraph
  <2>2. NodeOK(old, Frame.id, map) => node.index = old.index
    BY <1>1
  <2> HIDE DEF node
  <2> QED
    BY <2>1, <2>2, SectionAccountedFor
<1>4. CASE Insert
  <2> DEFINE node == WithObjects(old, Frame.property, Frame.collected)
  <2>1. Over("property") /\ Change(Frame.id, node, Ended(Frame))
    BY <1>4 DEF Insert
  <2>2. NodeOK(old, Frame.id, map) => node.index = old.index
    BY <1>1
  <2> HIDE DEF node
  <2> QED
    BY <2>1, <2>2, SectionAccountedFor
<1> QED
  BY <1>2, <1>3, <1>4

LEMMA LinkAccountedFor ==
    ASSUME IInv, Accounted, Link
    PROVE  Accounted'
<1> DEFINE subject == Last(Frame.collected).id
           node == WithObjects(Looked(subject), Frame.property, <<Reference(Frame.id)>>)
           f == Linked(Frame)
<1>1. Running /\ Frame.section = "reverse" /\ Frame.collected # <<>> /\ Change(subject, node, f)
  BY DEF Link, In
<1>2. subject \in DOMAIN map[Frame.active]
  BY <1>1, SubjectKnown
<1> HIDE DEF subject
<1>3. node.index = Looked(subject).index
  BY <1>1, <1>2, LookedUp DEF NodeOK, WithObjects
<1>4. FrameOK(Frame, map)
  BY <1>1, Innermost
<1>5. f.section = Frame.section /\ f.queue = Frame.queue /\ f.sections = Frame.sections /\ Steady(Frame, f)
  BY <1>4 DEF FrameOK, FrameFields, Linked, Steady
<1>6. Work(f) = Work(Frame)
  BY <1>5, WorkSame
<1> HIDE DEF node, f
<1> QED
  BY <1>1, <1>2, <1>3, <1>6, ChangedAccountedFor

\* The sections that begin or end without changing a node.
LEMMA BeginAccountedFor ==
    ASSUME IInv, Accounted, Begin \/ RelabelProperty \/ DeclareGraph
    PROVE  Accounted'
<1>1. Running /\ Frame.section = "between" /\ Frame.sections # <<>>
  BY DEF Begin, RelabelProperty, DeclareGraph, Before, In
<1>2. FrameOK(Frame, map) /\ outcome = "running"
  BY <1>1, Innermost
<1>3. \A p : Work(Entered(Frame, p)) = Work(Frame)
  BY <1>1, <1>2, WorkEntered
<1>4. CASE RelabelProperty /\ outcome' = "UnsupportedTerm"
  BY <1>4 DEF Accounted
<1>5. ASSUME ~(RelabelProperty /\ outcome' = "UnsupportedTerm")
      PROVE  \E p : Update(Entered(Frame, p)) /\ UNCHANGED <<document, names, outcome>>
  <2>1. CASE Begin
    BY <2>1 DEF Begin
  <2>2. CASE DeclareGraph
    BY <2>2 DEF DeclareGraph
  <2>3. CASE RelabelProperty
    BY <1>5, <2>3 DEF RelabelProperty, Fail
  <2> QED
    BY <2>1, <2>2, <2>3
<1>6. SameIndexes(map, map')
  <2>1. CASE map' = map
    BY <2>1, NoIndexes
  <2>2. CASE Frame.id \notin DOMAIN map /\ map' = Put(map, Frame.id, Empty)
    BY <2>2 DEF SameIndexes, Put, Empty
  <2> QED
    BY <2>1, <2>2 DEF Begin, RelabelProperty, DeclareGraph, Fail
<1>7. CASE ~(RelabelProperty /\ outcome' = "UnsupportedTerm")
  <2>1. PICK p : Update(Entered(Frame, p)) /\ UNCHANGED <<document, names, outcome>>
    BY <1>5, <1>7
  <2> DEFINE f == Entered(Frame, p)
  <2>2. Update(f) /\ Work(f) = Work(Frame)
    BY <1>3, <2>1
  <2> HIDE DEF f
  <2> QED
    BY <1>1, <1>6, <2>1, <2>2, Unvisited
<1> QED
  BY <1>4, <1>7

LEMMA EndAccountedFor ==
    ASSUME IInv, Accounted, End
    PROVE  Accounted'
<1>1. Running /\ Frame.queue = <<>> /\ Update(Ended(Frame)) /\ UNCHANGED <<document, map, names, outcome>>
  BY DEF End, Over, In
<1>2. FrameOK(Frame, map)
  BY <1>1, Innermost
<1>3. Work(Ended(Frame)) = Work(Frame)
  BY <1>1, <1>2, WorkEnded
<1>4. SameIndexes(map, map')
  BY <1>1, NoIndexes
<1> QED
  BY <1>1, <1>3, <1>4, Unvisited

LEMMA TypeAccountedFor ==
    ASSUME IInv, Accounted, RelabelType
    PROVE  Accounted'
<1>1. Running /\ Frame.section = "types" /\ Frame.queue # <<>>
  BY DEF RelabelType, In
<1>2. FrameOK(Frame, map)
  BY <1>1, Innermost
<1>3. \/ outcome' = "UnsupportedTerm"
      \/ \E x : Update(Given(Passed(Frame), x)) /\ UNCHANGED <<document, map, names, outcome>>
  BY DEF RelabelType, Fail
<1>4. CASE outcome' = "UnsupportedTerm"
  BY <1>4 DEF Accounted
<1>5. CASE \E x : Update(Given(Passed(Frame), x)) /\ UNCHANGED <<document, map, names, outcome>>
  <2>1. PICK x : Update(Given(Passed(Frame), x)) /\ UNCHANGED <<document, map, names, outcome>>
    BY <1>5
  <2> DEFINE f == Given(Passed(Frame), x)
  <2>2. FrameOK(Passed(Frame), map)
    BY <1>1, <1>2, Passes
  <2>3. f.section = Passed(Frame).section /\ f.queue = Passed(Frame).queue /\ f.sections = Passed(Frame).sections
        /\ Steady(Passed(Frame), f)
    BY <2>2 DEF FrameOK, FrameFields, Given, Steady
  <2>4. Work(f) = Work(Passed(Frame))
    BY <2>3, WorkSame
  <2>5. Work(f) = Work(Frame)
    BY <1>1, <1>2, <2>4, WorkPassed
  <2>6. Update(f)
    BY <2>1
  <2>7. SameIndexes(map, map')
    BY <2>1, NoIndexes
  <2> HIDE DEF f
  <2> QED
    BY <1>1, <2>1, <2>5, <2>6, <2>7, Unvisited
<1> QED
  BY <1>3, <1>4, <1>5

\* At first, the objects of the document are still to be visited.
LEMMA DocumentAccountedFor ==
    ASSUME Init
    PROVE  Accounted
<1> DEFINE f == CallOn("document", Default, None, None, "items", document, <<>>)
           W == Work(f)
           m == [g \in {Default} |-> Empty]
<1>1. /\ stack = <<f>> /\ map = m /\ document \in Documents /\ document \in Seq(Objects)
      /\ names = Empty /\ outcome = "running"
  BY NodeMapAssumption DEF Init
<1>2. f.section = "items" /\ f.queue = document /\ f.sections = <<>> /\ f.active = Default
  BY DEF CallOn
<1> HIDE DEF f, m
<1>3. IsSequence(<<f>>) /\ DOMAIN <<f>> = {1} /\ <<f>>[1] = f /\ Len(<<f>>) = 1
  BY Singleton
<1>4. FrameOK(f, m)
  <2>1. StackOK(<<f>>, m)
    BY <1>1, Initially DEF IInv
  <2> QED
    BY <1>3, <2>1 DEF StackOK
<1>5. Unshared(<<f.queue>>)
  BY <1>1, <1>2, TreeAssumption
<1>6. /\ \A w \in DOMAIN W : \E i \in DOMAIN document : W[w] = [graph |-> Default, object |-> document[i]]
      /\ \A i \in DOMAIN document : \E w \in DOMAIN W : W[w] = [graph |-> Default, object |-> document[i]]
      /\ Alone(W)
  BY <1>2, <1>4, <1>5, ItemsWork
<1>7. Remaining(<<f>>, 1) = f
  BY <1>3 DEF Remaining
<1> HIDE DEF W
<1>8. /\ DOMAIN Held(<<f>>) = Spots(<<f>>)
      /\ \A p \in Spots(<<f>>) : p = <<p[1], p[2]>> /\ p[1] = 1 /\ p[2] \in DOMAIN W /\ Held(<<f>>)[p] = W[p[2]]
      /\ \A w \in DOMAIN W : <<1, w>> \in Spots(<<f>>) /\ Held(<<f>>)[<<1, w>>] = W[w]
  BY <1>3, <1>7, HeldIs DEF W
<1> DEFINE held == Held(<<f>>)
<1>9. Alone(held)
  <2>1. ASSUME NEW p \in Spots(<<f>>), NEW r \in Spots(<<f>>), p # r
        PROVE  Anonymous(held[p].object) \cap Anonymous(held[r].object) = {}
    <3>1. p[2] # r[2] /\ held[p] = W[p[2]] /\ held[r] = W[r[2]] /\ p[2] \in DOMAIN W /\ r[2] \in DOMAIN W
      BY <1>8, <2>1
    <3> HIDE DEF held
    <3> QED
      BY <1>6, <3>1 DEF Alone
  <2> QED
    BY <1>8, <2>1 DEF Alone
<1>10. DOMAIN Empty = {} /\ Called(Empty, Default, Default)
  BY DEF Empty, Called
<1>11. \A x \in Occurrences : \E i \in DOMAIN document : x \in NodesIn[document[i]]
  BY DEF Occurrences
<1>12. ASSUME NEW i \in DOMAIN document, NEW y \in NodesIn[document[i]]
       PROVE  InGraph(Default, y) = y /\ y \in Occurrences
  <2>1. document[i] \in Objects
    BY <1>1, SequenceOver
  <2>2. y \in Placings
    BY <2>1, Nested
  <2>3. InGraph(Default, y) = y
    BY <2>2 DEF InGraph, Placings
  <2> QED
    BY <2>3 DEF Occurrences
<1>13. ASSUME NEW p \in Spots(<<f>>)
       PROVE  DueOK(held[p], Empty, Occurrences)
  <2>1. PICK i \in DOMAIN document : held[p] = [graph |-> Default, object |-> document[i]]
    BY <1>6, <1>8
  <2>2. held[p].graph = Default /\ held[p].object = document[i]
    BY <2>1
  <2>3. document[i] \in Objects
    BY <1>1, SequenceOver
  <2> HIDE DEF held
  <2> QED
    BY <1>10, <1>12, <2>2, <2>3 DEF DueOK
<1>14. HeldOK(held, Empty, Occurrences)
  BY <1>8, <1>9, <1>13 DEF HeldOK
<1>15. ASSUME NEW x \in Occurrences
       PROVE  Awaited(held, Empty, x)
  <2>1. PICK i \in DOMAIN document : x \in NodesIn[document[i]]
    BY <1>11
  <2>2. PICK w \in DOMAIN W : W[w] = [graph |-> Default, object |-> document[i]]
    BY <1>6
  <2>3. <<1, w>> \in DOMAIN held /\ held[<<1, w>>].graph = Default /\ held[<<1, w>>].object = document[i]
    BY <1>8, <2>2
  <2>4. x = InGraph(Default, x)
    BY <1>12, <2>1
  <2> HIDE DEF held
  <2>5. Brings(Empty, held[<<1, w>>], x)
    BY <1>10, <2>1, <2>3, <2>4 DEF Brings
  <2> QED
    BY <2>3, <2>5 DEF Awaited
<1>16. Explained(Empty, m, Occurrences)
  BY <1>10 DEF Explained, m
<1> HIDE DEF held
<1>17. Account(held, Empty, m, Occurrences)
  BY <1>14, <1>15, <1>16 DEF Account, Covered
<1> QED
  BY <1>1, <1>17 DEF Accounted, held

LEMMA StepsAccountedFor == IInv /\ Accounted /\ [Next]_vars => Accounted'
<1> SUFFICES ASSUME IInv, Accounted, [Next]_vars
             PROVE  Accounted'
  OBVIOUS
<1>1. CASE VisitValue
  BY <1>1, ValueAccountedFor
<1>2. CASE VisitList
  BY <1>2, ListAccountedFor
<1>3. CASE VisitNode
  BY <1>3, NodeAccountedFor
<1>4. CASE Leave
  BY <1>4, LeftAccountedFor
<1>5. CASE Begin \/ RelabelProperty \/ DeclareGraph
  BY <1>5, BeginAccountedFor
<1>6. CASE RelabelType
  BY <1>6, TypeAccountedFor
<1>7. CASE SetTypes \/ SetGraph \/ Insert
  BY <1>7, SetAccountedFor
<1>8. CASE Link
  BY <1>8, LinkAccountedFor
<1>9. CASE End
  BY <1>9, EndAccountedFor
<1>10. CASE Finish
  BY <1>10, FinishAccountedFor
<1>11. CASE Flatten \/ Merge
  BY <1>11 DEF Flatten, Merge, Accounted
<1>12. CASE UNCHANGED vars
  BY <1>12 DEF vars, Accounted, Occurrences, IndexConflict
<1> QED
  BY <1>1, <1>2, <1>3, <1>4, <1>5, <1>6, <1>7, <1>8, <1>9, <1>10, <1>11, <1>12 DEF Next

\* What is said of a label is said of one graph, and one node.
LEMMA CalledOnce ==
    ASSUME NEW ns, NEW l, NEW g, NEW h, Called(ns, l, g), Called(ns, l, h)
    PROVE  g = h
  BY DEF Called

LEMMA Reported == Accounted => ConflictsReported
<1> SUFFICES ASSUME Accounted, outcome = "mapped"
             PROVE  ~IndexConflict
  BY DEF Accounted, ConflictsReported
<1>1. Covered(Held(stack), names, map, Occurrences) /\ stack = <<>>
  BY DEF Accounted, Account
<1>2. DOMAIN Held(stack) = {}
  BY <1>1, HeldIs, EmptySequence
<1>3. \A x \in Occurrences : Indexed(names, map, x)
  BY <1>1, <1>2 DEF Covered, Awaited
<1>4. ASSUME NEW x \in Occurrences, NEW y \in Occurrences,
             x.graph = y.graph, Label(x.node) = Label(y.node), None \notin {x.node.index, y.node.index}
      PROVE  x.node.index = y.node.index
  <2>1. PICK g \in DOMAIN map : \E id \in DOMAIN map[g] :
           DeclaredAs(names, x, g, id) /\ (x.node.index # None => map[g][id].index = x.node.index)
    BY <1>3 DEF Indexed
  <2>2. PICK id \in DOMAIN map[g] :
           DeclaredAs(names, x, g, id) /\ (x.node.index # None => map[g][id].index = x.node.index)
    BY <2>1
  <2>3. PICK h \in DOMAIN map : \E j \in DOMAIN map[h] :
           DeclaredAs(names, y, h, j) /\ (y.node.index # None => map[h][j].index = y.node.index)
    BY <1>3 DEF Indexed
  <2>4. PICK j \in DOMAIN map[h] :
           DeclaredAs(names, y, h, j) /\ (y.node.index # None => map[h][j].index = y.node.index)
    BY <2>3
  <2>5. g = h /\ id = j
    BY <1>4, <2>2, <2>4, CalledOnce DEF DeclaredAs
  <2> QED
    BY <1>4, <2>2, <2>4, <2>5
<1> QED
  BY <1>4 DEF IndexConflict

\* A conflict of indexes is reported exactly when the document has one: the
\* declaration of a node compares with every occurrence before it, and only with those.
THEOREM Conflicts == Spec => []ConflictsReported
<1>1. Init => IInv /\ Accounted
  BY Initially, DocumentAccountedFor
<1>2. IInv /\ Accounted /\ [Next]_vars => IInv' /\ Accounted'
  BY Steps, StepsAccountedFor
<1> QED
  BY <1>1, <1>2, Reported, PTL DEF Spec

-----------------------------------------------------------------------------
(* What an object means.                                                     *)

\* Meaning's body, for given names of node objects.
Sense(nodes, f, o) ==
    CASE o.kind = "value" -> o
      [] o.kind = "list" -> [kind |-> "list", index |-> o.index, items |-> [i \in DOMAIN o.items |-> f[o.items[i]]]]
      [] o.kind = "node" -> nodes[o]

\* It depends on what the items of a list mean.
LEMMA SenseSame ==
    ASSUME NEW nodes, NEW f, NEW g, NEW o \in Objects,
           o.kind = "list" => \A i \in DOMAIN o.items : f[o.items[i]] = g[o.items[i]]
    PROVE  Sense(nodes, f, o) = Sense(nodes, g, o)
<1>1. o.kind \in {"value", "list", "node"}
  BY Parts
<1>2. CASE o.kind = "list"
  <2>1. [i \in DOMAIN o.items |-> f[o.items[i]]] = [i \in DOMAIN o.items |-> g[o.items[i]]]
    BY <1>2
  <2> QED
    BY <1>2, <2>1 DEF Sense
<1>3. CASE o.kind # "list"
  BY <1>1, <1>3 DEF Sense
<1> QED
  BY <1>2, <1>3

Below(n) == {o \in Objects : Depth(o) < n}
SensesBelow(nodes, f, n) == \A o \in Below(n) : f[o] = Sense(nodes, f, o)

LEMMA ItemsBelow ==
    ASSUME NEW n \in Nat, NEW o \in Below(n + 1), o.kind = "list", NEW i \in DOMAIN o.items
    PROVE  o.items[i] \in Below(n)
<1>1. o \in Objects /\ Depth(o) < n + 1
  BY DEF Below
<1>2. o.items[i] \in Objects /\ Depth(o.items[i]) < Depth(o) /\ Depth(o) \in Nat /\ Depth(o.items[i]) \in Nat
  BY <1>1, Shallower
<1> QED
  BY <1>1, <1>2 DEF Below

LEMMA SensesAgree ==
    ASSUME NEW nodes, NEW f, NEW g, NEW n \in Nat, SensesBelow(nodes, f, n), SensesBelow(nodes, g, n)
    PROVE  \A o \in Below(n) : f[o] = g[o]
<1> DEFINE S == {k \in Nat : k <= n => \A o \in Below(k) : f[o] = g[o]}
<1>1. 0 \in S
  <2>1. Below(0) = {}
    BY Shallower DEF Below
  <2> QED
    BY <2>1
<1>2. ASSUME NEW k \in Nat, k \in S
      PROVE  k + 1 \in S
  <2>1. SUFFICES ASSUME k + 1 <= n, NEW o \in Below(k + 1)
                 PROVE  f[o] = g[o]
    OBVIOUS
  <2>2. \A p \in Below(k) : f[p] = g[p]
    BY <1>2, <2>1
  <2>3. o \in Objects /\ o \in Below(n)
    BY <2>1, Shallower DEF Below
  <2>4. o.kind = "list" => \A i \in DOMAIN o.items : f[o.items[i]] = g[o.items[i]]
    BY <2>1, <2>2, ItemsBelow
  <2>5. Sense(nodes, f, o) = Sense(nodes, g, o)
    BY <2>3, <2>4, SenseSame
  <2> QED
    BY <2>3, <2>5 DEF SensesBelow
<1>3. n \in S
  <2> HIDE DEF S
  <2> QED
    BY <1>1, <1>2, Induct
<1> QED
  BY <1>3

LEMMA SensesExist ==
    ASSUME NEW nodes
    PROVE  \A n \in Nat : \E f : SensesBelow(nodes, f, n)
<1> DEFINE S == {n \in Nat : \E f : SensesBelow(nodes, f, n)}
<1>1. 0 \in S
  <2>1. Below(0) = {}
    BY Shallower DEF Below
  <2> QED
    BY <2>1 DEF SensesBelow
<1>2. ASSUME NEW n \in Nat, n \in S
      PROVE  n + 1 \in S
  <2>1. PICK f : SensesBelow(nodes, f, n)
    BY <1>2
  <2> DEFINE g == [o \in Objects |-> Sense(nodes, f, o)]
  <2>2. \A o \in Objects : g[o] = Sense(nodes, f, o)
    OBVIOUS
  <2> HIDE DEF g
  <2>3. ASSUME NEW o \in Below(n + 1)
        PROVE  g[o] = Sense(nodes, g, o)
    <3>1. o \in Objects
      BY DEF Below
    <3>2. ASSUME o.kind = "list", NEW i \in DOMAIN o.items
          PROVE  f[o.items[i]] = g[o.items[i]]
      <4>1. o.items[i] \in Below(n)
        BY <3>2, ItemsBelow
      <4>2. o.items[i] \in Objects
        BY <4>1 DEF Below
      <4> QED
        BY <2>1, <2>2, <4>1, <4>2 DEF SensesBelow
    <3>3. Sense(nodes, f, o) = Sense(nodes, g, o)
      BY <3>1, <3>2, SenseSame
    <3> QED
      BY <2>2, <3>1, <3>3
  <2>4. SensesBelow(nodes, g, n + 1)
    BY <2>3 DEF SensesBelow
  <2> QED
    BY <2>4
<1> HIDE DEF S
<1>3. Nat \subseteq S
  BY <1>1, <1>2, Induct
<1> QED
  BY <1>3 DEF S

LEMMA Senses ==
    ASSUME NEW nodes
    PROVE  \E f : f = [o \in Objects |-> Sense(nodes, f, o)]
<1> DEFINE h(n) == CHOOSE f : SensesBelow(nodes, f, n)
           F == [o \in Objects |-> h(Depth(o) + 1)[o]]
<1>1. \A n \in Nat : SensesBelow(nodes, h(n), n)
  BY SensesExist
<1>2. \A o \in Objects : F[o] = h(Depth(o) + 1)[o]
  OBVIOUS
<1>3. F = [o \in Objects |-> F[o]]
  OBVIOUS
<1> HIDE DEF h, F
<1>4. ASSUME NEW o \in Objects
      PROVE  F[o] = Sense(nodes, F, o)
  <2> DEFINE n == Depth(o) + 1
  <2>1. n \in Nat /\ o \in Below(n) /\ Depth(o) \in Nat
    BY Shallower DEF Below
  <2>2. h(n)[o] = Sense(nodes, h(n), o)
    <3> HIDE DEF n
    <3> QED
      BY <1>1, <2>1 DEF SensesBelow
  <2>3. ASSUME o.kind = "list", NEW i \in DOMAIN o.items
        PROVE  h(n)[o.items[i]] = F[o.items[i]]
    <3> DEFINE p == o.items[i]
               k == Depth(p) + 1
    <3>1. p \in Objects /\ k \in Nat /\ p \in Below(k) /\ k <= n
      BY <2>1, <2>3, Shallower DEF Below
    <3>2. SensesBelow(nodes, h(n), k)
      <4>1. SensesBelow(nodes, h(n), n)
        BY <1>1, <2>1
      <4>2. Below(k) \subseteq Below(n)
        BY <2>1, <3>1, Shallower DEF Below
      <4> HIDE DEF n, k
      <4> QED
        BY <4>1, <4>2 DEF SensesBelow
    <3>3. SensesBelow(nodes, h(k), k)
      BY <1>1, <3>1
    <3> HIDE DEF n
    <3>4. h(n)[p] = h(k)[p]
      <4> HIDE DEF k
      <4> QED
        BY <3>1, <3>2, <3>3, SensesAgree
    <3> QED
      BY <1>2, <3>1, <3>4
  <2> HIDE DEF n
  <2>4. Sense(nodes, h(n), o) = Sense(nodes, F, o)
    BY <2>3, SenseSame
  <2> QED
    BY <1>2, <2>2, <2>4 DEF n
<1>5. F = [o \in Objects |-> Sense(nodes, F, o)]
  BY <1>3, <1>4
<1> QED
  BY <1>5

\* Meaning's body.
MeaningOf(f, o) ==
    LET items == [i \in DOMAIN o.items |-> f[o.items[i]]]
    IN  CASE o.kind = "value" -> o
          [] o.kind = "list" -> [kind |-> "list", index |-> o.index, items |-> items]
          [] o.kind = "node" -> Reference(Name(Label(o)))

LEMMA MeaningTotal == \A x \in Objects : Meaning[x] = MeaningOf(Meaning, x)
<1> DEFINE nodes == [p \in NodeObjects |-> Reference(Name(Label(p)))]
           Is(f) == f = [p \in Objects |-> MeaningOf(f, p)]
<1>1. \A p \in Objects : p.kind \in {"value", "list", "node"}
  BY Parts
<1>2. \A f : \A p \in Objects : Sense(nodes, f, p) = MeaningOf(f, p)
  BY <1>1 DEF Sense, NodeObjects, MeaningOf
<1>3. Meaning = CHOOSE f : Is(f)
  BY DEF Meaning, MeaningOf
<1>4. \E f : f = [p \in Objects |-> Sense(nodes, f, p)]
  <2> HIDE DEF nodes
  <2> QED
    BY Senses
<1>5. PICK F : Is(F)
  <2>1. PICK F : F = [p \in Objects |-> Sense(nodes, F, p)]
    BY <1>4
  <2>2. [p \in Objects |-> Sense(nodes, F, p)] = [p \in Objects |-> MeaningOf(F, p)]
    <3> HIDE DEF nodes
    <3> QED
      BY <1>2
  <2> QED
    BY <2>1, <2>2
<1>6. Is(Meaning)
  <2> HIDE DEF Is
  <2> QED
    BY <1>3, <1>5
<1> QED
  BY <1>6

\* Meaning says of an object what it says of its items, or the name of its node.
LEMMA MeaningIs ==
    ASSUME NEW o \in Objects
    PROVE  /\ o.kind = "value" => Meaning[o] = o
           /\ o.kind = "list" =>
                 Meaning[o] = [kind |-> "list", index |-> o.index, items |-> [i \in DOMAIN o.items |-> Meaning[o.items[i]]]]
           /\ o.kind = "node" => Meaning[o] = Reference(Name(Label(o)))
<1>1. o.kind \in {"value", "list", "node"}
  BY Parts
<1>2. Meaning[o] = MeaningOf(Meaning, o)
  BY MeaningTotal
<1> QED
  BY <1>1, <1>2 DEF MeaningOf

-----------------------------------------------------------------------------
(* Accounting for what a document says.                                      *)

\* A property or a type, and what it is called.
Termed(rl, l, t) == IF l \in Blanks THEN l \in DOMAIN rl /\ rl[l] = t ELSE t = l

\* Pairs of objects and what they mean, if nodes are called `ns`.
Closed(ns, R) ==
    /\ \A o \in Objects : o.kind = "value" => <<o, o>> \in R
    /\ \A o \in NodeObjects : Label(o) \in DOMAIN ns => <<o, Reference(ns[Label(o)])>> \in R
    /\ \A o \in Objects : \A items :
          /\ o.kind = "list" /\ IsSequence(items) /\ DOMAIN items = DOMAIN o.items
          /\ \A i \in DOMAIN items : <<o.items[i], items[i]>> \in R
          => <<o, [kind |-> "list", index |-> o.index, items |-> items]>> \in R

\* An object means `m`, whatever names are given later.
Means(ns, o, m) ==
    /\ o \in Objects
    /\ \A R : Closed(ns, R) => <<o, m>> \in R
    /\ o \in NodeObjects => Label(o) \in DOMAIN ns /\ m = Reference(ns[Label(o)])

\* What has been done of a sequence, and what is left of it.
Split(whole, done, queue) ==
    /\ IsSequence(whole) /\ IsSequence(done) /\ IsSequence(queue)
    /\ Len(done) + Len(queue) = Len(whole)
    /\ \A i \in DOMAIN queue : queue[i] = whole[Len(done) + i]

\* What a section of an occurrence says about an object in it, and whether the map
\* says so.  A world is the names, the relabelling and the map.
Stating == {"property", "reverse"}
Claims(w, x, s, v, g, n, p, o) ==
    /\ Called(w.names, x.graph, g)
    /\ s.op = "property" =>
          Called(w.names, Label(x.node), n) /\ Termed(w.relabel, s.property, p) /\ Means(w.names, v, o)
    /\ s.op = "reverse" =>
          Called(w.names, Label(v), n) /\ p = s.property /\ Means(w.names, x.node, o)
Says(m, g, n, p, o) == g \in DOMAIN m /\ SaidOf(m[g], n, p, o)
Recorded(w, x, s, v) == \E g, n, p, o : Claims(w, x, s, v, g, n, p, o) /\ Says(w.map, g, n, p, o)

HasTypes(m, g, n) == g \in DOMAIN m /\ n \in DOMAIN m[g] /\ m[g][n].types # None
Done(w, x, s) ==
    /\ s.op \in Stating => \A v \in ToSet(s.objects) : Recorded(w, x, s, v)
    /\ s.op = "types" => \E g, n : DeclaredAs(w.names, x, g, n) /\ HasTypes(w.map, g, n)

\* A call is in a section of a node object.
Renders(rl, types, done) == \A i \in DOMAIN done : Termed(rl, types[i], done[i])
At(w, f, s) ==
    /\ s.op = f.section /\ s.op \in Operations
    /\ s.op = "types" => Split(s.objects, f.collected, f.queue) /\ Renders(w.relabel, s.objects, f.collected)
    /\ s.op \in Stating =>
          /\ ToSet(f.queue) \subseteq ToSet(s.objects)
          /\ \A c \in ToSet(f.collected) : \E v \in ToSet(s.objects) : Means(w.names, v, c)
    /\ s.op = "property" => Termed(w.relabel, s.property, f.property)
    /\ s.op = "reverse" => f.property = s.property /\ ToSet(s.objects) \subseteq NodeObjects

\* A call is made for an occurrence, and has it in hand what a section says.
Treats(w, f, x) ==
    /\ f.kind = "node" /\ x.node \in NodeObjects /\ DeclaredAs(w.names, x, f.active, f.id)
    /\ ToSet(f.sections) \subseteq ToSet(Sections(x.node))
    /\ f.section # "between" => \E s \in ToSet(Sections(x.node)) : At(w, f, s)
Covers(w, f, x, s) ==
    s.op \in Stating =>
        \A v \in ToSet(s.objects) :
            \/ v \in ToSet(f.queue)
            \/ \E c \in ToSet(f.collected) : Means(w.names, v, c)
            \/ Recorded(w, x, s, v)
InHand(w, f, x, s) == Treats(w, f, x) /\ (s \in ToSet(f.sections) \/ (At(w, f, s) /\ Covers(w, f, x, s)))

\* A call is made for an object, and will return what it means.
Answers(w, f, o) ==
    /\ f.kind \in {"node", "list"}
    /\ f.kind = "node" => o \in NodeObjects /\ Called(w.names, Label(o), f.id)
    /\ f.kind = "list" =>
          /\ o \in Objects /\ o.kind = "list" /\ f.index = o.index
          /\ Split(o.items, f.collected, f.queue)
          /\ \A i \in DOMAIN f.collected : Means(w.names, o.items[i], f.collected[i])

CallsSound(w, st, occ) ==
    /\ \A n \in DOMAIN st : st[n].kind = "node" => \E x \in occ : Treats(w, st[n], x)
    /\ \A n \in DOMAIN st : n > 1 => Answers(w, st[n], Head(st[n - 1].queue))

\* Nothing is in the map that no occurrence says.
Meant(w, occ, g, n, p, o) ==
    \E x \in occ : \E s \in ToSet(Sections(x.node)) : \E v \in ToSet(s.objects) :
        s.op \in Stating /\ Claims(w, x, s, v, g, n, p, o)
TypesMeant(w, occ, g, n) ==
    \E x \in occ :
        /\ DeclaredAs(w.names, x, g, n) /\ x.node.types # None
        /\ DOMAIN w.map[g][n].types = DOMAIN x.node.types
        /\ Renders(w.relabel, x.node.types, w.map[g][n].types)
MapSound(w, occ) ==
    /\ \A g, n, p, o : Says(w.map, g, n, p, o) => Meant(w, occ, g, n, p, o)
    /\ \A g, n : HasTypes(w.map, g, n) => TypesMeant(w, occ, g, n)

\* What an occurrence says is in the map, or in the hands of a call.
Kept(w, held, st, occ) ==
    \A x \in occ :
        \/ Awaited(held, w.names, x)
        \/ \A s \in ToSet(Sections(x.node)) : Done(w, x, s) \/ \E n \in DOMAIN st : InHand(w, st[n], x, s)

-----------------------------------------------------------------------------
(* Meaning, as far as it is known.                                           *)

LEMMA TermedStill ==
    ASSUME NEW r, NEW q, DOMAIN r \subseteq DOMAIN q, \A b \in DOMAIN r : q[b] = r[b],
           NEW l, NEW t, Termed(r, l, t)
    PROVE  Termed(q, l, t)
  BY DEF Termed

LEMMA MeansStill ==
    ASSUME NEW ns, NEW q, NamesGrow(ns, q), NEW o, NEW m, Means(ns, o, m)
    PROVE  Means(q, o, m)
<1>1. \A R : Closed(q, R) => Closed(ns, R)
  BY DEF Closed, NamesGrow
<1> QED
  BY <1>1 DEF Means, NamesGrow

LEMMA MeansValue ==
    ASSUME NEW ns, NEW o \in Objects, o.kind = "value"
    PROVE  Means(ns, o, o)
<1>1. o \notin NodeObjects
  BY DEF NodeObjects
<1> QED
  BY <1>1 DEF Means, Closed

LEMMA MeansNode ==
    ASSUME NEW ns, NEW o \in NodeObjects, Label(o) \in DOMAIN ns
    PROVE  Means(ns, o, Reference(ns[Label(o)]))
<1>1. o \in Objects
  BY DEF NodeObjects
<1> QED
  BY <1>1 DEF Means, Closed

LEMMA MeansList ==
    ASSUME NEW ns, NEW o \in Objects, o.kind = "list", NEW items, IsSequence(items), DOMAIN items = DOMAIN o.items,
           \A i \in DOMAIN items : Means(ns, o.items[i], items[i])
    PROVE  Means(ns, o, [kind |-> "list", index |-> o.index, items |-> items])
<1>1. o \notin NodeObjects
  BY DEF NodeObjects
<1> DEFINE m == [kind |-> "list", index |-> o.index, items |-> items]
<1>2. ASSUME NEW R, Closed(ns, R)
      PROVE  <<o, m>> \in R
  <2>1. \A i \in DOMAIN items : <<o.items[i], items[i]>> \in R
    BY <1>2 DEF Means
  <2> QED
    BY <1>2, <2>1 DEF Closed
<1> HIDE DEF m
<1>3. Means(ns, o, m)
  BY <1>1, <1>2 DEF Means
<1> QED
  BY <1>3 DEF m

\* It is what the object means in the end.
LEMMA MeansMeaning ==
    ASSUME NEW o, NEW m, Means(names, o, m)
    PROVE  m = Meaning[o]
<1> DEFINE R == {<<x, Meaning[x]>> : x \in Objects}
<1>1. ASSUME NEW x \in Objects, x.kind = "value"
      PROVE  <<x, x>> \in R
  BY <1>1, MeaningIs
<1>2. ASSUME NEW x \in NodeObjects, Label(x) \in DOMAIN names
      PROVE  <<x, Reference(names[Label(x)])>> \in R
  <2>1. x \in Objects /\ x.kind = "node"
    BY DEF NodeObjects
  <2>2. Name(Label(x)) = names[Label(x)]
    BY <1>2 DEF Name
  <2>3. Meaning[x] = Reference(names[Label(x)])
    BY <2>1, <2>2, MeaningIs
  <2> QED
    BY <2>1, <2>3
<1>3. ASSUME NEW x \in Objects, NEW items, x.kind = "list", IsSequence(items), DOMAIN items = DOMAIN x.items,
             \A i \in DOMAIN items : <<x.items[i], items[i]>> \in R
      PROVE  <<x, [kind |-> "list", index |-> x.index, items |-> items]>> \in R
  <2>1. \A i \in DOMAIN items : items[i] = Meaning[x.items[i]]
    BY <1>3
  <2>2. items = [i \in DOMAIN items |-> items[i]]
    BY <1>3 DEF IsSequence
  <2>3. items = [i \in DOMAIN x.items |-> Meaning[x.items[i]]]
    BY <1>3, <2>1, <2>2
  <2>4. Meaning[x] = [kind |-> "list", index |-> x.index, items |-> items]
    BY <1>3, <2>3, MeaningIs
  <2> QED
    BY <2>4
<1>4. Closed(names, R)
  <2> HIDE DEF R
  <2> QED
    BY <1>1, <1>2, <1>3 DEF Closed
<1>5. <<o, m>> \in R
  <2> HIDE DEF R
  <2> QED
    BY <1>4 DEF Means
<1> QED
  BY <1>5

-----------------------------------------------------------------------------
(* Going through a sequence.                                                 *)

LEMMA SplitFirst ==
    ASSUME NEW s, IsSequence(s)
    PROVE  Split(s, <<>>, s)
<1>1. Len(s) \in Nat /\ DOMAIN s = 1 .. Len(s)
  BY SequenceOver DEF IsSequence
<1>2. \A i \in DOMAIN s : s[i] = s[Len(<<>>) + i]
  BY <1>1
<1> QED
  BY <1>1, <1>2, EmptySequence DEF Split

LEMMA SplitNext ==
    ASSUME NEW s, NEW done, NEW queue, Split(s, done, queue), queue # <<>>, NEW c
    PROVE  /\ Split(s, Append(done, c), Tail(queue))
           /\ Head(queue) = s[Len(done) + 1] /\ Head(queue) \in ToSet(s)
           /\ DOMAIN Append(done, c) = DOMAIN done \cup {Len(done) + 1}
           /\ Append(done, c)[Len(done) + 1] = c
           /\ \A i \in DOMAIN done : Append(done, c)[i] = done[i]
<1>1. IsSequence(s) /\ IsSequence(done) /\ IsSequence(queue)
  BY DEF Split
<1>2. Len(done) \in Nat /\ DOMAIN done = 1 .. Len(done) /\ Len(queue) \in Nat /\ DOMAIN queue = 1 .. Len(queue)
      /\ Len(s) \in Nat /\ DOMAIN s = 1 .. Len(s)
  BY <1>1, SequenceOver DEF IsSequence
<1>3. /\ IsSequence(Append(done, c)) /\ Len(Append(done, c)) = Len(done) + 1
      /\ DOMAIN Append(done, c) = 1 .. Len(done) + 1
      /\ Append(done, c)[Len(done) + 1] = c
      /\ \A i \in 1 .. Len(done) : Append(done, c)[i] = done[i]
  BY <1>1, Longer
<1>4. /\ Head(queue) = queue[1] /\ 1 \in DOMAIN queue
      /\ IsSequence(Tail(queue))
      /\ \A i \in DOMAIN Tail(queue) : i + 1 \in DOMAIN queue /\ Tail(queue)[i] = queue[i + 1]
  BY <1>1, Rest
<1>5. Len(Tail(queue)) = Len(queue) - 1
  BY <1>1, <1>2, <1>4 DEF IsSequence
<1>6. Len(Tail(queue)) \in Nat /\ DOMAIN Tail(queue) = 1 .. Len(Tail(queue))
  BY <1>4, SequenceOver DEF IsSequence
<1>7. Len(done) + Len(queue) = Len(s) /\ \A i \in DOMAIN queue : queue[i] = s[Len(done) + i]
  BY DEF Split
<1>8. \A i \in DOMAIN Tail(queue) : Tail(queue)[i] = s[Len(Append(done, c)) + i]
  <2>1. SUFFICES ASSUME NEW i \in DOMAIN Tail(queue)
                 PROVE  Tail(queue)[i] = s[Len(Append(done, c)) + i]
    OBVIOUS
  <2>2. i \in Nat /\ i + 1 \in DOMAIN queue /\ Tail(queue)[i] = queue[i + 1]
    BY <1>4, <1>6
  <2>3. queue[i + 1] = s[Len(done) + (i + 1)]
    BY <1>7, <2>2
  <2>4. Len(done) + (i + 1) = Len(Append(done, c)) + i
    BY <1>2, <1>3, <2>2
  <2> QED
    BY <2>2, <2>3, <2>4
<1>9. Split(s, Append(done, c), Tail(queue))
  <2>1. Len(Append(done, c)) + Len(Tail(queue)) = Len(s)
    BY <1>2, <1>3, <1>5, <1>7
  <2> QED
    BY <1>1, <1>3, <1>4, <1>8, <2>1 DEF Split
<1>10. Head(queue) = s[Len(done) + 1] /\ Head(queue) \in ToSet(s)
  <2>1. queue[1] = s[Len(done) + 1]
    BY <1>4, <1>7
  <2>2. Len(done) + 1 \in DOMAIN s
    BY <1>2, <1>4, <1>7
  <2> QED
    BY <1>4, <2>1, <2>2 DEF ToSet
<1> QED
  BY <1>2, <1>3, <1>9, <1>10

LEMMA SplitLast ==
    ASSUME NEW s, NEW done, NEW queue, Split(s, done, queue), queue = <<>>
    PROVE  DOMAIN done = DOMAIN s
<1> DEFINE x == Len(done)
           y == Len(queue)
           z == Len(s)
<1>1. x \in Nat /\ DOMAIN done = 1 .. x /\ z \in Nat /\ DOMAIN s = 1 .. z
  BY SequenceOver DEF Split, IsSequence
<1>2. x + y = z
  BY DEF Split
<1>3. y = 0
  OBVIOUS
<1> HIDE DEF x, y, z
<1>4. x = z
  BY ONLY <1>1, <1>2, <1>3
<1> QED
  BY ONLY <1>1, <1>4

-----------------------------------------------------------------------------
(* What is said stays said.                                                  *)

More(w, v) ==
    /\ NamesGrow(w.names, v.names)
    /\ DOMAIN w.relabel \subseteq DOMAIN v.relabel /\ \A b \in DOMAIN w.relabel : v.relabel[b] = w.relabel[b]
    /\ \A g, n, p, o : Says(w.map, g, n, p, o) => Says(v.map, g, n, p, o)
    /\ \A g, n : HasTypes(w.map, g, n) => HasTypes(v.map, g, n)

LEMMA NamedStill ==
    ASSUME NEW w, NEW v, More(w, v)
    PROVE  /\ \A l, g : Called(w.names, l, g) => Called(v.names, l, g)
           /\ \A x, g, id : DeclaredAs(w.names, x, g, id) => DeclaredAs(v.names, x, g, id)
           /\ \A l, t : Termed(w.relabel, l, t) => Termed(v.relabel, l, t)
           /\ \A o, m : Means(w.names, o, m) => Means(v.names, o, m)
<1>1. NamesGrow(w.names, v.names)
  BY DEF More
<1>2. \A l, t : Termed(w.relabel, l, t) => Termed(v.relabel, l, t)
  <2>1. DOMAIN w.relabel \subseteq DOMAIN v.relabel /\ \A b \in DOMAIN w.relabel : v.relabel[b] = w.relabel[b]
    BY DEF More
  <2> QED
    BY <2>1, TermedStill
<1> QED
  BY <1>1, <1>2, CalledStill, MeansStill

LEMMA ClaimedStill ==
    ASSUME NEW w, NEW v, More(w, v)
    PROVE  /\ \A x, s, y, g, n, p, o : Claims(w, x, s, y, g, n, p, o) => Claims(v, x, s, y, g, n, p, o)
           /\ \A x, s, y : Recorded(w, x, s, y) => Recorded(v, x, s, y)
           /\ \A x, s : Done(w, x, s) => Done(v, x, s)
<1>1. ASSUME NEW x, NEW s, NEW y, NEW g, NEW n, NEW p, NEW o, Claims(w, x, s, y, g, n, p, o)
      PROVE  Claims(v, x, s, y, g, n, p, o)
  BY <1>1, NamedStill DEF Claims
<1>2. \A g, n, p, o : Says(w.map, g, n, p, o) => Says(v.map, g, n, p, o)
  BY DEF More
<1>3. ASSUME NEW x, NEW s, NEW y, Recorded(w, x, s, y)
      PROVE  Recorded(v, x, s, y)
  BY <1>1, <1>2, <1>3 DEF Recorded
<1>4. \A g, n : HasTypes(w.map, g, n) => HasTypes(v.map, g, n)
  BY DEF More
<1>5. ASSUME NEW x, NEW s, Done(w, x, s)
      PROVE  Done(v, x, s)
  <2>1. s.op \in Stating => \A y \in ToSet(s.objects) : Recorded(v, x, s, y)
    BY <1>3, <1>5 DEF Done
  <2>2. s.op = "types" => \E g, n : DeclaredAs(v.names, x, g, n) /\ HasTypes(v.map, g, n)
    BY <1>4, <1>5, NamedStill DEF Done
  <2> QED
    BY <2>1, <2>2 DEF Done
<1> QED
  BY <1>1, <1>3, <1>5

LEMMA AtStill ==
    ASSUME NEW w, NEW v, More(w, v), NEW f, NEW s, At(w, f, s)
    PROVE  At(v, f, s)
<1>1. s.op = f.section
  BY DEF At
<1>2. s.op = "types" => Split(s.objects, f.collected, f.queue) /\ Renders(v.relabel, s.objects, f.collected)
  BY NamedStill DEF At, Renders
<1>3. s.op \in Stating =>
          /\ ToSet(f.queue) \subseteq ToSet(s.objects)
          /\ \A c \in ToSet(f.collected) : \E y \in ToSet(s.objects) : Means(v.names, y, c)
  BY NamedStill DEF At
<1>4. s.op = "property" => Termed(v.relabel, s.property, f.property)
  BY NamedStill DEF At
<1>5. s.op = "reverse" => f.property = s.property /\ ToSet(s.objects) \subseteq NodeObjects
  BY DEF At
<1> QED
  BY <1>1, <1>2, <1>3, <1>4, <1>5 DEF At

LEMMA TreatsStill ==
    ASSUME NEW w, NEW v, More(w, v), NEW f
    PROVE  /\ \A x : Treats(w, f, x) => Treats(v, f, x)
           /\ \A x, s : InHand(w, f, x, s) => InHand(v, f, x, s)
           /\ \A o : Answers(w, f, o) => Answers(v, f, o)
<1>1. ASSUME NEW x, Treats(w, f, x)
      PROVE  Treats(v, f, x)
  BY <1>1, NamedStill, AtStill DEF Treats
<1>2. ASSUME NEW x, NEW s, Covers(w, f, x, s)
      PROVE  Covers(v, f, x, s)
  BY <1>2, NamedStill, ClaimedStill DEF Covers
<1>3. ASSUME NEW x, NEW s, InHand(w, f, x, s)
      PROVE  InHand(v, f, x, s)
  BY <1>1, <1>2, <1>3, AtStill DEF InHand
<1>4. ASSUME NEW o, Answers(w, f, o)
      PROVE  Answers(v, f, o)
  <2>1. f.kind = "node" => o \in NodeObjects /\ Called(v.names, Label(o), f.id)
    BY <1>4, NamedStill DEF Answers
  <2>2. f.kind = "list" => \A i \in DOMAIN f.collected : Means(v.names, o.items[i], f.collected[i])
    BY <1>4, NamedStill DEF Answers
  <2> QED
    BY <1>4, <2>1, <2>2 DEF Answers
<1> QED
  BY <1>1, <1>3, <1>4

LEMMA SoundStill ==
    ASSUME NEW w, NEW v, More(w, v), NEW st, NEW occ
    PROVE  /\ CallsSound(w, st, occ) => CallsSound(v, st, occ)
           /\ \A g, n, p, o : Meant(w, occ, g, n, p, o) => Meant(v, occ, g, n, p, o)
           /\ \A held : Kept(w, held, st, occ) => Kept(v, held, st, occ)
<1>1. CallsSound(w, st, occ) => CallsSound(v, st, occ)
  BY TreatsStill DEF CallsSound
<1>2. ASSUME NEW g, NEW n, NEW p, NEW o, Meant(w, occ, g, n, p, o)
      PROVE  Meant(v, occ, g, n, p, o)
  BY <1>2, ClaimedStill DEF Meant
<1>3. ASSUME NEW held, Kept(w, held, st, occ)
      PROVE  Kept(v, held, st, occ)
  <2>1. ASSUME NEW x, Awaited(held, w.names, x)
        PROVE  Awaited(held, v.names, x)
    <3>1. NamesGrow(w.names, v.names)
      BY DEF More
    <3> QED
      BY <2>1, <3>1, CalledStill DEF Awaited
  <2>2. \A x, s : Done(w, x, s) => Done(v, x, s)
    BY ClaimedStill
  <2>3. \A n \in DOMAIN st : \A x, s : InHand(w, st[n], x, s) => InHand(v, st[n], x, s)
    BY TreatsStill
  <2> QED
    BY <1>3, <2>1, <2>2, <2>3 DEF Kept
<1> QED
  BY <1>1, <1>2, <1>3

\* Types that are there are still those of an occurrence.
LEMMA TypesStill ==
    ASSUME NEW w, NEW v, More(w, v), NEW occ, NEW g, NEW n, TypesMeant(w, occ, g, n),
           v.map[g][n].types = w.map[g][n].types
    PROVE  TypesMeant(v, occ, g, n)
<1>1. PICK x \in occ :
        /\ DeclaredAs(w.names, x, g, n) /\ x.node.types # None
        /\ DOMAIN w.map[g][n].types = DOMAIN x.node.types
        /\ Renders(w.relabel, x.node.types, w.map[g][n].types)
  BY DEF TypesMeant
<1>2. DeclaredAs(v.names, x, g, n) /\ Renders(v.relabel, x.node.types, v.map[g][n].types)
  BY <1>1, NamedStill DEF Renders
<1> QED
  BY <1>1, <1>2 DEF TypesMeant

-----------------------------------------------------------------------------
(* What the calls have in hand.                                              *)

\* A call changes its state, and nothing it has in hand is lost.
Carries(w, f, g) ==
    /\ g.kind = f.kind
    /\ \A x : Treats(w, f, x) => Treats(w, g, x)
    /\ \A x, s : InHand(w, f, x, s) => InHand(w, g, x, s) \/ Done(w, x, s)
    /\ \A o : Answers(w, f, o) => Answers(w, g, o)

LEMMA CallsUpdated ==
    ASSUME NEW st, IsSequence(st), st # <<>>, NEW w, NEW occ, CallsSound(w, st, occ), NEW a, Kept(w, a, st, occ),
           NEW g, Carries(w, Last(st), g)
    PROVE  CallsSound(w, Append(Front(st), g), occ) /\ Kept(w, a, Append(Front(st), g), occ)
<1> DEFINE N == Len(st)
           b == Append(Front(st), g)
<1>1. /\ N \in Nat \ {0} /\ DOMAIN st = 1 .. N /\ Last(st) = st[N] /\ N \in DOMAIN st
      /\ IsSequence(Front(st)) /\ Len(Front(st)) = N - 1
      /\ \A i \in 1 .. N - 1 : Front(st)[i] = st[i]
  BY Ahead
<1>2. /\ DOMAIN b = 1 .. N /\ b[N] = g /\ \A i \in 1 .. N - 1 : b[i] = st[i]
  <2> DEFINE F == Front(st)
  <2>1. IsSequence(F) /\ Len(F) = N - 1
    BY <1>1
  <2> HIDE DEF F
  <2>2. /\ DOMAIN Append(F, g) = 1 .. Len(F) + 1 /\ Append(F, g)[Len(F) + 1] = g
        /\ \A i \in 1 .. Len(F) : Append(F, g)[i] = F[i]
    BY <2>1, Longer
  <2>3. Len(F) + 1 = N
    BY <1>1, <2>1
  <2>4. DOMAIN Append(F, g) = 1 .. N /\ Append(F, g)[N] = g /\ \A i \in 1 .. N - 1 : Append(F, g)[i] = F[i]
    BY <2>1, <2>2, <2>3
  <2>5. \A i \in 1 .. N - 1 : F[i] = st[i]
    BY <1>1 DEF F
  <2>6. b = Append(F, g)
    BY DEF F
  <2> QED
    BY <2>4, <2>5, <2>6
<1>3. Carries(w, st[N], g)
  BY <1>1
<1>4. \A n \in DOMAIN st : n # N => n \in 1 .. N - 1
  BY <1>1
<1> HIDE DEF b, N
<1>5. \A n \in DOMAIN b : n \in DOMAIN st /\ (n # N => b[n] = st[n])
  BY <1>1, <1>2, <1>4
<1>6. ASSUME NEW n \in DOMAIN b, b[n].kind = "node"
      PROVE  \E x \in occ : Treats(w, b[n], x)
  <2>1. CASE n = N
    <3>1. st[N].kind = "node"
      BY <1>2, <1>3, <1>6, <2>1 DEF Carries
    <3>2. PICK x \in occ : Treats(w, st[N], x)
      BY <1>1, <3>1 DEF CallsSound
    <3> QED
      BY <1>2, <1>3, <2>1, <3>2 DEF Carries
  <2>2. CASE n # N
    BY <1>5, <1>6, <2>2 DEF CallsSound
  <2> QED
    BY <2>1, <2>2
<1>7. ASSUME NEW n \in DOMAIN b, n > 1
      PROVE  Answers(w, b[n], Head(b[n - 1].queue))
  <2>1. n - 1 \in DOMAIN b /\ n - 1 # N /\ n \in DOMAIN st
    BY <1>1, <1>2, <1>7
  <2>2. b[n - 1] = st[n - 1]
    BY <1>5, <2>1
  <2>3. Answers(w, st[n], Head(b[n - 1].queue))
    BY <1>7, <2>1, <2>2 DEF CallsSound
  <2>4. CASE n = N
    BY <1>2, <1>3, <2>3, <2>4 DEF Carries
  <2>5. CASE n # N
    BY <1>5, <2>3, <2>5
  <2> QED
    BY <2>4, <2>5
<1>8. CallsSound(w, b, occ)
  BY <1>6, <1>7 DEF CallsSound
<1>9. ASSUME NEW x, NEW s, NEW n \in DOMAIN st, InHand(w, st[n], x, s)
      PROVE  Done(w, x, s) \/ \E k \in DOMAIN b : InHand(w, b[k], x, s)
  <2>1. n \in DOMAIN b
    BY <1>1, <1>2
  <2>2. CASE n = N
    BY <1>2, <1>3, <1>9, <2>1, <2>2 DEF Carries
  <2>3. CASE n # N
    BY <1>5, <1>9, <2>1, <2>3
  <2> QED
    BY <2>2, <2>3
<1>10. Kept(w, a, b, occ)
  BY <1>9 DEF Kept
<1> QED
  BY <1>8, <1>10 DEF b

\* What is still to be visited may change.
LEMMA KeptVisiting ==
    ASSUME NEW w, NEW occ, NEW st, NEW a, NEW b, Kept(w, a, st, occ),
           \A x : Awaited(a, w.names, x) => Awaited(b, w.names, x)
    PROVE  Kept(w, b, st, occ)
  BY DEF Kept

\* A call is made.
LEMMA CallsExtended ==
    ASSUME NEW st, IsSequence(st), st # <<>>, NEW w, NEW occ, CallsSound(w, st, occ), NEW a, NEW b, Kept(w, a, st, occ),
           NEW g, g.kind = "node" => \E x \in occ : Treats(w, g, x),
           Answers(w, g, Head(Last(st).queue)),
           \A x : Awaited(a, w.names, x) => Awaited(b, w.names, x) \/ \A s \in ToSet(Sections(x.node)) : InHand(w, g, x, s)
    PROVE  CallsSound(w, Append(st, g), occ) /\ Kept(w, b, Append(st, g), occ)
<1> DEFINE N == Len(st)
           c == Append(st, g)
<1>1. /\ N \in Nat \ {0} /\ DOMAIN st = 1 .. N /\ Last(st) = st[N] /\ N \in DOMAIN st
  BY Ahead
<1>2. DOMAIN c = 1 .. N + 1 /\ c[N + 1] = g /\ \A i \in 1 .. N : c[i] = st[i]
  BY Longer
<1> HIDE DEF c, N
<1>3. \A n \in DOMAIN c : n # N + 1 => n \in DOMAIN st /\ c[n] = st[n]
  BY <1>1, <1>2
<1>4. N + 1 \in DOMAIN c /\ \A n \in DOMAIN st : n \in DOMAIN c /\ c[n] = st[n]
  BY <1>1, <1>2
<1>5. ASSUME NEW n \in DOMAIN c, c[n].kind = "node"
      PROVE  \E x \in occ : Treats(w, c[n], x)
  BY <1>2, <1>3, <1>5 DEF CallsSound
<1>6. ASSUME NEW n \in DOMAIN c, n > 1
      PROVE  Answers(w, c[n], Head(c[n - 1].queue))
  <2>1. CASE n = N + 1
    <3>1. n - 1 = N /\ c[N] = Last(st)
      BY <1>1, <1>2, <2>1
    <3> QED
      BY <1>2, <2>1, <3>1
  <2>2. CASE n # N + 1
    <3>1. n \in DOMAIN st /\ n - 1 \in DOMAIN st
      BY <1>1, <1>3, <1>6, <2>2
    <3>2. c[n] = st[n] /\ c[n - 1] = st[n - 1]
      BY <1>4, <3>1
    <3> QED
      BY <1>6, <3>1, <3>2 DEF CallsSound
  <2> QED
    BY <2>1, <2>2
<1>7. CallsSound(w, c, occ)
  BY <1>5, <1>6 DEF CallsSound
<1>8. ASSUME NEW x \in occ
      PROVE  \/ Awaited(b, w.names, x)
             \/ \A s \in ToSet(Sections(x.node)) : Done(w, x, s) \/ \E n \in DOMAIN c : InHand(w, c[n], x, s)
  <2>1. CASE Awaited(a, w.names, x)
    BY <1>2, <1>4, <2>1
  <2>2. CASE ~Awaited(a, w.names, x)
    BY <1>4, <2>2 DEF Kept
  <2> QED
    BY <2>1, <2>2
<1>9. Kept(w, b, c, occ)
  BY <1>8 DEF Kept
<1> QED
  BY <1>7, <1>9 DEF c

\* A call that has nothing in hand returns.
LEMMA CallsShortened ==
    ASSUME NEW st, IsSequence(st), st # <<>>, NEW w, NEW occ, CallsSound(w, st, occ), NEW a, Kept(w, a, st, occ),
           \A x, s : ~InHand(w, Last(st), x, s)
    PROVE  CallsSound(w, Front(st), occ) /\ Kept(w, a, Front(st), occ)
<1> DEFINE N == Len(st)
           b == Front(st)
<1>1. /\ N \in Nat \ {0} /\ DOMAIN st = 1 .. N /\ Last(st) = st[N] /\ N \in DOMAIN st
      /\ DOMAIN b = 1 .. N - 1 /\ \A i \in DOMAIN b : i \in DOMAIN st /\ b[i] = st[i]
  BY Ahead
<1> HIDE DEF b, N
<1>2. \A n \in DOMAIN st : n # N => n \in DOMAIN b
  BY <1>1
<1>3. \A n \in DOMAIN b : n > 1 => n - 1 \in DOMAIN b
  BY <1>1
<1>4. CallsSound(w, b, occ)
  BY <1>1, <1>3 DEF CallsSound
<1>5. \A x, s : \A n \in DOMAIN st : InHand(w, st[n], x, s) => \E k \in DOMAIN b : InHand(w, b[k], x, s)
  BY <1>1, <1>2
<1>6. Kept(w, a, b, occ)
  BY <1>5 DEF Kept
<1> QED
  BY <1>4, <1>6 DEF b

-----------------------------------------------------------------------------
(* What a call does with it.                                                 *)

LEMMA HeadTail ==
    ASSUME NEW s, IsSequence(s), s # <<>>
    PROVE  ToSet(s) = {Head(s)} \cup ToSet(Tail(s))
<1>1. /\ Head(s) = s[1] /\ 1 \in DOMAIN s /\ IsSequence(Tail(s))
      /\ \A i \in DOMAIN Tail(s) : i + 1 \in DOMAIN s /\ Tail(s)[i] = s[i + 1]
  BY Rest
<1>2. Len(s) \in Nat /\ DOMAIN s = 1 .. Len(s)
  BY SequenceOver DEF IsSequence
<1>3. Len(Tail(s)) = Len(s) - 1
  BY <1>1, <1>2 DEF IsSequence
<1>4. DOMAIN Tail(s) = 1 .. Len(s) - 1
  BY <1>1, <1>3, SequenceOver DEF IsSequence
<1>5. ASSUME NEW i \in DOMAIN s, i # 1
      PROVE  i - 1 \in DOMAIN Tail(s) /\ Tail(s)[i - 1] = s[i]
  <2>1. i - 1 \in DOMAIN Tail(s) /\ (i - 1) + 1 = i
    BY <1>2, <1>4, <1>5
  <2> QED
    BY <1>1, <2>1
<1>6. \A i \in DOMAIN Tail(s) : \E k \in DOMAIN s : s[k] = Tail(s)[i]
  BY <1>1
<1>7. \A k \in DOMAIN s : s[k] = Head(s) \/ \E i \in DOMAIN Tail(s) : s[k] = Tail(s)[i]
  BY <1>1, <1>5
<1>8. ToSet(s) = {s[k] : k \in DOMAIN s} /\ ToSet(Tail(s)) = {Tail(s)[i] : i \in DOMAIN Tail(s)}
  BY DEF ToSet
<1> DEFINE u == Tail(s)
           e == Head(s)
<1> HIDE DEF u, e
<1>9. ToSet(s) = {e} \cup ToSet(u)
  BY <1>1, <1>6, <1>7, <1>8 DEF u, e
<1> QED
  BY <1>9 DEF u, e

\* The sections of a call are sections of a node object.
LEMMA FrameSections ==
    ASSUME NEW f, NEW m, FrameOK(f, m)
    PROVE  /\ IsSequence(f.sections) /\ IsSequence(f.queue) /\ IsSequence(f.collected)
           /\ \A s \in ToSet(f.sections) :
                 s.op \in Operations /\ IsSequence(s.objects) /\ (s.op = "reverse" => ToSet(s.objects) \subseteq NodeObjects)
           /\ f.section = "between" => f.collected = <<>> /\ f.queue = <<>> /\ f.kind = "node"
           /\ f.kind = "list" => f.section = "items"
<1>1. IsSequence(f.sections) /\ \A i \in DOMAIN f.sections : SectionOK(f.sections[i])
  BY DEF FrameOK, SectionsOK
<1>2. \A op, q : QueueOK(op, q) => IsSequence(q) /\ (op = "reverse" => ToSet(q) \subseteq NodeObjects)
  BY SequenceOver DEF QueueOK, ToSet
<1>3. \A s \in ToSet(f.sections) :
         s.op \in Operations /\ IsSequence(s.objects) /\ (s.op = "reverse" => ToSet(s.objects) \subseteq NodeObjects)
  BY <1>1, <1>2 DEF SectionOK, ToSet
<1>4. IsSequence(f.queue)
  BY <1>2 DEF FrameOK
<1> QED
  BY <1>1, <1>3, <1>4 DEF FrameOK, Sectioned, Kinds

\* A section is entered.
LEMMA EntersIt ==
    ASSUME NEW f, NEW m, FrameOK(f, m), f.section = "between", f.sections # <<>>, NEW p, NEW w,
           Head(f.sections).op = "property" => Termed(w.relabel, Head(f.sections).property, p),
           Head(f.sections).op = "reverse" => p = Head(f.sections).property
    PROVE  Carries(w, f, Entered(f, p))
<1> DEFINE h == Head(f.sections)
           g == Entered(f, p)
<1>1. /\ g.kind = f.kind /\ g.active = f.active /\ g.id = f.id /\ g.index = f.index
      /\ g.section = h.op /\ g.property = p /\ g.queue = h.objects
      /\ g.sections = Tail(f.sections) /\ g.collected = f.collected
  BY DEF FrameOK, FrameFields, Entered
<1>2. /\ IsSequence(f.sections) /\ f.collected = <<>> /\ f.kind = "node"
      /\ \A s \in ToSet(f.sections) :
            s.op \in Operations /\ IsSequence(s.objects) /\ (s.op = "reverse" => ToSet(s.objects) \subseteq NodeObjects)
  BY FrameSections
<1>3. ToSet(f.sections) = {h} \cup ToSet(g.sections)
  BY <1>1, <1>2, HeadTail
<1>4. /\ h.op = "property" => Termed(w.relabel, h.property, p)
      /\ h.op = "reverse" => p = h.property
  OBVIOUS
<1> HIDE DEF g, h
<1>5. At(w, g, h)
  <2>1. Split(h.objects, g.collected, g.queue)
    BY <1>1, <1>2, <1>3, SplitFirst
  <2>2. Renders(w.relabel, h.objects, g.collected)
    BY <1>1, <1>2, EmptySequence DEF Renders
  <2>3. ToSet(g.collected) = {}
    BY <1>1, <1>2, EmptySequence
  <2>4. h.op \in Operations /\ (h.op = "reverse" => ToSet(h.objects) \subseteq NodeObjects)
    BY <1>2, <1>3
  <2> QED
    BY <1>1, <1>4, <2>1, <2>2, <2>3, <2>4 DEF At
<1>6. ASSUME NEW x, Treats(w, f, x)
      PROVE  Treats(w, g, x)
  BY <1>1, <1>3, <1>5, <1>6 DEF Treats
<1>7. ASSUME NEW x, NEW s, InHand(w, f, x, s)
      PROVE  InHand(w, g, x, s) \/ Done(w, x, s)
  <2>1. Treats(w, g, x)
    BY <1>6, <1>7 DEF InHand
  <2>2. CASE s \in ToSet(g.sections)
    BY <2>1, <2>2 DEF InHand
  <2>3. CASE s = h
    <3>1. Covers(w, g, x, s)
      BY <1>1, <2>3 DEF Covers
    <3> QED
      BY <1>5, <2>1, <2>3, <3>1 DEF InHand
  <2>4. CASE s \notin ToSet(f.sections)
    <3>1. s.op = "between"
      BY <1>7, <2>4 DEF InHand, At
    <3> QED
      BY <3>1 DEF Done, Stating
  <2> QED
    BY <1>3, <2>2, <2>3, <2>4
<1>8. ASSUME NEW o, Answers(w, f, o)
      PROVE  Answers(w, g, o)
  BY <1>1, <1>2, <1>8 DEF Answers
<1>9. Carries(w, f, g)
  BY <1>1, <1>6, <1>7, <1>8 DEF Carries
<1> QED
  BY <1>9 DEF g

\* An object is passed, and what it means collected.
LEMMA CollectsIt ==
    ASSUME NEW f, NEW m, FrameOK(f, m), f.queue # <<>>, f.section # "between", NEW c, NEW w,
           f.section = "types" => Termed(w.relabel, Head(f.queue), c),
           f.section # "types" => Means(w.names, Head(f.queue), c)
    PROVE  Carries(w, f, Given(Passed(f), c))
<1> DEFINE h == Head(f.queue)
           g == Given(Passed(f), c)
<1>1. /\ g.kind = f.kind /\ g.active = f.active /\ g.id = f.id /\ g.index = f.index
      /\ g.section = f.section /\ g.property = f.property /\ g.queue = Tail(f.queue)
      /\ g.sections = f.sections /\ g.collected = Append(f.collected, c)
  BY DEF FrameOK, FrameFields, Given, Passed
<1>2. IsSequence(f.queue) /\ IsSequence(f.collected) /\ (f.kind = "list" => f.section = "items")
  BY FrameSections
<1>3. ToSet(f.queue) = {h} \cup ToSet(g.queue)
  BY <1>1, <1>2, HeadTail
<1>4. ToSet(g.collected) = ToSet(f.collected) \cup {c}
  BY <1>1, <1>2, Lengthened
<1>5. f.section = "types" => Termed(w.relabel, h, c)
  OBVIOUS
<1>6. f.section # "types" => Means(w.names, h, c)
  OBVIOUS
<1>7. ASSUME NEW s, Split(s, f.collected, f.queue)
      PROVE  /\ Split(s, g.collected, g.queue)
             /\ h = s[Len(f.collected) + 1]
             /\ DOMAIN g.collected = DOMAIN f.collected \cup {Len(f.collected) + 1}
             /\ g.collected[Len(f.collected) + 1] = c
             /\ \A i \in DOMAIN f.collected : g.collected[i] = f.collected[i]
  BY <1>1, <1>7, SplitNext
<1> HIDE DEF g, h
<1>8. ASSUME NEW s, At(w, f, s)
      PROVE  At(w, g, s)
  <2>1. ASSUME s.op = "types"
        PROVE  Split(s.objects, g.collected, g.queue) /\ Renders(w.relabel, s.objects, g.collected)
    <3>1. Split(s.objects, f.collected, f.queue) /\ Renders(w.relabel, s.objects, f.collected) /\ f.section = "types"
      BY <1>8, <2>1 DEF At
    <3>2. \A i \in DOMAIN f.collected : Termed(w.relabel, s.objects[i], f.collected[i])
      BY <3>1 DEF Renders
    <3> QED
      BY <1>5, <1>7, <3>1, <3>2 DEF Renders
  <2>2. ASSUME s.op \in Stating
        PROVE  /\ ToSet(g.queue) \subseteq ToSet(s.objects)
               /\ \A d \in ToSet(g.collected) : \E v \in ToSet(s.objects) : Means(w.names, v, d)
    <3>1. /\ ToSet(f.queue) \subseteq ToSet(s.objects)
          /\ \A d \in ToSet(f.collected) : \E v \in ToSet(s.objects) : Means(w.names, v, d)
          /\ f.section # "types"
      BY <1>8, <2>2 DEF At, Stating
    <3> QED
      BY <1>3, <1>4, <1>6, <3>1
  <2> QED
    BY <1>1, <1>8, <2>1, <2>2 DEF At
<1>9. ASSUME NEW x, Treats(w, f, x)
      PROVE  Treats(w, g, x)
  BY <1>1, <1>8, <1>9 DEF Treats
<1>10. ASSUME NEW x, NEW s, s.op = f.section, Covers(w, f, x, s)
       PROVE  Covers(w, g, x, s)
  <2>1. SUFFICES ASSUME s.op \in Stating, NEW v \in ToSet(s.objects)
                 PROVE  \/ v \in ToSet(g.queue)
                        \/ \E d \in ToSet(g.collected) : Means(w.names, v, d)
                        \/ Recorded(w, x, s, v)
    BY DEF Covers
  <2>2. f.section # "types"
    BY <1>10, <2>1 DEF Stating
  <2>3. \/ v \in ToSet(f.queue)
        \/ \E d \in ToSet(f.collected) : Means(w.names, v, d)
        \/ Recorded(w, x, s, v)
    BY <1>10, <2>1 DEF Covers
  <2> QED
    BY <1>3, <1>4, <1>6, <2>2, <2>3
<1>11. ASSUME NEW x, NEW s, InHand(w, f, x, s)
       PROVE  InHand(w, g, x, s)
  <2>1. At(w, f, s) => s.op = f.section
    BY DEF At
  <2> QED
    BY <1>1, <1>8, <1>9, <1>10, <1>11, <2>1 DEF InHand
<1>12. ASSUME NEW o, Answers(w, f, o)
       PROVE  Answers(w, g, o)
  <2>1. CASE f.kind = "list"
    <3>1. /\ o \in Objects /\ o.kind = "list" /\ f.index = o.index
          /\ Split(o.items, f.collected, f.queue)
          /\ \A i \in DOMAIN f.collected : Means(w.names, o.items[i], f.collected[i])
      BY <1>12, <2>1 DEF Answers
    <3>2. f.section # "types"
      BY <1>2, <2>1
    <3>3. \A i \in DOMAIN g.collected : Means(w.names, o.items[i], g.collected[i])
      BY <1>6, <1>7, <3>1, <3>2
    <3>4. Split(o.items, g.collected, g.queue)
      BY <1>7, <3>1
    <3> QED
      BY <1>1, <2>1, <3>1, <3>3, <3>4 DEF Answers
  <2>2. CASE f.kind # "list"
    BY <1>1, <1>12, <2>2 DEF Answers
  <2> QED
    BY <2>1, <2>2
<1>13. Carries(w, f, g)
  BY <1>1, <1>9, <1>11, <1>12 DEF Carries
<1> QED
  BY <1>13 DEF g

\* A section ends, and what it says is in the map.
LEMMA EndsIt ==
    ASSUME NEW f, NEW m, FrameOK(f, m), f.section # "items", NEW w,
           \A x, s : Treats(w, f, x) /\ At(w, f, s) /\ Covers(w, f, x, s) => Done(w, x, s)
    PROVE  Carries(w, f, Ended(f))
<1> DEFINE g == Ended(f)
<1>1. /\ g.kind = f.kind /\ g.active = f.active /\ g.id = f.id /\ g.sections = f.sections
      /\ g.section = "between" /\ f.kind # "list"
  BY FrameSections DEF FrameOK, FrameFields, Ended
<1> HIDE DEF g
<1>2. ASSUME NEW x, Treats(w, f, x)
      PROVE  Treats(w, g, x)
  BY <1>1, <1>2 DEF Treats
<1>3. ASSUME NEW x, NEW s, InHand(w, f, x, s)
      PROVE  InHand(w, g, x, s) \/ Done(w, x, s)
  BY <1>1, <1>2, <1>3 DEF InHand
<1>4. ASSUME NEW o, Answers(w, f, o)
      PROVE  Answers(w, g, o)
  BY <1>1, <1>4 DEF Answers
<1>5. Carries(w, f, g)
  BY <1>1, <1>2, <1>3, <1>4 DEF Carries
<1> QED
  BY <1>5 DEF g

\* A reverse property has linked a subject, and the map says so.
LEMMA LinksIt ==
    ASSUME NEW f, NEW m, FrameOK(f, m), f.section = "reverse", NEW w,
           \A x, s, v : \A c \in ToSet(f.collected) :
               Treats(w, f, x) /\ At(w, f, s) /\ v \in ToSet(s.objects) /\ Means(w.names, v, c) => Recorded(w, x, s, v)
    PROVE  Carries(w, f, Linked(f))
<1> DEFINE g == Linked(f)
<1>1. /\ g.kind = f.kind /\ g.active = f.active /\ g.id = f.id /\ g.sections = f.sections
      /\ g.section = f.section /\ g.property = f.property /\ g.queue = f.queue /\ g.collected = <<>> /\ f.kind # "list"
  BY FrameSections DEF FrameOK, FrameFields, Linked
<1>2. ToSet(g.collected) = {}
  BY <1>1, EmptySequence
<1> HIDE DEF g
<1>3. ASSUME NEW s, At(w, f, s)
      PROVE  At(w, g, s)
  BY <1>1, <1>2, <1>3 DEF At
<1>4. ASSUME NEW x, Treats(w, f, x)
      PROVE  Treats(w, g, x)
  BY <1>1, <1>3, <1>4 DEF Treats
<1>5. ASSUME NEW x, NEW s, Treats(w, f, x), At(w, f, s), Covers(w, f, x, s)
      PROVE  Covers(w, g, x, s)
  BY <1>1, <1>5 DEF Covers
<1>6. ASSUME NEW x, NEW s, InHand(w, f, x, s)
      PROVE  InHand(w, g, x, s) \/ Done(w, x, s)
  BY <1>1, <1>3, <1>4, <1>5, <1>6 DEF InHand
<1>7. ASSUME NEW o, Answers(w, f, o)
      PROVE  Answers(w, g, o)
  BY <1>1, <1>7 DEF Answers
<1>8. Carries(w, f, g)
  BY <1>1, <1>4, <1>6, <1>7 DEF Carries
<1> QED
  BY <1>8 DEF g

-----------------------------------------------------------------------------
(* What the map says, after it changed.                                      *)

\* The map says the same.
SaysSame(m, k) ==
    /\ \A g, n, p, o : Says(m, g, n, p, o) <=> Says(k, g, n, p, o)
    /\ \A g, n : HasTypes(m, g, n) <=> HasTypes(k, g, n)
    /\ \A g, n : HasTypes(m, g, n) => k[g][n].types = m[g][n].types

LEMMA SaysItself ==
    ASSUME NEW m
    PROVE  SaysSame(m, m)
  BY DEF SaysSame

\* A node is declared.
LEMMA SaysDeclared ==
    ASSUME NEW m, MapOK(m), NEW a \in DOMAIN m, NEW id, NEW index, NEW k,
           k = [m EXCEPT ![a] = WithNode(@, id, index)]
    PROVE  SaysSame(m, k)
<1>1. DOMAIN k = DOMAIN m /\ (\A g \in DOMAIN m : g # a => k[g] = m[g]) /\ k[a] = WithNode(m[a], id, index)
  OBVIOUS
<1>2. /\ DOMAIN k[a] = DOMAIN m[a] \cup {id}
      /\ \A n \in DOMAIN m[a] : k[a][n].types = m[a][n].types /\ k[a][n].properties = m[a][n].properties
      /\ id \notin DOMAIN m[a] => k[a][id].types = None /\ k[a][id].properties = Empty
  <2>1. CASE id \in DOMAIN m[a]
    <3>1. k[a] = [m[a] EXCEPT ![id].index = IF index = None THEN @ ELSE index]
      BY <1>1, <2>1 DEF WithNode
    <3>2. DOMAIN m[a][id] = {"types", "index", "graph", "properties"}
      BY <2>1 DEF MapOK, NodeOK
    <3> QED
      BY <2>1, <3>1, <3>2
  <2>2. CASE id \notin DOMAIN m[a]
    BY <1>1, <2>2 DEF WithNode, Put, NewNode
  <2> QED
    BY <2>1, <2>2
<1>3. DOMAIN Empty = {}
  BY DEF Empty
<1>4. ASSUME NEW g, NEW n, NEW p, NEW o
      PROVE  Says(m, g, n, p, o) <=> Says(k, g, n, p, o)
  BY <1>1, <1>2, <1>3 DEF Says, SaidOf
<1>5. ASSUME NEW g, NEW n
      PROVE  /\ HasTypes(m, g, n) <=> HasTypes(k, g, n)
             /\ HasTypes(m, g, n) => k[g][n].types = m[g][n].types
  BY <1>1, <1>2 DEF HasTypes
<1> QED
  BY <1>4, <1>5 DEF SaysSame

\* A graph is.
LEMMA SaysOpened ==
    ASSUME NEW m, NEW a, a \notin DOMAIN m, NEW k, k = Put(m, a, Empty)
    PROVE  SaysSame(m, k)
<1>1. DOMAIN k = DOMAIN m \cup {a} /\ (\A g \in DOMAIN m : k[g] = m[g]) /\ DOMAIN k[a] = {}
  BY DEF Put, Empty
<1>2. ASSUME NEW g, NEW n, NEW p, NEW o
      PROVE  Says(m, g, n, p, o) <=> Says(k, g, n, p, o)
  BY <1>1 DEF Says, SaidOf
<1>3. ASSUME NEW g, NEW n
      PROVE  /\ HasTypes(m, g, n) <=> HasTypes(k, g, n)
             /\ HasTypes(m, g, n) => k[g][n].types = m[g][n].types
  BY <1>1 DEF HasTypes
<1> QED
  BY <1>2, <1>3 DEF SaysSame

\* A node changes.
NodeChanged(m, k, a, id, node) ==
    /\ DOMAIN k = DOMAIN m /\ \A g \in DOMAIN m : DOMAIN k[g] = DOMAIN m[g]
    /\ a \in DOMAIN m /\ id \in DOMAIN m[a] /\ k[a][id] = node
    /\ \A g \in DOMAIN m : \A n \in DOMAIN m[g] : <<g, n>> # <<a, id>> => k[g][n] = m[g][n]

LEMMA ChangedNode ==
    ASSUME NEW m, NEW a \in DOMAIN m, NEW id \in DOMAIN m[a], NEW node, NEW k,
           k = [m EXCEPT ![a] = [@ EXCEPT ![id] = node]]
    PROVE  NodeChanged(m, k, a, id, node)
  BY DEF NodeChanged

\* Its graph entry.
LEMMA SaysGraphed ==
    ASSUME NEW m, NEW k, NEW a, NEW id, NEW node, NodeChanged(m, k, a, id, node),
           node.types = m[a][id].types, node.properties = m[a][id].properties
    PROVE  SaysSame(m, k)
<1>1. /\ DOMAIN k = DOMAIN m /\ \A g \in DOMAIN m : DOMAIN k[g] = DOMAIN m[g]
      /\ \A g \in DOMAIN m : \A n \in DOMAIN m[g] : k[g][n].types = m[g][n].types /\ k[g][n].properties = m[g][n].properties
  BY DEF NodeChanged
<1>2. ASSUME NEW g, NEW n, NEW p, NEW o
      PROVE  Says(m, g, n, p, o) <=> Says(k, g, n, p, o)
  BY <1>1 DEF Says, SaidOf
<1>3. ASSUME NEW g, NEW n
      PROVE  /\ HasTypes(m, g, n) <=> HasTypes(k, g, n)
             /\ HasTypes(m, g, n) => k[g][n].types = m[g][n].types
  BY <1>1 DEF HasTypes
<1> QED
  BY <1>2, <1>3 DEF SaysSame

\* Its types.
LEMMA SaysTyped ==
    ASSUME NEW m, NEW k, NEW a, NEW id, NEW node, NodeChanged(m, k, a, id, node),
           node.types # None, node.properties = m[a][id].properties
    PROVE  /\ \A g, n, p, o : Says(m, g, n, p, o) <=> Says(k, g, n, p, o)
           /\ HasTypes(k, a, id)
           /\ \A g, n : HasTypes(m, g, n) => HasTypes(k, g, n)
           /\ \A g, n : HasTypes(k, g, n) => <<g, n>> = <<a, id>> \/ (HasTypes(m, g, n) /\ k[g][n].types = m[g][n].types)
<1>1. /\ DOMAIN k = DOMAIN m /\ \A g \in DOMAIN m : DOMAIN k[g] = DOMAIN m[g]
      /\ a \in DOMAIN m /\ id \in DOMAIN m[a]
      /\ \A g \in DOMAIN m : \A n \in DOMAIN m[g] : k[g][n].properties = m[g][n].properties
      /\ \A g \in DOMAIN m : \A n \in DOMAIN m[g] : <<g, n>> # <<a, id>> => k[g][n].types = m[g][n].types
      /\ k[a][id].types = node.types
  BY DEF NodeChanged
<1>2. ASSUME NEW g, NEW n, NEW p, NEW o
      PROVE  Says(m, g, n, p, o) <=> Says(k, g, n, p, o)
  BY <1>1 DEF Says, SaidOf
<1>3. ASSUME NEW g, NEW n
      PROVE  /\ HasTypes(m, g, n) => HasTypes(k, g, n)
             /\ HasTypes(k, g, n) => <<g, n>> = <<a, id>> \/ (HasTypes(m, g, n) /\ k[g][n].types = m[g][n].types)
  <2>1. CASE <<g, n>> = <<a, id>>
    BY <1>1, <2>1 DEF HasTypes
  <2>2. CASE <<g, n>> # <<a, id>>
    BY <1>1, <2>2 DEF HasTypes
  <2> QED
    BY <2>1, <2>2
<1>4. HasTypes(k, a, id)
  BY <1>1 DEF HasTypes
<1> QED
  BY <1>2, <1>3, <1>4

\* Its objects for a property.
SaysMore(m, k, a, id, property, objects) ==
    /\ \A g, n, p, o : Says(k, g, n, p, o) <=>
          Says(m, g, n, p, o) \/ (g = a /\ n = id /\ p = property /\ o \in ToSet(objects))
    /\ \A g, n : HasTypes(m, g, n) <=> HasTypes(k, g, n)
    /\ \A g, n : HasTypes(m, g, n) => k[g][n].types = m[g][n].types

LEMMA SaysInserted ==
    ASSUME NEW m, NEW k, NEW a, NEW id, NEW property, NEW objects, IsSequence(objects), NodeOK(m[a][id], id, m),
           NodeChanged(m, k, a, id, WithObjects(m[a][id], property, objects))
    PROVE  SaysMore(m, k, a, id, property, objects)
<1> DEFINE old == m[a][id]
           node == WithObjects(old, property, objects)
           all == AppendAll(Listed(old, property), objects)
<1>1. /\ DOMAIN k = DOMAIN m /\ \A g \in DOMAIN m : DOMAIN k[g] = DOMAIN m[g]
      /\ a \in DOMAIN m /\ id \in DOMAIN m[a] /\ k[a][id] = node
      /\ \A g \in DOMAIN m : \A n \in DOMAIN m[g] : <<g, n>> # <<a, id>> => k[g][n] = m[g][n]
  BY DEF NodeChanged
<1>2. ToSet(all) = ToSet(Listed(old, property)) \cup ToSet(objects)
  BY ListedAre, Appended DEF NodeOK
<1>3. /\ node.types = old.types
      /\ DOMAIN node.properties = DOMAIN old.properties \cup {property}
      /\ node.properties[property] = all
      /\ \A p \in DOMAIN old.properties : p # property => node.properties[p] = old.properties[p]
  <2> HIDE DEF all, old
  <2>1. node.types = old.types /\ node.properties = Put(old.properties, property, all)
    BY DEF WithObjects, NodeOK, all, old
  <2> HIDE DEF node
  <2> QED
    BY <2>1 DEF Put
<1> HIDE DEF node, all
<1>4. \A p, o : SaidOf(k[a], id, p, o) <=> SaidOf(m[a], id, p, o) \/ (p = property /\ o \in ToSet(objects))
  <2>1. SUFFICES ASSUME NEW p, NEW o
                 PROVE  SaidOf(k[a], id, p, o) <=> SaidOf(m[a], id, p, o) \/ (p = property /\ o \in ToSet(objects))
    OBVIOUS
  <2>2. CASE p # property
    BY <1>1, <1>3, <2>2 DEF SaidOf
  <2>3. CASE p = property /\ property \in DOMAIN old.properties
    <3>1. Listed(old, property) = old.properties[property]
      BY <2>3 DEF Listed
    <3> QED
      BY <1>1, <1>2, <1>3, <2>3, <3>1 DEF SaidOf
  <2>4. CASE p = property /\ property \notin DOMAIN old.properties
    <3>1. ToSet(Listed(old, property)) = {}
      BY <2>4, EmptySequence DEF Listed
    <3> QED
      BY <1>1, <1>2, <1>3, <2>4, <3>1 DEF SaidOf
  <2> QED
    BY <2>2, <2>3, <2>4
<1>5. ASSUME NEW g, NEW n, NEW p, NEW o
      PROVE  Says(k, g, n, p, o) <=> Says(m, g, n, p, o) \/ (g = a /\ n = id /\ p = property /\ o \in ToSet(objects))
  <2>1. CASE g = a /\ n = id
    BY <1>1, <1>4, <2>1 DEF Says
  <2>2. CASE ~(g = a /\ n = id)
    BY <1>1, <2>2 DEF Says, SaidOf
  <2> QED
    BY <2>1, <2>2
<1>6. \A g \in DOMAIN m : \A n \in DOMAIN m[g] : k[g][n].types = m[g][n].types
  BY <1>1, <1>3
<1>7. ASSUME NEW g, NEW n
      PROVE  /\ HasTypes(m, g, n) <=> HasTypes(k, g, n)
             /\ HasTypes(m, g, n) => k[g][n].types = m[g][n].types
  BY <1>1, <1>6 DEF HasTypes
<1> QED
  BY <1>5, <1>7 DEF SaysMore

\* The map stays sound if nothing is said that was not.
LEMMA SoundMap ==
    ASSUME NEW w, NEW v, More(w, v), NEW occ, MapSound(w, occ),
           \A g, n, p, o : Says(v.map, g, n, p, o) => Says(w.map, g, n, p, o) \/ Meant(v, occ, g, n, p, o),
           \A g, n : HasTypes(v.map, g, n) =>
               (HasTypes(w.map, g, n) /\ v.map[g][n].types = w.map[g][n].types) \/ TypesMeant(v, occ, g, n)
    PROVE  MapSound(v, occ)
<1>1. ASSUME NEW g, NEW n, NEW p, NEW o, Says(v.map, g, n, p, o)
      PROVE  Meant(v, occ, g, n, p, o)
  BY <1>1, SoundStill DEF MapSound
<1>2. ASSUME NEW g, NEW n, HasTypes(v.map, g, n)
      PROVE  TypesMeant(v, occ, g, n)
  <2>1. CASE HasTypes(w.map, g, n) /\ v.map[g][n].types = w.map[g][n].types
    <3>1. TypesMeant(w, occ, g, n)
      BY <2>1 DEF MapSound
    <3> QED
      BY <2>1, <3>1, TypesStill
  <2> QED
    BY <1>2, <2>1
<1> QED
  BY <1>1, <1>2 DEF MapSound

LEMMA SoundSame ==
    ASSUME NEW w, NEW v, NamesGrow(w.names, v.names),
           DOMAIN w.relabel \subseteq DOMAIN v.relabel, \A b \in DOMAIN w.relabel : v.relabel[b] = w.relabel[b],
           SaysSame(w.map, v.map), NEW occ, MapSound(w, occ)
    PROVE  More(w, v) /\ MapSound(v, occ)
<1>1. /\ \A g, n, p, o : Says(w.map, g, n, p, o) <=> Says(v.map, g, n, p, o)
      /\ \A g, n : HasTypes(w.map, g, n) <=> HasTypes(v.map, g, n)
      /\ \A g, n : HasTypes(w.map, g, n) => v.map[g][n].types = w.map[g][n].types
  BY DEF SaysSame
<1>2. More(w, v)
  BY <1>1 DEF More
<1> QED
  BY <1>1, <1>2, SoundMap

-----------------------------------------------------------------------------
(* The steps, for the last time.                                             *)

World == [names |-> names, relabel |-> relabel, map |-> map]

Tale(w, held, st, occ) == CallsSound(w, st, occ) /\ MapSound(w, occ) /\ Kept(w, held, st, occ)

\* What the document says is in the map, in hand, or still to be visited.
Stated == outcome \in {"running", "mapped"} => Tale(World, Held(stack), stack, Occurrences)

LEMMA WorldIs ==
    /\ World.names = names /\ World.relabel = relabel /\ World.map = map
    /\ World'.names = names' /\ World'.relabel = relabel' /\ World'.map = map'
  BY DEF World

LEMMA StillStated ==
    ASSUME outcome' = "running", document' = document, Tale(World', Held(stack'), stack', Occurrences)
    PROVE  Stated'
<1>1. Occurrences' = Occurrences
  BY DEF Occurrences
<1> QED
  BY <1>1 DEF Stated

LEMMA TellsOn ==
    ASSUME IInv, Stated, Running
    PROVE  /\ Tale(World, Held(stack), stack, Occurrences)
           /\ IsSequence(stack) /\ stack # <<>> /\ FrameOK(Frame, map) /\ Frame = Last(stack) /\ outcome = "running"
  BY Innermost DEF Stated, StackOK, Frame

\* The innermost call changes its state, and perhaps the map, and visits nothing.
LEMMA Told ==
    ASSUME IInv, Stated, Running, NEW g, Update(g), UNCHANGED <<document, outcome>>,
           NEW w, w = World', More(World, w), MapSound(w, Occurrences), Carries(w, Frame, g),
           Work(g) = Work(Frame)
    PROVE  Stated'
<1>1. /\ Tale(World, Held(stack), stack, Occurrences)
      /\ IsSequence(stack) /\ stack # <<>> /\ FrameOK(Frame, map) /\ Frame = Last(stack) /\ outcome = "running"
  BY TellsOn
<1>2. stack' = Append(Front(stack), g)
  BY DEF Update
<1>3. Held(stack') = Held(stack)
  BY <1>1, <1>2, HeldUpdated
<1>4. CallsSound(w, stack, Occurrences) /\ Kept(w, Held(stack), stack, Occurrences)
  BY <1>1, SoundStill DEF Tale
<1>5. CallsSound(w, stack', Occurrences) /\ Kept(w, Held(stack), stack', Occurrences)
  BY <1>1, <1>2, <1>4, CallsUpdated
<1>6. Tale(w, Held(stack'), stack', Occurrences)
  BY <1>3, <1>5 DEF Tale
<1> QED
  BY <1>1, <1>6, StillStated

\* Names and relabelling stay.
LEMMA SameWorld ==
    ASSUME NEW w, MapSound(w, Occurrences)
    PROVE  More(w, w)
<1>1. NamesGrow(w.names, w.names)
  BY DEF NamesGrow
<1> QED
  BY <1>1 DEF More

LEMMA NamesSame ==
    ASSUME NEW ns
    PROVE  NamesGrow(ns, ns)
  BY DEF NamesGrow

\* A value is visited.
LEMMA ValueTold ==
    ASSUME IInv, Stated, VisitValue
    PROVE  Stated'
<1>1. Visiting("value") /\ Running
  BY DEF VisitValue, Visiting
<1>2. /\ Tale(World, Held(stack), stack, Occurrences)
      /\ IsSequence(stack) /\ stack # <<>> /\ FrameOK(Frame, map) /\ Frame = Last(stack) /\ outcome = "running"
  BY <1>1, TellsOn
<1> DEFINE v == Head(Frame.queue)
           f == Given(Passed(Frame), v)
           t == <<Len(stack), Top(Last(stack))>>
<1>3. Frame.queue # <<>> /\ Frame.section # "types" /\ Frame.section # "between" /\ v.kind = "value"
  BY <1>1 DEF Visiting
<1>4. stack' = Append(Front(stack), f) /\ UNCHANGED <<document, names, relabel, map, outcome>>
  BY DEF VisitValue, Update
<1>5. Work(f) = Work(Passed(Frame))
  <2>1. FrameOK(Passed(Frame), map)
    BY <1>2, <1>3, Passes
  <2>2. f.section = Passed(Frame).section /\ f.queue = Passed(Frame).queue /\ f.sections = Passed(Frame).sections
        /\ Steady(Passed(Frame), f)
    BY <2>1 DEF FrameOK, FrameFields, Given, Steady
  <2> QED
    BY <2>2, WorkSame
<1>6. v \in Objects
  BY <1>2, <1>3, Passes
<1>7. Means(World.names, v, v)
  BY <1>3, <1>6, MeansValue
<1>8. Carries(World, Frame, f)
  <2> HIDE DEF v
  <2> QED
    BY <1>2, <1>3, <1>7, CollectsIt DEF v
<1> HIDE DEF f
<1>9. /\ Exchanged(Held(stack), t, Empty, Len(stack) + 1, Held(Append(Front(stack), f)))
      /\ Held(stack)[t] = [graph |-> Target(Last(stack)), object |-> Head(Last(stack).queue)]
  BY <1>2, <1>3, <1>5, HeldPassed
<1>10. Held(stack)[t].object = v
  BY <1>2, <1>9
<1> HIDE DEF t, v
<1>11. ASSUME NEW x, Awaited(Held(stack), World.names, x)
       PROVE  Awaited(Held(stack'), World.names, x)
  <2>1. PICK p \in DOMAIN Held(stack) : Brings(World.names, Held(stack)[p], x)
    BY <1>11 DEF Awaited
  <2>2. p # t
    <3>1. \A y : y \notin NodesIn[v]
      BY <1>3, <1>6, NodesInIs DEF Gathers
    <3> QED
      BY <1>10, <2>1, <3>1 DEF Brings
  <2>3. p \in DOMAIN Held(stack') /\ Held(stack')[p] = Held(stack)[p]
    BY <1>4, <1>9, <2>1, <2>2 DEF Exchanged
  <2> QED
    BY <2>1, <2>3 DEF Awaited
<1>12. CallsSound(World, stack', Occurrences) /\ Kept(World, Held(stack), stack', Occurrences)
  BY <1>2, <1>4, <1>8, CallsUpdated DEF Tale
<1>13. Kept(World, Held(stack'), stack', Occurrences)
  BY <1>11, <1>12, KeptVisiting
<1>14. World' = World
  BY <1>4 DEF World
<1>15. Tale(World', Held(stack'), stack', Occurrences)
  BY <1>2, <1>12, <1>13, <1>14 DEF Tale
<1> QED
  BY <1>2, <1>4, <1>15, StillStated

\* A call that is complete has nothing in hand.
LEMMA Idle ==
    ASSUME NEW f, Complete(f), NEW w
    PROVE  \A x, s : ~InHand(w, f, x, s)
<1>1. ToSet(f.sections) = {} /\ \A s : ~At(w, f, s)
  BY EmptySequence DEF Complete, At, Operations
<1> QED
  BY <1>1 DEF InHand

\* A call returns what it was made for means.
LEMMA Completes ==
    ASSUME NEW f, NEW m, FrameOK(f, m), Complete(f), NEW w, NEW o, Answers(w, f, o)
    PROVE  /\ \A x, s : ~InHand(w, f, x, s)
           /\ Means(w.names, o, Returned(f))
<1>1. f.queue = <<>> /\ f.sections = <<>> /\ f.section \in {"items", "between"}
  BY DEF Complete
<1>2. f.kind \in {"node", "list"} /\ (f.kind # "node" => f.section = "items")
      /\ (f.section = "between" => f.collected = <<>>) /\ IsSequence(f.collected)
  BY FrameSections DEF Answers, FrameOK, Sectioned
<1>3. \A x, s : ~InHand(w, f, x, s)
  BY Idle
<1>4. CASE f.kind = "node"
  <2>1. o \in NodeObjects /\ Called(w.names, Label(o), f.id)
    BY <1>4 DEF Answers
  <2>2. Label(o) # Default
    BY <2>1, Parts DEF NodeObjects
  <2>3. Label(o) \in DOMAIN w.names /\ w.names[Label(o)] = f.id
    BY <2>1, <2>2 DEF Called
  <2>4. Means(w.names, o, Reference(f.id))
    BY <2>1, <2>3, MeansNode
  <2> QED
    BY <1>3, <1>4, <2>4 DEF Returned
<1>5. CASE f.kind = "list"
  <2>1. /\ o \in Objects /\ o.kind = "list" /\ f.index = o.index
        /\ Split(o.items, f.collected, f.queue)
        /\ \A i \in DOMAIN f.collected : Means(w.names, o.items[i], f.collected[i])
    BY <1>5 DEF Answers
  <2>2. DOMAIN f.collected = DOMAIN o.items
    BY <1>1, <2>1, SplitLast
  <2>3. Means(w.names, o, [kind |-> "list", index |-> o.index, items |-> f.collected])
    BY <1>2, <2>1, <2>2, MeansList
  <2>4. Returned(f) = [kind |-> "list", index |-> o.index, items |-> f.collected]
    BY <1>5, <2>1 DEF Returned
  <2> QED
    BY <1>3, <2>3, <2>4
<1> QED
  BY <1>2, <1>4, <1>5

LEMMA LeftTold ==
    ASSUME IInv, Stated, Leave
    PROVE  Stated'
<1>1. /\ Running /\ Complete(Frame) /\ Len(stack) > 1
      /\ stack' = Append(Front(Front(stack)), Given(Passed(Last(Front(stack))), Returned(Frame)))
      /\ UNCHANGED <<document, map, relabel, names, outcome>>
  BY DEF Leave
<1>2. /\ Tale(World, Held(stack), stack, Occurrences)
      /\ IsSequence(stack) /\ stack # <<>> /\ FrameOK(Frame, map) /\ Frame = Last(stack) /\ outcome = "running"
  BY <1>1, TellsOn
<1>3. StackOK(stack, map)
  BY <1>1, Innermost
<1> DEFINE st == Front(stack)
           caller == Last(st)
           c == Returned(Frame)
           o == Head(caller.queue)
<1>4. /\ IsSequence(st) /\ st # <<>> /\ FrameOK(caller, map)
      /\ caller.queue # <<>> /\ caller.section # "types" /\ caller.section # "between"
  BY <1>1, <1>3, Callers DEF StackOK, Fits
<1>5. Answers(World, Frame, o)
  <2> DEFINE n == Len(stack)
  <2>1. /\ n \in Nat /\ n \in DOMAIN stack /\ stack[n] = Frame /\ Len(st) = n - 1 /\ n > 1
        /\ \A i \in DOMAIN st : st[i] = stack[i]
    BY <1>1, <1>2, Ahead
  <2>2. caller = st[Len(st)] /\ Len(st) \in DOMAIN st
    BY <1>4, Ahead
  <2>3. stack[n - 1] = caller
    BY <2>1, <2>2
  <2>4. Answers(World, stack[n], Head(stack[n - 1].queue))
    BY <1>2, <2>1 DEF Tale, CallsSound
  <2> QED
    BY <2>1, <2>3, <2>4
<1> HIDE DEF st
<1>6. (\A x, s : ~InHand(World, Frame, x, s)) /\ Means(World.names, o, c)
  <2> HIDE DEF o, c
  <2> QED
    BY <1>1, <1>2, <1>5, Completes DEF c
<1>7. CallsSound(World, st, Occurrences) /\ Kept(World, Held(stack), st, Occurrences)
  BY <1>2, <1>6, CallsShortened DEF Tale, st
<1>8. Carries(World, caller, Given(Passed(caller), c))
  BY <1>4, <1>6, CollectsIt
<1>9. stack' = Append(Front(st), Given(Passed(caller), c))
  BY <1>1 DEF st
<1> HIDE DEF c
<1>10. CallsSound(World, stack', Occurrences) /\ Kept(World, Held(stack), stack', Occurrences)
  BY <1>4, <1>7, <1>8, <1>9, CallsUpdated
<1>11. Held(stack') = Held(stack)
  BY <1>1, <1>2, <1>3, HeldLeft
<1>12. World' = World
  BY <1>1 DEF World
<1>13. Tale(World', Held(stack'), stack', Occurrences)
  BY <1>2, <1>10, <1>11, <1>12 DEF Tale
<1> QED
  BY <1>1, <1>2, <1>13, StillStated

\* What is still to be visited after an exchange.
LEMMA AwaitedExchanged ==
    ASSUME NEW a, NEW t, NEW h, NEW M, NEW b, Exchanged(a, t, h, M, b), NEW ns, NEW x
    PROVE  /\ Awaited(a, ns, x) => Brings(ns, a[t], x) \/ Awaited(b, ns, x)
           /\ (\E w \in DOMAIN h : Brings(ns, h[w], x)) => Awaited(b, ns, x)
<1>1. ASSUME NEW p \in DOMAIN a, Brings(ns, a[p], x), p # t
      PROVE  Awaited(b, ns, x)
  <2>1. p \in DOMAIN b /\ b[p] = a[p]
    BY <1>1 DEF Exchanged
  <2> QED
    BY <1>1, <2>1 DEF Awaited
<1>2. ASSUME NEW w \in DOMAIN h, Brings(ns, h[w], x)
      PROVE  Awaited(b, ns, x)
  <2>1. <<M, w>> \in DOMAIN b /\ b[<<M, w>>] = h[w]
    BY DEF Exchanged
  <2> QED
    BY <1>2, <2>1 DEF Awaited
<1> QED
  BY <1>1, <1>2 DEF Awaited

LEMMA ListTold ==
    ASSUME IInv, Stated, VisitList
    PROVE  Stated'
<1>1. Visiting("list") /\ Running
  BY DEF VisitList, Visiting
<1>2. /\ Tale(World, Held(stack), stack, Occurrences)
      /\ IsSequence(stack) /\ stack # <<>> /\ FrameOK(Frame, map) /\ Frame = Last(stack) /\ outcome = "running"
  BY <1>1, TellsOn
<1> DEFINE list == Head(Frame.queue)
           f == CallOn("list", Target(Frame), None, list.index, "items", list.items, <<>>)
           t == <<Len(stack), Top(Last(stack))>>
<1>3. Frame.queue # <<>> /\ Frame.section # "types" /\ list.kind = "list"
  BY <1>1 DEF Visiting
<1>4. list \in Objects /\ IsSequence(list.items)
  <2>1. list \in Objects
    BY <1>2, <1>3, Passes
  <2>2. WellFormed(list)
    BY <2>1, NodeMapAssumption
  <2>3. list.items \in Seq(Objects)
    BY <1>3, <2>2 DEF WellFormed
  <2> QED
    BY <2>1, <2>3, SequenceOver
<1>5. stack' = Append(stack, f) /\ UNCHANGED <<document, names, relabel, map, outcome>>
  BY DEF VisitList, Call
<1>6. /\ f.kind = "list" /\ f.section = "items" /\ f.queue = list.items /\ f.sections = <<>>
      /\ f.active = Target(Frame) /\ f.collected = <<>> /\ f.index = list.index
  BY DEF CallOn
<1> HIDE DEF f
<1>7. FrameOK(f, map)
  <2>1. StackOK(stack', map')
    BY ListVisited DEF IInv
  <2> QED
    BY <1>2, <1>5, <2>1, CallFits
<1>8. ListCall(f, map, list, Target(Frame))
  BY <1>6, <1>7 DEF ListCall
<1>9. /\ Exchanged(Held(stack), t, Work(f), Len(stack) + 1, Held(Append(stack, f)))
      /\ Held(stack)[t] = [graph |-> Target(Last(stack)), object |-> Head(Last(stack).queue)]
  BY <1>2, <1>3, HeldCalled
<1>10. Held(stack)[t] = [graph |-> Target(Frame), object |-> list]
  BY <1>2, <1>9
<1>11. Answers(World, f, Head(Last(stack).queue))
  <2>1. Split(list.items, f.collected, f.queue)
    BY <1>4, <1>6, SplitFirst
  <2>2. DOMAIN f.collected = {}
    BY <1>6, EmptySequence
  <2>3. Answers(World, f, list)
    BY <1>3, <1>4, <1>6, <2>1, <2>2 DEF Answers
  <2> QED
    BY <1>2, <2>3
<1> HIDE DEF t, list
<1>12. ASSUME NEW x, Awaited(Held(stack), World.names, x)
       PROVE  Awaited(Held(stack'), World.names, x)
  <2>1. Exchanged(Held(stack), t, Work(f), Len(stack) + 1, Held(stack'))
    BY <1>5, <1>9
  <2>2. Brings(World.names, Held(stack)[t], x) => \E w \in DOMAIN Work(f) : Brings(World.names, Work(f)[w], x)
    BY <1>3, <1>4, <1>8, <1>10, ListBrings
  <2> QED
    BY <1>12, <2>1, <2>2, AwaitedExchanged
<1>13. f.kind = "node" => \E x \in Occurrences : Treats(World, f, x)
  BY <1>6
<1>14. CallsSound(World, Append(stack, f), Occurrences) /\ Kept(World, Held(stack'), Append(stack, f), Occurrences)
  <2>1. CallsSound(World, stack, Occurrences) /\ Kept(World, Held(stack), stack, Occurrences)
    BY <1>2 DEF Tale
  <2> QED
    BY <1>2, <1>11, <1>12, <1>13, <2>1, CallsExtended
<1>15. World' = World
  BY <1>5 DEF World
<1>16. Tale(World', Held(stack'), stack', Occurrences)
  BY <1>2, <1>5, <1>14, <1>15 DEF Tale
<1> QED
  BY <1>2, <1>5, <1>16, StillStated

\* assign_node_id never renames an identifier again.
LEMMA Assigning ==
    ASSUME NEW r, NEW n, NEW id, NEW env, env = Assigned([relabel |-> r, issued |-> n], id)
    PROVE  DOMAIN r \subseteq DOMAIN env.relabel /\ \A b \in DOMAIN r : env.relabel[b] = r[b]
<1>1. CASE env = [relabel |-> r, issued |-> n]
  BY <1>1
<1>2. CASE /\ id \notin DOMAIN r
           /\ env = [relabel |-> Put(r, id, NextId(n)), issued |-> n + 1]
  <2>1. env.relabel = Put(r, id, NextId(n))
    BY <1>2
  <2> QED
    BY <1>2, <2>1 DEF Put
<1> QED
  BY <1>1, <1>2 DEF Assigned

\* What visiting a node object brings is the node itself, or left to the call
\* made for it, which has in hand what the node object says.
LEMMA NodeTreated ==
    ASSUME NEW w, NEW node \in NodeObjects, NEW active, NEW id, NEW f, NEW m, NodeCall(f, m, node, active, id),
           f.kind = "node", NEW occ, NEW h, h = [graph |-> active, object |-> node],
           NEW ns, NamedAs(ns, w.names, node, id), DueOK(h, ns, occ)
    PROVE  /\ \E x \in occ : Treats(w, f, x)
           /\ Answers(w, f, node)
           /\ \A x : Brings(w.names, h, x) =>
                 \/ \E v \in DOMAIN Work(f) : Brings(w.names, Work(f)[v], x)
                 \/ \A s \in ToSet(Sections(x.node)) : InHand(w, f, x, s)
<1> DEFINE q == w.names
           W == Work(f)
<1>0. Succeeds(h, W, ns, q, node, active, id, occ)
  BY NodeDue
<1> HIDE DEF q, W
<1>1. /\ \A x : Brings(ns, h, x) =>
            (x.node = node /\ DeclaredAs(q, x, active, id)) \/ \E v \in DOMAIN W : Brings(q, W[v], x)
      /\ \E l : Called(ns, l, active) /\ [graph |-> l, node |-> node] \in occ
  BY <1>0 DEF Succeeds
<1>2. Separate(q) /\ NamesGrow(ns, q) /\ Called(q, Label(node), id)
  BY DEF NamedAs, q
<1>3. f.section = "between" /\ f.sections = Sections(node) /\ f.active = active /\ f.id = id
  BY DEF NodeCall
<1>4. ASSUME NEW x, x.node = node, DeclaredAs(q, x, active, id)
      PROVE  Treats(w, f, x) /\ \A s \in ToSet(Sections(x.node)) : InHand(w, f, x, s)
  <2>1. Treats(w, f, x)
    BY <1>3, <1>4 DEF Treats, q
  <2> QED
    BY <1>3, <1>4, <2>1 DEF InHand
<1>5. \E x \in occ : Treats(w, f, x)
  <2>1. PICK l : Called(ns, l, active) /\ [graph |-> l, node |-> node] \in occ
    BY <1>1
  <2> DEFINE x == [graph |-> l, node |-> node]
  <2>2. x \in occ /\ x.graph = l /\ x.node = node
    BY <2>1
  <2>3. Called(q, l, active)
    BY <1>2, <2>1, CalledStill
  <2>4. DeclaredAs(q, x, active, id)
    BY <1>2, <2>2, <2>3 DEF DeclaredAs
  <2> QED
    BY <1>4, <2>2, <2>4
<1>6. Answers(w, f, node)
  BY <1>2, <1>3 DEF Answers, q
<1>7. ASSUME NEW x, Brings(q, h, x)
      PROVE  \/ \E v \in DOMAIN W : Brings(q, W[v], x)
             \/ \A s \in ToSet(Sections(x.node)) : InHand(w, f, x, s)
  <2>1. PICK l : Called(ns, l, h.graph)
    BY DEF DueOK
  <2>2. Called(q, l, h.graph)
    BY <1>2, <2>1, CalledStill
  <2>3. PICK k : Called(q, k, h.graph) /\ \E y \in NodesIn[h.object] : x = InGraph(k, y)
    BY <1>7 DEF Brings
  <2>4. k = l
    BY <1>2, <2>2, <2>3 DEF Separate
  <2>5. Brings(ns, h, x)
    BY <2>1, <2>3, <2>4 DEF Brings
  <2> QED
    BY <1>1, <1>4, <2>5
<1> QED
  BY <1>5, <1>6, <1>7 DEF q, W

LEMMA NodeTold ==
    ASSUME IInv, Accounted, Stated, VisitNode
    PROVE  Stated'
<1>1. Visiting("node") /\ Running
  BY DEF VisitNode, Visiting
<1>2. /\ Tale(World, Held(stack), stack, Occurrences)
      /\ IsSequence(stack) /\ stack # <<>> /\ FrameOK(Frame, map) /\ Frame = Last(stack) /\ outcome = "running"
  BY <1>1, TellsOn
<1>3. Target(Frame) \in DOMAIN map /\ MapOK(map) /\ RelabelOK(relabel, issued) /\ NamesOK(names, relabel, issued)
  BY <1>1, Innermost
<1>4. HeldOK(Held(stack), names, Occurrences)
  BY <1>1, InProgress DEF Account
<1> DEFINE node == Head(Frame.queue)
           active == Target(Frame)
           env == IF node.id = None THEN [Env EXCEPT !.issued = @ + 1] ELSE Assigned(Env, node.id)
           id == IF node.id = None THEN NextId(issued) ELSE Relabelled(env, node.id)
           f == CallOn("node", active, id, None, "between", <<>>, Sections(node))
           q == IF Label(node) \in DOMAIN names THEN names ELSE Put(names, Label(node), id)
           t == <<Len(stack), Top(Last(stack))>>
<1>5. Frame.queue # <<>> /\ Frame.section # "types" /\ node.kind = "node"
  BY <1>1 DEF Visiting
<1>6. node \in NodeObjects
  BY <1>2, <1>5, Passes DEF NodeObjects
<1>7. \/ outcome' \in {"UnsupportedTerm", "ConflictingIndexes"}
      \/ /\ ~Exhausted(env)
         /\ map' = [map EXCEPT ![active] = WithNode(@, id, node.index)] /\ names' = q /\ relabel' = env.relabel
         /\ Call(f) /\ document' = document /\ outcome' = outcome
  BY <1>3 DEF VisitNode, Fail
<1>8. /\ env = IF node.id = None THEN [relabel |-> relabel, issued |-> issued + 1]
               ELSE Assigned([relabel |-> relabel, issued |-> issued], node.id)
      /\ id = IF node.id = None THEN NextId(issued) ELSE Relabelled(env, node.id)
  BY DEF Env
<1>9. /\ f.section = "between" /\ f.queue = <<>> /\ f.sections = Sections(node) /\ f.active = active /\ f.id = id
      /\ f.kind = "node"
  BY DEF CallOn
<1>10. q = IF Label(node) \in DOMAIN names THEN names ELSE Put(names, Label(node), id)
  OBVIOUS
<1>11. /\ Exchanged(Held(stack), t, Work(f), Len(stack) + 1, Held(Append(stack, f)))
       /\ Held(stack)[t] = [graph |-> Target(Last(stack)), object |-> Head(Last(stack).queue)]
  <2> HIDE DEF f
  <2> QED
    BY <1>2, <1>5, HeldCalled
<1>12. Held(stack)[t] = [graph |-> active, object |-> node] /\ Head(Last(stack).queue) = node
  BY <1>2, <1>11
<1>13. DueOK(Held(stack)[t], names, Occurrences)
  BY <1>4, <1>11 DEF Exchanged, HeldOK
<1>14. node.id = None => node \notin DOMAIN names
  <2>1. Self(node) \in NodesIn[node] /\ Self(node).node = node
    BY <1>6, GathersSections DEF Self
  <2>2. node.id = None => node \in Anonymous(node)
    BY <2>1 DEF Anonymous
  <2>3. Held(stack)[t].object = node
    BY <1>12
  <2> QED
    BY <1>13, <2>2, <2>3 DEF DueOK
<1>15. active \in DOMAIN map
  BY <1>3
<1> HIDE DEF node, active, env, id, f, q, t
<1>16. ~Exhausted(env) => NamedAs(names, q, node, id)
  BY <1>3, <1>6, <1>8, <1>10, <1>14, NodeNamed
<1>17. CASE outcome' \in {"UnsupportedTerm", "ConflictingIndexes"}
  BY <1>17 DEF Stated
<1>18. CASE /\ ~Exhausted(env)
            /\ map' = [map EXCEPT ![active] = WithNode(@, id, node.index)] /\ names' = q /\ relabel' = env.relabel
            /\ Call(f) /\ document' = document /\ outcome' = outcome
  <2> DEFINE w == World'
  <2>1. w.names = q /\ w.relabel = env.relabel /\ w.map = map'
    BY <1>18, WorldIs
  <2> HIDE DEF w
  <2>2. stack' = Append(stack, f)
    BY <1>18 DEF Call
  <2>3. NodeCall(f, map', node, active, id)
    <3>1. StackOK(stack', map')
      BY NodeVisited DEF IInv
    <3>2. FrameOK(f, map')
      BY <1>2, <2>2, <3>1, CallFits
    <3> QED
      BY <1>9, <3>2 DEF NodeCall
  <2>4. NamedAs(names, w.names, node, id)
    BY <1>16, <1>18, <2>1
  <2>5. DOMAIN relabel \subseteq DOMAIN env.relabel /\ \A b \in DOMAIN relabel : env.relabel[b] = relabel[b]
    <3>1. CASE node.id = None
      <4>1. env.relabel = relabel
        BY <1>8, <3>1
      <4> QED
        BY <4>1
    <3>2. CASE node.id # None
      BY <1>8, <3>2, Assigning
    <3> QED
      BY <3>1, <3>2
  <2>6. SaysSame(map, map')
    BY <1>3, <1>15, <1>18, SaysDeclared
  <2>7. More(World, w) /\ MapSound(w, Occurrences)
    <3>1. NamesGrow(names, w.names)
      BY <2>4 DEF NamedAs
    <3>2. MapSound(World, Occurrences)
      BY <1>2 DEF Tale
    <3> QED
      BY <2>1, <2>5, <2>6, <3>1, <3>2, WorldIs, SoundSame
  <2>8. CallsSound(w, stack, Occurrences) /\ Kept(w, Held(stack), stack, Occurrences)
    BY <1>2, <2>7, SoundStill DEF Tale
  <2>9. /\ \E x \in Occurrences : Treats(w, f, x)
        /\ Answers(w, f, node)
        /\ \A x : Brings(w.names, Held(stack)[t], x) =>
              \/ \E v \in DOMAIN Work(f) : Brings(w.names, Work(f)[v], x)
              \/ \A s \in ToSet(Sections(x.node)) : InHand(w, f, x, s)
    BY <1>6, <1>9, <1>12, <1>13, <2>3, <2>4, NodeTreated
  <2>10. ASSUME NEW x, Awaited(Held(stack), w.names, x)
         PROVE  \/ Awaited(Held(stack'), w.names, x)
                \/ \A s \in ToSet(Sections(x.node)) : InHand(w, f, x, s)
    <3>1. Exchanged(Held(stack), t, Work(f), Len(stack) + 1, Held(stack'))
      BY <1>11, <2>2
    <3> QED
      BY <2>9, <2>10, <3>1, AwaitedExchanged
  <2>11. CallsSound(w, Append(stack, f), Occurrences) /\ Kept(w, Held(stack'), Append(stack, f), Occurrences)
    BY <1>2, <1>12, <2>8, <2>9, <2>10, CallsExtended
  <2>12. Tale(w, Held(stack'), stack', Occurrences)
    BY <2>2, <2>7, <2>11 DEF Tale
  <2> QED
    BY <1>2, <1>18, <2>12, StillStated DEF w
<1> QED
  BY <1>7, <1>17, <1>18

\* No node is declared, and nothing is said that was not.
LEMMA WorldGrows ==
    ASSUME IInv, Stated, Running, names' = names, SaysSame(map, map'),
           DOMAIN relabel \subseteq DOMAIN relabel', \A b \in DOMAIN relabel : relabel'[b] = relabel[b],
           NEW w, w = World'
    PROVE  More(World, w) /\ MapSound(w, Occurrences)
<1>1. MapSound(World, Occurrences)
  BY TellsOn DEF Tale
<1>2. w.names = names /\ w.relabel = relabel' /\ w.map = map'
  BY WorldIs
<1>3. NamesGrow(names, w.names)
  BY <1>2 DEF NamesGrow
<1> QED
  BY <1>1, <1>2, <1>3, WorldIs, SoundSame

\* A section is entered.
LEMMA EnterTold ==
    ASSUME IInv, Stated, Running, Frame.section = "between", Frame.sections # <<>>,
           NEW p, Update(Entered(Frame, p)), UNCHANGED <<document, names, outcome>>, SaysSame(map, map'),
           DOMAIN relabel \subseteq DOMAIN relabel', \A b \in DOMAIN relabel : relabel'[b] = relabel[b],
           Head(Frame.sections).op = "property" => Termed(relabel', Head(Frame.sections).property, p),
           Head(Frame.sections).op = "reverse" => p = Head(Frame.sections).property
    PROVE  Stated'
<1>1. FrameOK(Frame, map)
  BY TellsOn
<1> DEFINE w == World'
           g == Entered(Frame, p)
<1>2. w.relabel = relabel' /\ w = World'
  BY WorldIs
<1>3. Work(g) = Work(Frame)
  BY <1>1, WorkEntered
<1> HIDE DEF w
<1>4. More(World, w) /\ MapSound(w, Occurrences)
  BY <1>2, WorldGrows
<1>5. Head(Frame.sections).op = "property" => Termed(w.relabel, Head(Frame.sections).property, p)
  BY <1>2
<1>6. Carries(w, Frame, g)
  BY <1>1, <1>5, EntersIt
<1>7. Update(g)
  OBVIOUS
<1> HIDE DEF g
<1> QED
  BY <1>2, <1>3, <1>4, <1>6, <1>7, Told

\* What a property or a type is relabelled to.
LEMMA Terming ==
    ASSUME IInv, Running, NEW t, NEW env, env = Assigned(Env, t), ~Exhausted(env)
    PROVE  /\ Termed(env.relabel, t, Relabelled(env, t))
           /\ DOMAIN relabel \subseteq DOMAIN env.relabel /\ \A b \in DOMAIN relabel : env.relabel[b] = relabel[b]
<1>1. RelabelOK(relabel, issued) /\ NamesOK(names, relabel, issued)
  BY Innermost
<1>2. env = Assigned([relabel |-> relabel, issued |-> issued], t)
  BY DEF Env
<1> QED
  BY <1>1, <1>2, Assigns, Assigning DEF Termed

LEMMA BeginTold ==
    ASSUME IInv, Stated, Begin \/ RelabelProperty \/ DeclareGraph
    PROVE  Stated'
<1>1. Running /\ Frame.section = "between" /\ Frame.sections # <<>>
  BY DEF Begin, RelabelProperty, DeclareGraph, Before, In
<1> DEFINE h == Head(Frame.sections)
<1>2. CASE Begin
  <2>1. /\ h.op # "property" /\ Update(Entered(Frame, h.property))
        /\ UNCHANGED <<document, names, outcome>> /\ map' = map /\ relabel' = relabel
    BY <1>2 DEF Begin, Before
  <2>2. SaysSame(map, map')
    BY <2>1, SaysItself
  <2> QED
    BY <1>1, <2>1, <2>2, EnterTold
<1>3. CASE DeclareGraph
  <2>1. /\ h.op = "graph" /\ Update(Entered(Frame, None))
        /\ UNCHANGED <<document, names, outcome>> /\ relabel' = relabel
        /\ map' = map \/ (Frame.id \notin DOMAIN map /\ map' = Put(map, Frame.id, Empty))
    BY <1>3 DEF DeclareGraph, Before
  <2>2. SaysSame(map, map')
    BY <2>1, SaysItself, SaysOpened
  <2> QED
    BY <1>1, <2>1, <2>2, EnterTold
<1>4. CASE RelabelProperty
  <2> DEFINE env == Assigned(Env, h.property)
             p == Relabelled(env, h.property)
  <2>1. \/ outcome' = "UnsupportedTerm"
        \/ /\ ~Exhausted(env) /\ h.op = "property" /\ Update(Entered(Frame, p))
           /\ relabel' = env.relabel /\ UNCHANGED <<document, names, outcome>> /\ map' = map
    BY <1>4 DEF RelabelProperty, Fail, Before
  <2>2. CASE outcome' = "UnsupportedTerm"
    BY <2>2 DEF Stated
  <2>3. CASE /\ ~Exhausted(env) /\ h.op = "property" /\ Update(Entered(Frame, p))
             /\ relabel' = env.relabel /\ UNCHANGED <<document, names, outcome>> /\ map' = map
    <3>1. /\ Termed(env.relabel, h.property, p)
          /\ DOMAIN relabel \subseteq DOMAIN env.relabel /\ \A b \in DOMAIN relabel : env.relabel[b] = relabel[b]
      BY <1>1, <2>3, Terming
    <3>2. SaysSame(map, map')
      BY <2>3, SaysItself
    <3> HIDE DEF env, p
    <3> QED
      BY <1>1, <2>3, <3>1, <3>2, EnterTold
  <2> QED
    BY <2>1, <2>2, <2>3
<1> QED
  BY <1>2, <1>3, <1>4

LEMMA TypeTold ==
    ASSUME IInv, Stated, RelabelType
    PROVE  Stated'
<1>1. Running /\ Frame.section = "types" /\ Frame.queue # <<>>
  BY DEF RelabelType, In
<1>2. FrameOK(Frame, map)
  BY <1>1, TellsOn
<1> DEFINE type == Head(Frame.queue)
           env == Assigned(Env, type)
           c == Relabelled(env, type)
           g == Given(Passed(Frame), c)
           w == World'
<1>3. \/ outcome' = "UnsupportedTerm"
      \/ /\ ~Exhausted(env) /\ Update(g) /\ relabel' = env.relabel
         /\ UNCHANGED <<document, names, outcome>> /\ map' = map
  BY DEF RelabelType, Fail
<1>4. CASE outcome' = "UnsupportedTerm"
  BY <1>4 DEF Stated
<1>5. CASE /\ ~Exhausted(env) /\ Update(g) /\ relabel' = env.relabel
           /\ UNCHANGED <<document, names, outcome>> /\ map' = map
  <2>1. /\ Termed(env.relabel, type, c)
        /\ DOMAIN relabel \subseteq DOMAIN env.relabel /\ \A b \in DOMAIN relabel : env.relabel[b] = relabel[b]
    BY <1>1, <1>5, Terming
  <2>2. SaysSame(map, map')
    BY <1>5, SaysItself
  <2>3. w.relabel = env.relabel /\ w = World'
    BY <1>5, WorldIs
  <2> HIDE DEF w, env, c
  <2>4. More(World, w) /\ MapSound(w, Occurrences)
    BY <1>1, <1>5, <2>1, <2>2, <2>3, WorldGrows
  <2>5. Work(g) = Work(Frame)
    <3>1. FrameOK(Passed(Frame), map)
      BY <1>1, <1>2, Passes
    <3>2. /\ g.section = Passed(Frame).section /\ g.queue = Passed(Frame).queue
          /\ g.sections = Passed(Frame).sections /\ Steady(Passed(Frame), g)
      BY <3>1 DEF FrameOK, FrameFields, Given, Steady
    <3>3. Work(g) = Work(Passed(Frame))
      BY <3>2, WorkSame
    <3> QED
      BY <1>1, <1>2, <3>3, WorkPassed
  <2>6. Carries(w, Frame, g)
    <3>1. Termed(w.relabel, type, c)
      BY <2>1, <2>3
    <3> QED
      BY <1>1, <1>2, <3>1, CollectsIt
  <2> HIDE DEF g
  <2> QED
    BY <1>1, <1>5, <2>3, <2>4, <2>5, <2>6, Told
<1> QED
  BY <1>3, <1>4, <1>5

LEMMA EndTold ==
    ASSUME IInv, Stated, End
    PROVE  Stated'
<1>1. /\ Running /\ Frame.queue = <<>> /\ Update(Ended(Frame))
      /\ Frame.section = "included" \/ (Frame.section = "reverse" /\ Frame.collected = <<>>)
      /\ UNCHANGED <<document, map, relabel, names, outcome>>
  BY DEF End, Over, In
<1>2. FrameOK(Frame, map)
  BY <1>1, TellsOn
<1> DEFINE w == World'
           g == Ended(Frame)
<1>3. w = World'
  OBVIOUS
<1> HIDE DEF w
<1>4. More(World, w) /\ MapSound(w, Occurrences)
  <2>1. SaysSame(map, map')
    BY <1>1, SaysItself
  <2> QED
    BY <1>1, <1>3, <2>1, WorldGrows
<1>5. ASSUME NEW x, NEW s, At(w, Frame, s), Covers(w, Frame, x, s)
      PROVE  Done(w, x, s)
  <2>1. s.op = Frame.section
    BY <1>5 DEF At
  <2>2. CASE s.op = "included"
    BY <2>2 DEF Done, Stating
  <2>3. CASE s.op = "reverse"
    <3>1. ToSet(Frame.queue) = {} /\ ToSet(Frame.collected) = {}
      BY <1>1, <2>1, <2>3, EmptySequence
    <3> QED
      BY <1>5, <2>3, <3>1 DEF Done, Covers, Stating
  <2> QED
    BY <1>1, <2>1, <2>2, <2>3
<1>6. Carries(w, Frame, g)
  BY <1>1, <1>2, <1>5, EndsIt
<1>7. Work(g) = Work(Frame)
  BY <1>1, <1>2, WorkEnded
<1>8. Update(g)
  BY <1>1
<1> HIDE DEF g
<1> QED
  BY <1>1, <1>3, <1>4, <1>6, <1>7, <1>8, Told

\* A node that is looked up changes.
LEMMA ChangedWorld ==
    ASSUME IInv, Stated, Running, NEW id \in DOMAIN map[Frame.active], NEW node, NEW g, Change(id, node, g),
           NEW w, w = World'
    PROVE  /\ NodeChanged(World.map, w.map, Frame.active, id, node)
           /\ w.names = names /\ w.relabel = relabel
           /\ Update(g) /\ UNCHANGED <<document, outcome>>
           /\ FrameOK(Frame, map) /\ Frame.active \in DOMAIN map /\ NodeOK(map[Frame.active][id], id, map)
           /\ MapSound(World, Occurrences) /\ World.map = map /\ World.names = names /\ World.relabel = relabel
<1>1. Frame.active \in DOMAIN map /\ NodeOK(map[Frame.active][id], id, map) /\ FrameOK(Frame, map)
  BY Innermost, LookedUp DEF Looked
<1>2. /\ map' = [map EXCEPT ![Frame.active] = [@ EXCEPT ![id] = node]]
      /\ Update(g) /\ UNCHANGED <<document, names, relabel, outcome>>
  BY <1>1 DEF Change, Found
<1>3. NodeChanged(map, map', Frame.active, id, node)
  BY <1>1, <1>2, ChangedNode
<1>4. MapSound(World, Occurrences)
  BY TellsOn DEF Tale
<1> QED
  BY <1>1, <1>2, <1>3, <1>4, WorldIs

\* A call in a section of a node object is made for one of the document.
LEMMA Treating ==
    ASSUME IInv, Stated, Running, Frame.section \notin {"items", "between"}, NEW w, More(World, w)
    PROVE  \E x \in Occurrences : Treats(w, Frame, x) /\ \E s \in ToSet(Sections(x.node)) : At(w, Frame, s)
<1>1. /\ CallsSound(World, stack, Occurrences) /\ IsSequence(stack) /\ stack # <<>> /\ Frame = Last(stack)
      /\ FrameOK(Frame, map)
  BY TellsOn DEF Tale
<1>2. Len(stack) \in DOMAIN stack /\ stack[Len(stack)] = Frame
  BY <1>1, Ahead
<1>3. Frame.kind = "node"
  BY <1>1 DEF FrameOK, Sectioned
<1>4. CallsSound(w, stack, Occurrences)
  BY <1>1, SoundStill
<1>5. PICK x \in Occurrences : Treats(w, Frame, x)
  BY <1>2, <1>3, <1>4 DEF CallsSound
<1> QED
  BY <1>5 DEF Treats

\* The section a call over types is in.
LEMMA AtTypes ==
    ASSUME NEW w, NEW f, f.section = "types", f.queue = <<>>, NEW x, Treats(w, f, x),
           NEW s \in ToSet(Sections(x.node)), At(w, f, s)
    PROVE  /\ x.node.types # None /\ DOMAIN f.collected = DOMAIN x.node.types
           /\ Renders(w.relabel, x.node.types, f.collected)
<1>1. s.op = "types" /\ Split(s.objects, f.collected, f.queue) /\ Renders(w.relabel, s.objects, f.collected)
  BY DEF At
<1>2. IsSection(x.node, s)
  BY SectionsOf DEF Treats
<1>3. x.node.types # None /\ s = Section("types", None, x.node.types)
  BY <1>1, <1>2 DEF IsSection, Section
<1>4. s.objects = x.node.types
  BY <1>3 DEF Section
<1>5. DOMAIN f.collected = DOMAIN s.objects
  BY <1>1, SplitLast
<1> QED
  BY <1>1, <1>3, <1>4, <1>5

LEMMA TypesTold ==
    ASSUME IInv, Stated, SetTypes
    PROVE  Stated'
<1> DEFINE id == Frame.id
           a == Frame.active
           old == Looked(id)
           node == [old EXCEPT !.types = Frame.collected]
           g == Ended(Frame)
           w == World'
<1>1. Running /\ Frame.section = "types" /\ Frame.queue = <<>> /\ Change(id, node, g)
  BY DEF SetTypes, Over, In
<1>2. id \in DOMAIN map[a] /\ NodeOK(old, id, map) /\ FrameOK(Frame, map)
  BY <1>1, Itself
<1>3. Frame.collected # None
  BY <1>1, <1>2, NodeMapAssumption DEF FrameOK, Sectioned
<1>4. node.types = Frame.collected /\ node.properties = old.properties
  <2> HIDE DEF old
  <2> QED
    BY <1>2 DEF NodeOK
<1>5. w = World' /\ old = map[a][id]
  BY DEF Looked
<1> HIDE DEF node, g, w, old
<1>6. /\ NodeChanged(World.map, w.map, a, id, node)
      /\ w.names = names /\ w.relabel = relabel
      /\ Update(g) /\ UNCHANGED <<document, outcome>>
      /\ MapSound(World, Occurrences) /\ World.map = map /\ World.names = names /\ World.relabel = relabel
  BY <1>1, <1>2, <1>5, ChangedWorld
<1> HIDE DEF id, a
<1>7. w.map[a][id].types = Frame.collected
  BY <1>4, <1>6 DEF NodeChanged
<1>8. /\ \A h, n, p, o : Says(World.map, h, n, p, o) <=> Says(w.map, h, n, p, o)
      /\ HasTypes(w.map, a, id)
      /\ \A h, n : HasTypes(World.map, h, n) => HasTypes(w.map, h, n)
      /\ \A h, n : HasTypes(w.map, h, n) =>
            <<h, n>> = <<a, id>> \/ (HasTypes(World.map, h, n) /\ w.map[h][n].types = World.map[h][n].types)
  <2>1. node.types # None /\ node.properties = World.map[a][id].properties
    BY <1>3, <1>4, <1>5, <1>6
  <2> QED
    BY <1>6, <2>1, SaysTyped
<1>9. More(World, w)
  BY <1>6, <1>8, NamesSame DEF More
<1>10. TypesMeant(w, Occurrences, a, id)
  <2>1. PICK x \in Occurrences : Treats(w, Frame, x) /\ \E s \in ToSet(Sections(x.node)) : At(w, Frame, s)
    BY <1>1, <1>9, Treating
  <2>2. /\ x.node.types # None /\ DOMAIN Frame.collected = DOMAIN x.node.types
        /\ Renders(w.relabel, x.node.types, Frame.collected)
    BY <1>1, <2>1, AtTypes
  <2>3. DeclaredAs(w.names, x, a, id)
    BY <2>1 DEF Treats, a, id
  <2> QED
    BY <1>7, <2>2, <2>3 DEF TypesMeant
<1>11. MapSound(w, Occurrences)
  <2>1. \A h, n : HasTypes(w.map, h, n) =>
          (HasTypes(World.map, h, n) /\ w.map[h][n].types = World.map[h][n].types) \/ TypesMeant(w, Occurrences, h, n)
    BY <1>8, <1>10
  <2> QED
    BY <1>6, <1>8, <1>9, <2>1, SoundMap
<1>12. ASSUME NEW x, NEW s, Treats(w, Frame, x), At(w, Frame, s)
       PROVE  Done(w, x, s)
  <2>1. DeclaredAs(w.names, x, a, id)
    BY <1>12 DEF Treats, a, id
  <2>2. s.op = "types"
    BY <1>1, <1>12 DEF At
  <2> QED
    BY <1>8, <2>1, <2>2 DEF Done, Stating
<1>13. Carries(w, Frame, g)
  BY <1>1, <1>2, <1>12, EndsIt DEF g
<1>14. Work(g) = Work(Frame)
  BY <1>1, <1>2, WorkEnded DEF g
<1> QED
  BY <1>1, <1>5, <1>6, <1>9, <1>11, <1>13, <1>14, Told

LEMMA GraphTold ==
    ASSUME IInv, Stated, SetGraph
    PROVE  Stated'
<1> DEFINE id == Frame.id
           a == Frame.active
           old == Looked(id)
           graph == IF old.graph = {} THEN {Frame.collected} ELSE {h \o Frame.collected : h \in old.graph}
           node == [old EXCEPT !.graph = graph]
           g == Ended(Frame)
           w == World'
<1>1. Running /\ Frame.section = "graph" /\ Frame.queue = <<>> /\ Change(id, node, g)
  BY DEF SetGraph, Over, In
<1>2. id \in DOMAIN map[a] /\ NodeOK(old, id, map) /\ FrameOK(Frame, map)
  BY <1>1, Itself
<1>3. node.types = old.types /\ node.properties = old.properties
  <2> HIDE DEF old, graph
  <2> QED
    BY <1>2 DEF NodeOK
<1>4. w = World' /\ old = map[a][id]
  BY DEF Looked
<1> HIDE DEF node, g, w, old
<1>5. /\ NodeChanged(World.map, w.map, a, id, node)
      /\ w.names = names /\ w.relabel = relabel
      /\ Update(g) /\ UNCHANGED <<document, outcome>>
      /\ MapSound(World, Occurrences) /\ World.map = map /\ World.names = names /\ World.relabel = relabel
  BY <1>1, <1>2, <1>4, ChangedWorld
<1>6. SaysSame(World.map, w.map)
  BY <1>3, <1>4, <1>5, SaysGraphed
<1>7. More(World, w) /\ MapSound(w, Occurrences)
  BY <1>5, <1>6, NamesSame, SoundSame
<1>8. ASSUME NEW s, At(w, Frame, s), NEW x
      PROVE  Done(w, x, s)
  BY <1>1, <1>8 DEF At, Done, Stating
<1>9. Carries(w, Frame, g)
  BY <1>1, <1>2, <1>8, EndsIt DEF g
<1>10. Work(g) = Work(Frame)
  BY <1>1, <1>2, WorkEnded DEF g
<1> QED
  BY <1>1, <1>4, <1>5, <1>7, <1>9, <1>10, Told

\* Objects are inserted, and the map says no more than before otherwise.
LEMMA InsertedWorld ==
    ASSUME IInv, Stated, Running, NEW id \in DOMAIN map[Frame.active], NEW property, NEW objects, IsSequence(objects),
           NEW g, Change(id, WithObjects(Looked(id), property, objects), g), NEW w, w = World'
    PROVE  /\ More(World, w) /\ Update(g) /\ UNCHANGED <<document, outcome>> /\ FrameOK(Frame, map)
           /\ \A o \in ToSet(objects) : Says(w.map, Frame.active, id, property, o)
           /\ (\A o \in ToSet(objects) : Meant(w, Occurrences, Frame.active, id, property, o)) => MapSound(w, Occurrences)
<1> DEFINE a == Frame.active
           node == WithObjects(Looked(id), property, objects)
<1>1. Change(id, node, g)
  OBVIOUS
<1>2. Looked(id) = map[a][id]
  BY DEF Looked
<1> HIDE DEF node
<1>3. /\ NodeChanged(World.map, w.map, a, id, node)
      /\ w.names = names /\ w.relabel = relabel
      /\ Update(g) /\ UNCHANGED <<document, outcome>>
      /\ FrameOK(Frame, map) /\ NodeOK(map[a][id], id, map)
      /\ MapSound(World, Occurrences) /\ World.map = map /\ World.names = names /\ World.relabel = relabel
  BY <1>1, ChangedWorld
<1> HIDE DEF a
<1>4. SaysMore(World.map, w.map, a, id, property, objects)
  <2>1. NodeOK(World.map[a][id], id, World.map)
    BY <1>3
  <2>2. NodeChanged(World.map, w.map, a, id, WithObjects(World.map[a][id], property, objects))
    BY <1>2, <1>3 DEF node
  <2> QED
    BY <2>1, <2>2, SaysInserted
<1>5. More(World, w)
  BY <1>3, <1>4, NamesSame DEF More, SaysMore
<1>6. ASSUME \A o \in ToSet(objects) : Meant(w, Occurrences, a, id, property, o)
      PROVE  MapSound(w, Occurrences)
  BY <1>3, <1>4, <1>5, <1>6, SoundMap DEF SaysMore
<1> QED
  BY <1>3, <1>4, <1>5, <1>6 DEF a, SaysMore

LEMMA InsertTold ==
    ASSUME IInv, Stated, Insert
    PROVE  Stated'
<1> DEFINE id == Frame.id
           a == Frame.active
           p == Frame.property
           objects == Frame.collected
           g == Ended(Frame)
           w == World'
<1>1. /\ Running /\ Frame.section = "property" /\ Frame.queue = <<>>
      /\ Change(id, WithObjects(Looked(id), p, objects), g)
  BY DEF Insert, Over, In
<1>2. id \in DOMAIN map[a] /\ FrameOK(Frame, map)
  BY <1>1, Itself
<1>3. IsSequence(objects)
  BY <1>2, FrameSections
<1>4. w = World'
  OBVIOUS
<1> HIDE DEF w, g
<1>5. /\ More(World, w) /\ Update(g) /\ UNCHANGED <<document, outcome>>
      /\ \A o \in ToSet(objects) : Says(w.map, a, id, p, o)
      /\ (\A o \in ToSet(objects) : Meant(w, Occurrences, a, id, p, o)) => MapSound(w, Occurrences)
  BY <1>1, <1>2, <1>3, <1>4, InsertedWorld
<1>6. ASSUME NEW x, NEW s, NEW v, NEW o, Treats(w, Frame, x), At(w, Frame, s), Means(w.names, v, o)
      PROVE  Claims(w, x, s, v, a, id, p, o)
  <2>1. Called(w.names, x.graph, a) /\ Called(w.names, Label(x.node), id)
    BY <1>6 DEF Treats, DeclaredAs
  <2>2. s.op = "property" /\ Termed(w.relabel, s.property, p)
    BY <1>1, <1>6 DEF At
  <2> QED
    BY <1>6, <2>1, <2>2 DEF Claims
<1>7. ASSUME NEW s, At(w, Frame, s)
      PROVE  /\ s.op = "property" /\ s.op \in Stating
             /\ \A o \in ToSet(objects) : \E v \in ToSet(s.objects) : Means(w.names, v, o)
  BY <1>1, <1>7 DEF At, Stating
<1> HIDE DEF id, a, p, objects
<1>8. MapSound(w, Occurrences)
  <2>1. PICK x \in Occurrences : Treats(w, Frame, x) /\ \E s \in ToSet(Sections(x.node)) : At(w, Frame, s)
    BY <1>1, <1>5, Treating
  <2>2. PICK s \in ToSet(Sections(x.node)) : At(w, Frame, s)
    BY <2>1
  <2>3. ASSUME NEW o \in ToSet(objects)
        PROVE  Meant(w, Occurrences, a, id, p, o)
    <3>1. PICK v \in ToSet(s.objects) : Means(w.names, v, o)
      BY <1>7, <2>2
    <3>2. Claims(w, x, s, v, a, id, p, o)
      BY <1>6, <2>1, <2>2, <3>1
    <3> QED
      BY <1>7, <2>2, <3>2 DEF Meant
  <2> QED
    BY <1>5, <2>3
<1>9. ASSUME NEW x, NEW s, Treats(w, Frame, x), At(w, Frame, s), Covers(w, Frame, x, s)
      PROVE  Done(w, x, s)
  <2>1. ASSUME NEW v \in ToSet(s.objects)
        PROVE  Recorded(w, x, s, v)
    <3>1. (\E o \in ToSet(objects) : Means(w.names, v, o)) \/ Recorded(w, x, s, v)
      <4>1. ToSet(Frame.queue) = {}
        BY <1>1, EmptySequence
      <4> QED
        BY <1>7, <1>9, <2>1, <4>1 DEF Covers, objects
    <3>2. ASSUME NEW o \in ToSet(objects), Means(w.names, v, o)
          PROVE  Recorded(w, x, s, v)
      <4>1. Claims(w, x, s, v, a, id, p, o) /\ Says(w.map, a, id, p, o)
        BY <1>5, <1>6, <1>9, <3>2
      <4> QED
        BY <4>1 DEF Recorded
    <3> QED
      BY <3>1, <3>2
  <2> QED
    BY <1>7, <1>9, <2>1 DEF Done
<1>10. Carries(w, Frame, g)
  BY <1>1, <1>2, <1>9, EndsIt DEF g
<1>11. Work(g) = Work(Frame)
  BY <1>1, <1>2, WorkEnded DEF g
<1> QED
  BY <1>1, <1>4, <1>5, <1>8, <1>10, <1>11, Told

LEMMA LinkTold ==
    ASSUME IInv, Stated, Link
    PROVE  Stated'
<1> DEFINE subject == Last(Frame.collected).id
           a == Frame.active
           p == Frame.property
           r == Reference(Frame.id)
           g == Linked(Frame)
           w == World'
<1>1. /\ Running /\ Frame.section = "reverse" /\ Frame.collected # <<>>
      /\ Change(subject, WithObjects(Looked(subject), p, <<r>>), g)
  BY DEF Link, In
<1>2. subject \in DOMAIN map[a]
  BY <1>1, SubjectKnown
<1>3. FrameOK(Frame, map)
  BY <1>1, TellsOn
<1>4. ToSet(Frame.collected) = {Last(Frame.collected)}
  <2>1. Frame.collected = <<Frame.collected[1]>>
    BY <1>1, <1>3 DEF FrameOK, Subject
  <2>2. \A x : Last(<<x>>) = x
    BY DEF Last
  <2>3. \A x : ToSet(<<x>>) = {x}
    BY Singleton
  <2> QED
    BY <2>1, <2>2, <2>3
<1>5. \A o \in ToSet(Frame.collected) : o.id = subject
  BY <1>4
<1>6. IsSequence(<<r>>) /\ ToSet(<<r>>) = {r}
  BY Singleton
<1>7. w = World'
  OBVIOUS
<1> HIDE DEF w, g, subject, r
<1>8. /\ More(World, w) /\ Update(g) /\ UNCHANGED <<document, outcome>>
      /\ Says(w.map, a, subject, p, r)
      /\ Meant(w, Occurrences, a, subject, p, r) => MapSound(w, Occurrences)
  <2>1. /\ More(World, w) /\ Update(g) /\ UNCHANGED <<document, outcome>>
        /\ \A o \in ToSet(<<r>>) : Says(w.map, a, subject, p, o)
        /\ (\A o \in ToSet(<<r>>) : Meant(w, Occurrences, a, subject, p, o)) => MapSound(w, Occurrences)
    BY <1>1, <1>2, <1>6, <1>7, InsertedWorld
  <2> QED
    BY <1>6, <2>1
<1>9. ASSUME NEW x, NEW s, NEW v \in ToSet(s.objects), NEW o \in ToSet(Frame.collected),
             Treats(w, Frame, x), At(w, Frame, s), Means(w.names, v, o)
      PROVE  Claims(w, x, s, v, a, subject, p, r)
  <2>1. /\ x.node \in NodeObjects
        /\ Called(w.names, x.graph, a) /\ Called(w.names, Label(x.node), Frame.id)
    BY <1>9 DEF Treats, DeclaredAs
  <2>2. s.op = "reverse" /\ s.property = p /\ v \in NodeObjects
    BY <1>1, <1>9 DEF At
  <2>3. Label(v) \in DOMAIN w.names /\ o = Reference(w.names[Label(v)])
    BY <1>9, <2>2 DEF Means
  <2>4. w.names[Label(v)] = subject
    BY <1>5, <1>9, <2>3 DEF Reference
  <2>5. Label(v) # Default /\ Label(x.node) # Default
    BY <2>1, <2>2, Parts DEF NodeObjects
  <2>6. Called(w.names, Label(v), subject)
    BY <2>3, <2>4, <2>5 DEF Called
  <2>7. Means(w.names, x.node, r)
    <3>1. Label(x.node) \in DOMAIN w.names /\ w.names[Label(x.node)] = Frame.id
      BY <2>1, <2>5 DEF Called
    <3> QED
      BY <2>1, <3>1, MeansNode DEF r
  <2> QED
    BY <2>1, <2>2, <2>6, <2>7 DEF Claims
<1> HIDE DEF a, p
<1>10. MapSound(w, Occurrences)
  <2>1. PICK x \in Occurrences : Treats(w, Frame, x) /\ \E s \in ToSet(Sections(x.node)) : At(w, Frame, s)
    BY <1>1, <1>8, Treating
  <2>2. PICK s \in ToSet(Sections(x.node)) : At(w, Frame, s)
    BY <2>1
  <2>3. s.op \in Stating
    BY <1>1, <2>2 DEF At, Stating
  <2>4. Last(Frame.collected) \in ToSet(Frame.collected)
    BY <1>4
  <2>5. PICK v \in ToSet(s.objects) : Means(w.names, v, Last(Frame.collected))
    BY <2>2, <2>3, <2>4 DEF At
  <2>6. Claims(w, x, s, v, a, subject, p, r)
    BY <1>9, <2>1, <2>2, <2>4, <2>5
  <2>7. Meant(w, Occurrences, a, subject, p, r)
    BY <2>3, <2>6 DEF Meant
  <2> QED
    BY <1>8, <2>7
<1>11. ASSUME NEW x, NEW s, NEW v, NEW o \in ToSet(Frame.collected),
              Treats(w, Frame, x), At(w, Frame, s), v \in ToSet(s.objects), Means(w.names, v, o)
       PROVE  Recorded(w, x, s, v)
  <2>1. Claims(w, x, s, v, a, subject, p, r)
    BY <1>9, <1>11
  <2> QED
    BY <1>8, <2>1 DEF Recorded
<1>12. Carries(w, Frame, g)
  BY <1>1, <1>3, <1>11, LinksIt DEF g
<1>13. Work(g) = Work(Frame)
  <2>1. g.section = Frame.section /\ g.queue = Frame.queue /\ g.sections = Frame.sections /\ Steady(Frame, g)
    BY <1>3 DEF FrameOK, FrameFields, Linked, Steady, g
  <2> QED
    BY <2>1, WorkSame
<1> QED
  BY <1>1, <1>7, <1>8, <1>10, <1>12, <1>13, Told

\* The last call returns.
LEMMA FinishTold ==
    ASSUME IInv, Stated, Finish
    PROVE  Stated'
<1>1. /\ Running /\ Complete(Frame) /\ Len(stack) = 1 /\ stack' = <<>>
      /\ UNCHANGED <<document, map, relabel, names>>
  BY DEF Finish
<1>2. Tale(World, Held(stack), stack, Occurrences)
  BY <1>1, TellsOn
<1>3. DOMAIN stack = {1} /\ stack[1] = Frame /\ Held(<<>>) = Held(stack)
  BY <1>1, NothingHeld
<1>4. \A x, s : ~InHand(World, Frame, x, s)
  BY <1>1, Idle
<1>5. CallsSound(World, <<>>, Occurrences)
  BY EmptySequence DEF CallsSound
<1>6. Kept(World, Held(<<>>), <<>>, Occurrences)
  BY <1>2, <1>3, <1>4 DEF Tale, Kept
<1>7. World' = World /\ Occurrences' = Occurrences
  BY <1>1 DEF World, Occurrences
<1>8. Tale(World', Held(stack'), stack', Occurrences')
  BY <1>1, <1>2, <1>5, <1>6, <1>7 DEF Tale
<1> QED
  BY <1>8 DEF Stated

\* At first, all that the document says is still to be visited.
LEMMA DocumentTold ==
    ASSUME Init, Accounted
    PROVE  Stated
<1> DEFINE f == CallOn("document", Default, None, None, "items", document, <<>>)
<1>1. stack = <<f>> /\ map = [g \in {Default} |-> Empty] /\ outcome = "running"
  BY DEF Init
<1>2. f.kind = "document"
  BY DEF CallOn
<1> HIDE DEF f
<1>3. DOMAIN stack = {1} /\ stack[1] = f
  BY <1>1, Singleton
<1>4. CallsSound(World, stack, Occurrences)
  BY <1>2, <1>3 DEF CallsSound
<1>5. DOMAIN map = {Default} /\ DOMAIN map[Default] = {}
  BY <1>1 DEF Empty
<1>6. MapSound(World, Occurrences)
  BY <1>5, WorldIs DEF MapSound, Says, SaidOf, HasTypes
<1>7. \A x \in Occurrences : Awaited(Held(stack), World.names, x)
  BY <1>1, <1>5, WorldIs DEF Accounted, Account, Covered, Indexed
<1>8. Kept(World, Held(stack), stack, Occurrences)
  BY <1>7 DEF Kept
<1> QED
  BY <1>4, <1>6, <1>8 DEF Stated, Tale

LEMMA StepsTold == IInv /\ Accounted /\ Stated /\ [Next]_vars => Stated'
<1> SUFFICES ASSUME IInv, Accounted, Stated, [Next]_vars
             PROVE  Stated'
  OBVIOUS
<1>1. CASE VisitValue \/ VisitList \/ VisitNode
  BY <1>1, ValueTold, ListTold, NodeTold
<1>2. CASE Leave
  BY <1>2, LeftTold
<1>3. CASE Begin \/ RelabelProperty \/ DeclareGraph
  BY <1>3, BeginTold
<1>4. CASE RelabelType
  BY <1>4, TypeTold
<1>5. CASE SetTypes
  BY <1>5, TypesTold
<1>6. CASE SetGraph
  BY <1>6, GraphTold
<1>7. CASE Insert
  BY <1>7, InsertTold
<1>8. CASE Link
  BY <1>8, LinkTold
<1>9. CASE End
  BY <1>9, EndTold
<1>10. CASE Finish
  BY <1>10, FinishTold
<1>11. CASE Flatten \/ Merge
  BY <1>11 DEF Flatten, Merge, Stated
<1>12. CASE UNCHANGED vars
  <2>1. World' = World /\ Occurrences' = Occurrences /\ stack' = stack /\ outcome' = outcome
    BY <1>12 DEF vars, World, Occurrences
  <2> QED
    BY <2>1 DEF Stated
<1> QED
  BY <1>1, <1>2, <1>3, <1>4, <1>5, <1>6, <1>7, <1>8, <1>9, <1>10, <1>11, <1>12 DEF Next

-----------------------------------------------------------------------------
(* What the map says in the end.                                             *)

LEMMA Occurring ==
    ASSUME document \in Documents
    PROVE  \A x \in Occurrences : x.node \in NodeObjects /\ Label(x.node) # Default
<1>1. document \in Seq(Objects)
  BY NodeMapAssumption
<1>2. \A i \in DOMAIN document : document[i] \in Objects
  BY <1>1, SequenceOver
<1>3. \A x \in Occurrences : \E i \in DOMAIN document : x \in NodesIn[document[i]]
  BY DEF Occurrences
<1>4. \A x \in Occurrences : x \in Placings
  BY <1>2, <1>3, Nested
<1>5. \A x \in Occurrences : x.node \in NodeObjects
  BY <1>4 DEF Placings
<1> QED
  BY <1>5, Parts DEF NodeObjects

\* Labels and terms are called by their names.
LEMMA NameIs ==
    ASSUME IInv
    PROVE  /\ \A l, g : Called(names, l, g) => g = Name(l)
           /\ \A l \in Identifiers : \A t : Termed(relabel, l, t) => t = Name(l)
<1>1. \A l \in DOMAIN names : NameOK(l, names[l], relabel, issued)
  BY DEF IInv, NamesOK
<1>2. Default \notin DOMAIN names /\ Default \notin Blanks
  BY <1>1, NodeMapAssumption DEF NameOK, Identifiers
<1>3. ASSUME NEW l, NEW g, Called(names, l, g)
      PROVE  g = Name(l)
  BY <1>2, <1>3 DEF Called, Name
<1>4. ASSUME NEW l \in Identifiers, NEW t, Termed(relabel, l, t)
      PROVE  t = Name(l)
  <2>1. CASE l \in DOMAIN names
    BY <1>1, <1>4, <2>1, NodeMapAssumption DEF NameOK, Termed, Name, Identifiers
  <2>2. CASE l \notin DOMAIN names
    BY <1>4, <2>2 DEF Termed, Name
  <2> QED
    BY <2>1, <2>2
<1> QED
  BY <1>3, <1>4

\* What a section of an occurrence says of an object in it.
SaysIn(x, s, v) ==
    IF s.op = "property" THEN <<Name(x.graph), Name(Label(x.node)), Name(s.property), Meaning[v]>>
    ELSE <<Name(x.graph), Name(Label(v)), s.property, Meaning[x.node]>>

LEMMA ClaimIs ==
    ASSUME IInv, NEW x, x.node \in NodeObjects, NEW s \in ToSet(Sections(x.node)), s.op \in Stating,
           NEW v, NEW g, NEW n, NEW p, NEW o, Claims(World, x, s, v, g, n, p, o)
    PROVE  <<g, n, p, o>> = SaysIn(x, s, v)
<1>1. /\ Called(names, x.graph, g)
      /\ s.op = "property" => Called(names, Label(x.node), n) /\ Termed(relabel, s.property, p) /\ Means(names, v, o)
      /\ s.op = "reverse" => Called(names, Label(v), n) /\ p = s.property /\ Means(names, x.node, o)
  BY WorldIs DEF Claims
<1>2. g = Name(x.graph)
  BY <1>1, NameIs
<1>3. CASE s.op = "property"
  <2>1. s.property \in Identifiers
    <3>1. IsSection(x.node, s)
      BY SectionsOf
    <3>2. PICK i \in DOMAIN x.node.properties : s = Section("property", x.node.properties[i].property, x.node.properties[i].values)
      BY <1>3, <3>1 DEF IsSection, Section
    <3>3. WellFormed(x.node) /\ x.node.kind = "node"
      BY NodeMapAssumption DEF NodeObjects
    <3>4. x.node.properties[i].property \in Identifiers
      BY <3>3 DEF WellFormed, EntriesOver
    <3> QED
      BY <3>2, <3>4 DEF Section
  <2> QED
    BY <1>1, <1>2, <1>3, <2>1, NameIs, MeansMeaning DEF SaysIn
<1>4. CASE s.op = "reverse"
  BY <1>1, <1>2, <1>4, NameIs, MeansMeaning DEF SaysIn
<1> QED
  BY <1>3, <1>4 DEF Stating

\* The sections that say something are those of the properties.
LEMMA StatingSections ==
    ASSUME NEW o \in NodeObjects
    PROVE  /\ \A e \in ToSet(o.properties) : Section("property", e.property, e.values) \in ToSet(Sections(o))
           /\ \A e \in ToSet(o.reverse) : Section("reverse", e.property, e.values) \in ToSet(Sections(o))
           /\ \A s \in ToSet(Sections(o)) :
                 /\ s.op = "property" => \E e \in ToSet(o.properties) : s = Section("property", e.property, e.values)
                 /\ s.op = "reverse" => \E e \in ToSet(o.reverse) : s = Section("reverse", e.property, e.values)
<1>1. \A s : s \in ToSet(Sections(o)) <=> IsSection(o, s)
  BY SectionsOf
<1>2. ASSUME NEW e \in ToSet(o.properties)
      PROVE  Section("property", e.property, e.values) \in ToSet(Sections(o))
  BY <1>1 DEF IsSection, ToSet
<1>3. ASSUME NEW e \in ToSet(o.reverse)
      PROVE  Section("reverse", e.property, e.values) \in ToSet(Sections(o))
  BY <1>1 DEF IsSection, ToSet
<1>4. \A op, p, vs : Section(op, p, vs).op = op
  BY DEF Section
<1>5. ASSUME NEW s \in ToSet(Sections(o))
      PROVE  /\ s.op = "property" => \E i \in DOMAIN o.properties : s = Section("property", o.properties[i].property, o.properties[i].values)
             /\ s.op = "reverse" => \E i \in DOMAIN o.reverse : s = Section("reverse", o.reverse[i].property, o.reverse[i].values)
  BY <1>1, <1>4, <1>5 DEF IsSection
<1>6. \A e : \A i \in DOMAIN e : e[i] \in ToSet(e)
  BY DEF ToSet
<1> QED
  BY <1>2, <1>3, <1>5, <1>6

LEMMA SectionsSay ==
    ASSUME NEW x, x.node \in NodeObjects, NEW t
    PROVE  t \in PropertiesSay(x) \cup ReversesSay(x) <=>
             \E s \in ToSet(Sections(x.node)) : \E v \in ToSet(s.objects) : s.op \in Stating /\ t = SaysIn(x, s, v)
<1>1. \A op, p, vs : /\ Section(op, p, vs).op = op /\ Section(op, p, vs).property = p
                     /\ Section(op, p, vs).objects = vs
  BY DEF Section
<1>2. ASSUME t \in PropertiesSay(x)
      PROVE  \E s \in ToSet(Sections(x.node)) : \E v \in ToSet(s.objects) : s.op \in Stating /\ t = SaysIn(x, s, v)
  <2>1. PICK e \in ToSet(x.node.properties) : \E v \in Values(e) :
           t = <<Name(x.graph), Name(Label(x.node)), Name(e.property), Meaning[v]>>
    BY <1>2 DEF PropertiesSay
  <2>2. PICK v \in Values(e) : t = <<Name(x.graph), Name(Label(x.node)), Name(e.property), Meaning[v]>>
    BY <2>1
  <2> DEFINE s == Section("property", e.property, e.values)
  <2>3. s \in ToSet(Sections(x.node)) /\ s.op = "property" /\ s.property = e.property /\ s.objects = e.values
    BY <1>1, StatingSections
  <2> HIDE DEF s
  <2>4. t = SaysIn(x, s, v) /\ s.op \in Stating /\ v \in ToSet(s.objects)
    BY <2>2, <2>3 DEF SaysIn, Stating, Values
  <2> QED
    BY <2>3, <2>4
<1>3. ASSUME t \in ReversesSay(x)
      PROVE  \E s \in ToSet(Sections(x.node)) : \E v \in ToSet(s.objects) : s.op \in Stating /\ t = SaysIn(x, s, v)
  <2>1. PICK e \in ToSet(x.node.reverse) : \E v \in Values(e) :
           t = <<Name(x.graph), Name(Label(v)), e.property, Meaning[x.node]>>
    BY <1>3 DEF ReversesSay
  <2>2. PICK v \in Values(e) : t = <<Name(x.graph), Name(Label(v)), e.property, Meaning[x.node]>>
    BY <2>1
  <2> DEFINE s == Section("reverse", e.property, e.values)
  <2>3. s \in ToSet(Sections(x.node)) /\ s.op = "reverse" /\ s.property = e.property /\ s.objects = e.values
    BY <1>1, StatingSections
  <2> HIDE DEF s
  <2>4. t = SaysIn(x, s, v) /\ s.op \in Stating /\ v \in ToSet(s.objects)
    BY <2>2, <2>3 DEF SaysIn, Stating, Values
  <2> QED
    BY <2>3, <2>4
<1>4. ASSUME NEW s \in ToSet(Sections(x.node)), NEW v \in ToSet(s.objects), s.op \in Stating, t = SaysIn(x, s, v)
      PROVE  t \in PropertiesSay(x) \cup ReversesSay(x)
  <2>1. CASE s.op = "property"
    <3>1. PICK e \in ToSet(x.node.properties) : s = Section("property", e.property, e.values)
      BY <2>1, StatingSections
    <3>2. s.property = e.property /\ v \in Values(e)
      BY <1>1, <3>1 DEF Values
    <3>3. t = <<Name(x.graph), Name(Label(x.node)), Name(e.property), Meaning[v]>>
      BY <1>4, <2>1, <3>2 DEF SaysIn
    <3> QED
      BY <3>2, <3>3 DEF PropertiesSay
  <2>2. CASE s.op = "reverse"
    <3>1. PICK e \in ToSet(x.node.reverse) : s = Section("reverse", e.property, e.values)
      BY <2>2, StatingSections
    <3>2. s.property = e.property /\ v \in Values(e)
      BY <1>1, <3>1 DEF Values
    <3>3. t = <<Name(x.graph), Name(Label(v)), e.property, Meaning[x.node]>>
      BY <1>4, <2>2, <3>2 DEF SaysIn
    <3> QED
      BY <3>2, <3>3 DEF ReversesSay
  <2> QED
    BY <1>4, <2>1, <2>2 DEF Stating
<1> QED
  BY <1>2, <1>3, <1>4

LEMMA SaidIs ==
    ASSUME document \in Documents, NEW t
    PROVE  t \in Said <=> \E x \in Occurrences : \E s \in ToSet(Sections(x.node)) : \E v \in ToSet(s.objects) :
                              s.op \in Stating /\ t = SaysIn(x, s, v)
<1>1. Said = UNION {PropertiesSay(x) \cup ReversesSay(x) : x \in Occurrences}
  BY DEF Said
<1>2. t \in Said <=> \E x \in Occurrences : t \in PropertiesSay(x) \cup ReversesSay(x)
  BY <1>1
<1>3. \A x \in Occurrences : x.node \in NodeObjects
  BY Occurring
<1> QED
  BY <1>2, <1>3, SectionsSay

\* What the map says.
LEMMA MappedIs ==
    ASSUME NEW t
    PROVE  t \in Mapped <=> \E g, n, p, o : t = <<g, n, p, o>> /\ Says(map, g, n, p, o)
<1>1. t \in Mapped <=> \E g \in DOMAIN map : t \in Statements(g, map[g])
  BY DEF Mapped
<1>2. \A g : t \in Statements(g, map[g]) <=> Makes(map[g], g, t)
  BY Made
<1> QED
  BY <1>1, <1>2 DEF Makes, Says, SaidOf

\* When the map is done, all that the occurrences say is in it.
LEMMA AllDone ==
    ASSUME Accounted, Stated, outcome = "mapped"
    PROVE  /\ MapSound(World, Occurrences)
           /\ \A x \in Occurrences : Indexed(names, map, x)
           /\ \A x \in Occurrences : \A s \in ToSet(Sections(x.node)) : Done(World, x, s)
<1>1. stack = <<>> /\ Covered(Held(stack), names, map, Occurrences)
  BY DEF Accounted, Account
<1>2. MapSound(World, Occurrences) /\ Kept(World, Held(stack), stack, Occurrences)
  BY DEF Stated, Tale
<1>3. DOMAIN stack = {}
  BY <1>1, EmptySequence
<1>4. DOMAIN Held(stack) = {}
  BY <1>3, HeldIs
<1>5. \A ns, x : ~Awaited(Held(stack), ns, x)
  BY <1>4 DEF Awaited
<1>6. \A x \in Occurrences : Indexed(names, map, x)
  BY <1>1, <1>5 DEF Covered
<1>7. \A x \in Occurrences : \A s \in ToSet(Sections(x.node)) : Done(World, x, s)
  BY <1>2, <1>3, <1>5 DEF Kept
<1> QED
  BY <1>2, <1>6, <1>7

\* What the map says is what the document says.
LEMMA SaysAsMuch ==
    ASSUME IInv, Accounted, Stated, document \in Documents, outcome = "mapped"
    PROVE  Mapped = Said
<1>1. \A x \in Occurrences : x.node \in NodeObjects
  BY Occurring
<1>2. ASSUME NEW t \in Mapped
      PROVE  t \in Said
  <2>1. PICK g, n, p, o : t = <<g, n, p, o>> /\ Says(map, g, n, p, o)
    BY <1>2, MappedIs
  <2>2. Meant(World, Occurrences, g, n, p, o)
    BY <2>1, AllDone, WorldIs DEF MapSound
  <2>3. PICK x \in Occurrences : \E s \in ToSet(Sections(x.node)) : \E v \in ToSet(s.objects) :
           s.op \in Stating /\ Claims(World, x, s, v, g, n, p, o)
    BY <2>2 DEF Meant
  <2>4. PICK s \in ToSet(Sections(x.node)) : \E v \in ToSet(s.objects) :
           s.op \in Stating /\ Claims(World, x, s, v, g, n, p, o)
    BY <2>3
  <2>5. PICK v \in ToSet(s.objects) : s.op \in Stating /\ Claims(World, x, s, v, g, n, p, o)
    BY <2>4
  <2>6. t = SaysIn(x, s, v)
    BY <1>1, <2>1, <2>5, ClaimIs
  <2> QED
    BY <2>5, <2>6, SaidIs
<1>3. ASSUME NEW t \in Said
      PROVE  t \in Mapped
  <2>1. PICK x \in Occurrences : \E s \in ToSet(Sections(x.node)) : \E v \in ToSet(s.objects) :
           s.op \in Stating /\ t = SaysIn(x, s, v)
    BY <1>3, SaidIs
  <2>2. PICK s \in ToSet(Sections(x.node)) : \E v \in ToSet(s.objects) : s.op \in Stating /\ t = SaysIn(x, s, v)
    BY <2>1
  <2>3. PICK v \in ToSet(s.objects) : s.op \in Stating /\ t = SaysIn(x, s, v)
    BY <2>2
  <2>4. Recorded(World, x, s, v)
    BY <2>3, AllDone DEF Done
  <2>5. PICK g, n, p, o : Claims(World, x, s, v, g, n, p, o) /\ Says(map, g, n, p, o)
    BY <2>4, WorldIs DEF Recorded
  <2>6. t = <<g, n, p, o>>
    BY <1>1, <2>3, <2>5, ClaimIs
  <2> QED
    BY <2>5, <2>6, MappedIs
<1> QED
  BY <1>2, <1>3

\* The types of a node are those of one of its occurrences, if any has some.
TypesOf(g, id) == {x.node.types : x \in {y \in Occurrences : Name(y.graph) = g /\ Name(Label(y.node)) = id}}
TypesKept(g, id) ==
    \/ map[g][id].types = None /\ TypesOf(g, id) \subseteq {None}
    \/ \E t \in TypesOf(g, id) \ {None} : map[g][id].types = [i \in DOMAIN t |-> Name(t[i])]

LEMMA TypesAsMuch ==
    ASSUME IInv, Accounted, Stated, document \in Documents, outcome = "mapped",
           NEW g \in DOMAIN map, NEW id \in DOMAIN map[g]
    PROVE  TypesKept(g, id)
<1>1. \A x \in Occurrences : x.node \in NodeObjects
  BY Occurring
<1>2. \A x \in Occurrences : Name(x.graph) = g /\ Name(Label(x.node)) = id => x.node.types \in TypesOf(g, id)
  BY DEF TypesOf
<1>3. \A x, h, n : DeclaredAs(names, x, h, n) => Name(x.graph) = h /\ Name(Label(x.node)) = n
  BY NameIs DEF DeclaredAs
<1>4. map[g][id].types = None \/ map[g][id].types \in Seq(Identifiers)
  BY DEF IInv, MapOK, NodeOK, Neat
<1>5. CASE map[g][id].types = None
  <2>1. ASSUME NEW x \in Occurrences, Name(x.graph) = g, Name(Label(x.node)) = id
        PROVE  x.node.types = None
    <3>1. SUFFICES ASSUME x.node.types # None
                   PROVE  FALSE
      OBVIOUS
    <3> DEFINE s == Section("types", None, x.node.types)
    <3>2. s.op = "types"
      BY DEF Section
    <3>3. IsSection(x.node, s)
      BY <3>1 DEF IsSection
    <3> HIDE DEF s
    <3>4. s \in ToSet(Sections(x.node))
      BY <1>1, <3>3, SectionsOf
    <3>5. PICK h, n : DeclaredAs(names, x, h, n) /\ HasTypes(map, h, n)
      BY <3>2, <3>4, AllDone, WorldIs DEF Done
    <3>6. h = g /\ n = id
      BY <1>3, <2>1, <3>5
    <3> QED
      BY <1>5, <3>5, <3>6 DEF HasTypes
  <2>2. \A t \in TypesOf(g, id) : \E x \in Occurrences : Name(x.graph) = g /\ Name(Label(x.node)) = id /\ t = x.node.types
    BY DEF TypesOf
  <2> QED
    BY <1>5, <2>1, <2>2 DEF TypesKept
<1>6. CASE map[g][id].types # None
  <2>1. TypesMeant(World, Occurrences, g, id)
    BY <1>6, AllDone, WorldIs DEF MapSound, HasTypes
  <2>2. PICK x \in Occurrences :
           /\ DeclaredAs(names, x, g, id) /\ x.node.types # None
           /\ DOMAIN map[g][id].types = DOMAIN x.node.types
           /\ Renders(relabel, x.node.types, map[g][id].types)
    BY <2>1, WorldIs DEF TypesMeant
  <2> DEFINE t == x.node.types
             m == map[g][id].types
  <2>3. t \in Seq(Identifiers)
    BY <1>1, <2>2, NodeMapAssumption DEF NodeObjects, WellFormed
  <2>4. m \in Seq(Identifiers)
    BY <1>4, <1>6
  <2>5. t \in TypesOf(g, id) \ {None}
    BY <1>2, <1>3, <2>2
  <2>6. DOMAIN m = DOMAIN t /\ \A i \in DOMAIN m : Termed(relabel, t[i], m[i])
    BY <2>2 DEF Renders
  <2> HIDE DEF t, m
  <2>7. \A i \in DOMAIN t : t[i] \in Identifiers
    BY <2>3, SequenceOver
  <2>8. \A i \in DOMAIN t : m[i] = Name(t[i])
    BY <2>6, <2>7, NameIs
  <2>9. DOMAIN m = 1 .. Len(m) /\ m = [i \in DOMAIN m |-> m[i]]
    BY <2>4
  <2>10. m = [i \in DOMAIN t |-> Name(t[i])]
    BY <2>6, <2>8, <2>9
  <2> QED
    BY <2>5, <2>10 DEF TypesKept, m
<1> QED
  BY <1>5, <1>6

LEMMA StatedKeeps == IInv /\ Accounted /\ Stated /\ document \in Documents => StatementsKept
<1> SUFFICES ASSUME IInv, Accounted, Stated, document \in Documents, outcome = "mapped"
             PROVE  /\ \A x \in Occurrences : Label(x.node) \in DOMAIN names
                    /\ Mapped = Said
                    /\ \A g \in DOMAIN map : \A id \in DOMAIN map[g] : TypesKept(g, id)
  BY DEF StatementsKept, TypesKept, TypesOf
<1>1. ASSUME NEW x \in Occurrences
      PROVE  Label(x.node) \in DOMAIN names
  <2>1. \E g, id : DeclaredAs(names, x, g, id)
    BY AllDone DEF Indexed
  <2>2. Label(x.node) # Default
    BY Occurring
  <2> QED
    BY <2>1, <2>2 DEF DeclaredAs, Called
<1> QED
  BY <1>1, SaysAsMuch, TypesAsMuch

\* The document is only read.
LEMMA DocumentRead == [Next]_vars => document' = document
<1> SUFFICES ASSUME [Next]_vars
             PROVE  document' = document
  OBVIOUS
<1>1. CASE VisitValue \/ VisitList \/ VisitNode \/ Leave
  BY <1>1 DEF VisitValue, VisitList, VisitNode, Leave, Fail
<1>2. CASE Begin \/ RelabelType \/ SetTypes \/ DeclareGraph \/ SetGraph
  BY <1>2 DEF Begin, RelabelType, SetTypes, DeclareGraph, SetGraph, Change, Fail
<1>3. CASE RelabelProperty \/ Insert \/ Link \/ End
  BY <1>3 DEF RelabelProperty, Insert, Link, End, Change, Fail
<1>4. CASE Finish \/ Flatten \/ Merge
  BY <1>4 DEF Finish, Flatten, Merge
<1>5. CASE UNCHANGED vars
  BY <1>5 DEF vars
<1> QED
  BY <1>1, <1>2, <1>3, <1>4, <1>5 DEF Next

\* The document is one of those that may be given, and all that is known of the map.
Explaining == document \in Documents /\ IInv /\ Accounted /\ Stated

\* The node map says what the document says, and nothing else, for every document:
\* what an occurrence says is still to be visited, in the hands of a call, or in the map.
THEOREM Faithfulness == Spec => []StatementsKept
<1>1. Init => Explaining
  <2>1. Init => document \in Documents
    BY DEF Init
  <2> QED
    BY <2>1, Initially, DocumentAccountedFor, DocumentTold DEF Explaining
<1>2. Explaining /\ [Next]_vars => Explaining'
  <2> SUFFICES ASSUME Explaining, [Next]_vars
               PROVE  Explaining'
    OBVIOUS
  <2>1. document \in Documents /\ IInv /\ Accounted /\ Stated
    BY DEF Explaining
  <2>2. document' \in Documents
    BY <2>1, DocumentRead
  <2>3. IInv' /\ Accounted' /\ Stated'
    BY <2>1, Steps, StepsAccountedFor, StepsTold
  <2> QED
    BY <2>2, <2>3 DEF Explaining
<1>3. Explaining => StatementsKept
  BY StatedKeeps DEF Explaining
<1> QED
  BY <1>1, <1>2, <1>3, PTL DEF Spec

==============================================================================
