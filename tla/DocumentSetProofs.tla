--------------------------- MODULE DocumentSetProofs ---------------------------
(***************************************************************************)
(* ExpandedDocument is a set in insertion order, whatever the hashes of    *)
(* its objects are: the buckets of DocumentSet implement InsertionSet.     *)
(***************************************************************************)
EXTENDS DocumentSet, TLAPS

-----------------------------------------------------------------------------
(* The inductive invariant.                                                *)

IsSeq(s) == s \in Seq({s[i] : i \in DOMAIN s})

\* An entry of the bucket of d points at an object of d; the hash it caches, if
\* any, is that object's.
PointsAt(vector, e, d, i) ==
    /\ e \in [index : {i}, full_hash : {None, FullHash(Key(vector[i]))}]
    /\ Discriminant(Key(vector[i])) = d

Filed(vector, bucket, d) ==
    /\ IsSeq(bucket)
    /\ \A j \in DOMAIN bucket : \E i \in DOMAIN vector : PointsAt(vector, bucket[j], d, i)

\* Every object is found in the bucket of its discriminant.
Found(vector, table, i) ==
    \E d \in DOMAIN table : \E j \in DOMAIN table[d] :
        d = Discriminant(Key(vector[i])) /\ table[d][j].index = i

NoTwoEqual(vector) == \A i, j \in DOMAIN vector : Key(vector[i]) = Key(vector[j]) => i = j

Agree(vector, table) ==
    /\ IsSeq(vector)
    /\ \A d \in DOMAIN table : Filed(vector, table[d], d)
    /\ \A i \in DOMAIN vector : Found(vector, table, i)
    /\ NoTwoEqual(vector)

BucketsAgree == Agree(objects, buckets)

Distinct == NoTwoEqual(objects)

-----------------------------------------------------------------------------
(* Sequences.                                                              *)

\* A sequence over any set is one over its own elements.
LEMMA SeqIsSeq ==
    ASSUME NEW S, NEW t \in Seq(S)
    PROVE  IsSeq(t)
BY DEF IsSeq

\* What Append does to any sequence.
LEMMA Appended ==
    ASSUME NEW s, IsSeq(s), NEW x
    PROVE  /\ IsSeq(Append(s, x))
           /\ DOMAIN s = 1 .. Len(s) /\ Len(s) \in Nat
           /\ DOMAIN Append(s, x) = 1 .. Len(s) + 1
           /\ \A i \in DOMAIN s : Append(s, x)[i] = s[i]
           /\ Append(s, x)[Len(s) + 1] = x
<1> DEFINE S == {s[i] : i \in DOMAIN s}
           t == Append(s, x)
<1>1. s \in Seq(S)
  BY DEF IsSeq
<1>2. s \in Seq(S \cup {x}) /\ DOMAIN s = 1 .. Len(s) /\ Len(s) \in Nat
  BY <1>1
<1>3. t \in Seq(S \cup {x}) /\ Len(t) = Len(s) + 1
  BY <1>2
<1>4. DOMAIN t = 1 .. Len(s) + 1
  BY <1>3
<1>5. \A i \in DOMAIN s : t[i] = s[i]
  BY <1>2
<1>6. t[Len(s) + 1] = x
  BY <1>2
<1>7. IsSeq(t)
  BY <1>3, SeqIsSeq
<1> QED
  BY <1>2, <1>4, <1>5, <1>6, <1>7

\* What Head and Tail take from a sequence that is not empty.
LEMMA Split ==
    ASSUME NEW s, IsSeq(s), s # <<>>
    PROVE  /\ IsSeq(Tail(s))
           /\ Len(s) \in Nat \ {0} /\ DOMAIN s = 1 .. Len(s)
           /\ Len(Tail(s)) = Len(s) - 1 /\ DOMAIN Tail(s) = 1 .. Len(s) - 1
           /\ Head(s) = s[1]
           /\ \A i \in DOMAIN Tail(s) : Tail(s)[i] = s[i + 1]
<1> DEFINE S == {s[i] : i \in DOMAIN s}
           t == Tail(s)
<1>1. s \in Seq(S)
  BY DEF IsSeq
<1>2. DOMAIN s = 1 .. Len(s) /\ Len(s) \in Nat \ {0}
  BY <1>1
<1>3. t \in Seq(S) /\ Len(t) = Len(s) - 1
  BY <1>1
<1>4. DOMAIN t = 1 .. Len(s) - 1
  BY <1>3
<1>5. \A i \in DOMAIN t : t[i] = s[i + 1]
  BY <1>1, <1>2, <1>3
<1>6. IsSeq(t)
  BY <1>3, SeqIsSeq
<1> QED
  BY <1>1, <1>2, <1>3, <1>4, <1>5, <1>6

-----------------------------------------------------------------------------
(* Lookup.                                                                 *)

\* An entry of a bucket hashes as the object it points at, cached or not, so it
\* matches exactly when that object is equal to the one looked for.
LEMMA Matching ==
    ASSUME BucketsAgree, NEW object, NEW j \in DOMAIN Bucket(object)
    PROVE  LET e == Bucket(object)[j]
               d == Discriminant(Key(object))
           IN  /\ d \in DOMAIN buckets /\ Bucket(object) = buckets[d]
               /\ e.index \in DOMAIN objects
               /\ PointsAt(objects, e, d, e.index)
               /\ FullHashOf(e) = FullHash(Key(objects[e.index]))
               /\ Matches(e, object) <=> Key(objects[e.index]) = Key(object)
<1> DEFINE d == Discriminant(Key(object))
           e == Bucket(object)[j]
<1>1. d \in DOMAIN buckets /\ Bucket(object) = buckets[d]
  BY DEF Bucket, BucketAt
<1>2. PICK i \in DOMAIN objects : PointsAt(objects, e, d, i)
  BY <1>1 DEF BucketsAgree, Agree, Filed
<1>3. e.index = i /\ e.full_hash \in {None, FullHash(Key(objects[i]))}
  BY <1>2 DEF PointsAt
<1>4. FullHashOf(e) = FullHash(Key(objects[i]))
  BY <1>3 DEF FullHashOf
<1> QED
  BY <1>1, <1>2, <1>3, <1>4 DEF Matches

\* What insert and contains find is what the vector holds.
LEMMA HoldsByBucket ==
    ASSUME BucketsAgree, NEW object
    PROVE  /\ Candidates(object) # {} <=> Promised!Holds(object)
           /\ (\E j \in DOMAIN Bucket(object) : Key(objects[Bucket(object)[j].index]) = Key(object))
                 <=> Promised!Holds(object)
<1>1. ASSUME NEW j \in DOMAIN Bucket(object), Key(objects[Bucket(object)[j].index]) = Key(object)
      PROVE  Promised!Holds(object)
  BY <1>1, Matching DEF Promised!Holds
<1>2. ASSUME Promised!Holds(object)
      PROVE  \E j \in DOMAIN Bucket(object) : Key(objects[Bucket(object)[j].index]) = Key(object)
  <2>1. PICK i \in DOMAIN objects : Key(objects[i]) = Key(object)
    BY <1>2 DEF Promised!Holds
  <2>2. PICK d \in DOMAIN buckets : \E j \in DOMAIN buckets[d] :
             d = Discriminant(Key(objects[i])) /\ buckets[d][j].index = i
    BY DEF BucketsAgree, Agree, Found
  <2>3. Bucket(object) = buckets[d]
    BY <2>1, <2>2 DEF Bucket, BucketAt
  <2> QED
    BY <2>1, <2>2, <2>3
<1>3. \A j \in DOMAIN Bucket(object) :
         j \in Candidates(object) <=> Key(objects[Bucket(object)[j].index]) = Key(object)
  BY Matching DEF Candidates
<1>4. Candidates(object) \subseteq DOMAIN Bucket(object)
  BY DEF Candidates
<1> QED
  BY <1>1, <1>2, <1>3, <1>4

\* Looking along a bucket fills in hashes: it moves no entry.
LEMMA FilledKeeps ==
    ASSUME BucketsAgree, NEW object
    PROVE  LET d == Discriminant(Key(object))
           IN  /\ IsSeq(Filled(object))
               /\ DOMAIN Filled(object) = DOMAIN Bucket(object)
               /\ \A j \in DOMAIN Filled(object) :
                      LET e == Filled(object)[j]
                      IN  /\ e.index = Bucket(object)[j].index
                          /\ e.index \in DOMAIN objects
                          /\ PointsAt(objects, e, d, e.index)
<1> DEFINE d == Discriminant(Key(object))
           b == Bucket(object)
           f == Filled(object)
<1>1. IsSeq(b)
  <2>1. CASE d \in DOMAIN buckets
    BY <2>1 DEF Bucket, BucketAt, BucketsAgree, Agree, Filed
  <2>2. CASE d \notin DOMAIN buckets
    BY <2>2 DEF Bucket, BucketAt, IsSeq
  <2> QED
    BY <2>1, <2>2
<1>2. DOMAIN f = DOMAIN b
  BY DEF Filled
<1>3. IsSeq(f)
  <2>1. Len(b) \in Nat /\ DOMAIN b = 1 .. Len(b)
    BY <1>1, Appended
  <2>2. f = [i \in 1 .. Len(b) |-> f[i]]
    BY <2>1 DEF Filled
  <2> QED
    BY <1>2, <2>1, <2>2 DEF IsSeq
<1>4. ASSUME NEW j \in DOMAIN f
      PROVE  /\ f[j].index = b[j].index
             /\ f[j].index \in DOMAIN objects
             /\ PointsAt(objects, f[j], d, f[j].index)
  <2>1. /\ b[j].index \in DOMAIN objects
        /\ PointsAt(objects, b[j], d, b[j].index)
        /\ FullHashOf(b[j]) = FullHash(Key(objects[b[j].index]))
    BY <1>2, Matching
  <2>2. f[j] = b[j] \/ f[j] = [b[j] EXCEPT !.full_hash = FullHashOf(b[j])]
    BY <1>2 DEF Filled
  <2> QED
    BY <2>1, <2>2 DEF PointsAt
<1> QED
  BY <1>2, <1>3, <1>4

-----------------------------------------------------------------------------
(* Insertion, the one way objects enter the buckets.                       *)

\* An object that was found is not inserted again: only hashes are filled in.
LEMMA InsertOld ==
    ASSUME BucketsAgree, NEW object, InsertObject(object), Candidates(object) # {}
    PROVE  BucketsAgree'
<1> DEFINE d == Discriminant(Key(object))
           f == Filled(object)
<1>1. objects' = objects /\ buckets' = WithBucket(d, f)
  BY DEF InsertObject
<1>2. PICK first \in DOMAIN Bucket(object) : TRUE
  BY DEF Candidates
<1>3. d \in DOMAIN buckets /\ Bucket(object) = buckets[d]
  BY <1>2, Matching
<1>4. /\ DOMAIN buckets' = DOMAIN buckets
      /\ buckets'[d] = f
      /\ \A e \in DOMAIN buckets : e # d => buckets'[e] = buckets[e]
  BY <1>1, <1>3 DEF WithBucket
<1>5. ASSUME NEW e \in DOMAIN buckets'
      PROVE  Filed(objects', buckets'[e], e)
  <2>1. CASE e = d
    <3>1. buckets'[e] = f
      BY <1>4, <2>1
    <3>2. \A j \in DOMAIN f : \E i \in DOMAIN objects : PointsAt(objects, f[j], d, i)
      BY FilledKeeps
    <3>3. \A j \in DOMAIN f : \E i \in DOMAIN objects' : PointsAt(objects', f[j], d, i)
      BY <1>1, <3>2 DEF PointsAt
    <3> QED
      BY <2>1, <3>1, <3>3, FilledKeeps DEF Filed, PointsAt
  <2>2. CASE e # d
    BY <1>1, <1>4, <2>2 DEF BucketsAgree, Agree, Filed, PointsAt
  <2> QED
    BY <2>1, <2>2
<1>6. ASSUME NEW i \in DOMAIN objects'
      PROVE  Found(objects', buckets', i)
  <2>1. PICK e \in DOMAIN buckets : \E j \in DOMAIN buckets[e] :
             e = Discriminant(Key(objects[i])) /\ buckets[e][j].index = i
    BY <1>1 DEF BucketsAgree, Agree, Found
  <2>2. \E j \in DOMAIN buckets'[e] : buckets'[e][j].index = i
    BY <1>3, <1>4, <2>1, FilledKeeps
  <2> QED
    BY <1>1, <1>4, <2>1, <2>2 DEF Found
<1>7. IsSeq(objects') /\ NoTwoEqual(objects')
  BY <1>1 DEF BucketsAgree, Agree
<1> QED
  BY <1>5, <1>6, <1>7 DEF BucketsAgree, Agree

\* A new object goes to the end of the vector and of its bucket.
LEMMA InsertNew ==
    ASSUME BucketsAgree, NEW object, InsertObject(object), Candidates(object) = {}
    PROVE  BucketsAgree'
<1> DEFINE d == Discriminant(Key(object))
           f == Filled(object)
           new == NewEntry(object)
           n == Len(objects) + 1
<1>1. objects' = Append(objects, object) /\ buckets' = WithBucket(d, Append(f, new))
  BY DEF InsertObject
<1>2. /\ IsSeq(objects')
      /\ DOMAIN objects' = DOMAIN objects \cup {n}
      /\ n \notin DOMAIN objects
      /\ \A i \in DOMAIN objects : objects'[i] = objects[i]
      /\ objects'[n] = object
  <2>1. IsSeq(objects)
    BY DEF BucketsAgree, Agree
  <2>2. /\ DOMAIN objects = 1 .. Len(objects) /\ Len(objects) \in Nat
        /\ DOMAIN objects' = 1 .. n
    BY <1>1, <2>1, Appended
  <2> QED
    BY <1>1, <2>1, <2>2, Appended
<1>3. /\ IsSeq(Append(f, new))
      /\ DOMAIN Append(f, new) = DOMAIN f \cup {Len(f) + 1}
      /\ \A j \in DOMAIN f : Append(f, new)[j] = f[j]
      /\ Append(f, new)[Len(f) + 1] = new
  <2>1. IsSeq(f)
    BY FilledKeeps
  <2>2. DOMAIN f = 1 .. Len(f) /\ Len(f) \in Nat /\ DOMAIN Append(f, new) = 1 .. Len(f) + 1
    BY <2>1, Appended
  <2> QED
    BY <2>1, <2>2, Appended
<1>4. /\ DOMAIN buckets' = DOMAIN buckets \cup {d}
      /\ buckets'[d] = Append(f, new)
      /\ \A e \in DOMAIN buckets : e # d => buckets'[e] = buckets[e]
  BY <1>1 DEF WithBucket
<1>5. PointsAt(objects', new, d, n)
  BY <1>2 DEF PointsAt, NewEntry
<1>6. ASSUME NEW entry, NEW e, NEW i \in DOMAIN objects, PointsAt(objects, entry, e, i)
      PROVE  i \in DOMAIN objects' /\ PointsAt(objects', entry, e, i)
  BY <1>2, <1>6 DEF PointsAt
<1>7. ASSUME NEW e \in DOMAIN buckets'
      PROVE  Filed(objects', buckets'[e], e)
  <2>1. CASE e = d
    <3>1. ASSUME NEW j \in DOMAIN f
          PROVE  \E i \in DOMAIN objects' : PointsAt(objects', f[j], d, i)
      <4>1. f[j].index \in DOMAIN objects /\ PointsAt(objects, f[j], d, f[j].index)
        BY FilledKeeps
      <4> QED
        BY <1>6, <4>1
    <3>2. \A j \in DOMAIN Append(f, new) : \E i \in DOMAIN objects' : PointsAt(objects', Append(f, new)[j], d, i)
      BY <1>2, <1>3, <1>5, <3>1
    <3> QED
      BY <1>3, <1>4, <2>1, <3>2 DEF Filed, PointsAt
  <2>2. CASE e # d
    <3>1. e \in DOMAIN buckets /\ buckets'[e] = buckets[e] /\ Filed(objects, buckets[e], e)
      BY <1>4, <2>2 DEF BucketsAgree, Agree
    <3>2. \A j \in DOMAIN buckets[e] : \E i \in DOMAIN objects' : PointsAt(objects', buckets[e][j], e, i)
      BY <1>6, <3>1 DEF Filed
    <3> QED
      BY <3>1, <3>2 DEF Filed, PointsAt
  <2> QED
    BY <2>1, <2>2
<1>8. ASSUME NEW i \in DOMAIN objects'
      PROVE  Found(objects', buckets', i)
  <2>1. CASE i = n
    <3>1. Len(f) + 1 \in DOMAIN buckets'[d] /\ buckets'[d][Len(f) + 1].index = n
      BY <1>3, <1>4 DEF NewEntry
    <3> QED
      BY <1>2, <1>4, <2>1, <3>1 DEF Found
  <2>2. CASE i \in DOMAIN objects
    <3>1. PICK e \in DOMAIN buckets : \E j \in DOMAIN buckets[e] :
               e = Discriminant(Key(objects[i])) /\ buckets[e][j].index = i
      BY <2>2 DEF BucketsAgree, Agree, Found
    <3>2. CASE e = d
      <4>1. Bucket(object) = buckets[e]
        BY <3>2 DEF Bucket, BucketAt
      <4>2. \E j \in DOMAIN f : f[j].index = i
        BY <3>1, <4>1, FilledKeeps
      <4>3. \E j \in DOMAIN buckets'[e] : buckets'[e][j].index = i
        BY <1>3, <1>4, <3>2, <4>2
      <4> QED
        BY <1>2, <1>4, <2>2, <3>1, <4>3 DEF Found
    <3>3. CASE e # d
      BY <1>2, <1>4, <2>2, <3>1, <3>3 DEF Found
    <3> QED
      BY <3>2, <3>3
  <2> QED
    BY <1>2, <2>1, <2>2
<1>9. NoTwoEqual(objects')
  <2>1. \A i \in DOMAIN objects : Key(objects[i]) # Key(object)
    BY HoldsByBucket DEF Promised!Holds
  <2> QED
    BY <1>2, <2>1 DEF BucketsAgree, Agree, NoTwoEqual
<1> QED
  BY <1>2, <1>7, <1>8, <1>9 DEF BucketsAgree, Agree

\* Whoever inserts, the set takes a step its promise allows.
LEMMA InsertPromised ==
    ASSUME BucketsAgree, NEW object, InsertObject(object)
    PROVE  BucketsAgree' /\ Promised!Insert
<1>1. BucketsAgree'
  BY InsertOld, InsertNew
<1>2. call'.op = "insert" /\ call'.object = object /\ call'.answer = (Candidates(object) = {})
  BY DEF InsertObject
<1>3. Candidates(object) = {} <=> ~Promised!Holds(object)
  BY HoldsByBucket
<1>4. objects' = IF Promised!Holds(object) THEN objects ELSE Append(objects, object)
  BY <1>3 DEF InsertObject
<1>5. Promised!Holds(object) \in BOOLEAN
  BY DEF Promised!Holds
<1>6. call'.answer = ~Promised!Holds(object)
  BY <1>2, <1>3, <1>5
<1> QED
  BY <1>1, <1>2, <1>4, <1>6 DEF Promised!Insert

-----------------------------------------------------------------------------
(* The steps of the module.                                                *)

LEMMA InitAgrees == SetInit => BucketsAgree /\ Promised!Init
<1> SUFFICES ASSUME SetInit PROVE BucketsAgree /\ Promised!Init
  OBVIOUS
<1>1. DOMAIN objects = {} /\ DOMAIN buckets = {}
  BY DEF SetInit
<1>2. IsSeq(objects)
  BY DEF SetInit, IsSeq
<1> QED
  BY <1>1, <1>2 DEF SetInit, BucketsAgree, Agree, NoTwoEqual, Promised!Init

\* Every step keeps the invariant and is a step of the promise or a stutter.
LEMMA StepPromised ==
    ASSUME BucketsAgree, [SetNext]_setVars
    PROVE  BucketsAgree' /\ [Promised!Next]_<<objects, call>>
<1>1. ASSUME NEW o \in Objects, Insert(o)
      PROVE  BucketsAgree' /\ Promised!Next
  BY <1>1, InsertPromised DEF Insert, Promised!Next
<1>2. ASSUME NEW o \in Objects, Lookup(o)
      PROVE  BucketsAgree' /\ Promised!Next
  <2>1. /\ UNCHANGED <<objects, buckets>>
        /\ call'.op = "contains" /\ call'.object = o
        /\ call'.answer = \E j \in DOMAIN Bucket(o) : Key(objects[Bucket(o)[j].index]) = Key(o)
    BY <1>2 DEF Lookup
  <2>2. call'.answer = Promised!Holds(o)
    BY <2>1, HoldsByBucket DEF Promised!Holds
  <2>3. BucketsAgree'
    BY <2>1 DEF BucketsAgree
  <2> QED
    BY <2>1, <2>2, <2>3 DEF Promised!Next, Promised!Contains
<1>3. ASSUME NEW name \in Passes, Drain(name)
      PROVE  BucketsAgree' /\ Promised!Next
  <2>1. objects' = <<>> /\ DOMAIN buckets' = {} /\ call'.op = "drain"
    BY <1>3 DEF Drain
  <2>2. BucketsAgree'
    BY <2>1 DEF BucketsAgree, Agree, IsSeq, NoTwoEqual
  <2> QED
    BY <2>1, <2>2 DEF Promised!Next, Promised!Drain
<1>4. ASSUME RewriteNext
      PROVE  BucketsAgree' /\ Promised!Next
  BY <1>4, InsertPromised DEF RewriteNext, Promised!Next
<1>5. ASSUME PutBackNext
      PROVE  BucketsAgree' /\ Promised!Next
  BY <1>5, InsertPromised DEF PutBackNext, Promised!Next
<1>6. ASSUME EndPass \/ UNCHANGED setVars
      PROVE  BucketsAgree' /\ UNCHANGED <<objects, call>>
  <2>1. UNCHANGED <<objects, buckets, call>>
    BY <1>6 DEF EndPass, setVars
  <2> QED
    BY <2>1 DEF BucketsAgree
<1> QED
  BY <1>1, <1>2, <1>3, <1>4, <1>5, <1>6 DEF SetNext

-----------------------------------------------------------------------------
(* The theorems.                                                           *)

\* The buckets always agree with the vector: an entry points at an object of its
\* discriminant, every object is in its bucket, and none is there twice under two
\* indices (expanded.rs: insert, insert_hashed and the passes that drain).
THEOREM Agreement == SetSpec => []BucketsAgree
<1>1. BucketsAgree /\ [SetNext]_setVars => BucketsAgree'
  BY StepPromised
<1> QED
  BY InitAgrees, <1>1, PTL DEF SetSpec

\* ExpandedDocument serves a set in insertion order: each answer of insert and of
\* contains is the one the objects inserted so far determine, for any hashes, any
\* collisions between them and any pass that rewrites the objects.
THEOREM Refinement == SetSpec => ServesASet
<1>1. BucketsAgree /\ [SetNext]_setVars => [Promised!Next]_<<objects, call>>
  BY StepPromised
<1> QED
  BY InitAgrees, <1>1, Agreement, PTL DEF SetSpec, ServesASet, Promised!Spec

\* The vector never holds two equal objects, not even when a pass rewrites two
\* objects into one.
THEOREM NoDuplicates == SetSpec => []Distinct
<1>1. BucketsAgree => Distinct
  BY DEF BucketsAgree, Agree, Distinct
<1> QED
  BY <1>1, Agreement, PTL

-----------------------------------------------------------------------------
(* A rewriting pass.                                                       *)

Rewritten(name, before, after) == \E state : after = Rewrite(name, before, state).object

\* What has been put back came out of the pass, in the order it went in; behind
\* an object the pass failed on, everything is as it was.
PutBack(p) ==
    IF p.failed THEN \E n \in DOMAIN p.after :
                        /\ \A i \in 1 .. n : Rewritten(p.name, p.before[i], p.after[i])
                        /\ \A i \in n + 1 .. Len(p.after) : p.after[i] = p.before[i]
    ELSE \A i \in DOMAIN p.after : Rewritten(p.name, p.before[i], p.after[i])

\* The document holds what has been put back and nothing else.
HoldsJust(vector, after) ==
    /\ \A i \in DOMAIN after : \E j \in DOMAIN vector : Key(vector[j]) = Key(after[i])
    /\ \A j \in DOMAIN vector : \E i \in DOMAIN after : vector[j] = after[i]

Underway(p, vector) ==
    /\ {"name", "rest", "state", "failed", "before", "after"} \subseteq DOMAIN p
    /\ IsSeq(p.before) /\ IsSeq(p.rest) /\ IsSeq(p.after)
    /\ Len(p.before) = Len(p.after) + Len(p.rest)
    /\ \A i \in DOMAIN p.rest : p.rest[i] = p.before[Len(p.after) + i]
    /\ p.failed \in BOOLEAN /\ PutBack(p)
    /\ HoldsJust(vector, p.after)

PassConserves == pass # None => Underway(pass, objects)

NeverTruncated ==
    pass # None /\ pass.rest = <<>> =>
        /\ Len(pass.after) = Len(pass.before)
        /\ PutBack(pass)
        /\ HoldsJust(objects, pass.after)

\* The vector after an insertion holds what it held, and the object.
LEMMA InsertHolds ==
    ASSUME BucketsAgree, NEW object, InsertObject(object),
           NEW after, IsSeq(after), HoldsJust(objects, after)
    PROVE  HoldsJust(objects', Append(after, object))
<1> DEFINE more == Append(after, object)
<1>1. /\ DOMAIN more = DOMAIN after \cup {Len(after) + 1}
      /\ \A i \in DOMAIN after : more[i] = after[i]
      /\ more[Len(after) + 1] = object
  <2>1. DOMAIN after = 1 .. Len(after) /\ Len(after) \in Nat /\ DOMAIN more = 1 .. Len(after) + 1
    BY Appended
  <2> QED
    BY <2>1, Appended
<1>2. CASE Candidates(object) = {}
  <2>1. IsSeq(objects) /\ objects' = Append(objects, object)
    BY <1>2 DEF InsertObject, BucketsAgree, Agree
  <2>2. /\ DOMAIN objects' = 1 .. Len(objects) + 1
        /\ DOMAIN objects = 1 .. Len(objects) /\ Len(objects) \in Nat
    BY <2>1, Appended
  <2>3. /\ DOMAIN objects' = DOMAIN objects \cup {Len(objects) + 1}
        /\ \A j \in DOMAIN objects : objects'[j] = objects[j]
        /\ objects'[Len(objects) + 1] = object
    BY <2>1, <2>2, Appended
  <2>4. ASSUME NEW i \in DOMAIN more
        PROVE  \E j \in DOMAIN objects' : Key(objects'[j]) = Key(more[i])
    <3>1. CASE i \in DOMAIN after
      <4>1. PICK j \in DOMAIN objects : Key(objects[j]) = Key(after[i])
        BY <3>1 DEF HoldsJust
      <4> QED
        BY <1>1, <2>3, <3>1, <4>1
    <3>2. CASE i = Len(after) + 1
      BY <1>1, <2>3, <3>2
    <3> QED
      BY <1>1, <3>1, <3>2
  <2>5. ASSUME NEW j \in DOMAIN objects'
        PROVE  \E i \in DOMAIN more : objects'[j] = more[i]
    <3>1. CASE j \in DOMAIN objects
      <4>1. PICK i \in DOMAIN after : objects[j] = after[i]
        BY <3>1 DEF HoldsJust
      <4> QED
        BY <1>1, <2>3, <3>1, <4>1
    <3>2. CASE j = Len(objects) + 1
      BY <1>1, <2>3, <3>2
    <3> QED
      BY <2>3, <3>1, <3>2
  <2> QED
    BY <2>4, <2>5 DEF HoldsJust
<1>3. CASE Candidates(object) # {}
  <2>1. objects' = objects /\ \E j \in DOMAIN objects : Key(objects[j]) = Key(object)
    BY <1>3, HoldsByBucket DEF InsertObject, Promised!Holds
  <2>2. ASSUME NEW i \in DOMAIN more
        PROVE  \E j \in DOMAIN objects : Key(objects[j]) = Key(more[i])
    <3>1. CASE i \in DOMAIN after
      BY <1>1, <3>1 DEF HoldsJust
    <3>2. CASE i = Len(after) + 1
      BY <1>1, <2>1, <3>2
    <3> QED
      BY <1>1, <3>1, <3>2
  <2>3. \A j \in DOMAIN objects : \E i \in DOMAIN more : objects[j] = more[i]
    BY <1>1 DEF HoldsJust
  <2> QED
    BY <2>1, <2>2, <2>3 DEF HoldsJust
<1> QED
  BY <1>2, <1>3

\* Moving the head of what is left, rewritten or not, to what has been put back.
LEMMA Moved ==
    ASSUME BucketsAgree, PassConserves, pass # None, pass.rest # <<>>,
           NEW object, InsertObject(object),
           NEW p, {"name", "rest", "state", "failed", "before", "after"} \subseteq DOMAIN p,
           p.name = pass.name, p.before = pass.before,
           p.rest = Tail(pass.rest), p.after = Append(pass.after, object),
           p.failed \in BOOLEAN, PutBack(p)
    PROVE  Underway(p, objects')
<1>1. Underway(pass, objects)
  BY DEF PassConserves
<1>2. IsSeq(p.before) /\ IsSeq(p.rest) /\ IsSeq(p.after)
  BY <1>1, Split, Appended DEF Underway
<1>3. /\ Len(pass.after) \in Nat
      /\ DOMAIN p.after = 1 .. Len(pass.after) + 1
  BY <1>1, Appended DEF Underway
<1>4. Len(p.after) = Len(pass.after) + 1
  BY <1>2, <1>3, Appended
<1>5. /\ Len(pass.rest) \in Nat /\ Len(p.rest) = Len(pass.rest) - 1
      /\ DOMAIN p.rest = 1 .. Len(pass.rest) - 1 /\ DOMAIN pass.rest = 1 .. Len(pass.rest)
      /\ \A i \in DOMAIN p.rest : p.rest[i] = pass.rest[i + 1]
  BY <1>1, Split DEF Underway
<1>6. Len(p.before) = Len(p.after) + Len(p.rest)
  BY <1>1, <1>3, <1>4, <1>5 DEF Underway
<1>7. \A i \in DOMAIN p.rest : p.rest[i] = p.before[Len(p.after) + i]
  BY <1>1, <1>3, <1>4, <1>5 DEF Underway
<1>8. HoldsJust(objects', p.after)
  BY <1>1, InsertHolds DEF Underway
<1> QED
  BY <1>2, <1>6, <1>7, <1>8 DEF Underway

\* The pass rewrites its next object.
LEMMA RewriteNextConserves ==
    ASSUME BucketsAgree, PassConserves, RewriteNext
    PROVE  PassConserves'
<1> DEFINE r == Rewrite(pass.name, Head(pass.rest), pass.state)
<1>1. /\ pass # None /\ pass.rest # <<>> /\ ~pass.failed /\ InsertObject(r.object)
      /\ pass' = [pass EXCEPT !.rest = Tail(pass.rest), !.after = Append(pass.after, r.object),
                              !.state = r.state, !.failed = ~r.ok]
  BY DEF RewriteNext
<1>2. Underway(pass, objects)
  BY <1>1 DEF PassConserves
<1>3. /\ {"name", "rest", "state", "failed", "before", "after"} \subseteq DOMAIN pass'
      /\ pass'.name = pass.name /\ pass'.before = pass.before
      /\ pass'.rest = Tail(pass.rest) /\ pass'.after = Append(pass.after, r.object)
      /\ pass'.failed = ~r.ok
  BY <1>1, <1>2 DEF Underway
<1>4. /\ DOMAIN pass'.after = 1 .. Len(pass.after) + 1 /\ Len(pass.after) \in Nat
      /\ DOMAIN pass.after = 1 .. Len(pass.after)
      /\ \A i \in DOMAIN pass.after : pass'.after[i] = pass.after[i]
      /\ pass'.after[Len(pass.after) + 1] = r.object
      /\ IsSeq(pass'.after)
  BY <1>2, <1>3, Appended DEF Underway
<1>5. Len(pass'.after) = Len(pass.after) + 1
  BY <1>4, Appended
<1>6. Head(pass.rest) = pass.before[Len(pass.after) + 1]
  BY <1>1, <1>2, <1>4, Split DEF Underway
<1>7. \A i \in 1 .. Len(pass.after) + 1 : Rewritten(pass'.name, pass'.before[i], pass'.after[i])
  <2>1. \A i \in 1 .. Len(pass.after) : Rewritten(pass.name, pass.before[i], pass.after[i])
    BY <1>1, <1>2, <1>4 DEF Underway, PutBack
  <2>2. Rewritten(pass'.name, pass'.before[Len(pass.after) + 1], pass'.after[Len(pass.after) + 1])
    BY <1>3, <1>4, <1>6 DEF Rewritten
  <2> QED
    BY <1>3, <1>4, <2>1, <2>2
<1>8. pass'.failed \in BOOLEAN
  BY <1>3, Zenon
<1>9. PutBack(pass')
  <2>1. CASE pass'.failed
    BY <1>4, <1>5, <1>7, <2>1 DEF PutBack
  <2>2. CASE ~pass'.failed
    BY <1>4, <1>7, <2>2 DEF PutBack
  <2> QED
    BY <2>1, <2>2
<1>10. Underway(pass', objects')
  BY <1>1, <1>3, <1>8, <1>9, Moved
<1> QED
  BY <1>10 DEF PassConserves

\* After a failure the next object goes back as it was.
LEMMA PutBackNextConserves ==
    ASSUME BucketsAgree, PassConserves, PutBackNext
    PROVE  PassConserves'
<1>1. /\ pass # None /\ pass.rest # <<>> /\ pass.failed /\ InsertObject(Head(pass.rest))
      /\ pass' = [pass EXCEPT !.rest = Tail(pass.rest), !.after = Append(pass.after, Head(pass.rest))]
  BY DEF PutBackNext
<1>2. Underway(pass, objects)
  BY <1>1 DEF PassConserves
<1>3. /\ {"name", "rest", "state", "failed", "before", "after"} \subseteq DOMAIN pass'
      /\ pass'.name = pass.name /\ pass'.before = pass.before
      /\ pass'.rest = Tail(pass.rest) /\ pass'.after = Append(pass.after, Head(pass.rest))
      /\ pass'.failed = pass.failed
  BY <1>1, <1>2 DEF Underway
<1>4. /\ DOMAIN pass'.after = 1 .. Len(pass.after) + 1 /\ Len(pass.after) \in Nat
      /\ DOMAIN pass.after = 1 .. Len(pass.after)
      /\ \A i \in DOMAIN pass.after : pass'.after[i] = pass.after[i]
      /\ pass'.after[Len(pass.after) + 1] = Head(pass.rest)
      /\ IsSeq(pass'.after)
  BY <1>2, <1>3, Appended DEF Underway
<1>5. Len(pass'.after) = Len(pass.after) + 1
  BY <1>4, Appended
<1>6. Head(pass.rest) = pass.before[Len(pass.after) + 1]
  BY <1>1, <1>2, <1>4, Split DEF Underway
<1>7. PICK n \in DOMAIN pass.after :
          /\ \A i \in 1 .. n : Rewritten(pass.name, pass.before[i], pass.after[i])
          /\ \A i \in n + 1 .. Len(pass.after) : pass.after[i] = pass.before[i]
  BY <1>1, <1>2 DEF Underway, PutBack
<1>8. /\ n \in DOMAIN pass'.after
      /\ \A i \in 1 .. n : Rewritten(pass'.name, pass'.before[i], pass'.after[i])
      /\ \A i \in n + 1 .. Len(pass'.after) : pass'.after[i] = pass'.before[i]
  BY <1>3, <1>4, <1>5, <1>6, <1>7
<1>9. PutBack(pass')
  BY <1>1, <1>3, <1>8 DEF PutBack
<1>10. pass'.failed \in BOOLEAN
  BY <1>2, <1>3 DEF Underway
<1>11. Underway(pass', objects')
  BY <1>1, <1>3, <1>9, <1>10, Moved
<1> QED
  BY <1>11 DEF PassConserves

\* No object is lost in a rewriting, whether the generator of identifiers lasts or
\* not: each one went back in its place, and the document holds exactly these
\* (expanded.rs try_rewrite: "the document is never truncated on the error path").
THEOREM Conservation == SetSpec => []NeverTruncated
<1>1. SetInit => PassConserves
  BY DEF SetInit, PassConserves
<1>2. ASSUME BucketsAgree, PassConserves, [SetNext]_setVars
      PROVE  PassConserves'
  <2>1. ASSUME NEW o \in Objects, Insert(o) \/ Lookup(o)
        PROVE  PassConserves'
    BY <2>1 DEF Insert, Lookup, PassConserves
  <2>2. ASSUME NEW name \in Passes, Drain(name)
        PROVE  PassConserves'
    <3>1. objects' = <<>> /\ pass' = [name |-> name, rest |-> objects, state |-> Start(name),
                                      failed |-> FALSE, before |-> objects, after |-> <<>>]
      BY <2>2 DEF Drain
    <3>2. IsSeq(objects) /\ IsSeq(<<>>)
      BY <1>2 DEF BucketsAgree, Agree, IsSeq
    <3>3. Len(objects) \in Nat /\ Len(<<>>) = 0 /\ DOMAIN <<>> = {}
      BY <3>2, Appended
    <3>4. Underway(pass', objects')
      BY <3>1, <3>2, <3>3 DEF Underway, PutBack, HoldsJust
    <3> QED
      BY <3>4 DEF PassConserves
  <2>3. CASE RewriteNext
    BY <1>2, <2>3, RewriteNextConserves
  <2>4. CASE PutBackNext
    BY <1>2, <2>4, PutBackNextConserves
  <2>5. CASE EndPass
    BY <2>5 DEF EndPass, PassConserves
  <2>6. CASE UNCHANGED setVars
    BY <1>2, <2>6 DEF setVars, PassConserves
  <2> QED
    BY <1>2, <2>1, <2>2, <2>3, <2>4, <2>5, <2>6 DEF SetNext
<1>3. BucketsAgree /\ PassConserves => NeverTruncated
  <2> SUFFICES ASSUME PassConserves, pass # None, pass.rest = <<>>
               PROVE  NeverTruncated
    BY DEF NeverTruncated
  <2>1. Underway(pass, objects)
    BY DEF PassConserves
  <2>2. Len(pass.rest) = 0 /\ Len(pass.after) \in Nat
    BY <2>1, Appended DEF Underway
  <2> QED
    BY <2>1, <2>2 DEF Underway, NeverTruncated
<1> QED
  BY <1>1, <1>2, <1>3, Agreement, PTL DEF SetSpec

=============================================================================
