------------------------------- MODULE DocumentSet -------------------------------
(***************************************************************************)
(* ExpandedDocument (jsonld-core/src/document/expanded.rs): the objects of *)
(* a document in insertion order, deduplicated through buckets of a        *)
(* shallow hash.  An entry of a bucket caches the hash of its whole object *)
(* once the bucket has had a second candidate.                             *)
(*                                                                         *)
(* The passes that rewrite every object (identify_all, relabel,            *)
(* canonicalize) drain the document and insert each object again, and may  *)
(* stop half way when the generator of identifiers fails.                  *)
(***************************************************************************)
EXTENDS Naturals, Sequences, FiniteSets

CONSTANTS
    Objects,          \* the objects callers insert and look for
    Key(_),           \* Eq: equal objects have the same key
    Discriminant(_),  \* the hash of the shallow fields, which a key keeps
    FullHash(_),      \* the hash of the whole object; both may collide
    Passes,           \* the rewriting passes
    Start(_),         \* what a pass carries from object to object, at first
    Rewrite(_, _, _), \* one object under a pass: [object, state, ok]
    None

VARIABLES
    objects,   \* the vector of objects
    buckets,   \* discriminant -> Seq([index, full_hash])
    pass,      \* the rewriting under way, None between passes
    call       \* the last call on the set: [op, object, answer]

setVars == <<objects, buckets, pass, call>>

-----------------------------------------------------------------------------
(* Lookup.                                                                   *)

BucketAt(d) == IF d \in DOMAIN buckets THEN buckets[d] ELSE <<>>
Bucket(object) == BucketAt(Discriminant(Key(object)))

FullHashOf(entry) == IF entry.full_hash = None THEN FullHash(Key(objects[entry.index])) ELSE entry.full_hash

\* Mutant: equal hashes pass for equal objects.
Matches_ByHash(entry, object) == FullHashOf(entry) = FullHash(Key(object))

Matches(entry, object) ==
    /\ FullHashOf(entry) = FullHash(Key(object))
    /\ Key(objects[entry.index]) = Key(object)

Candidates(object) == {i \in DOMAIN Bucket(object) : Matches(Bucket(object)[i], object)}

\* The loop stops at the first match; each entry it looked at keeps its hash.
Looked(object) ==
    {i \in DOMAIN Bucket(object) : \A j \in Candidates(object) : i <= j}

Filled(object) ==
    [i \in DOMAIN Bucket(object) |->
        IF i \in Looked(object) THEN [Bucket(object)[i] EXCEPT !.full_hash = FullHashOf(Bucket(object)[i])]
        ELSE Bucket(object)[i]]

NewEntry(object) ==
    [index |-> Len(objects) + 1,
     full_hash |-> IF Bucket(object) = <<>> THEN None ELSE FullHash(Key(object))]

WithBucket(d, bucket) == [e \in DOMAIN buckets \cup {d} |-> IF e = d THEN bucket ELSE buckets[e]]

\* insert, which answers whether the object was new.
InsertObject(object) ==
    LET d == Discriminant(Key(object))
    IN  /\ call' = [op |-> "insert", object |-> object, answer |-> Candidates(object) = {}]
        /\ IF Candidates(object) = {}
           THEN /\ objects' = Append(objects, object)
                /\ buckets' = WithBucket(d, Append(Filled(object), NewEntry(object)))
           ELSE /\ buckets' = WithBucket(d, Filled(object))
                /\ UNCHANGED objects

-----------------------------------------------------------------------------

Insert(object) == pass = None /\ InsertObject(object) /\ UNCHANGED pass

\* contains, which looks at no hash of a whole object.
Lookup(object) ==
    /\ pass = None
    /\ call' = [op |-> "contains", object |-> object,
                answer |-> \E i \in DOMAIN Bucket(object) :
                              Key(objects[Bucket(object)[i].index]) = Key(object)]
    /\ UNCHANGED <<objects, buckets, pass>>

\* try_rewrite drains the document; `before` and `after` record what it was given
\* and what was put back.
Drain(name) ==
    /\ pass = None
    /\ objects' = <<>> /\ buckets' = [d \in {} |-> <<>>]
    /\ pass' = [name |-> name, rest |-> objects, state |-> Start(name), failed |-> FALSE, before |-> objects, after |-> <<>>]
    /\ call' = [op |-> "drain"]

\* The object is put back whether or not it was rewritten to its end.
RewriteNext ==
    /\ pass # None /\ pass.rest # <<>> /\ ~pass.failed
    /\ LET r == Rewrite(pass.name, Head(pass.rest), pass.state)
       IN  /\ InsertObject(r.object)
           /\ pass' = [pass EXCEPT !.rest = Tail(@), !.after = Append(@, r.object),
                                   !.state = r.state, !.failed = ~r.ok]

\* After a failure the remainder is put back as it was.
PutBackNext ==
    /\ pass # None /\ pass.rest # <<>> /\ pass.failed
    /\ InsertObject(Head(pass.rest))
    /\ pass' = [pass EXCEPT !.rest = Tail(@), !.after = Append(@, Head(pass.rest))]

EndPass ==
    /\ pass # None /\ pass.rest = <<>>
    /\ pass' = None
    /\ UNCHANGED <<objects, buckets, call>>

SetInit ==
    /\ objects = <<>>
    /\ buckets = [d \in {} |-> <<>>]
    /\ pass = None
    /\ call = [op |-> "new"]

SetNext ==
    \/ \E o \in Objects : Insert(o) \/ Lookup(o)
    \/ \E name \in Passes : Drain(name)
    \/ RewriteNext \/ PutBackNext \/ EndPass

SetSpec == SetInit /\ [][SetNext]_setVars

-----------------------------------------------------------------------------
Promised == INSTANCE InsertionSet

\* "Result of the document expansion algorithm: a set of (indexed) objects", "kept
\* in insertion order": whatever collides in the buckets, and whatever was cached
\* in them before a rewriting, callers see a set.
ServesASet == Promised!Spec

=============================================================================
