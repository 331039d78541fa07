------------------------------ MODULE InsertionSet ------------------------------
(***************************************************************************)
(* What ExpandedDocument promises (jsonld-core/src/document/expanded.rs):  *)
(* "a set of (indexed) objects", "kept in insertion order".  `call` is the *)
(* last call made on it with what it answered; objects are compared by     *)
(* Key, the representative of those equal to them.                         *)
(***************************************************************************)
EXTENDS Sequences

CONSTANT Key(_)

VARIABLES objects, call

Holds(object) == \E i \in DOMAIN objects : Key(objects[i]) = Key(object)

Init == objects = <<>> /\ call = [op |-> "new"]

Insert ==
    /\ call'.op = "insert"
    /\ call'.answer = ~Holds(call'.object)
    /\ objects' = IF Holds(call'.object) THEN objects ELSE Append(objects, call'.object)

Contains ==
    /\ call'.op = "contains"
    /\ call'.answer = Holds(call'.object)
    /\ UNCHANGED objects

Drain == call'.op = "drain" /\ objects' = <<>>

Next == Insert \/ Contains \/ Drain

Spec == Init /\ [][Next]_<<objects, call>>

=============================================================================
