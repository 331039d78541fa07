------------------------------- MODULE PureService -------------------------------
(***************************************************************************)
(* What a memo promises its callers: a call that returns gives the value   *)
(* the memoised function has for its argument, whatever other callers do   *)
(* meanwhile and whatever the memo remembers or forgets.                   *)
(***************************************************************************)
CONSTANTS
    Callers,
    Arguments,
    Result(_),   \* the memoised function
    NoResult     \* before a call returns

VARIABLE call    \* caller -> [argument, result], or {} between calls

Pending(a) == [argument |-> a, result |-> NoResult]

Init == call = [p \in Callers |-> {}]

Begin(p, a) ==
    /\ call[p] = {}
    /\ call' = [call EXCEPT ![p] = {Pending(a)}]

Finish(p, a) ==
    /\ call[p] = {Pending(a)}
    /\ call' = [call EXCEPT ![p] = {[argument |-> a, result |-> Result(a)]}]

\* The caller takes the result, or gives up before there is one.
Leave(p) ==
    /\ call[p] # {}
    /\ call' = [call EXCEPT ![p] = {}]

Next == \E p \in Callers : Leave(p) \/ \E a \in Arguments : Begin(p, a) \/ Finish(p, a)

Spec == Init /\ [][Next]_call

=============================================================================
