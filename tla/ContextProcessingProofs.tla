------------------------ MODULE ContextProcessingProofs ------------------------
(***************************************************************************)
(* What a run of the context processing algorithm promises, for any        *)
(* documents, however they refer to one another, and any loader: a context *)
(* is dereferenced once, validation does not follow a reference back, and  *)
(* what is protected stays as it was, across every call in progress.       *)
(*                                                                         *)
(* A step replaces the innermost call, puts one on top of it, or takes it  *)
(* off.  The invariant says what holds of each call and between each and   *)
(* the one inside it; a lemma per kind of step says what the action that   *)
(* takes it has to establish, and an action proves that of its one frame.  *)
(* The last section is about runs of the synchronous mirror, which have an *)
(* invariant of their own on top of this one.                              *)
(***************************************************************************)
EXTENDS ContextProcessing, TLAPS

-----------------------------------------------------------------------------
(* The inductive invariant.                                                *)

IsSeq(s) == s \in Seq({s[i] : i \in DOMAIN s})

FrameFields ==
    {"purpose", "context", "index", "at", "result", "abandoned", "remote", "base", "override", "propagate",
     "validate", "merged", "term", "depth"}

IsTerm(d) == d = [meaning |-> d.meaning, protected |-> d.protected] /\ d.protected \in BOOLEAN

IsActive(c) ==
    /\ c = [terms |-> c.terms, base |-> c.base, scalars |-> c.scalars, previous |-> c.previous]
    /\ \A t \in DOMAIN c.terms : IsTerm(c.terms[t])

\* The URL a call is loading, or was made for, is the last of its chain, and the
\* chain does not lead back into itself while a scoped context is validated.
Leads(remote, validate) ==
    /\ remote # <<>>
    /\ ~validate => ~Cycle(Front(remote), Last(remote))

Chained(f) == f.purpose = "remote" \/ f.at \in {"load", "loaded"} => Leads(f.remote, f.validate)

FrameOK(f) ==
    /\ DOMAIN f = FrameFields
    /\ f.override \in BOOLEAN /\ f.validate \in BOOLEAN
    /\ IsActive(f.result)
    /\ IsSeq(f.remote)
    /\ Chained(f)

\* A remote context is processed as the record has it.
Recorded(f, record) ==
    f.purpose = "remote" => f.base \in DOMAIN record /\ f.context = record[f.base]

\* What waits under a call is waiting for it.  Protected terms reach a remote
\* context from the call under it, and it has no leave to override them.
Linked(outer, inner) ==
    \/ /\ inner.purpose = "remote" /\ outer.at = "loaded"
       /\ ~inner.override /\ Preserves(outer.result, inner.result, inner.abandoned)
    \/ inner.purpose = "scoped" /\ outer.at = "install"

\* The call the run was made for.
Outermost(f) ==
    /\ f.purpose = "call" /\ f.override = override
    /\ ~override => Preserves(initial, f.result, f.abandoned)

CallsOK(calls, record) ==
    /\ IsSeq(calls)
    /\ \A i \in DOMAIN calls : FrameOK(calls[i]) /\ Recorded(calls[i], record)
    /\ \A i \in DOMAIN calls : IF i = 1 THEN Outermost(calls[1]) ELSE Linked(calls[i - 1], calls[i])

\* What a remote context returned is what its caller is about to adopt.
ReturnOK(calls, answer, left) ==
    /\ IsActive(answer)
    /\ calls # <<>> /\ calls[Len(calls)].at = "loaded" => Preserves(calls[Len(calls)].result, answer, left)

FetchesOK(count, record) ==
    /\ DOMAIN count = Urls
    /\ \A u \in Urls : count[u] = IF u \in DOMAIN record THEN 1 ELSE 0

IInv ==
    /\ override \in BOOLEAN
    /\ CallsOK(stack, dereferenced)
    /\ ReturnOK(stack, result, abandoned)
    /\ FetchesOK(fetches, dereferenced)
    /\ ProtectedSurvives

-----------------------------------------------------------------------------
(* Sequences.                                                              *)

\* A sequence over any set is one over its own elements.
LEMMA SeqIsSeq ==
    ASSUME NEW S, NEW s \in Seq(S)
    PROVE  IsSeq(s)
BY DEF IsSeq

\* What Front and Last take from a sequence that is not empty.
LEMMA FrontAndLast ==
    ASSUME NEW s, IsSeq(s), s # <<>>
    PROVE  /\ Len(s) \in Nat \ {0} /\ DOMAIN s = 1 .. Len(s)
           /\ Last(s) = s[Len(s)]
           /\ IsSeq(Front(s)) /\ Len(Front(s)) = Len(s) - 1 /\ DOMAIN Front(s) = 1 .. Len(s) - 1
           /\ \A i \in 1 .. Len(s) - 1 : Front(s)[i] = s[i]
<1> DEFINE S == {s[i] : i \in DOMAIN s}
           t == Front(s)
<1>1. s \in Seq(S)
  BY DEF IsSeq
<1>2. Len(s) \in Nat \ {0} /\ DOMAIN s = 1 .. Len(s)
  BY <1>1
<1>3. t \in Seq(S) /\ Len(t) = Len(s) - 1 /\ \A i \in 1 .. Len(s) - 1 : t[i] = s[i]
  BY <1>1, <1>2 DEF Front
<1>4. IsSeq(t) /\ DOMAIN t = 1 .. Len(s) - 1
  BY <1>3, SeqIsSeq
<1> QED
  BY <1>2, <1>3, <1>4 DEF Last

\* What Append does to any sequence.
LEMMA Appended ==
    ASSUME NEW s, IsSeq(s), NEW x
    PROVE  /\ IsSeq(Append(s, x)) /\ Append(s, x) # <<>>
           /\ Len(s) \in Nat /\ DOMAIN s = 1 .. Len(s)
           /\ Len(Append(s, x)) = Len(s) + 1 /\ DOMAIN Append(s, x) = 1 .. Len(s) + 1
           /\ \A i \in 1 .. Len(s) : Append(s, x)[i] = s[i]
           /\ Append(s, x)[Len(s) + 1] = x
<1> DEFINE S == {s[i] : i \in DOMAIN s} \cup {x}
           t == Append(s, x)
<1>1. s \in Seq(S) /\ x \in S
  BY DEF IsSeq
<1>2. t \in Seq(S) /\ Len(t) = Len(s) + 1 /\ Len(s) \in Nat /\ DOMAIN s = 1 .. Len(s)
  BY <1>1
<1>3. DOMAIN t = 1 .. Len(s) + 1 /\ t # <<>>
  BY <1>2
<1>4. \A i \in 1 .. Len(s) : t[i] = s[i]
  BY <1>1, <1>2
<1>5. t[Len(s) + 1] = x
  BY <1>1, <1>2
<1>6. IsSeq(t)
  BY <1>2, SeqIsSeq
<1> QED
  BY <1>2, <1>3, <1>4, <1>5, <1>6

\* The last of what Append makes is what it appended, after what was there.
LEMMA LastAppended ==
    ASSUME NEW s, IsSeq(s), NEW x
    PROVE  /\ Last(Append(s, x)) = x
           /\ DOMAIN Front(Append(s, x)) = DOMAIN s
           /\ \A i \in DOMAIN s : Front(Append(s, x))[i] = s[i]
<1> DEFINE t == Append(s, x)
<1>1. /\ IsSeq(t) /\ t # <<>> /\ Len(s) \in Nat /\ DOMAIN s = 1 .. Len(s) /\ Len(t) = Len(s) + 1
      /\ \A i \in 1 .. Len(s) : t[i] = s[i]
      /\ t[Len(s) + 1] = x
  BY Appended
<1> HIDE DEF t
<1>2. /\ Last(t) = t[Len(t)] /\ DOMAIN Front(t) = 1 .. Len(t) - 1
      /\ \A i \in 1 .. Len(t) - 1 : Front(t)[i] = t[i]
  BY <1>1, FrontAndLast
<1>3. Last(t) = x /\ DOMAIN Front(t) = DOMAIN s /\ \A i \in DOMAIN s : Front(t)[i] = s[i]
  BY <1>1, <1>2
<1> QED
  BY <1>3 DEF t

-----------------------------------------------------------------------------
(* The stack of calls.                                                     *)

\* Returning takes the innermost call off.
LEMMA Popped ==
    ASSUME NEW calls, NEW record, CallsOK(calls, record), calls # <<>>
    PROVE  CallsOK(Front(calls), record)
<1> DEFINE under == Front(calls)
<1>1. /\ Len(calls) \in Nat \ {0} /\ DOMAIN calls = 1 .. Len(calls)
      /\ IsSeq(under) /\ DOMAIN under = 1 .. Len(calls) - 1
      /\ \A i \in 1 .. Len(calls) - 1 : under[i] = calls[i]
  BY FrontAndLast DEF CallsOK
<1> HIDE DEF under
<1>2. \A i \in DOMAIN under : i \in DOMAIN calls /\ under[i] = calls[i] /\ (i # 1 => under[i - 1] = calls[i - 1])
  BY <1>1
<1>3. \A i \in DOMAIN under : FrameOK(under[i]) /\ Recorded(under[i], record)
  BY <1>2 DEF CallsOK
<1>4. \A i \in DOMAIN under : IF i = 1 THEN Outermost(under[1]) ELSE Linked(under[i - 1], under[i])
  BY <1>2 DEF CallsOK
<1>5. CallsOK(under, record)
  BY <1>1, <1>3, <1>4 DEF CallsOK
<1> QED
  BY <1>5 DEF under

\* What f has to be to go on top of a stack: the outermost call, or one its
\* caller is waiting for.
Fits(calls, f) == IF calls = <<>> THEN Outermost(f) ELSE Linked(calls[Len(calls)], f)

\* A call that fits goes on top.
LEMMA Pushed ==
    ASSUME NEW calls, NEW record, CallsOK(calls, record),
           NEW f, FrameOK(f), Recorded(f, record), Fits(calls, f)
    PROVE  CallsOK(Append(calls, f), record)
<1> DEFINE longer == Append(calls, f)
           n == Len(calls)
<1>1. /\ IsSeq(longer) /\ n \in Nat /\ DOMAIN calls = 1 .. n /\ DOMAIN longer = 1 .. n + 1
      /\ \A i \in 1 .. n : longer[i] = calls[i]
      /\ longer[n + 1] = f
  BY Appended DEF CallsOK
<1>2. calls = <<>> <=> n = 0
  BY DEF CallsOK, IsSeq
<1> HIDE DEF longer, n
<1>3. ASSUME NEW i \in DOMAIN longer
      PROVE  FrameOK(longer[i]) /\ Recorded(longer[i], record)
  BY <1>1, <1>3 DEF CallsOK
<1>4. ASSUME NEW i \in DOMAIN longer
      PROVE  IF i = 1 THEN Outermost(longer[1]) ELSE Linked(longer[i - 1], longer[i])
  <2>1. CASE i \in DOMAIN calls
    <3>1. longer[i] = calls[i] /\ (i # 1 => longer[i - 1] = calls[i - 1])
      BY <1>1, <2>1
    <3> QED
      BY <2>1, <3>1 DEF CallsOK
  <2>2. CASE i = n + 1 /\ n = 0
    BY <1>1, <1>2, <2>2 DEF Fits
  <2>3. CASE i = n + 1 /\ n # 0
    <3>1. i # 1 /\ longer[i - 1] = calls[n] /\ longer[i] = f
      BY <1>1, <2>3
    <3>2. Linked(calls[n], f)
      BY <1>2, <2>3 DEF Fits, n
    <3> QED
      BY <3>1, <3>2
  <2> QED
    BY <1>1, <1>4, <2>1, <2>2, <2>3
<1>5. CallsOK(longer, record)
  BY <1>1, <1>3, <1>4 DEF CallsOK
<1> QED
  BY <1>5 DEF longer

\* The innermost call fits what is under it.
LEMMA Top ==
    ASSUME NEW calls, NEW record, CallsOK(calls, record), calls # <<>>
    PROVE  /\ FrameOK(Last(calls)) /\ Recorded(Last(calls), record)
           /\ Fits(Front(calls), Last(calls))
<1> DEFINE under == Front(calls)
           n == Len(calls)
<1>1. /\ n \in Nat \ {0} /\ DOMAIN calls = 1 .. n /\ Last(calls) = calls[n]
      /\ IsSeq(under) /\ Len(under) = n - 1
      /\ \A i \in 1 .. n - 1 : under[i] = calls[i]
  BY FrontAndLast DEF CallsOK
<1>2. under = <<>> <=> Len(under) = 0
  BY <1>1 DEF IsSeq
<1> HIDE DEF under, n
<1>3. FrameOK(calls[n]) /\ Recorded(calls[n], record)
  BY <1>1 DEF CallsOK
<1>4. IF n = 1 THEN Outermost(calls[n]) ELSE Linked(calls[n - 1], calls[n])
  <2>1. \A i \in DOMAIN calls : IF i = 1 THEN Outermost(calls[1]) ELSE Linked(calls[i - 1], calls[i])
    BY DEF CallsOK
  <2>2. n \in DOMAIN calls
    BY <1>1
  <2>3. CASE n = 1
    BY <2>1, <2>2, <2>3
  <2>4. CASE n # 1
    BY <2>1, <2>2, <2>4
  <2> QED
    BY <2>3, <2>4
<1>5. Fits(under, calls[n])
  BY <1>1, <1>2, <1>4 DEF Fits
<1> QED
  BY <1>1, <1>3, <1>5 DEF under

-----------------------------------------------------------------------------
(* What each kind of step has to establish.                                *)

LEMMA PreservesTransitive ==
    ASSUME NEW a, NEW b, NEW c, NEW left, NEW more, left \subseteq more,
           Preserves(a, b, left), Preserves(b, c, more)
    PROVE  Preserves(a, c, more)
BY DEF Preserves

\* A context without protected terms owes nothing to any other.
LEMMA PreservesNothing ==
    ASSUME NEW a, NEW b, NEW left, ~HasProtected(a)
    PROVE  Preserves(a, b, left)
BY DEF Preserves, HasProtected

\* What may become of a call that goes on.
Inside(f, g) ==
    /\ FrameOK(g)
    /\ g.purpose = f.purpose /\ g.context = f.context /\ g.base = f.base /\ g.override = f.override
    /\ f.abandoned \subseteq g.abandoned
    /\ ~f.override => Preserves(f.result, g.result, g.abandoned)

LEMMA StillFits ==
    ASSUME NEW calls, NEW f, NEW g, Fits(calls, f), Inside(f, g)
    PROVE  Fits(calls, g)
<1>1. CASE calls = <<>>
  <2>1. ~override => /\ Preserves(initial, f.result, f.abandoned) /\ f.abandoned \subseteq g.abandoned
                     /\ Preserves(f.result, g.result, g.abandoned)
    BY <1>1 DEF Fits, Outermost, Inside
  <2>2. ~override => Preserves(initial, g.result, g.abandoned)
    BY <2>1, PreservesTransitive
  <2> QED
    BY <1>1, <2>2 DEF Fits, Outermost, Inside
<1>2. CASE calls # <<>>
  <2> DEFINE outer == calls[Len(calls)]
  <2>1. Linked(outer, f)
    BY <1>2 DEF Fits
  <2> HIDE DEF outer
  <2>2. CASE f.purpose = "remote"
    <3>1. /\ ~f.override /\ Preserves(outer.result, f.result, f.abandoned) /\ f.abandoned \subseteq g.abandoned
          /\ Preserves(f.result, g.result, g.abandoned)
      BY <2>1, <2>2 DEF Linked, Inside
    <3>2. Preserves(outer.result, g.result, g.abandoned)
      BY <3>1, PreservesTransitive
    <3> QED
      BY <1>2, <2>1, <2>2, <3>1, <3>2 DEF Fits, Linked, Inside, outer
  <2>3. CASE f.purpose # "remote"
    BY <1>2, <2>1, <2>3 DEF Fits, Linked, Inside, outer
  <2> QED
    BY <2>2, <2>3
<1> QED
  BY <1>1, <1>2

\* The stack, the record and the last answer, as a step leaves them.
LEMMA Committed ==
    ASSUME NEW calls, NEW record, CallsOK(calls, record),
           stack' = calls, dereferenced' = record, UNCHANGED input
    PROVE  CallsOK(stack, dereferenced)'
BY DEF CallsOK, Outermost, input

\* A call goes on.
LEMMA Updated ==
    ASSUME IInv, outcome = "running", stack # <<>>,
           NEW g, Inside(Frame, g), g.at # "loaded",
           Update(g), Keeping, UNCHANGED input
    PROVE  IInv'
<1> DEFINE under == Front(stack)
<1>1. CallsOK(under, dereferenced)
  BY Popped DEF IInv
<1>2. FrameOK(Frame) /\ Recorded(Frame, dereferenced) /\ Fits(under, Frame)
  BY Top DEF IInv, Frame
<1>3. Fits(under, g)
  BY <1>2, StillFits
<1>4. FrameOK(g) /\ Recorded(g, dereferenced)
  BY <1>2 DEF Inside, Recorded
<1>5. stack' = Append(under, g)
  BY DEF Update
<1> HIDE DEF under
<1>6. CallsOK(Append(under, g), dereferenced)
  BY <1>1, <1>3, <1>4, Pushed
<1>7. CallsOK(stack, dereferenced)'
  BY <1>5, <1>6, Committed DEF Keeping
<1>8. stack'[Len(stack')] = g
  BY <1>1, <1>5, Appended DEF CallsOK
<1>9. ReturnOK(stack, result, abandoned)'
  BY <1>8 DEF IInv, ReturnOK, Keeping, returned
<1> QED
  BY <1>7, <1>9 DEF IInv, Keeping, input, ProtectedSurvives

\* A call makes another.
LEMMA Called ==
    ASSUME IInv, outcome = "running", stack # <<>>,
           NEW g, Inside(Frame, g),
           NEW callee, FrameOK(callee), Linked(g, callee), callee.at # "loaded",
           NEW record, Recorded(callee, record), FetchesOK(fetches', record),
           \A u \in DOMAIN dereferenced : u \in DOMAIN record /\ record[u] = dereferenced[u],
           Call(g, callee), dereferenced' = record, UNCHANGED <<returned, outcome>>, UNCHANGED input
    PROVE  IInv'
<1> DEFINE under == Front(stack)
<1>1. CallsOK(stack, record)
  BY DEF IInv, CallsOK, Recorded
<1>2. CallsOK(under, record)
  BY <1>1, Popped
<1>3. FrameOK(Frame) /\ Recorded(Frame, record) /\ Fits(under, Frame)
  BY <1>1, Top DEF Frame
<1>4. Fits(under, g)
  BY <1>3, StillFits
<1>5. FrameOK(g) /\ Recorded(g, record)
  BY <1>3 DEF Inside, Recorded
<1> DEFINE below == Append(under, g)
<1>6. CallsOK(below, record)
  BY <1>2, <1>4, <1>5, Pushed
<1>7. IsSeq(under)
  BY <1>2 DEF CallsOK
<1> HIDE DEF under
<1>8. IsSeq(below) /\ below # <<>> /\ below[Len(below)] = g
  BY <1>7, Appended
<1>9. Fits(below, callee)
  BY <1>8 DEF Fits
<1>10. stack' = below \o <<callee>>
  BY DEF Call, under
<1> HIDE DEF below
<1>11. stack' = Append(below, callee)
  BY <1>8, <1>10 DEF IsSeq
<1>12. CallsOK(Append(below, callee), record)
  BY <1>6, <1>9, Pushed
<1>13. CallsOK(stack, dereferenced)'
  BY <1>11, <1>12, Committed
<1>14. stack'[Len(stack')] = callee
  BY <1>8, <1>11, Appended
<1>15. ReturnOK(stack, result, abandoned)'
  BY <1>14 DEF IInv, ReturnOK, returned
<1> QED
  BY <1>13, <1>15 DEF IInv, input, ProtectedSurvives

\* A call returns.
LEMMA Returned ==
    ASSUME IInv, Return, UNCHANGED input
    PROVE  IInv'
<1> DEFINE under == Front(stack)
<1>0. stack # <<>>
  BY DEF Return, At
<1>1. CallsOK(under, dereferenced)
  BY <1>0, Popped DEF IInv
<1>2. FrameOK(Frame) /\ Fits(under, Frame)
  BY <1>0, Top DEF IInv, Frame
<1>3. CallsOK(stack, dereferenced)'
  BY <1>1, Committed DEF Return
<1>4. IsSeq(under) /\ Len(under) = Len(stack) - 1 /\ Len(stack) \in Nat \ {0}
  BY <1>0, FrontAndLast DEF IInv, CallsOK
<1>5. stack' = under /\ result' = Frame.result /\ abandoned' = Frame.abandoned
  BY DEF Return
<1> HIDE DEF under
<1>6. ReturnOK(stack', result', abandoned')
  BY <1>2, <1>5 DEF ReturnOK, FrameOK, Fits, Linked
<1>7. outcome' = "ok" => under = <<>>
  <2>1. outcome' = "ok" => Len(stack) = 1
    BY DEF Return
  <2>2. Len(under) = 0 => under = <<>>
    BY <1>4 DEF IsSeq
  <2> QED
    BY <1>4, <2>1, <2>2
<1>8. ProtectedSurvives'
  BY <1>2, <1>5, <1>7 DEF ProtectedSurvives, Fits, Outermost, input
<1> QED
  BY <1>3, <1>5, <1>6, <1>8 DEF IInv, Return, input

\* A run fails.
LEMMA Failing ==
    ASSUME IInv, NEW error, error # "ok", Fail(error), UNCHANGED input
    PROVE  IInv'
<1>1. outcome' # "ok"
  BY DEF Fail
<1>2. CallsOK(stack, dereferenced)'
  BY Committed DEF Fail, IInv
<1> QED
  BY <1>1, <1>2 DEF IInv, Fail, input, returned, ProtectedSurvives

-----------------------------------------------------------------------------
(* The actions.                                                            *)

LEMMA PreservesItself ==
    ASSUME NEW a, NEW b, NEW left, b.terms = a.terms
    PROVE  Preserves(a, b, left)
BY DEF Preserves

LEMMA NewContextIsActive == IsActive(NewContext) /\ \A c : IsActive([NewContext EXCEPT !.previous = c])
BY DEF IsActive, NewContext

\* A call begins with the terms of the context it is given, and has abandoned none.
Begun(f, purpose, active, context, base, leave) ==
    /\ FrameOK(f)
    /\ f.purpose = purpose /\ f.context = context /\ f.base = base /\ f.at = "entry"
    /\ f.override = leave
    /\ f.result.terms = active.terms /\ f.abandoned = {}

LEMMA Invoked ==
    ASSUME NEW purpose, NEW active, IsActive(active), NEW context,
           NEW remote, IsSeq(remote), NEW base,
           NEW options, options.override \in BOOLEAN, NEW validate \in BOOLEAN, NEW depth,
           purpose = "remote" => Leads(remote, validate)
    PROVE  Begun(Invoke(purpose, active, context, remote, base, options, validate, depth),
                 purpose, active, context, base, options.override)
<1> DEFINE f == Invoke(purpose, active, context, remote, base, options, validate, depth)
<1>1. /\ DOMAIN f = FrameFields
      /\ f.purpose = purpose /\ f.context = context /\ f.base = base /\ f.at = "entry"
      /\ f.override = options.override /\ f.validate = validate /\ f.remote = remote /\ f.abandoned = {}
  BY DEF Invoke, FrameFields
<1>2. \/ f.result = active
      \/ f.result = [active EXCEPT !.previous = active]
  BY DEF Invoke
<1> HIDE DEF f
<1>3. IsActive(f.result) /\ f.result.terms = active.terms
  BY <1>2 DEF IsActive
<1>4. FrameOK(f)
  BY <1>1, <1>3 DEF FrameOK, Chained
<1>5. Begun(f, purpose, active, context, base, options.override)
  BY <1>1, <1>3, <1>4 DEF Begun
<1> QED
  BY <1>5 DEF f

\* Where an action finds its frame.
LEMMA AtFrame ==
    ASSUME IInv, NEW label, At(label)
    PROVE  /\ outcome = "running" /\ stack # <<>> /\ FrameOK(Frame) /\ Frame.at = label
           /\ Fits(Front(stack), Frame)
BY Top DEF IInv, At, Frame

LEMMA NullStep ==
    ASSUME IInv, ProcessNull, UNCHANGED input
    PROVE  IInv'
<1>1. At("entry")
  BY DEF ProcessNull, Ready, AtEntry
<1>2. outcome = "running" /\ stack # <<>> /\ FrameOK(Frame) /\ Frame.at = "entry"
  BY <1>1, AtFrame
<1>3. CASE ~Frame.override /\ HasProtected(Frame.result)
  BY <1>3, Failing DEF ProcessNull
<1>4. CASE ~(~Frame.override /\ HasProtected(Frame.result))
  <2> DEFINE c == [NewContext EXCEPT !.previous = IF Frame.propagate THEN None ELSE Frame.result]
             g == [Frame EXCEPT !.index = @ + 1, !.result = c]
  <2>1. IsActive(c)
    BY NewContextIsActive
  <2>2. ~Frame.override => Preserves(Frame.result, c, Frame.abandoned)
    BY <1>4, PreservesNothing
  <2>3. Update(g) /\ Keeping
    BY <1>4 DEF ProcessNull
  <2> HIDE DEF c
  <2>4. Inside(Frame, g) /\ g.at # "loaded"
    BY <1>2, <2>1, <2>2 DEF Inside, FrameOK, Chained, FrameFields
  <2> HIDE DEF g
  <2> QED
    BY <1>2, <2>3, <2>4, Updated
<1> QED
  BY <1>3, <1>4

LEMMA EnterRemoteStep ==
    ASSUME IInv, EnterRemote, UNCHANGED input
    PROVE  IInv'
<1>1. At("entry")
  BY DEF EnterRemote, Ready, AtEntry
<1>2. outcome = "running" /\ stack # <<>> /\ FrameOK(Frame) /\ Frame.at = "entry"
  BY <1>1, AtFrame
<1> DEFINE url == IF sync THEN None ELSE Resolve(Entry.url, Frame.base)
           past == [Frame EXCEPT !.index = @ + 1]
           entered == [Frame EXCEPT !.at = "load", !.remote = Append(@, url)]
<1>3. \/ RefError(url) # "ok" /\ Fail(RefError(url))
      \/ Fail("ContextOverflow")
      \/ Update(past) /\ Keeping
      \/ ~Skipped(url) /\ Update(entered) /\ Keeping
  BY DEF EnterRemote
<1>4. CASE RefError(url) # "ok" /\ Fail(RefError(url))
  BY <1>4, Failing
<1>5. CASE Fail("ContextOverflow")
  BY <1>5, Failing
<1>6. CASE Update(past) /\ Keeping
  <2>1. Inside(Frame, past) /\ past.at # "loaded"
    BY <1>2, PreservesItself DEF Inside, FrameOK, Chained, FrameFields
  <2> HIDE DEF past
  <2> QED
    BY <1>2, <1>6, <2>1, Updated
<1> HIDE DEF url
<1>7. CASE ~Skipped(url) /\ Update(entered) /\ Keeping
  <2> DEFINE chain == Append(Frame.remote, url)
  <2>1. IsSeq(Frame.remote)
    BY <1>2 DEF FrameOK
  <2>2. IsSeq(chain) /\ chain # <<>>
    BY <2>1, Appended
  <2>3. /\ Last(chain) = url /\ DOMAIN Front(chain) = DOMAIN Frame.remote
        /\ \A i \in DOMAIN Frame.remote : Front(chain)[i] = Frame.remote[i]
    BY <2>1, LastAppended
  <2>4. entered = [Frame EXCEPT !.at = "load", !.remote = chain]
    OBVIOUS
  <2> HIDE DEF chain
  <2>5. Leads(chain, Frame.validate)
    BY <1>7, <2>2, <2>3 DEF Leads, Skipped, Cycle
  <2>6. Preserves(Frame.result, Frame.result, Frame.abandoned)
    BY PreservesItself
  <2>7. Inside(Frame, entered) /\ entered.at # "loaded"
    BY <1>2, <2>2, <2>4, <2>5, <2>6 DEF Inside, FrameOK, Chained, FrameFields
  <2> HIDE DEF entered
  <2> QED
    BY <1>2, <1>7, <2>7, Updated
<1> QED
  BY <1>3, <1>4, <1>5, <1>6, <1>7

\* Whether it was loaded or taken from the record, a remote context is entered
\* with the same options.
LEMMA EnterLoadedStep ==
    ASSUME IInv, At("load"), NEW context, EnterLoaded(Requested, context),
           NEW record, Requested \in DOMAIN record, record[Requested] = context,
           FetchesOK(fetches', record),
           \A u \in DOMAIN dereferenced : u \in DOMAIN record /\ record[u] = dereferenced[u],
           dereferenced' = record, UNCHANGED <<returned, outcome>>, UNCHANGED input
    PROVE  IInv'
<1>1. outcome = "running" /\ stack # <<>> /\ FrameOK(Frame) /\ Frame.at = "load"
  BY AtFrame
<1> DEFINE g == [Frame EXCEPT !.at = "loaded"]
           callee == Invoke("remote", Frame.result, context, Frame.remote, Requested, RemoteOptions,
                            Frame.validate, Frame.depth + 1)
<1>2. Preserves(Frame.result, Frame.result, Frame.abandoned)
  BY PreservesItself
<1>3. Inside(Frame, g) /\ g.at = "loaded" /\ g.result = Frame.result
  BY <1>1, <1>2 DEF Inside, FrameOK, Chained, FrameFields
<1>4. /\ IsActive(Frame.result) /\ IsSeq(Frame.remote) /\ Frame.validate \in BOOLEAN
      /\ Leads(Frame.remote, Frame.validate)
  BY <1>1 DEF FrameOK, Chained
<1>5. RemoteOptions.override = FALSE
  BY DEF RemoteOptions
<1>6. /\ FrameOK(callee)
      /\ callee.purpose = "remote" /\ callee.context = context /\ callee.base = Requested
      /\ callee.at = "entry" /\ ~callee.override /\ callee.result.terms = Frame.result.terms
  <2>1. RemoteOptions.override \in BOOLEAN
    BY <1>5
  <2>2. Begun(callee, "remote", Frame.result, context, Requested, RemoteOptions.override)
    BY <1>4, <2>1, Invoked
  <2> QED
    BY <1>5, <2>2 DEF Begun
<1>7. Call(g, callee)
  BY DEF EnterLoaded
<1> HIDE DEF g, callee
<1>8. Linked(g, callee)
  BY <1>3, <1>6, PreservesItself DEF Linked
<1>9. Recorded(callee, record)
  BY <1>6 DEF Recorded
<1> QED
  BY <1>1, <1>3, <1>6, <1>7, <1>8, <1>9, Called

LEMMA LoadRemoteStep ==
    ASSUME IInv, LoadRemote, UNCHANGED input
    PROVE  IInv'
<1>1. At("load") /\ Requested \notin DOMAIN dereferenced
  BY DEF LoadRemote
<1> DEFINE Grown(answer) ==
             [u \in DOMAIN dereferenced \cup {Requested} |-> IF u = Requested THEN answer ELSE dereferenced[u]]
<1>2. PICK answer \in Serves(Requested) \ {Failed} :
          /\ fetches' = [fetches EXCEPT ![Requested] = @ + 1]
          /\ dereferenced' = Grown(answer)
          /\ EnterLoaded(Requested, answer)
          /\ UNCHANGED <<returned, outcome>>
  BY DEF LoadRemote
<1> DEFINE record == Grown(answer)
<1>3. /\ DOMAIN record = DOMAIN dereferenced \cup {Requested} /\ record[Requested] = answer
      /\ \A u \in DOMAIN dereferenced : u \in DOMAIN record /\ record[u] = dereferenced[u]
  BY <1>1
<1>4. dereferenced' = record
  BY <1>2
<1> HIDE DEF record
<1>5. FetchesOK(fetches', record)
  BY <1>1, <1>2, <1>3 DEF IInv, FetchesOK
<1> QED
  BY <1>1, <1>2, <1>3, <1>4, <1>5, EnterLoadedStep

LEMMA ReuseRemoteStep ==
    ASSUME IInv, ReuseRemote, UNCHANGED input
    PROVE  IInv'
<1>1. /\ At("load") /\ Requested \in DOMAIN dereferenced
      /\ EnterLoaded(Requested, dereferenced[Requested]) /\ Keeping
  BY DEF ReuseRemote
<1>2. FetchesOK(fetches', dereferenced)
  BY <1>1 DEF IInv, Keeping
<1> QED
  BY <1>1, <1>2, EnterLoadedStep DEF Keeping

LEMMA AdoptRemoteStep ==
    ASSUME IInv, AdoptRemote, UNCHANGED input
    PROVE  IInv'
<1>1. At("loaded")
  BY DEF AdoptRemote
<1>2. outcome = "running" /\ stack # <<>> /\ FrameOK(Frame) /\ Frame.at = "loaded"
  BY <1>1, AtFrame
<1>3. Frame = stack[Len(stack)]
  BY <1>2, FrontAndLast DEF IInv, CallsOK, Frame
<1>4. IsActive(result) /\ Preserves(Frame.result, result, abandoned)
  BY <1>2, <1>3 DEF IInv, ReturnOK
<1>5. Preserves(Frame.result, result, Frame.abandoned \cup abandoned)
  BY <1>4 DEF Preserves
<1> DEFINE g == [Frame EXCEPT !.at = "entry", !.index = @ + 1, !.result = result, !.abandoned = @ \cup abandoned]
<1>6. Update(g) /\ Keeping
  BY DEF AdoptRemote
<1>7. Inside(Frame, g) /\ g.at # "loaded"
  BY <1>2, <1>4, <1>5 DEF Inside, FrameOK, Chained, FrameFields
<1> HIDE DEF g
<1> QED
  BY <1>2, <1>6, <1>7, Updated

\* The entries of a definition other than its terms leave the terms alone.
LEMMA BeginTermsStep ==
    ASSUME IInv, At("entry") \/ At("import"), NEW d, BeginTerms(d), UNCHANGED input
    PROVE  IInv'
<1>1. outcome = "running" /\ stack # <<>> /\ FrameOK(Frame) /\ Frame.at \in {"entry", "import"}
  BY AtFrame
<1>2. CASE DefinitionError(d) # "ok"
  BY <1>2, Failing DEF BeginTerms
<1>3. CASE DefinitionError(d) = "ok"
  <2> DEFINE base == IF BaseApplies(Frame) THEN Applied(Frame.result.base, d.base) ELSE Frame.result.base
             scalars == [f \in DOMAIN Frame.result.scalars |-> Applied(Frame.result.scalars[f], d.scalars[f])]
             c == [[Frame.result EXCEPT !.base = base] EXCEPT !.scalars = scalars]
             g == [Frame EXCEPT !.at = "term", !.merged = d, !.term = 1, !.result = c]
  <2>1. Update(g) /\ Keeping
    <3>1. g = [Frame EXCEPT
                  !.at = "term", !.merged = d, !.term = 1,
                  !.result.base = IF BaseApplies(Frame) THEN Applied(@, d.base) ELSE @,
                  !.result.scalars = [f \in DOMAIN @ |-> Applied(@[f], d.scalars[f])]]
      BY <1>1 DEF FrameOK, FrameFields, IsActive
    <3> HIDE DEF g
    <3> QED
      BY <1>3, <3>1 DEF BeginTerms
  <2> HIDE DEF base, scalars
  <2>2. IsActive(c) /\ c.terms = Frame.result.terms
    <3>1. IsActive(Frame.result)
      BY <1>1 DEF FrameOK
    <3> DEFINE r == [Frame.result EXCEPT !.base = base]
    <3>2. IsActive(r) /\ r.terms = Frame.result.terms
      BY <3>1 DEF IsActive
    <3>3. c = [r EXCEPT !.scalars = scalars]
      OBVIOUS
    <3> HIDE DEF r, c
    <3> QED
      BY <3>2, <3>3 DEF IsActive
  <2>3. Preserves(Frame.result, c, Frame.abandoned)
    BY <2>2, PreservesItself
  <2> HIDE DEF c
  <2>4. Inside(Frame, g) /\ g.at # "loaded"
    BY <1>1, <2>2, <2>3 DEF Inside, FrameOK, Chained, FrameFields
  <2> HIDE DEF g
  <2> QED
    BY <1>1, <2>1, <2>4, Updated
<1> QED
  BY <1>2, <1>3

LEMMA DefinitionStep ==
    ASSUME IInv, ProcessDefinition, UNCHANGED input
    PROVE  IInv'
<1>1. At("entry")
  BY DEF ProcessDefinition, Ready, AtEntry
<1> DEFINE g == [Frame EXCEPT !.at = "import"]
<1>2. \/ \E error : error # "ok" /\ Fail(error)
      \/ BeginTerms(Entry)
      \/ Update(g) /\ Keeping
  BY DEF ProcessDefinition
<1>3. CASE \E error : error # "ok" /\ Fail(error)
  BY <1>3, Failing
<1>4. CASE BeginTerms(Entry)
  BY <1>1, <1>4, BeginTermsStep
<1>5. CASE Update(g) /\ Keeping
  <2>1. outcome = "running" /\ stack # <<>> /\ FrameOK(Frame) /\ Frame.at = "entry"
    BY <1>1, AtFrame
  <2>2. Inside(Frame, g) /\ g.at # "loaded"
    BY <2>1, PreservesItself DEF Inside, FrameOK, Chained, FrameFields
  <2> HIDE DEF g
  <2> QED
    BY <1>5, <2>1, <2>2, Updated
<1> QED
  BY <1>2, <1>3, <1>4, <1>5

LEMMA LoadImportStep ==
    ASSUME IInv, LoadImport, UNCHANGED input
    PROVE  IInv'
<1>1. At("import")
  BY DEF LoadImport
<1>2. \/ \E error : error # "ok" /\ Fail(error)
      \/ \E d : BeginTerms(d)
  BY DEF LoadImport
<1> QED
  BY <1>1, <1>2, Failing, BeginTermsStep

LEMMA RejectTermStep ==
    ASSUME IInv, RejectTerm, UNCHANGED input
    PROVE  IInv'
BY Failing DEF RejectTerm

LEMMA LoadFailsStep ==
    ASSUME IInv, LoadFails, UNCHANGED input
    PROVE  IInv'
BY Failing DEF LoadFails

LEMMA RejectPropagateStep ==
    ASSUME IInv, RejectPropagate, UNCHANGED input
    PROVE  IInv'
BY Failing DEF RejectPropagate

\* A term left half-way is no more, and is one the call has abandoned.
LEMMA AbandonTermStep ==
    ASSUME IInv, AbandonTerm, UNCHANGED input
    PROVE  IInv'
<1>1. At("term")
  BY DEF AbandonTerm, MoreTerms
<1>2. outcome = "running" /\ stack # <<>> /\ FrameOK(Frame) /\ Frame.at = "term"
  BY <1>1, AtFrame
<1> DEFINE c == Without(Frame.result, Term.name)
           left == Frame.abandoned \cup {Term.name}
           g == [Frame EXCEPT !.term = @ + 1, !.result = c, !.abandoned = left]
<1>3. Update(g) /\ Keeping
  BY DEF AbandonTerm
<1>4. IsActive(c) /\ Preserves(Frame.result, c, left)
  <2> DEFINE terms == Restrict(Frame.result.terms, DOMAIN Frame.result.terms \ {Term.name})
  <2>1. /\ DOMAIN terms = DOMAIN Frame.result.terms \ {Term.name}
        /\ \A t \in DOMAIN terms : terms[t] = Frame.result.terms[t]
    BY DEF Restrict
  <2>2. c = [Frame.result EXCEPT !.terms = terms]
    BY DEF Without
  <2> HIDE DEF terms, c
  <2>3. IsActive(Frame.result)
    BY <1>2 DEF FrameOK
  <2>4. IsActive(c) /\ c.terms = terms
    BY <2>1, <2>2, <2>3 DEF IsActive
  <2> QED
    BY <2>1, <2>4 DEF Preserves
<1> HIDE DEF c
<1>5. Inside(Frame, g) /\ g.at # "loaded"
  BY <1>2, <1>4 DEF Inside, FrameOK, Chained, FrameFields
<1> HIDE DEF g
<1> QED
  BY <1>2, <1>3, <1>5, Updated

\* A scoped context may override, and starts without the term it is scoped to:
\* it owes its caller nothing, and its caller drops what it returns.
LEMMA ValidateScopedStep ==
    ASSUME IInv, ValidateScoped, UNCHANGED input
    PROVE  IInv'
<1>1. At("term")
  BY DEF ValidateScoped, Definable, MoreTerms
<1>2. outcome = "running" /\ stack # <<>> /\ FrameOK(Frame) /\ Frame.at = "term"
  BY <1>1, AtFrame
<1> DEFINE terms == Restrict(Frame.result.terms, DOMAIN Frame.result.terms \ {Term.name})
           active == [Frame.result EXCEPT !.terms = terms]
           g == [Frame EXCEPT !.at = "install"]
           callee == Invoke("scoped", active, Term.scoped, Frame.remote, Frame.base, ScopedOptions, FALSE,
                            Frame.depth + 2)
<1>3. Call(g, callee) /\ Keeping
  BY DEF ValidateScoped, Without
<1>4. DOMAIN terms \subseteq DOMAIN Frame.result.terms /\ \A t \in DOMAIN terms : terms[t] = Frame.result.terms[t]
  BY DEF Restrict
<1> HIDE DEF terms
<1>5. IsActive(active)
  BY <1>2, <1>4 DEF FrameOK, IsActive
<1> HIDE DEF active
<1>6. Inside(Frame, g) /\ g.at = "install"
  BY <1>2, PreservesItself DEF Inside, FrameOK, Chained, FrameFields
<1>7. FrameOK(callee) /\ callee.purpose = "scoped" /\ callee.at = "entry"
  <2>1. IsSeq(Frame.remote) /\ ScopedOptions.override \in BOOLEAN
    BY <1>2 DEF FrameOK, ScopedOptions
  <2>2. PICK no \in BOOLEAN : no = FALSE
    OBVIOUS
  <2>3. Begun(Invoke("scoped", active, Term.scoped, Frame.remote, Frame.base, ScopedOptions, no,
                     Frame.depth + 2),
              "scoped", active, Term.scoped, Frame.base, ScopedOptions.override)
    BY <1>5, <2>1, Invoked
  <2>4. callee = Invoke("scoped", active, Term.scoped, Frame.remote, Frame.base, ScopedOptions, no,
                        Frame.depth + 2)
    BY <2>2
  <2> HIDE DEF callee
  <2> QED
    BY <2>3, <2>4 DEF Begun
<1> HIDE DEF g, callee
<1>8. Linked(g, callee) /\ Recorded(callee, dereferenced)
  BY <1>6, <1>7 DEF Linked, Recorded
<1>9. dereferenced' = dereferenced /\ UNCHANGED <<returned, outcome>> /\ FetchesOK(fetches', dereferenced)
  BY <1>3 DEF Keeping, IInv
<1> QED
  BY <1>2, <1>3, <1>6, <1>7, <1>8, <1>9, Called

\* Without leave to override, a protected term is defined again only as it was.
LEMMA InstallTermStep ==
    ASSUME IInv, InstallTerm, UNCHANGED input
    PROVE  IInv'
<1>1. At("term") \/ At("install")
  BY DEF InstallTerm, Definable, MoreTerms
<1>2. outcome = "running" /\ stack # <<>> /\ FrameOK(Frame) /\ Frame.at \in {"term", "install"}
  BY <1>1, AtFrame
<1> DEFINE t == Term.name
           terms == Frame.result.terms
           old == IF t \in DOMAIN terms THEN {terms[t]} ELSE {}
           meaning == <<Term.meaning, Term.scoped, IF Term.scoped = None THEN None ELSE Frame.base>>
           flag == Over(Term.protected, Frame.merged.protected) = TRUE
           new == [meaning |-> meaning, protected |-> flag]
           kept == IF ~Frame.override /\ \E o \in old : o.protected THEN [new EXCEPT !.protected = TRUE] ELSE new
           grown == [u \in DOMAIN terms \cup {t} |-> IF u = t THEN kept ELSE terms[u]]
           g == [Frame EXCEPT !.at = "term", !.term = @ + 1, !.result.terms = grown]
<1>3. \/ (\A o \in old : MayReplace(o, new)) /\ Update(g) /\ Keeping
      \/ Fail("ProtectedTermRedefinition")
  BY DEF InstallTerm
<1>4. CASE Fail("ProtectedTermRedefinition")
  BY <1>4, Failing
<1>5. CASE (\A o \in old : MayReplace(o, new)) /\ Update(g) /\ Keeping
  <2>1. IsTerm(kept)
    <3>1. flag \in BOOLEAN
      OBVIOUS
    <3> HIDE DEF flag, meaning
    <3> QED
      BY <3>1 DEF IsTerm
  <2>2. ASSUME ~Frame.override, t \in DOMAIN terms, terms[t].protected
        PROVE  kept = terms[t]
    <3>1. kept = [meaning |-> meaning, protected |-> TRUE]
      <4>1. \E o \in old : o.protected
        BY <2>2
      <4> HIDE DEF old, meaning, flag
      <4> QED
        BY <2>2, <4>1
    <3>2. terms[t].meaning = meaning
      BY <1>5, <2>2 DEF MayReplace
    <3>3. IsTerm(terms[t])
      BY <1>2, <2>2 DEF FrameOK, IsActive
    <3> HIDE DEF meaning, kept, terms, t
    <3> QED
      BY <2>2, <3>1, <3>2, <3>3 DEF IsTerm
  <2> HIDE DEF kept
  <2> DEFINE c == [Frame.result EXCEPT !.terms = grown]
  <2>3. DOMAIN grown = DOMAIN terms \cup {t} /\ \A u \in DOMAIN grown : grown[u] = IF u = t THEN kept ELSE terms[u]
    OBVIOUS
  <2>4. g = [Frame EXCEPT !.at = "term", !.term = @ + 1, !.result = c]
    BY <1>2 DEF FrameOK, FrameFields
  <2> HIDE DEF grown, t, g
  <2>5. IsActive(c) /\ c.terms = grown
    BY <1>2, <2>1, <2>3 DEF FrameOK, IsActive
  <2>6. ~Frame.override => Preserves(Frame.result, c, Frame.abandoned)
    BY <2>2, <2>3, <2>5 DEF Preserves
  <2> HIDE DEF c
  <2>7. Inside(Frame, g) /\ g.at # "loaded"
    BY <1>2, <2>4, <2>5, <2>6 DEF Inside, FrameOK, Chained, FrameFields
  <2> QED
    BY <1>2, <1>5, <2>7, Updated
<1> QED
  BY <1>3, <1>4, <1>5

LEMMA EndDefinitionStep ==
    ASSUME IInv, EndDefinition, UNCHANGED input
    PROVE  IInv'
<1>1. At("term")
  BY DEF EndDefinition
<1>2. outcome = "running" /\ stack # <<>> /\ FrameOK(Frame) /\ Frame.at = "term"
  BY <1>1, AtFrame
<1> DEFINE g == [Frame EXCEPT !.at = "entry", !.index = @ + 1, !.merged = None]
<1>3. Update(g) /\ Keeping
  BY DEF EndDefinition
<1>4. Inside(Frame, g) /\ g.at # "loaded"
  BY <1>2, PreservesItself DEF Inside, FrameOK, Chained, FrameFields
<1> HIDE DEF g
<1> QED
  BY <1>2, <1>3, <1>4, Updated

-----------------------------------------------------------------------------
(* The theorems.                                                           *)

LEMMA InitInvariant ==
    ASSUME Init
    PROVE  IInv
<1>1. PICK options \in Options, base \in Bases :
          /\ override = options.override
          /\ stack = <<Invoke("call", initial, local, <<>>, base, options, TRUE, 0)>>
  BY DEF Init
<1> DEFINE f == Invoke("call", initial, local, <<>>, base, options, TRUE, 0)
<1>2. IsActive(initial) /\ options.override \in BOOLEAN
  BY <1>1, ProcessingAssumption DEF Init, IsActive, IsTerm
<1>3. IsSeq(<<>>)
  BY DEF IsSeq
<1>4. /\ FrameOK(f) /\ f.purpose = "call" /\ f.at = "entry" /\ f.override = override
      /\ f.result.terms = initial.terms
  <2>1. PICK yes \in BOOLEAN : yes = TRUE
    OBVIOUS
  <2>2. Begun(Invoke("call", initial, local, <<>>, base, options, yes, 0),
              "call", initial, local, base, options.override)
    BY <1>2, <1>3, Invoked
  <2>3. f = Invoke("call", initial, local, <<>>, base, options, yes, 0)
    BY <2>1
  <2> HIDE DEF f
  <2> QED
    BY <1>1, <2>2, <2>3 DEF Begun
<1>5. stack = <<f>>
  BY <1>1
<1> HIDE DEF f
<1>6. IsSeq(stack) /\ Len(stack) = 1 /\ DOMAIN stack = {1} /\ stack[1] = f
  BY <1>5 DEF IsSeq
<1>7. CallsOK(stack, dereferenced)
  BY <1>4, <1>6, PreservesItself DEF CallsOK, Recorded, Outermost
<1>8. ReturnOK(stack, result, abandoned)
  BY <1>2, <1>4, <1>6 DEF ReturnOK, Init
<1>9. FetchesOK(fetches, dereferenced) /\ ProtectedSurvives
  BY DEF Init, FetchesOK, ProtectedSurvives
<1> QED
  BY <1>1, <1>2, <1>7, <1>8, <1>9 DEF IInv

LEMMA NextInvariant ==
    ASSUME IInv, [Next]_vars
    PROVE  IInv'
<1>1. CASE UNCHANGED vars
  BY <1>1 DEF vars, returned, IInv, CallsOK, Outermost, ProtectedSurvives
<1>2. CASE Next
  <2>1. UNCHANGED input
    BY <1>2 DEF Next
  <2>2. CASE LoadRemote
    BY <2>1, <2>2, LoadRemoteStep
  <2>3. CASE LoadImport
    BY <2>1, <2>3, LoadImportStep
  <2>4. CASE LoadFails
    BY <2>1, <2>4, LoadFailsStep
  <2>5. CASE RejectPropagate
    BY <2>1, <2>5, RejectPropagateStep
  <2>6. CASE ProcessNull
    BY <2>1, <2>6, NullStep
  <2>7. CASE ProcessDefinition
    BY <2>1, <2>7, DefinitionStep
  <2>8. CASE EnterRemote
    BY <2>1, <2>8, EnterRemoteStep
  <2>9. CASE ReuseRemote
    BY <2>1, <2>9, ReuseRemoteStep
  <2>10. CASE AdoptRemote
    BY <2>1, <2>10, AdoptRemoteStep
  <2>11. CASE ValidateScoped
    BY <2>1, <2>11, ValidateScopedStep
  <2>12. CASE RejectTerm
    BY <2>1, <2>12, RejectTermStep
  <2>13. CASE InstallTerm
    BY <2>1, <2>13, InstallTermStep
  <2>14. CASE EndDefinition
    BY <2>1, <2>14, EndDefinitionStep
  <2>15. CASE Return
    BY <2>1, <2>15, Returned
  <2>16. CASE AbandonTerm
    BY <2>1, <2>16, AbandonTermStep
  <2> QED
    BY <1>2, <2>2, <2>3, <2>4, <2>5, <2>6, <2>7, <2>8, <2>9, <2>10, <2>11, <2>12, <2>13, <2>14, <2>15,
       <2>16
       DEF Next, Loading, Processing
<1> QED
  BY <1>1, <1>2

\* Type correctness, and what every call in progress owes to those around it
\* (process_context, whichever of its two copies runs).
THEOREM Invariance == Spec => []IInv
<1>1. Init => IInv
  BY InitInvariant
<1>2. IInv /\ [Next]_vars => IInv'
  BY NextInvariant
<1> QED
  BY <1>1, <1>2, PTL DEF Spec

\* A run dereferences no context twice, however its contexts refer to one another
\* and whatever the loader would answer later, and processes everywhere what it
\* got the first time (ProcessingStack's record of dereferenced contexts).
THEOREM Dereferencing == Spec => []DereferencedOnce
<1>1. IInv => DereferencedOnce
  BY DEF IInv, FetchesOK, CallsOK, Recorded, DereferencedOnce
<1> QED
  BY <1>1, Invariance, PTL

\* Validating a scoped context never follows a reference back into a context it
\* is reached through (ProcessingStack::cycle under validate_scoped_context).
THEOREM SkippedCycles == Spec => []ValidationSkipsCycles
<1>1. IInv => ValidationSkipsCycles
  BY DEF IInv, CallsOK, FrameOK, Chained, Leads, ValidationSkipsCycles
<1> QED
  BY <1>1, Invariance, PTL

\* Whatever the caller may override, and however deep it happens, a remote context
\* changes no term that was protected when it was entered, but those it abandons
\* for an @id or @reverse that looks like a keyword.
THEOREM RemoteProtection == Spec => []RemoteKeepsProtected
<1>1. IInv => RemoteKeepsProtected
  BY DEF IInv, CallsOK, Linked, Outermost, RemoteKeepsProtected
<1> QED
  BY <1>1, Invariance, PTL

\* A run without override_protected that succeeds leaves every protected term of
\* the active context as it was, but those a definition along the way abandoned.
THEOREM Protection == Spec => []ProtectedSurvives
<1>1. IInv => ProtectedSurvives
  BY DEF IInv
<1> QED
  BY <1>1, Invariance, PTL

-----------------------------------------------------------------------------
(* The synchronous mirror.                                                 *)
(*                                                                         *)
(* RequiresLoader is a recursive function.  That it satisfies its own      *)
(* equation needs no induction: the least set closed under the equation    *)
(* is a solution, so there is one for CHOOSE to choose.                    *)

\* What requires_loader finds in a context itself, and in one whose scoped
\* contexts are those of X.
Direct(c) ==
    \/ \E i \in DOMAIN c.entries : c.entries[i].kind = "ref"
    \/ \E d \in Definitions(c) : d.import # None
Within(c, X) == \E d \in Definitions(c) : \E s \in ScopedIn(d) : s \in X

\* Contexts that contain all that require the loader if they do, and the least of them.
Closed(X) == \A c \in LocalContexts : Direct(c) \/ Within(c, X) => c \in X
Requiring == {c \in LocalContexts : \A X \in SUBSET LocalContexts : Closed(X) => c \in X}

\* A scoped context is a context.
LEMMA ScopedIsLocal ==
    ASSUME NEW c \in LocalContexts, NEW d \in Definitions(c), NEW s \in ScopedIn(d)
    PROVE  s \in LocalContexts
  BY ProcessingAssumption DEF Definitions, ScopedIn

\* The least closed set of contexts is closed, and a fixed point.
LEMMA RequiringClosed == Closed(Requiring)
<1> SUFFICES ASSUME NEW c \in LocalContexts, Direct(c) \/ Within(c, Requiring),
                    NEW X \in SUBSET LocalContexts, Closed(X)
             PROVE  c \in X
  BY DEF Closed, Requiring
<1>1. Requiring \subseteq X
  BY DEF Requiring
<1>2. Within(c, Requiring) => Within(c, X)
  BY <1>1 DEF Within
<1> QED
  BY <1>2 DEF Closed

LEMMA RequiringFixed ==
    ASSUME NEW c \in LocalContexts
    PROVE  c \in Requiring <=> Direct(c) \/ Within(c, Requiring)
<1> DEFINE X == {b \in LocalContexts : Direct(b) \/ Within(b, Requiring)}
<1>1. X \subseteq Requiring
  BY RequiringClosed DEF Closed
<1>2. \A b : Within(b, X) => Within(b, Requiring)
  BY <1>1 DEF Within
<1>3. Closed(X)
  BY <1>2 DEF Closed
<1>4. X \in SUBSET LocalContexts
  OBVIOUS
<1>5. c \in Requiring => c \in X
  BY <1>3, <1>4 DEF Requiring
<1> QED
  BY <1>5, RequiringClosed DEF Closed

\* The recursion of RequiresLoader, on what f says of the scoped contexts.
Recursion(c, f) ==
    \/ \E i \in DOMAIN c.entries : c.entries[i].kind = "ref"
    \/ \E d \in Definitions(c) : d.import # None \/ \E s \in ScopedIn(d) : f[s]

\* A context requires the loader when it does itself or a scoped one does.
LEMMA RequiresUnfolds ==
    ASSUME NEW context \in LocalContexts
    PROVE  RequiresLoader(context) <=>
             \/ Direct(context)
             \/ \E d \in Definitions(context) : \E s \in ScopedIn(d) : RequiresLoader(s)
<1> DEFINE Is(f) == f = [c \in LocalContexts |-> Recursion(c, f)]
           R == CHOOSE f : Is(f)
           r == [c \in LocalContexts |-> c \in Requiring]
<1>1. \A c : RequiresLoader(c) = R[c]
  BY DEF RequiresLoader, Recursion
<1>2. Is(r)
  <2>1. ASSUME NEW c \in LocalContexts
        PROVE  r[c] = Recursion(c, r)
    <3>1. \A b \in LocalContexts : r[b] = (b \in Requiring)
      OBVIOUS
    <3>2. \A d \in Definitions(c) : \A s \in ScopedIn(d) : s \in LocalContexts
      BY ScopedIsLocal
    <3> HIDE DEF r
    <3>3. Recursion(c, r) <=> Direct(c) \/ Within(c, Requiring)
      BY <3>1, <3>2 DEF Within, Direct, Recursion
    <3>4. Recursion(c, r) \in BOOLEAN
      BY DEF Recursion
    <3> QED
      BY <3>1, <3>3, <3>4, RequiringFixed
  <2> QED
    BY <2>1
<1> HIDE DEF r, Is
<1>3. Is(R)
  BY <1>2
<1> HIDE DEF R
<1>4. R[context] = Recursion(context, R)
  BY <1>3 DEF Is
<1> QED
  BY <1>1, <1>4 DEF Direct, Recursion

\* A call of the synchronous mirror: over a context that needs no loader, and
\* never waiting for one.
Loaderless(f) ==
    /\ f.context \in LocalContexts /\ ~RequiresLoader(f.context)
    /\ f.index \in Nat \ {0} /\ f.term \in Nat \ {0}
    /\ f.at \in {"entry", "term", "install"}
    /\ f.at # "entry" => f.merged \in Definitions(f.context)

AllLoaderless(calls) == \A i \in DOMAIN calls : Loaderless(calls[i])

Quiet == sync => AllLoaderless(stack)

\* Pushing such a call on such calls, and what is left of them without the innermost.
LEMMA QuietPushed ==
    ASSUME NEW calls, IsSeq(calls), AllLoaderless(calls), NEW f, Loaderless(f)
    PROVE  IsSeq(Append(calls, f)) /\ AllLoaderless(Append(calls, f))
<1> DEFINE longer == Append(calls, f)
<1>1. /\ IsSeq(longer) /\ Len(calls) \in Nat /\ DOMAIN calls = 1 .. Len(calls)
      /\ DOMAIN longer = 1 .. Len(calls) + 1
      /\ \A i \in 1 .. Len(calls) : longer[i] = calls[i]
      /\ longer[Len(calls) + 1] = f
  BY Appended
<1> HIDE DEF longer
<1>2. ASSUME NEW i \in DOMAIN longer
      PROVE  longer[i] = f \/ (i \in DOMAIN calls /\ longer[i] = calls[i])
  BY <1>1
<1>3. AllLoaderless(longer)
  BY <1>2 DEF AllLoaderless
<1> QED
  BY <1>1, <1>3 DEF longer

LEMMA QuietPopped ==
    ASSUME NEW calls, IsSeq(calls), calls # <<>>, AllLoaderless(calls)
    PROVE  IsSeq(Front(calls)) /\ AllLoaderless(Front(calls)) /\ Loaderless(Last(calls))
<1> DEFINE under == Front(calls)
<1>1. /\ Len(calls) \in Nat \ {0} /\ DOMAIN calls = 1 .. Len(calls) /\ Last(calls) = calls[Len(calls)]
      /\ IsSeq(under) /\ DOMAIN under = 1 .. Len(calls) - 1
      /\ \A i \in 1 .. Len(calls) - 1 : under[i] = calls[i]
  BY FrontAndLast
<1> HIDE DEF under
<1>2. \A i \in DOMAIN under : i \in DOMAIN calls /\ under[i] = calls[i]
  BY <1>1
<1>3. AllLoaderless(under)
  BY <1>2 DEF AllLoaderless
<1>4. Len(calls) \in DOMAIN calls
  BY <1>1
<1>5. Loaderless(Last(calls))
  BY <1>1, <1>4 DEF AllLoaderless
<1> QED
  BY <1>1, <1>3, <1>5 DEF under

\* Where an action of the mirror finds its frame.
LEMMA AtLoaderless ==
    ASSUME IInv, Quiet, sync, NEW label, At(label)
    PROVE  /\ DOMAIN Frame = FrameFields /\ Loaderless(Frame) /\ Frame.at = label
           /\ IsSeq(Front(stack)) /\ AllLoaderless(Front(stack))
<1>1. IsSeq(stack) /\ stack # <<>> /\ AllLoaderless(stack)
  BY DEF IInv, CallsOK, Quiet, At
<1>2. FrameOK(Frame) /\ Frame.at = label
  BY AtFrame
<1>3. Loaderless(Frame) /\ IsSeq(Front(stack)) /\ AllLoaderless(Front(stack))
  BY <1>1, QuietPopped DEF Frame
<1> QED
  BY <1>2, <1>3 DEF FrameOK

\* The mirror is at no reference and at no @import.
LEMMA NoneToLoad ==
    ASSUME IInv, Quiet, sync, NEW kind, AtEntry(kind)
    PROVE  /\ Entry.kind = kind /\ kind # "ref"
           /\ kind = "definition" => Entry \in Definitions(Frame.context) /\ Entry.import = None
<1>1. At("entry") /\ Frame.index <= Len(Frame.context.entries) /\ Entry.kind = kind
  BY DEF AtEntry
<1>2. Loaderless(Frame)
  BY <1>1, AtLoaderless
<1> DEFINE c == Frame.context
           i == Frame.index
<1>3. c \in LocalContexts /\ ~RequiresLoader(c) /\ i \in Nat \ {0}
  BY <1>2 DEF Loaderless
<1>4. Entry = c.entries[i] /\ i <= Len(c.entries)
  BY <1>1 DEF Entry
<1> HIDE DEF c, i
<1>5. c.entries \in Seq(Range(c.entries))
  BY <1>3, ProcessingAssumption
<1>6. i \in DOMAIN c.entries
  BY <1>3, <1>4, <1>5
<1>7. ~Direct(c)
  BY <1>3, RequiresUnfolds
<1>8. kind # "ref"
  BY <1>1, <1>4, <1>6, <1>7 DEF Direct
<1>9. kind = "definition" => Entry \in Definitions(c)
  BY <1>1, <1>4, <1>6 DEF Definitions
<1>10. kind = "definition" => Entry.import = None
  BY <1>7, <1>9 DEF Direct
<1> QED
  BY <1>1, <1>8, <1>9, <1>10 DEF c

\* The innermost call goes on, makes another, or stays as it is.
LEMMA QuietUpdated ==
    ASSUME IInv, Quiet, sync, NEW label, At(label), NEW g, Update(g), UNCHANGED input, Loaderless(g)
    PROVE  Quiet'
<1>1. IsSeq(Front(stack)) /\ AllLoaderless(Front(stack))
  BY AtLoaderless
<1>2. AllLoaderless(Append(Front(stack), g))
  BY <1>1, QuietPushed
<1>3. stack' = Append(Front(stack), g)
  BY DEF Update
<1> QED
  BY <1>2, <1>3 DEF Quiet, AllLoaderless

LEMMA QuietCalled ==
    ASSUME IInv, Quiet, sync, NEW label, At(label), NEW g, NEW callee, Call(g, callee),
           UNCHANGED input, Loaderless(g), Loaderless(callee)
    PROVE  Quiet'
<1> DEFINE below == Append(Front(stack), g)
<1>1. IsSeq(Front(stack)) /\ AllLoaderless(Front(stack))
  BY AtLoaderless
<1>2. IsSeq(below) /\ AllLoaderless(below)
  BY <1>1, QuietPushed
<1>3. stack' = below \o <<callee>>
  BY DEF Call
<1> HIDE DEF below
<1>4. stack' = Append(below, callee)
  BY <1>2, <1>3 DEF IsSeq
<1>5. AllLoaderless(Append(below, callee))
  BY <1>2, QuietPushed
<1> QED
  BY <1>4, <1>5 DEF Quiet, AllLoaderless

LEMMA QuietUnmoved ==
    ASSUME Quiet, UNCHANGED stack, UNCHANGED input
    PROVE  Quiet'
BY DEF Quiet, AllLoaderless, input

\* No step of the mirror loads anything, and every other leaves it loaderless.
LEMMA QuietNext ==
    ASSUME IInv, Quiet, Next
    PROVE  Quiet'
<1>0. UNCHANGED input
  BY DEF Next
<1> SUFFICES ASSUME sync PROVE Quiet'
  BY <1>0 DEF Quiet, input
<1>1. ASSUME NEW error, Fail(error)
      PROVE  Quiet'
  BY <1>0, <1>1, QuietUnmoved DEF Fail
<1>2. ASSUME NEW label, At(label)
      PROVE  label \in {"entry", "term", "install"}
  BY <1>2, AtLoaderless DEF Loaderless
<1>3. ~At("load") /\ ~At("loaded") /\ ~At("import")
  BY <1>2
<1>4. ~Loading /\ ~ReuseRemote /\ ~AdoptRemote
  BY <1>3 DEF Loading, LoadRemote, LoadImport, LoadFails, ReuseRemote, AdoptRemote
<1>5. ~EnterRemote
  BY NoneToLoad DEF EnterRemote, Ready
<1>6. CASE RejectPropagate \/ RejectTerm
  BY <1>1, <1>6 DEF RejectPropagate, RejectTerm
<1>7. CASE ProcessNull
  <2> DEFINE c == [NewContext EXCEPT !.previous = IF Frame.propagate THEN None ELSE Frame.result]
             g == [Frame EXCEPT !.index = @ + 1, !.result = c]
  <2>1. At("entry") /\ (Update(g) \/ Fail("InvalidContextNullification"))
    BY <1>7 DEF ProcessNull, Ready, AtEntry
  <2> HIDE DEF c
  <2>2. Loaderless(g)
    BY <2>1, AtLoaderless DEF Loaderless, FrameFields
  <2> HIDE DEF g
  <2> QED
    BY <1>0, <1>1, <2>1, <2>2, QuietUpdated
<1>8. CASE ProcessDefinition
  <2>1. AtEntry("definition")
    BY <1>8 DEF ProcessDefinition, Ready
  <2>2. Entry \in Definitions(Frame.context) /\ Entry.import = None /\ At("entry")
    BY <2>1, NoneToLoad DEF AtEntry
  <2>3. Fail("ProcessingModeConflict") \/ BeginTerms(Entry)
    BY <1>8, <2>2 DEF ProcessDefinition
  <2> DEFINE g == [Frame EXCEPT
                      !.at = "term", !.merged = Entry, !.term = 1,
                      !.result.base = IF BaseApplies(Frame) THEN Applied(@, Entry.base) ELSE @,
                      !.result.scalars = [f \in DOMAIN @ |-> Applied(@[f], Entry.scalars[f])]]
  <2>4. \/ \E error : Fail(error)
        \/ Update(g)
    BY <2>3 DEF BeginTerms
  <2>5. Loaderless(g)
    <3>1. /\ g.context = Frame.context /\ g.index = Frame.index /\ g.term = 1 /\ g.at = "term"
          /\ g.merged = Entry
      BY <2>2, AtLoaderless DEF FrameFields
    <3> HIDE DEF g
    <3> QED
      BY <2>2, <3>1, AtLoaderless DEF Loaderless
  <2> HIDE DEF g
  <2> QED
    BY <1>0, <1>1, <2>2, <2>4, <2>5, QuietUpdated
<1>9. CASE ValidateScoped
  <2> DEFINE active == Without(Frame.result, Term.name)
             g == [Frame EXCEPT !.at = "install"]
             callee == Invoke("scoped", active, Term.scoped, Frame.remote, Frame.base, ScopedOptions, FALSE,
                              Frame.depth + 2)
  <2>1. At("term") /\ Frame.term <= Len(Frame.merged.terms) /\ Term.scoped # None /\ Call(g, callee)
    BY <1>9 DEF ValidateScoped, Definable, MoreTerms
  <2>2. Loaderless(Frame) /\ DOMAIN Frame = FrameFields /\ Frame.at = "term"
    BY <2>1, AtLoaderless
  <2>3. /\ Frame.merged \in Definitions(Frame.context) /\ Frame.context \in LocalContexts
        /\ ~RequiresLoader(Frame.context) /\ Frame.term \in Nat \ {0}
    BY <2>2 DEF Loaderless
  <2>4. Frame.merged.terms \in Seq(Range(Frame.merged.terms))
    BY <2>3, ProcessingAssumption DEF Definitions
  <2>5. Term.scoped \in ScopedIn(Frame.merged)
    <3>1. Frame.term \in DOMAIN Frame.merged.terms
      BY <2>1, <2>3, <2>4
    <3>2. Term.scoped \in {Frame.merged.terms[i].scoped : i \in DOMAIN Frame.merged.terms}
      BY <3>1 DEF Term
    <3> QED
      BY <2>1, <3>2 DEF ScopedIn
  <2>6. Term.scoped \in LocalContexts /\ ~RequiresLoader(Term.scoped)
    BY <2>3, <2>5, ScopedIsLocal, RequiresUnfolds
  <2> HIDE DEF active
  <2>7. /\ callee.context = Term.scoped /\ callee.index = 1 /\ callee.term = 1 /\ callee.at = "entry"
    BY DEF Invoke
  <2> HIDE DEF callee
  <2>8. Loaderless(callee)
    BY <2>6, <2>7 DEF Loaderless
  <2>9. Loaderless(g)
    BY <2>2 DEF Loaderless, FrameFields
  <2> HIDE DEF g
  <2> QED
    BY <1>0, <2>1, <2>8, <2>9, QuietCalled
<1>10. CASE InstallTerm
  <2>1. PICK label \in {"term", "install"} : At(label)
    BY <1>10 DEF InstallTerm, Definable, MoreTerms
  <2>2. \/ \E error : Fail(error)
        \/ \E grown : Update([Frame EXCEPT !.at = "term", !.term = @ + 1, !.result.terms = grown])
    BY <1>10 DEF InstallTerm
  <2>3. ASSUME NEW grown
        PROVE  Loaderless([Frame EXCEPT !.at = "term", !.term = @ + 1, !.result.terms = grown])
    <3> DEFINE g == [Frame EXCEPT !.at = "term", !.term = @ + 1, !.result.terms = grown]
    <3>1. /\ g.context = Frame.context /\ g.index = Frame.index /\ g.term = Frame.term + 1 /\ g.at = "term"
          /\ g.merged = Frame.merged
      BY <2>1, AtLoaderless DEF FrameFields
    <3> HIDE DEF g
    <3>2. Loaderless(Frame) /\ Frame.at # "entry"
      BY <2>1, AtLoaderless
    <3>3. Loaderless(g)
      BY <3>1, <3>2 DEF Loaderless
    <3> QED
      BY <3>3 DEF g
  <2> QED
    BY <1>0, <1>1, <2>1, <2>2, <2>3, QuietUpdated
<1>11. CASE EndDefinition
  <2> DEFINE g == [Frame EXCEPT !.at = "entry", !.index = @ + 1, !.merged = None]
  <2>1. At("term") /\ Update(g)
    BY <1>11 DEF EndDefinition
  <2>2. Loaderless(g)
    BY <2>1, AtLoaderless DEF Loaderless, FrameFields
  <2> HIDE DEF g
  <2> QED
    BY <1>0, <2>1, <2>2, QuietUpdated
<1>12. CASE Return
  <2>1. At("entry") /\ stack' = Front(stack)
    BY <1>12 DEF Return
  <2> QED
    BY <2>1, AtLoaderless DEF Quiet, AllLoaderless
<1>13. CASE AbandonTerm
  <2> DEFINE c == Without(Frame.result, Term.name)
             left == Frame.abandoned \cup {Term.name}
             g == [Frame EXCEPT !.term = @ + 1, !.result = c, !.abandoned = left]
  <2>1. At("term") /\ Update(g)
    BY <1>13 DEF AbandonTerm, MoreTerms
  <2> HIDE DEF c, left
  <2>2. /\ g.context = Frame.context /\ g.index = Frame.index /\ g.term = Frame.term + 1 /\ g.at = "term"
        /\ g.merged = Frame.merged
    BY <2>1, AtLoaderless DEF FrameFields
  <2> HIDE DEF g
  <2>3. Loaderless(g)
    BY <2>1, <2>2, AtLoaderless DEF Loaderless
  <2> QED
    BY <1>0, <2>1, <2>3, QuietUpdated
<1> QED
  BY <1>4, <1>5, <1>6, <1>7, <1>8, <1>9, <1>10, <1>11, <1>12, <1>13 DEF Next, Processing

LEMMA QuietInit ==
    ASSUME Init
    PROVE  Quiet
<1>1. PICK options \in Options, base \in Bases :
          stack = <<Invoke("call", initial, local, <<>>, base, options, TRUE, 0)>>
  BY DEF Init
<1> DEFINE f == Invoke("call", initial, local, <<>>, base, options, TRUE, 0)
<1>2. f.context = local /\ f.index = 1 /\ f.term = 1 /\ f.at = "entry"
  BY DEF Invoke
<1>3. stack = <<f>>
  BY <1>1
<1> HIDE DEF f
<1>4. local \in LocalContexts /\ (sync => ~RequiresLoader(local))
  BY DEF Init
<1>5. sync => Loaderless(f)
  BY <1>2, <1>4 DEF Loaderless
<1> QED
  BY <1>3, <1>5 DEF Quiet, AllLoaderless

\* A run requires_loader sends to the synchronous mirror never reaches a reference
\* or an @import, however deep the contexts scoped to its terms (sync.rs, "Loader
\* tripwire").
THEOREM Tripwire == Spec => []TripwireUnreachable
<1>1. Init => IInv /\ Quiet
  BY InitInvariant, QuietInit
<1>2. IInv /\ Quiet /\ [Next]_vars => IInv' /\ Quiet'
  <2>1. CASE UNCHANGED vars
    BY <2>1, NextInvariant, QuietUnmoved DEF vars, input
  <2>2. CASE Next
    BY <2>2, NextInvariant, QuietNext
  <2> QED
    BY <2>1, <2>2
<1>3. IInv /\ Quiet => TripwireUnreachable
  BY NoneToLoad DEF TripwireUnreachable
<1> QED
  BY <1>1, <1>2, <1>3, PTL DEF Spec

=============================================================================
