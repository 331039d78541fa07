------------------------- MODULE TermDefinitionProofs -------------------------
(***************************************************************************)
(* What Create Term Definition promises, for every context definition,     *)
(* every active context and every lexical form of the strings in them: the *)
(* recursion does not reenter a definition, what is finished is final,     *)
(* protected definitions stay, and each mapping is what its reference      *)
(* means in the table that results, although definitions leave the table   *)
(* and come back to it while others are read.                              *)
(*                                                                         *)
(* The invariant is a condition on a stack of calls, the marks of          *)
(* DefinedTerms, the table of definitions and the last answer of an        *)
(* expansion; each action has to establish it of what it leaves.           *)
(***************************************************************************)
EXTENDS TermDefinition, FiniteSetTheorems, WellFoundedInduction, TLAPS

-----------------------------------------------------------------------------
(* The calls.                                                              *)

IsSeq(s) == s \in Seq({s[i] : i \in DOMAIN s})

DefineFields == {"call", "at", "term", "protected", "base", "override", "previous", "definition"}
ExpandFields == {"call", "at", "value"}
DefinitionFields == DOMAIN EmptyDefinition(FALSE)

\* Where define is while its term is marked pending.
Pending == {"type", "typed", "iri", "reversed", "mapped", "self"}

Begun(f) == f.call = "define" /\ f.at # "begin"

KeywordForms == {"keyword", "keyword-like"}

\* Where define waits for an expansion its entries ask for, and of what.
Asking == {"typed", "reversed", "mapped"}
Asked(f) == IF f.at = "typed" THEN local.binding[f.term].type ELSE Reference(f.term)

\* Which of the entries of its binding a call of define follows.
Arm(f) ==
    LET b == local.binding[f.term]
    IN  /\ f.at = "typed" => b.type \notin {None, Null}
        /\ f.at = "reversed" => b.reverse # None /\ Form(b.reverse) \notin KeywordForms /\ b.id = None
        /\ f.at \in {"mapped", "checked"} => b.reverse = None /\ b.id \notin {None, Null, f.term}
        /\ f.at = "checked" => options.mode # "1.0"
        /\ f.at = "self" => b.reverse = None /\ b.id \in {None, f.term}

\* A definition in progress has left the table, and remembers what it was.
DefineOK(f, marks, table) ==
    /\ DOMAIN f = DefineFields
    /\ f.at \in {"begin", "checked", "rest"} \cup Pending
    /\ ~options.override => ~f.override
    /\ Begun(f) =>
          /\ f.term \in Bound \ {TypeTerm}
          /\ f.term \in DOMAIN marks /\ f.term \notin DOMAIN table
          /\ f.at \in Pending => marks[f.term]
          /\ f.at = "checked" => ~marks[f.term]
          /\ f.previous = Previous(initial, f.term)
          /\ DOMAIN f.definition = DefinitionFields
          /\ f.at \in {"type", "typed", "iri"} => f.definition.value = NoMapping
          /\ Arm(f)

ExpandOK(f) ==
    /\ DOMAIN f = ExpandFields
    /\ f.at \in {"term", "lookup", "concat"}
    /\ f.at # "term" => Form(f.value) \notin KeywordForms
    /\ f.at = "concat" => Form(f.value) = "compact"

FrameOK(f, marks, table) ==
    \/ f.call = "define" /\ DefineOK(f, marks, table)
    \/ f.call = "expand" /\ ExpandOK(f)

\* What each call waits for.
Linked(outer, inner) ==
    \/ /\ outer.call = "define" /\ inner.call = "expand"
       /\ \/ outer.at \in Asking /\ inner.value = Asked(outer)
          \/ outer.at = "checked" /\ inner.value = outer.term
    \/ /\ outer.call = "define" /\ inner.call = "define"
       /\ outer.at = "self" /\ Form(outer.term) = "compact" /\ inner.term = PrefixOf(outer.term)
    \/ /\ outer.call = "expand" /\ inner.call = "define"
       /\ \/ outer.at = "lookup" /\ inner.term = outer.value
          \/ outer.at = "concat" /\ inner.term = PrefixOf(outer.value)

NoTwoBegun(calls) ==
    \A i, j \in DOMAIN calls :
        Begun(calls[i]) /\ Begun(calls[j]) /\ calls[i].term = calls[j].term => i = j

CallsOK(calls, marks, table) ==
    /\ IsSeq(calls)
    /\ \A i \in DOMAIN calls : FrameOK(calls[i], marks, table)
    /\ \A i \in DOMAIN calls : IF i = 1 THEN calls[1].call = "define" ELSE Linked(calls[i - 1], calls[i])
    /\ NoTwoBegun(calls)

-----------------------------------------------------------------------------
(* The table.                                                              *)

\* The terms of the definitions in progress.
InHand(calls) == {calls[i].term : i \in {i \in DOMAIN calls : Begun(calls[i])}}

KeptAs(t, d) == ~options.override /\ t \in DOMAIN initial /\ initial[t].protected => d = initial[t]

\* What was not begun is as it was; what is finished is there, protection intact.
TableOK(hand, marks, table) ==
    /\ DOMAIN marks \subseteq Bound
    /\ DOMAIN table \subseteq DOMAIN initial \cup DOMAIN marks
    /\ \A t \in DOMAIN initial \ DOMAIN marks : t \in DOMAIN table /\ table[t] = initial[t]
    /\ \A t \in DOMAIN marks \ hand : ~marks[t] => t \in DOMAIN table /\ KeptAs(t, table[t])

-----------------------------------------------------------------------------
(* The mappings.                                                           *)

\* What the rest of the run leaves alone: no term of this context, or one that
\* was begun and is no longer in progress.
IsSettled(u, hand, marks) == u \notin Bound \/ (u \in DOMAIN marks /\ u \notin hand)

\* Expanding s for the sake of t read nothing but settled definitions.
Expanded(s, t, hand, marks, table) ==
    Form(s) \notin KeywordForms =>
        /\ s # t /\ IsSettled(s, hand, marks)
        /\ Form(s) = "compact" /\ s \notin DOMAIN table =>
              PrefixOf(s) # t /\ IsSettled(PrefixOf(s), hand, marks)

Grounded(t, hand, marks, table) ==
    CASE Reference(t) = Null -> TRUE
      [] Reference(t) \in {None, t} -> Form(t) = "compact" => IsSettled(PrefixOf(t), hand, marks)
      [] OTHER -> Expanded(Reference(t), t, hand, marks, table)

Means(value, t, hand, marks, table) ==
    value = Meaning(Without(table, t), t) /\ Grounded(t, hand, marks, table)

MeaningsOK(hand, marks, table) ==
    \A t \in DOMAIN marks \ (hand \cup {TypeTerm}) : ~marks[t] => Means(table[t].value, t, hand, marks, table)

\* The bound terms that expanding s is certain to wait for.
Needs(s) ==
    IF s \in {None, Null} \/ Form(s) \in KeywordForms THEN {}
    ELSE ({s} \cup PrefixesIn({s} \ (Bound \cup DOMAIN initial))) \cap Bound

\* Those that a call of define has already waited for.
Sought(f) ==
    CASE f.at \in {"iri", "reversed", "mapped", "self"} -> Needs(local.binding[f.term].type)
      [] f.at = "checked" -> Needs(local.binding[f.term].type) \cup Needs(local.binding[f.term].id)
      [] f.at = "rest" -> Must(f.term)
      [] OTHER -> {}

AllSettled(S, hand, marks) == \A d \in S : IsSettled(d, hand, marks)

Provided(f, hand, marks) == f.call = "define" => AllSettled(Sought(f), hand, marks)

\* The terms that are finished, and an order in which each comes after those it
\* has waited for.
Done(hand, marks) == {t \in DOMAIN marks \ hand : ~marks[t]}

Orders(rank, S) == \A t \in S : \A d \in Must(t) \cap S : rank[d] < rank[t]

Ranked(hand, marks) ==
    LET finished == Done(hand, marks)
    IN  /\ \A t \in finished : AllSettled(Must(t), hand, marks)
        /\ \E rank \in [finished -> 1 .. Cardinality(finished)] : Orders(rank, finished)

\* An expansion that waits for a prefix reads a settled string, or one whose
\* prefix is being defined further down, where waiting for it ends the run.
Waits(calls, j, hand, marks, table) ==
    LET s == calls[j].value
    IN  \/ IsSettled(s, hand, marks) /\ s \notin DOMAIN table
        \/ \E i \in 1 .. j - 1 : Begun(calls[i]) /\ calls[i].at \in Pending /\ calls[i].term = PrefixOf(s)

ReasonsOK(calls, hand, marks, table) ==
    /\ \A i \in DOMAIN calls :
          calls[i].call = "define" /\ calls[i].at \in {"checked", "rest"} =>
              Means(calls[i].definition.value, calls[i].term, hand, marks, table)
    /\ \A i \in DOMAIN calls : Provided(calls[i], hand, marks)
    /\ \A j \in DOMAIN calls \ {1} :
          calls[j - 1].at \in Asking /\ calls[j].at = "concat" => Waits(calls, j, hand, marks, table)

\* What a call of define on u leaves, when it returns.
Visited(u, hand, marks) == u \notin Bound \/ (u \in DOMAIN marks /\ (u \in hand => ~marks[u]))

\* What the innermost call has from the one that returned to it.
Heard(f, hand, marks, table, answer) ==
    /\ f.at = "lookup" => Visited(f.value, hand, marks)
    /\ f.at = "concat" => Visited(PrefixOf(f.value), hand, marks)
    /\ f.at = "self" /\ Form(f.term) = "compact" => Visited(PrefixOf(f.term), hand, marks)
    /\ f.at \in Asking =>
          answer = ExpandSimple(table, Asked(f)) /\ Expanded(Asked(f), f.term, hand, marks, table)
    /\ f.at = "checked" /\ Form(f.term) = "compact" => IsSettled(PrefixOf(f.term), hand, marks)

TopOK(calls, hand, marks, table, answer) ==
    calls # <<>> => Heard(calls[Len(calls)], hand, marks, table, answer)

\* The bindings the loop has been through were begun, or are about to be.
LoopOK(calls, marks, index) ==
    /\ index \in Nat \ {0}
    /\ \A i \in DOMAIN local.order :
          i < index /\ local.order[i] \in Bound =>
              \/ local.order[i] \in DOMAIN marks
              \/ calls # <<>> /\ calls[1].at = "begin" /\ calls[1].term = local.order[i]

Good(calls, marks, table, answer, index) ==
    LET hand == InHand(calls)
    IN  /\ CallsOK(calls, marks, table)
        /\ TableOK(hand, marks, table)
        /\ MeaningsOK(hand, marks, table)
        /\ Ranked(hand, marks)
        /\ ReasonsOK(calls, hand, marks, table)
        /\ TopOK(calls, hand, marks, table, answer)
        /\ LoopOK(calls, marks, index)

\* A cycle is reported where define is called on a term that is pending.
Caught(calls, marks) ==
    /\ calls # <<>> /\ Last(calls).call = "define" /\ Last(calls).at = "begin"
    /\ Last(calls).term \in DOMAIN marks /\ marks[Last(calls).term]

IInv ==
    /\ Good(stack, defined, active, returned, next)
    /\ outcome = "ok" => stack = <<>> /\ next > Len(local.order)
    /\ outcome = "CyclicIriMapping" => Caught(stack, defined)
    /\ local \in LocalContexts
    /\ \A t \in DOMAIN initial : initial[t] # None

-----------------------------------------------------------------------------
(* Sequences.                                                              *)

\* A sequence over any set is one over its own elements.
LEMMA SeqIsSeq ==
    ASSUME NEW S, NEW s \in Seq(S)
    PROVE  IsSeq(s)
BY DEF IsSeq

\* What Front and Last take from a sequence that is not empty.
LEMMA FrontAndLast ==
    ASSUME NEW s, IsSeq(s), s # <<>>
    PROVE  /\ Len(s) \in Nat \ {0} /\ DOMAIN s = 1 .. Len(s)
           /\ Last(s) = s[Len(s)]
           /\ IsSeq(Front(s)) /\ Len(Front(s)) = Len(s) - 1 /\ DOMAIN Front(s) = 1 .. Len(s) - 1
           /\ \A i \in 1 .. Len(s) - 1 : Front(s)[i] = s[i]
<1> DEFINE S == {s[i] : i \in DOMAIN s}
           t == Front(s)
<1>1. s \in Seq(S)
  BY DEF IsSeq
<1>2. Len(s) \in Nat \ {0} /\ DOMAIN s = 1 .. Len(s)
  BY <1>1
<1>3. t \in Seq(S) /\ Len(t) = Len(s) - 1 /\ \A i \in 1 .. Len(s) - 1 : t[i] = s[i]
  BY <1>1, <1>2 DEF Front
<1>4. IsSeq(t) /\ DOMAIN t = 1 .. Len(s) - 1
  BY <1>3, SeqIsSeq
<1> QED
  BY <1>2, <1>3, <1>4 DEF Last

\* What Append does to any sequence.
LEMMA Appended ==
    ASSUME NEW s, IsSeq(s), NEW x
    PROVE  /\ IsSeq(Append(s, x)) /\ Append(s, x) # <<>>
           /\ Len(s) \in Nat /\ DOMAIN s = 1 .. Len(s)
           /\ Len(Append(s, x)) = Len(s) + 1 /\ DOMAIN Append(s, x) = 1 .. Len(s) + 1
           /\ \A i \in 1 .. Len(s) : Append(s, x)[i] = s[i]
           /\ Append(s, x)[Len(s) + 1] = x
<1> DEFINE S == {s[i] : i \in DOMAIN s} \cup {x}
           t == Append(s, x)
<1>1. s \in Seq(S) /\ x \in S
  BY DEF IsSeq
<1>2. t \in Seq(S) /\ Len(t) = Len(s) + 1 /\ Len(s) \in Nat /\ DOMAIN s = 1 .. Len(s)
  BY <1>1
<1>3. DOMAIN t = 1 .. Len(s) + 1 /\ t # <<>>
  BY <1>2
<1>4. \A i \in 1 .. Len(s) : t[i] = s[i]
  BY <1>1, <1>2
<1>5. t[Len(s) + 1] = x
  BY <1>1, <1>2
<1>6. IsSeq(t)
  BY <1>2, SeqIsSeq
<1> QED
  BY <1>2, <1>3, <1>4, <1>5, <1>6


-----------------------------------------------------------------------------
(* The stack of calls.                                                     *)

Fits(calls, f) == IF calls = <<>> THEN f.call = "define" ELSE Linked(calls[Len(calls)], f)

\* The terms that a frame has in hand.
Held(f) == {t \in {f.term} : Begun(f)}

\* Returning takes the innermost call off, and what it had in hand.
LEMMA Popped ==
    ASSUME NEW calls, NEW marks, NEW table, CallsOK(calls, marks, table), calls # <<>>
    PROVE  /\ CallsOK(Front(calls), marks, table)
           /\ FrameOK(Last(calls), marks, table)
           /\ Fits(Front(calls), Last(calls))
           /\ InHand(calls) = InHand(Front(calls)) \cup Held(Last(calls))
           /\ InHand(Front(calls)) = InHand(calls) \ Held(Last(calls))
<1> DEFINE under == Front(calls)
           n == Len(calls)
<1>1. /\ n \in Nat \ {0} /\ DOMAIN calls = 1 .. n /\ Last(calls) = calls[n]
      /\ IsSeq(under) /\ Len(under) = n - 1 /\ DOMAIN under = 1 .. n - 1
      /\ \A i \in 1 .. n - 1 : under[i] = calls[i]
  BY FrontAndLast DEF CallsOK
<1>2. under = <<>> <=> Len(under) = 0
  BY <1>1 DEF IsSeq
<1> HIDE DEF under, n
<1>3. \A i \in DOMAIN under : i \in DOMAIN calls /\ under[i] = calls[i] /\ (i # 1 => under[i - 1] = calls[i - 1])
  BY <1>1
<1>4. \A i \in DOMAIN under : FrameOK(under[i], marks, table)
  BY <1>3 DEF CallsOK
<1>5. \A i \in DOMAIN under : IF i = 1 THEN under[1].call = "define" ELSE Linked(under[i - 1], under[i])
  BY <1>3 DEF CallsOK
<1>6. NoTwoBegun(under)
  BY <1>3 DEF CallsOK, NoTwoBegun
<1>7. CallsOK(under, marks, table)
  BY <1>1, <1>4, <1>5, <1>6 DEF CallsOK
<1>8. FrameOK(calls[n], marks, table)
  BY <1>1 DEF CallsOK
<1>9. Fits(under, calls[n])
  <2>1. \A i \in DOMAIN calls : IF i = 1 THEN calls[1].call = "define" ELSE Linked(calls[i - 1], calls[i])
    BY DEF CallsOK
  <2>2. n \in DOMAIN calls
    BY <1>1
  <2>3. CASE n = 1
    BY <1>1, <1>2, <2>1, <2>2, <2>3 DEF Fits
  <2>4. CASE n # 1
    <3>1. Linked(calls[n - 1], calls[n])
      BY <2>1, <2>2, <2>4
    <3>2. under # <<>> /\ under[Len(under)] = calls[n - 1]
      BY <1>1, <1>2, <2>4
    <3> QED
      BY <3>1, <3>2 DEF Fits
  <2> QED
    BY <2>3, <2>4
<1>10. InHand(calls) = InHand(under) \cup Held(calls[n])
  BY <1>1 DEF InHand, Held
<1>11. \A t \in Held(calls[n]) : t \notin InHand(under)
  BY <1>1 DEF CallsOK, NoTwoBegun, InHand, Held
<1>12. InHand(under) = InHand(calls) \ Held(calls[n])
  BY <1>10, <1>11
<1> QED
  BY <1>1, <1>7, <1>8, <1>9, <1>10, <1>12 DEF under

\* A call that fits goes on top, if what it has in hand nobody else has.
LEMMA Pushed ==
    ASSUME NEW calls, NEW marks, NEW table, CallsOK(calls, marks, table),
           NEW f, FrameOK(f, marks, table), Fits(calls, f),
           Held(f) \cap InHand(calls) = {}
    PROVE  /\ CallsOK(Append(calls, f), marks, table)
           /\ InHand(Append(calls, f)) = InHand(calls) \cup Held(f)
<1> DEFINE longer == Append(calls, f)
           n == Len(calls)
<1>1. /\ IsSeq(longer) /\ n \in Nat /\ DOMAIN calls = 1 .. n /\ DOMAIN longer = 1 .. n + 1
      /\ \A i \in 1 .. n : longer[i] = calls[i]
      /\ longer[n + 1] = f
  BY Appended DEF CallsOK
<1>2. calls = <<>> <=> n = 0
  BY DEF CallsOK, IsSeq
<1>3. n # 0 => Linked(calls[n], f)
  BY <1>2 DEF Fits
<1>4. n = 0 => f.call = "define"
  BY <1>2 DEF Fits
<1> HIDE DEF longer, n
<1>5. \A i \in DOMAIN longer : FrameOK(longer[i], marks, table)
  BY <1>1 DEF CallsOK
<1>6. ASSUME NEW i \in DOMAIN longer
      PROVE  IF i = 1 THEN longer[1].call = "define" ELSE Linked(longer[i - 1], longer[i])
  <2>1. CASE i \in DOMAIN calls
    <3>1. longer[i] = calls[i] /\ (i # 1 => longer[i - 1] = calls[i - 1])
      BY <1>1, <2>1
    <3> QED
      BY <2>1, <3>1 DEF CallsOK
  <2>2. CASE i = n + 1 /\ n = 0
    BY <1>1, <1>4, <2>2
  <2>3. CASE i = n + 1 /\ n # 0
    <3>1. i # 1 /\ longer[i - 1] = calls[n] /\ longer[i] = f
      BY <1>1, <2>3
    <3> QED
      BY <1>3, <2>3, <3>1
  <2> QED
    BY <1>1, <1>6, <2>1, <2>2, <2>3
<1>7. NoTwoBegun(longer)
  <2>1. \A i \in DOMAIN calls : Begun(calls[i]) /\ Begun(f) => calls[i].term # f.term
    BY DEF InHand, Held
  <2>2. \A i \in DOMAIN longer : (i \in DOMAIN calls /\ longer[i] = calls[i]) \/ (i = n + 1 /\ longer[i] = f)
    BY <1>1
  <2>3. NoTwoBegun(calls)
    BY DEF CallsOK
  <2> QED
    BY <2>1, <2>2, <2>3 DEF NoTwoBegun
<1>8. CallsOK(longer, marks, table)
  BY <1>1, <1>5, <1>6, <1>7 DEF CallsOK
<1>9. InHand(longer) = InHand(calls) \cup Held(f)
  BY <1>1 DEF InHand, Held
<1> QED
  BY <1>8, <1>9 DEF longer

\* Calls go by what the marks and the table say of the terms they have in hand.
LEMMA Reframed ==
    ASSUME NEW calls, NEW marks, NEW table, CallsOK(calls, marks, table), NEW later, NEW grown,
           \A t \in InHand(calls) : t \in DOMAIN later /\ later[t] = marks[t] /\ t \notin DOMAIN grown
    PROVE  CallsOK(calls, later, grown)
<1>1. ASSUME NEW i \in DOMAIN calls
      PROVE  FrameOK(calls[i], later, grown)
  <2>1. FrameOK(calls[i], marks, table)
    BY DEF CallsOK
  <2>2. Begun(calls[i]) => calls[i].term \in InHand(calls)
    BY DEF InHand
  <2>3. CASE calls[i].call = "define"
    BY <2>1, <2>2, <2>3 DEF FrameOK, DefineOK
  <2>4. CASE calls[i].call # "define"
    BY <2>1, <2>4 DEF FrameOK
  <2> QED
    BY <2>3, <2>4
<1> QED
  BY <1>1 DEF CallsOK

-----------------------------------------------------------------------------
(* A definition that counts as defined while its own IRI is checked.       *)

BoundAreStrings == Bound \subseteq Strings

\* Positions below the last.
LEMMA Lower ==
    ASSUME NEW n \in Nat
    PROVE  /\ \A i \in 1 .. n : i # n => i \in 1 .. n - 1
           /\ \A i \in 1 .. n - 1 :
                 /\ i + 1 \in 1 .. n /\ i + 1 # 1 /\ (i + 1) - 1 = i /\ (i + 1) + 1 = i + 2 /\ i # n
                 /\ i + 1 # n => i + 1 \in 1 .. n - 1
                 /\ i + 1 # n => i + 2 \in 1 .. n
                 /\ i + 1 # n /\ i + 2 # n => i + 2 \in 1 .. n - 1
                 /\ i # n - 1 => i + 1 # n
                 /\ i + 1 # n - 1 => i + 2 # n
                 /\ i + 1 = n => n \in Nat \ {0, 1} /\ n - 1 = i
OBVIOUS

\* What another call waits under is neither beginning nor at its end.
LEMMA Waiting ==
    ASSUME NEW calls, NEW marks, NEW table, CallsOK(calls, marks, table),
           NEW i \in 1 .. Len(calls) - 1
    PROVE  /\ i \in DOMAIN calls /\ i + 1 \in DOMAIN calls
           /\ Linked(calls[i], calls[i + 1])
           /\ calls[i].at \notin {"begin", "rest"}
           /\ calls[i].call = "define" => Begun(calls[i])
<1>1. Len(calls) \in Nat /\ DOMAIN calls = 1 .. Len(calls)
  BY DEF CallsOK, IsSeq
<1>2. i \in DOMAIN calls /\ i + 1 \in DOMAIN calls /\ i + 1 # 1 /\ (i + 1) - 1 = i
  BY <1>1
<1>3. Linked(calls[(i + 1) - 1], calls[i + 1])
  BY <1>2 DEF CallsOK
<1>4. Linked(calls[i], calls[i + 1])
  BY <1>2, <1>3
<1> QED
  BY <1>2, <1>4 DEF Linked, Begun, Asking

\* Above a term that is checked there is only the expansion of the term itself,
\* until that waits for the term's prefix.
LEMMA UnderCheck ==
    ASSUME NEW calls, NEW marks, NEW table, CallsOK(calls, marks, table),
           NEW i \in 1 .. Len(calls) - 1,
           calls[i].call = "define", calls[i].at = "checked"
    PROVE  /\ calls[i + 1].call = "expand"
           /\ \/ i + 1 = Len(calls)
              \/ i + 2 = Len(calls) /\ calls[i + 2].at = "begin"
              \/ /\ i + 2 \in 1 .. Len(calls)
                 /\ Form(calls[i].term) = "compact"
                 /\ calls[i + 2].call = "define" /\ calls[i + 2].term = PrefixOf(calls[i].term)
<1> DEFINE n == Len(calls)
           u == calls[i].term
<1>1. n \in Nat /\ DOMAIN calls = 1 .. n
  BY DEF CallsOK, IsSeq
<1>2. /\ Linked(calls[i], calls[i + 1]) /\ i \in DOMAIN calls /\ i + 1 \in DOMAIN calls
      /\ Begun(calls[i])
  BY Waiting
<1>3. calls[i + 1].call = "expand" /\ calls[i + 1].value = u
  BY <1>2 DEF Linked, Asking
<1>4. CASE i + 1 = n
  BY <1>3, <1>4
<1>5. CASE i + 1 # n
  <2>1. i + 1 \in 1 .. n - 1
    BY <1>1, <1>2, <1>5
  <2>2. Linked(calls[i + 1], calls[(i + 1) + 1]) /\ (i + 1) + 1 \in DOMAIN calls
    BY <2>1, Waiting
  <2>3. (i + 1) + 1 = i + 2
    BY <1>1
  <2>4. Linked(calls[i + 1], calls[i + 2]) /\ i + 2 \in DOMAIN calls
    BY <2>2, <2>3
  <2>5. CASE calls[i + 1].at = "lookup"
    <3>1. calls[i + 2].call = "define" /\ calls[i + 2].term = u
      BY <1>3, <2>4, <2>5 DEF Linked
    <3>2. ~Begun(calls[i + 2])
      BY <1>1, <1>2, <2>4, <3>1 DEF CallsOK, NoTwoBegun
    <3>3. calls[i + 2].at = "begin"
      BY <3>1, <3>2 DEF Begun
    <3>4. i + 2 = n
      <4>1. SUFFICES ASSUME i + 2 # n PROVE FALSE
        OBVIOUS
      <4>2. i + 2 \in 1 .. n - 1
        BY <1>1, <1>5, <4>1, Lower
      <4> QED
        BY <3>3, <4>2, Waiting
    <3> QED
      BY <1>3, <3>3, <3>4
  <2>6. CASE calls[i + 1].at # "lookup"
    <3>1. calls[i + 1].at = "concat" /\ calls[i + 2].call = "define" /\ calls[i + 2].term = PrefixOf(u)
      BY <1>3, <2>4, <2>6 DEF Linked
    <3>2. FrameOK(calls[i + 1], marks, table)
      BY <1>2 DEF CallsOK
    <3>3. Form(u) = "compact"
      BY <1>3, <3>1, <3>2 DEF FrameOK, ExpandOK
    <3> QED
      BY <1>1, <1>3, <2>4, <3>1, <3>3
  <2> QED
    BY <2>5, <2>6
<1> QED
  BY <1>4, <1>5

\* Where a term is in hand although it counts as defined.
LEMMA CheckedFrame ==
    ASSUME NEW calls, NEW marks, NEW table, CallsOK(calls, marks, table),
           NEW u \in InHand(calls), ~marks[u]
    PROVE  \E i \in 1 .. Len(calls) :
              /\ calls[i].call = "define" /\ calls[i].term = u
              /\ calls[i].at \in {"checked", "rest"}
              /\ i # Len(calls) => calls[i].at = "checked"
<1>1. Len(calls) \in Nat /\ DOMAIN calls = 1 .. Len(calls)
  BY DEF CallsOK, IsSeq
<1>2. PICK i \in DOMAIN calls : Begun(calls[i]) /\ calls[i].term = u
  BY DEF InHand
<1>3. FrameOK(calls[i], marks, table)
  BY DEF CallsOK
<1>4. calls[i].call = "define" /\ calls[i].at \in {"checked", "rest"}
  BY <1>2, <1>3 DEF FrameOK, DefineOK, Begun
<1>5. i # Len(calls) => calls[i].at = "checked"
  <2>1. i # Len(calls) => i \in 1 .. Len(calls) - 1
    BY <1>1
  <2> QED
    BY <1>4, <2>1, Waiting
<1> QED
  BY <1>1, <1>2, <1>4, <1>5

\* A prefix holds no colon, so a term that is one is never in hand again above
\* the place where it is checked.
LEMMA CheckedPrefix ==
    ASSUME NEW calls, NEW marks, NEW table, CallsOK(calls, marks, table), BoundAreStrings,
           NEW u \in InHand(calls), ~marks[u], Form(u) # "compact",
           calls[Len(calls)].at # "begin"
    PROVE  \/ calls[Len(calls)].call = "define" /\ calls[Len(calls)].at \in {"checked", "rest"}
           \/ /\ Len(calls) \in Nat \ {0, 1} /\ calls[Len(calls)].call = "expand"
              /\ calls[Len(calls) - 1].at = "checked" /\ calls[Len(calls) - 1].term = u
<1> DEFINE n == Len(calls)
<1>1. n \in Nat /\ DOMAIN calls = 1 .. n
  BY DEF CallsOK, IsSeq
<1>2. PICK i \in 1 .. n :
          /\ calls[i].call = "define" /\ calls[i].term = u /\ calls[i].at \in {"checked", "rest"}
          /\ i # n => calls[i].at = "checked"
  BY CheckedFrame
<1>3. CASE i = n
  BY <1>2, <1>3
<1>4. CASE i # n
  <2>1. i \in 1 .. n - 1 /\ calls[i].at = "checked"
    BY <1>1, <1>2, <1>4, Lower
  <2>2. calls[i + 1].call = "expand" /\ i + 1 = n
    BY <1>2, <2>1, UnderCheck
  <2>3. n \in Nat \ {0, 1} /\ n - 1 = i
    BY <1>1, <2>1, <2>2, Lower
  <2> QED
    BY <1>2, <2>1, <2>2, <2>3
<1> QED
  BY <1>3, <1>4

\* What else reads a term that is checked has its prefix pending below.
LEMMA Blocked ==
    ASSUME NEW calls, NEW marks, NEW table, CallsOK(calls, marks, table), BoundAreStrings,
           Len(calls) > 1, calls[Len(calls)].call = "expand",
           calls[Len(calls) - 1].call = "define", calls[Len(calls) - 1].at \in Asking,
           NEW u \in InHand(calls), ~marks[u]
    PROVE  /\ Form(u) = "compact"
           /\ \E i \in 1 .. Len(calls) - 1 :
                 Begun(calls[i]) /\ calls[i].at \in Pending /\ calls[i].term = PrefixOf(u)
<1> DEFINE n == Len(calls)
<1>1. n \in Nat /\ DOMAIN calls = 1 .. n /\ n > 1
  BY DEF CallsOK, IsSeq
<1>2. PICK i \in 1 .. n :
          /\ calls[i].call = "define" /\ calls[i].term = u /\ calls[i].at \in {"checked", "rest"}
          /\ i # n => calls[i].at = "checked"
  BY CheckedFrame
<1>3. i # n /\ i # n - 1
  BY <1>2 DEF Asking
<1>4. i \in 1 .. n - 1 /\ calls[i].at = "checked" /\ i + 1 # n
  BY <1>1, <1>2, <1>3, Lower
<1>5. /\ calls[i + 1].call = "expand"
      /\ \/ i + 1 = n
         \/ i + 2 = n /\ calls[i + 2].at = "begin"
         \/ /\ i + 2 \in 1 .. n /\ Form(u) = "compact"
            /\ calls[i + 2].call = "define" /\ calls[i + 2].term = PrefixOf(u)
  BY <1>2, <1>4, UnderCheck
<1>6. i + 1 # n - 1
  BY <1>5
<1>7. i + 2 # n /\ i + 2 \in 1 .. n - 1
  BY <1>1, <1>4, <1>6, Lower
<1>8. Form(u) = "compact" /\ calls[i + 2].call = "define" /\ calls[i + 2].term = PrefixOf(u)
  BY <1>4, <1>5, <1>7
<1>9. Begun(calls[i + 2]) /\ calls[i + 2].at # "rest" /\ i + 2 \in DOMAIN calls
  BY <1>7, <1>8, Waiting
<1>10. calls[i + 2].at # "checked"
  <2>1. SUFFICES ASSUME calls[i + 2].at = "checked" PROVE FALSE
    OBVIOUS
  <2>2. i + 2 # n - 1
    BY <2>1 DEF Asking
  <2>3. /\ calls[(i + 2) + 1].call = "expand"
        /\ \/ (i + 2) + 1 = n
           \/ (i + 2) + 2 = n /\ calls[(i + 2) + 2].at = "begin"
           \/ Form(calls[i + 2].term) = "compact"
    BY <1>7, <1>8, <2>1, UnderCheck
  <2>4. (i + 2) + 1 # n - 1
    BY <2>3
  <2>5. Form(calls[i + 2].term) = "compact"
    BY <1>1, <1>7, <2>2, <2>3, <2>4, Lower
  <2>6. u \in Strings
    <3>1. i \in DOMAIN calls /\ Begun(calls[i])
      BY <1>1, <1>2, <1>4 DEF Begun
    <3>2. FrameOK(calls[i], marks, table)
      BY <3>1 DEF CallsOK
    <3> QED
      BY <1>2, <3>1, <3>2 DEF FrameOK, DefineOK, BoundAreStrings
  <2> QED
    BY <1>8, <2>5, <2>6, TermAssumption
<1>11. FrameOK(calls[i + 2], marks, table)
  BY <1>9 DEF CallsOK
<1>12. calls[i + 2].at \in Pending
  BY <1>8, <1>9, <1>10, <1>11 DEF FrameOK, DefineOK, Begun
<1> QED
  BY <1>7, <1>8, <1>9, <1>12

-----------------------------------------------------------------------------
(* What was read stays as it was.                                          *)

SameAt(a, b, u) == (u \in DOMAIN a <=> u \in DOMAIN b) /\ (u \in DOMAIN a => b[u] = a[u])

\* What is settled stays settled, and as it is.
Onward(hand, marks, table, after, later, grown) ==
    \A u : IsSettled(u, hand, marks) => IsSettled(u, after, later) /\ SameAt(table, grown, u)

LEMMA OtherThan ==
    ASSUME NEW table, NEW t, NEW u, u # t
    PROVE  SameAt(table, Without(table, t), u)
BY DEF SameAt, Without

LEMMA OthersAgree ==
    ASSUME NEW a, NEW b, NEW t, NEW u, u # t, SameAt(a, b, u)
    PROVE  SameAt(Without(a, t), Without(b, t), u)
BY DEF SameAt, Without

\* expand_iri_simple reads a string's own definition, or else its prefix's.
LEMMA ExpansionReads ==
    ASSUME NEW a, NEW b, NEW s,
           Form(s) \notin KeywordForms => SameAt(a, b, s),
           Form(s) = "compact" /\ s \notin DOMAIN a => SameAt(a, b, PrefixOf(s))
    PROVE  ExpandSimple(a, s) = ExpandSimple(b, s)
<1>1. CASE Form(s) \in KeywordForms
  BY <1>1 DEF ExpandSimple, KeywordForms
<1>2. CASE Form(s) \notin KeywordForms /\ s \in DOMAIN a
  BY <1>2 DEF ExpandSimple, SameAt, KeywordForms
<1>3. CASE Form(s) \notin KeywordForms /\ s \notin DOMAIN a /\ Form(s) = "compact"
  <2>1. SameAt(a, b, PrefixOf(s)) /\ s \notin DOMAIN b
    BY <1>3 DEF SameAt
  <2>2. MayPrefix(a, PrefixOf(s)) <=> MayPrefix(b, PrefixOf(s))
    BY <2>1 DEF MayPrefix, SameAt
  <2>3. MayPrefix(a, PrefixOf(s)) => a[PrefixOf(s)] = b[PrefixOf(s)]
    BY <2>1 DEF MayPrefix, SameAt
  <2> QED
    BY <1>3, <2>1, <2>2, <2>3 DEF ExpandSimple
<1>4. CASE Form(s) \notin KeywordForms /\ s \notin DOMAIN a /\ Form(s) # "compact"
  BY <1>4 DEF ExpandSimple, SameAt, KeywordForms
<1> QED
  BY <1>1, <1>2, <1>3, <1>4

\* Expanding for the sake of t reads the same with and without t.
LEMMA WithoutOwn ==
    ASSUME NEW s, NEW t, NEW hand, NEW marks, NEW table, Expanded(s, t, hand, marks, table)
    PROVE  ExpandSimple(Without(table, t), s) = ExpandSimple(table, s)
<1>1. Form(s) \notin KeywordForms => SameAt(table, Without(table, t), s)
  BY OtherThan DEF Expanded
<1>2. Form(s) = "compact" /\ s \notin DOMAIN table => SameAt(table, Without(table, t), PrefixOf(s))
  BY OtherThan DEF Expanded, KeywordForms
<1> QED
  BY <1>1, <1>2, ExpansionReads

LEMMA ExpandedStays ==
    ASSUME NEW s, NEW t, NEW hand, NEW marks, NEW table, Expanded(s, t, hand, marks, table),
           NEW after, NEW later, NEW grown, Onward(hand, marks, table, after, later, grown)
    PROVE  /\ Expanded(s, t, after, later, grown)
           /\ ExpandSimple(Without(grown, t), s) = ExpandSimple(Without(table, t), s)
<1>1. Form(s) \notin KeywordForms =>
          s # t /\ IsSettled(s, after, later) /\ SameAt(table, grown, s)
  BY DEF Expanded, Onward
<1>2. Form(s) = "compact" /\ s \notin DOMAIN table =>
          /\ PrefixOf(s) # t /\ IsSettled(PrefixOf(s), after, later)
          /\ SameAt(table, grown, PrefixOf(s))
  BY DEF Expanded, Onward, KeywordForms
<1>3. Expanded(s, t, after, later, grown)
  BY <1>1, <1>2 DEF Expanded, SameAt
<1>4. Form(s) \notin KeywordForms => SameAt(Without(table, t), Without(grown, t), s)
  BY <1>1, OthersAgree
<1>5. Form(s) = "compact" /\ s \notin DOMAIN Without(table, t) =>
          SameAt(Without(table, t), Without(grown, t), PrefixOf(s))
  <2>1. Form(s) = "compact" => (s \notin DOMAIN Without(table, t) => s \notin DOMAIN table)
    BY <1>1 DEF Without, KeywordForms
  <2> QED
    BY <1>2, <2>1, OthersAgree
<1>6. ExpandSimple(Without(table, t), s) = ExpandSimple(Without(grown, t), s)
  BY <1>4, <1>5, ExpansionReads
<1> QED
  BY <1>3, <1>6

\* A term without an @id of its own reads its prefix, if it has one.
LEMMA OwnReads ==
    ASSUME NEW a, NEW b, NEW t \in Strings, t \notin DOMAIN a, t \notin DOMAIN b,
           Form(t) = "compact" => SameAt(a, b, PrefixOf(t))
    PROVE  SelfMapping(a, t) = SelfMapping(b, t)
<1>1. CASE Form(t) = "compact"
  BY <1>1 DEF SelfMapping, SameAt
<1>2. CASE Form(t) = "relative"
  <2>1. ExpandSimple(a, t) = ExpandSimple(b, t)
    BY <1>2 DEF ExpandSimple
  <2> QED
    BY <1>2, <2>1 DEF SelfMapping
<1>3. CASE Form(t) \notin {"compact", "relative"}
  BY <1>3 DEF SelfMapping
<1> QED
  BY <1>1, <1>2, <1>3

LEMMA MeansStays ==
    ASSUME NEW value, NEW t \in Strings, NEW hand, NEW marks, NEW table, Means(value, t, hand, marks, table),
           NEW after, NEW later, NEW grown, Onward(hand, marks, table, after, later, grown)
    PROVE  Means(value, t, after, later, grown)
<1> DEFINE r == Reference(t)
           a == Without(table, t)
           b == Without(grown, t)
<1>1. t \notin DOMAIN a /\ t \notin DOMAIN b
  BY DEF Without
<1>2. value = Meaning(a, t) /\ Grounded(t, hand, marks, table)
  BY DEF Means
<1> HIDE DEF a, b
<1>3. CASE r = Null
  <2>1. r \notin {None, t}
    BY <1>3, TermAssumption
  <2>2. Meaning(a, t) = NoMapping /\ Meaning(b, t) = NoMapping
    BY <1>3, <2>1 DEF Meaning
  <2>3. Grounded(t, after, later, grown)
    BY <1>3, <2>1 DEF Grounded
  <2> QED
    BY <1>2, <2>2, <2>3 DEF Means, b
<1>4. CASE r # Null /\ r \in {None, t}
  <2>1. Form(t) = "compact" =>
            /\ PrefixOf(t) # t /\ SameAt(table, grown, PrefixOf(t))
            /\ IsSettled(PrefixOf(t), after, later)
    BY <1>2, <1>4, TermAssumption DEF Grounded, Onward
  <2>2. Form(t) = "compact" => SameAt(a, b, PrefixOf(t))
    BY <2>1, OthersAgree DEF a, b
  <2>3. SelfMapping(a, t) = SelfMapping(b, t)
    BY <1>1, <2>2, OwnReads
  <2>4. Meaning(a, t) = Meaning(b, t)
    BY <1>4, <2>3 DEF Meaning
  <2>5. Grounded(t, after, later, grown)
    BY <1>4, <2>1 DEF Grounded
  <2> QED
    BY <1>2, <2>4, <2>5 DEF Means, b
<1>5. CASE r # Null /\ r \notin {None, t}
  <2>1. Expanded(r, t, hand, marks, table)
    BY <1>2, <1>5 DEF Grounded
  <2>2. Expanded(r, t, after, later, grown) /\ ExpandSimple(b, r) = ExpandSimple(a, r)
    BY <2>1, ExpandedStays DEF a, b
  <2>3. Meaning(a, t) = Meaning(b, t)
    BY <1>5, <2>2 DEF Meaning
  <2>4. Grounded(t, after, later, grown)
    BY <1>5, <2>2 DEF Grounded
  <2> QED
    BY <1>2, <2>3, <2>4 DEF Means, b
<1> QED
  BY <1>3, <1>4, <1>5

\* What the waiting calls have found out stays true.
LEMMA ReasonsStay ==
    ASSUME NEW calls, NEW hand, NEW marks, NEW table, ReasonsOK(calls, hand, marks, table),
           CallsOK(calls, marks, table), BoundAreStrings,
           NEW after, NEW later, NEW grown, Onward(hand, marks, table, after, later, grown)
    PROVE  ReasonsOK(calls, after, later, grown)
<1>1. ASSUME NEW i \in DOMAIN calls, calls[i].call = "define", calls[i].at \in {"checked", "rest"}
      PROVE  Means(calls[i].definition.value, calls[i].term, after, later, grown)
  <2>1. FrameOK(calls[i], marks, table)
    BY DEF CallsOK
  <2>2. calls[i].term \in Strings
    BY <1>1, <2>1 DEF FrameOK, DefineOK, Begun, BoundAreStrings
  <2>3. Means(calls[i].definition.value, calls[i].term, hand, marks, table)
    BY <1>1 DEF ReasonsOK
  <2> QED
    BY <2>2, <2>3, MeansStays
<1>2. ASSUME NEW j \in DOMAIN calls \ {1}, calls[j - 1].at \in Asking, calls[j].at = "concat"
      PROVE  Waits(calls, j, after, later, grown)
  <2>1. Waits(calls, j, hand, marks, table)
    BY <1>2 DEF ReasonsOK
  <2> QED
    BY <2>1 DEF Waits, Onward, SameAt
<1>3. \A i \in DOMAIN calls : Provided(calls[i], after, later)
  BY DEF ReasonsOK, Provided, AllSettled, Onward
<1> QED
  BY <1>1, <1>2, <1>3 DEF ReasonsOK

\* Popping and pushing leave what the calls below have found out.
LEMMA ReasonsBelow ==
    ASSUME NEW calls, NEW hand, NEW marks, NEW table, ReasonsOK(calls, hand, marks, table),
           IsSeq(calls), calls # <<>>
    PROVE  ReasonsOK(Front(calls), hand, marks, table)
<1> DEFINE under == Front(calls)
<1>1. /\ Len(calls) \in Nat \ {0} /\ DOMAIN calls = 1 .. Len(calls) /\ DOMAIN under = 1 .. Len(calls) - 1
      /\ \A i \in 1 .. Len(calls) - 1 : under[i] = calls[i]
  BY FrontAndLast
<1> HIDE DEF under
<1>2. \A i \in DOMAIN under : i \in DOMAIN calls /\ under[i] = calls[i]
  BY <1>1
<1>3. ASSUME NEW j \in DOMAIN under \ {1}, under[j - 1].at \in Asking, under[j].at = "concat"
      PROVE  Waits(under, j, hand, marks, table)
  <2>1. j \in DOMAIN calls \ {1} /\ under[j] = calls[j] /\ \A i \in 1 .. j - 1 : under[i] = calls[i]
    BY <1>1
  <2>2. under[j - 1] = calls[j - 1]
    BY <1>1, <2>1
  <2>3. Waits(calls, j, hand, marks, table)
    BY <1>3, <2>1, <2>2 DEF ReasonsOK
  <2> QED
    BY <2>1, <2>3 DEF Waits
<1>4. ReasonsOK(under, hand, marks, table)
  BY <1>2, <1>3 DEF ReasonsOK
<1> QED
  BY <1>4 DEF under

LEMMA ReasonsAbove ==
    ASSUME NEW calls, NEW hand, NEW marks, NEW table, ReasonsOK(calls, hand, marks, table), IsSeq(calls),
           NEW f, Provided(f, hand, marks),
           f.call = "define" /\ f.at \in {"checked", "rest"} =>
               Means(f.definition.value, f.term, hand, marks, table),
           f.at = "concat" /\ calls # <<>> /\ calls[Len(calls)].at \in Asking =>
               Waits(Append(calls, f), Len(calls) + 1, hand, marks, table)
    PROVE  ReasonsOK(Append(calls, f), hand, marks, table)
<1> DEFINE longer == Append(calls, f)
           n == Len(calls)
<1>1. /\ n \in Nat /\ DOMAIN calls = 1 .. n /\ DOMAIN longer = 1 .. n + 1
      /\ \A i \in 1 .. n : longer[i] = calls[i]
      /\ longer[n + 1] = f
  BY Appended
<1>2. calls = <<>> <=> n = 0
  BY DEF IsSeq
<1>3. f.at = "concat" /\ n # 0 /\ calls[n].at \in Asking =>
          Waits(longer, n + 1, hand, marks, table)
  BY <1>2
<1> HIDE DEF longer, n
<1>4. \A i \in DOMAIN longer : (i \in DOMAIN calls /\ longer[i] = calls[i]) \/ (i = n + 1 /\ longer[i] = f)
  BY <1>1
<1>5. ASSUME NEW j \in DOMAIN longer \ {1}, longer[j - 1].at \in Asking, longer[j].at = "concat"
      PROVE  Waits(longer, j, hand, marks, table)
  <2>1. CASE j = n + 1
    <3>1. n # 0 /\ longer[j - 1] = calls[n] /\ longer[j] = f
      BY <1>1, <2>1
    <3> QED
      BY <1>3, <1>5, <2>1, <3>1
  <2>2. CASE j # n + 1
    <3>1. j \in DOMAIN calls \ {1} /\ longer[j] = calls[j] /\ \A i \in 1 .. j - 1 : longer[i] = calls[i]
      BY <1>1, <2>2
    <3>2. longer[j - 1] = calls[j - 1]
      BY <1>1, <3>1
    <3>3. Waits(calls, j, hand, marks, table)
      BY <1>5, <3>1, <3>2 DEF ReasonsOK
    <3> QED
      BY <3>1, <3>3 DEF Waits
  <2> QED
    BY <2>1, <2>2
<1>6. ReasonsOK(longer, hand, marks, table)
  BY <1>4, <1>5 DEF ReasonsOK
<1> QED
  BY <1>6 DEF longer

\* Only t changes its mark, its entry in the table, and whether it is in hand.
OnlyAt(t, hand, marks, table, after, later, grown) ==
    /\ t \in DOMAIN later
    /\ \A u : u # t =>
          /\ u \in hand <=> u \in after
          /\ SameAt(marks, later, u)
          /\ SameAt(table, grown, u)

\* What is settled stays so when a term that is not settled changes.
LEMMA OnwardAt ==
    ASSUME NEW t \in Bound, NEW hand, NEW marks, NEW table, ~IsSettled(t, hand, marks),
           NEW after, NEW later, NEW grown, OnlyAt(t, hand, marks, table, after, later, grown)
    PROVE  Onward(hand, marks, table, after, later, grown)
BY DEF IsSettled, OnlyAt, Onward, SameAt

-----------------------------------------------------------------------------
(* What is finished, in order.                                             *)

\* A call that is beginning, or that has only its type to wait for, has waited
\* for nothing.
LEMMA ProvidedNothing ==
    ASSUME NEW f, f.call = "define" => f.at \in {"begin", "type", "typed"}, NEW hand, NEW marks
    PROVE  Provided(f, hand, marks)
BY DEF Provided, Sought, AllSettled

\* What the expansion of a string read settles what it had to wait for.
LEMMA NeedsSettled ==
    ASSUME NEW s, NEW t, NEW hand, NEW marks, NEW table,
           Expanded(s, t, hand, marks, table), TableOK(hand, marks, table)
    PROVE  AllSettled(Needs(s), hand, marks)
<1>1. SUFFICES ASSUME NEW d \in Needs(s)
               PROVE  IsSettled(d, hand, marks)
  BY DEF AllSettled
<1>2. Form(s) \notin KeywordForms
  BY <1>1 DEF Needs
<1>3. CASE d = s
  BY <1>2, <1>3 DEF Expanded
<1>4. CASE d # s
  <2>1. Form(s) = "compact" /\ d = PrefixOf(s) /\ s \notin Bound \cup DOMAIN initial
    BY <1>1, <1>4 DEF Needs, PrefixesIn
  <2>2. s \notin DOMAIN table
    BY <2>1 DEF TableOK
  <2> QED
    BY <1>2, <2>1, <2>2 DEF Expanded
<1> QED
  BY <1>3, <1>4

\* What a definition must wait for, entry by entry.
LEMMA MustNeeds ==
    ASSUME NEW t \in Bound \ {TypeTerm}, NEW d \in Must(t)
    PROVE  LET b == local.binding[t]
           IN  \/ d \in Needs(b.type) \/ d \in Needs(b.reverse)
               \/ b.id # t /\ d \in Needs(b.id)
               \/ t \in Own(t) /\ Form(t) = "compact" /\ d = PrefixOf(t)
<1> DEFINE b == local.binding[t]
           R == Refers(t)
<1>1. d \in Bound /\ (d \in R \/ d \in PrefixesIn(R \ (Bound \cup DOMAIN initial)) \/ d \in PrefixesIn(Own(t)))
  BY DEF Must, PrefixesIn
<1>2. \A s \in R : /\ (s = b.type \/ s = b.reverse \/ (s = b.id /\ b.id # t))
                    /\ s \notin {None, Null} /\ Form(s) \notin KeywordForms
  BY DEF Refers, KeywordForms
<1>3. \A s \in Own(t) : s = t
  BY DEF Own
<1> HIDE DEF R, b
<1>4. CASE d \in PrefixesIn(Own(t))
  <2>1. PICK s \in Own(t) : Form(s) = "compact" /\ d = PrefixOf(s)
    BY <1>4 DEF PrefixesIn
  <2> QED
    BY <1>3, <2>1
<1>5. ASSUME NEW s \in R, d = s \/ (s \notin Bound \cup DOMAIN initial /\ Form(s) = "compact" /\ d = PrefixOf(s))
      PROVE  d \in Needs(s)
  BY <1>1, <1>2, <1>5 DEF Needs, PrefixesIn
<1>6. CASE d \in R
  BY <1>2, <1>5, <1>6 DEF b
<1>7. CASE d \in PrefixesIn(R \ (Bound \cup DOMAIN initial))
  <2>1. PICK s \in R \ (Bound \cup DOMAIN initial) : Form(s) = "compact" /\ d = PrefixOf(s)
    BY <1>7 DEF PrefixesIn
  <2>2. d \in Needs(s)
    BY <1>5, <2>1
  <2> QED
    BY <1>2, <2>1, <2>2 DEF b
<1> QED
  BY <1>1, <1>4, <1>6, <1>7

\* The @type entry waits for nothing.
LEMMA TypeWaitsForNothing == Must(TypeTerm) = {}
BY DEF Must, Refers, Own, PrefixesIn

\* A term that nothing finished waited for comes last.
LEMMA RankedLast ==
    ASSUME NEW S, IsFiniteSet(S), NEW t, t \notin S, t \notin Must(t), \A u \in S : t \notin Must(u),
           NEW rank \in [S -> 1 .. Cardinality(S)], Orders(rank, S)
    PROVE  \E longer \in [S \cup {t} -> 1 .. Cardinality(S \cup {t})] : Orders(longer, S \cup {t})
<1> DEFINE n == Cardinality(S)
           longer == [u \in S \cup {t} |-> IF u = t THEN n + 1 ELSE rank[u]]
<1>1. n \in Nat /\ Cardinality(S \cup {t}) = n + 1
  BY FS_CardinalityType, FS_AddElement
<1>2. \A u \in S : rank[u] \in 1 .. n /\ longer[u] = rank[u]
  OBVIOUS
<1>3. longer[t] = n + 1
  OBVIOUS
<1> HIDE DEF n
<1>4. longer \in [S \cup {t} -> 1 .. n + 1]
  BY <1>1, <1>2
<1> HIDE DEF longer
<1>5. ASSUME NEW u \in S \cup {t}, NEW d \in Must(u) \cap (S \cup {t})
      PROVE  longer[d] < longer[u]
  <2>1. d \in S
    BY <1>5
  <2>2. CASE u = t
    BY <1>1, <1>2, <1>3, <2>1, <2>2
  <2>3. CASE u # t
    <3>1. rank[d] < rank[u]
      BY <1>5, <2>1, <2>3 DEF Orders
    <3> QED
      BY <1>2, <1>5, <2>1, <2>3, <3>1
  <2> QED
    BY <2>2, <2>3
<1>6. Orders(longer, S \cup {t})
  BY <1>5 DEF Orders
<1> QED
  BY <1>1, <1>4, <1>6

BoundIsFinite == IsFiniteSet(Bound)

\* What is finished stays in order when a term that is not settled changes, and
\* when it is finished itself.
LEMMA RankedOn ==
    ASSUME NEW hand, NEW marks, Ranked(hand, marks), DOMAIN marks \subseteq Bound, BoundIsFinite,
           NEW t \in Bound, ~IsSettled(t, hand, marks),
           NEW after, NEW later, NEW table, NEW grown, OnlyAt(t, hand, marks, table, after, later, grown),
           t \in after \/ later[t] \/ AllSettled(Must(t), hand, marks)
    PROVE  Ranked(after, later)
<1> DEFINE old == Done(hand, marks)
           new == Done(after, later)
<1>1. \A u : IsSettled(u, hand, marks) => IsSettled(u, after, later)
  BY OnwardAt DEF Onward
<1>2. \A u \in old : IsSettled(u, hand, marks) /\ u # t
  BY DEF Done, IsSettled
<1>3. \A u : u # t => (u \in old <=> u \in new)
  BY DEF Done, OnlyAt, SameAt
<1>4. IsFiniteSet(old)
  <2>1. old \subseteq Bound
    BY DEF Done
  <2> QED
    BY <2>1, FS_Subset DEF BoundIsFinite
<1>5. \A u \in old : AllSettled(Must(u), hand, marks)
  BY DEF Ranked
<1>6. PICK rank \in [old -> 1 .. Cardinality(old)] : Orders(rank, old)
  BY DEF Ranked
<1>7. CASE t \notin new
  <2>1. new = old
    BY <1>2, <1>3, <1>7
  <2>2. \A u \in new : AllSettled(Must(u), after, later)
    BY <1>1, <1>5, <2>1 DEF AllSettled
  <2> HIDE DEF old, new
  <2> QED
    BY <1>6, <2>1, <2>2 DEF Ranked, new
<1>8. CASE t \in new
  <2>1. new = old \cup {t} /\ t \notin old
    BY <1>2, <1>3, <1>8
  <2>2. AllSettled(Must(t), hand, marks)
    BY <1>8 DEF Done
  <2>3. \A u \in new : AllSettled(Must(u), hand, marks)
    BY <1>5, <2>1, <2>2
  <2>4. \A u \in new : AllSettled(Must(u), after, later)
    BY <1>1, <2>3 DEF AllSettled
  <2>5. t \notin Must(t) /\ \A u \in old : t \notin Must(u)
    BY <2>1, <2>3 DEF AllSettled
  <2> HIDE DEF old, new
  <2>6. \E longer \in [new -> 1 .. Cardinality(new)] : Orders(longer, new)
    BY <1>4, <1>6, <2>1, <2>5, RankedLast
  <2> QED
    BY <2>4, <2>6 DEF Ranked, new
<1> QED
  BY <1>7, <1>8

-----------------------------------------------------------------------------
(* The kinds of step.                                                      *)

Sound(calls, hand, marks, table) ==
    /\ CallsOK(calls, marks, table)
    /\ TableOK(hand, marks, table)
    /\ MeaningsOK(hand, marks, table)
    /\ Ranked(hand, marks)
    /\ ReasonsOK(calls, hand, marks, table)

LEMMA Revised ==
    ASSUME NEW calls, NEW hand, NEW marks, NEW table, Sound(calls, hand, marks, table),
           BoundAreStrings, BoundIsFinite,
           NEW t \in Bound, ~IsSettled(t, hand, marks), t \notin InHand(calls),
           NEW after, NEW later, NEW grown, OnlyAt(t, hand, marks, table, after, later, grown),
           InHand(calls) \subseteq DOMAIN marks,
           \/ t \in after
           \/ later[t]
           \/ /\ t \in DOMAIN grown /\ KeptAs(t, grown[t])
              /\ AllSettled(Must(t), hand, marks)
              /\ t # TypeTerm => Means(grown[t].value, t, after, later, grown)
    PROVE  Sound(calls, after, later, grown)
<1>1. Onward(hand, marks, table, after, later, grown)
  BY OnwardAt
<1>2. CallsOK(calls, later, grown)
  <2>1. \A u \in InHand(calls) : u \notin DOMAIN table
    BY DEF Sound, CallsOK, InHand, FrameOK, DefineOK, Begun
  <2>2. \A u \in InHand(calls) : u \in DOMAIN later /\ later[u] = marks[u] /\ u \notin DOMAIN grown
    BY <2>1 DEF OnlyAt, SameAt
  <2> QED
    BY <2>2, Reframed DEF Sound
<1>3. TableOK(after, later, grown)
  <2>1. TableOK(hand, marks, table)
    BY DEF Sound
  <2>2. DOMAIN later \subseteq Bound /\ DOMAIN grown \subseteq DOMAIN initial \cup DOMAIN later
    BY <2>1 DEF TableOK, OnlyAt, SameAt
  <2>3. \A u \in DOMAIN initial \ DOMAIN later : u \in DOMAIN grown /\ grown[u] = initial[u]
    BY <2>1 DEF TableOK, OnlyAt, SameAt
  <2>4. ASSUME NEW u \in DOMAIN later \ after, ~later[u]
        PROVE  u \in DOMAIN grown /\ KeptAs(u, grown[u])
    <3>1. CASE u = t
      BY <2>4, <3>1
    <3>2. CASE u # t
      <4>1. u \in DOMAIN marks \ hand /\ ~marks[u] /\ SameAt(table, grown, u)
        BY <2>4, <3>2 DEF OnlyAt, SameAt
      <4>2. u \in DOMAIN table /\ KeptAs(u, table[u])
        BY <2>1, <4>1 DEF TableOK
      <4> QED
        BY <4>1, <4>2 DEF SameAt
    <3> QED
      BY <3>1, <3>2
  <2> QED
    BY <2>2, <2>3, <2>4 DEF TableOK
<1>4. MeaningsOK(after, later, grown)
  <2>1. SUFFICES ASSUME NEW u \in DOMAIN later \ (after \cup {TypeTerm}), ~later[u]
                 PROVE  Means(grown[u].value, u, after, later, grown)
    BY DEF MeaningsOK
  <2>2. CASE u = t
    BY <2>1, <2>2
  <2>3. CASE u # t
    <3>1. u \in DOMAIN marks \ (hand \cup {TypeTerm}) /\ ~marks[u] /\ SameAt(table, grown, u)
      BY <2>1, <2>3 DEF OnlyAt, SameAt
    <3>2. Means(table[u].value, u, hand, marks, table)
      BY <3>1 DEF Sound, MeaningsOK
    <3>3. u \in DOMAIN table /\ u \in Bound
      BY <3>1 DEF Sound, TableOK
    <3>4. grown[u] = table[u]
      BY <3>1, <3>3 DEF SameAt
    <3>5. Means(table[u].value, u, after, later, grown)
      BY <1>1, <3>2, <3>3, MeansStays DEF BoundAreStrings
    <3> QED
      BY <3>4, <3>5
  <2> QED
    BY <2>2, <2>3
<1>5. ReasonsOK(calls, after, later, grown)
  BY <1>1, ReasonsStay DEF Sound
<1>6. Ranked(after, later)
  <2>1. Ranked(hand, marks) /\ DOMAIN marks \subseteq Bound
    BY DEF Sound, TableOK
  <2> QED
    BY <2>1, RankedOn
<1> QED
  BY <1>2, <1>3, <1>4, <1>5, <1>6 DEF Sound

\* The innermost call and those under it.
LEMMA Taken ==
    ASSUME NEW calls, NEW marks, NEW table, Sound(calls, InHand(calls), marks, table), calls # <<>>
    PROVE  /\ Sound(Front(calls), InHand(calls), marks, table)
           /\ FrameOK(Last(calls), marks, table)
           /\ Fits(Front(calls), Last(calls))
           /\ InHand(calls) = InHand(Front(calls)) \cup Held(Last(calls))
           /\ InHand(Front(calls)) = InHand(calls) \ Held(Last(calls))
           /\ InHand(calls) \subseteq DOMAIN marks
<1>1. CallsOK(calls, marks, table) /\ IsSeq(calls)
  BY DEF Sound, CallsOK
<1>2. /\ CallsOK(Front(calls), marks, table)
      /\ FrameOK(Last(calls), marks, table)
      /\ Fits(Front(calls), Last(calls))
      /\ InHand(calls) = InHand(Front(calls)) \cup Held(Last(calls))
      /\ InHand(Front(calls)) = InHand(calls) \ Held(Last(calls))
  BY <1>1, Popped
<1>3. ReasonsOK(Front(calls), InHand(calls), marks, table)
  BY <1>1, ReasonsBelow DEF Sound
<1>4. InHand(calls) \subseteq DOMAIN marks
  BY <1>1 DEF CallsOK, InHand, FrameOK, DefineOK, Begun
<1> QED
  BY <1>2, <1>3, <1>4 DEF Sound

\* A call goes on top of the others.
LEMMA Put ==
    ASSUME NEW calls, NEW hand, NEW marks, NEW table, Sound(calls, hand, marks, table),
           NEW f, FrameOK(f, marks, table), Fits(calls, f), Provided(f, hand, marks),
           Held(f) \cap InHand(calls) = {}, hand = InHand(calls) \cup Held(f),
           f.call = "define" /\ f.at \in {"checked", "rest"} =>
               Means(f.definition.value, f.term, hand, marks, table),
           f.at = "concat" /\ calls # <<>> /\ calls[Len(calls)].at \in Asking =>
               Waits(Append(calls, f), Len(calls) + 1, hand, marks, table)
    PROVE  Sound(Append(calls, f), InHand(Append(calls, f)), marks, table) /\ InHand(Append(calls, f)) = hand
<1>1. CallsOK(Append(calls, f), marks, table) /\ InHand(Append(calls, f)) = hand
  BY Pushed DEF Sound
<1>2. ReasonsOK(Append(calls, f), hand, marks, table)
  BY ReasonsAbove DEF Sound, CallsOK
<1> QED
  BY <1>1, <1>2 DEF Sound

\* The innermost call moves on.
LEMMA Moved ==
    ASSUME NEW calls, NEW marks, NEW table, Sound(calls, InHand(calls), marks, table), calls # <<>>,
           NEW g, FrameOK(g, marks, table), Fits(Front(calls), g), Held(g) = Held(Last(calls)),
           Provided(g, InHand(calls), marks),
           g.call = "define" /\ g.at \in {"checked", "rest"} =>
               Means(g.definition.value, g.term, InHand(calls), marks, table),
           g.at = "concat" /\ Front(calls) # <<>> /\ Front(calls)[Len(Front(calls))].at \in Asking =>
               Waits(Append(Front(calls), g), Len(Front(calls)) + 1, InHand(calls), marks, table)
    PROVE  /\ Sound(Append(Front(calls), g), InHand(Append(Front(calls), g)), marks, table)
           /\ InHand(Append(Front(calls), g)) = InHand(calls)
<1> DEFINE under == Front(calls)
           hand == InHand(calls)
<1>1. /\ Sound(under, hand, marks, table)
      /\ hand = InHand(under) \cup Held(g) /\ InHand(under) = hand \ Held(g)
  BY Taken
<1> HIDE DEF under, hand
<1>2. Held(g) \cap InHand(under) = {}
  BY <1>1
<1>3. Fits(under, g)
  BY DEF under
<1>4. /\ g.call = "define" /\ g.at \in {"checked", "rest"} =>
             Means(g.definition.value, g.term, hand, marks, table)
      /\ g.at = "concat" /\ under # <<>> /\ under[Len(under)].at \in Asking =>
             Waits(Append(under, g), Len(under) + 1, hand, marks, table)
  BY DEF under, hand
<1>5. /\ Sound(Append(under, g), InHand(Append(under, g)), marks, table)
      /\ InHand(Append(under, g)) = hand
  <2>1. /\ FrameOK(g, marks, table) /\ Fits(under, g) /\ Held(g) \cap InHand(under) = {}
        /\ Provided(g, hand, marks)
    BY <1>2, <1>3 DEF hand
  <2>2. Sound(under, hand, marks, table) /\ hand = InHand(under) \cup Held(g)
    BY <1>1
  <2> QED
    BY <2>1, <2>2, <1>4, Put
<1> QED
  BY <1>5 DEF under, hand

\* A call waits as another one for the same term or string would.
LEMMA FitsAlike ==
    ASSUME NEW calls, NEW f, NEW g, Fits(calls, f), g.call = f.call,
           f.call = "define" => g.term = f.term,
           f.call = "expand" => g.value = f.value
    PROVE  Fits(calls, g)
BY DEF Fits, Linked

\* The innermost call makes another.
LEMMA Called ==
    ASSUME NEW calls, NEW marks, NEW table, Sound(calls, InHand(calls), marks, table), calls # <<>>,
           NEW f, FrameOK(f, marks, table), Linked(calls[Len(calls)], f), f.at \in {"begin", "term"},
           f.call = "define" => f.at = "begin"
    PROVE  /\ Sound(Append(calls, f), InHand(Append(calls, f)), marks, table)
           /\ InHand(Append(calls, f)) = InHand(calls)
<1>1. Held(f) = {}
  BY DEF Held, Begun
<1>2. Fits(calls, f)
  BY DEF Fits
<1>3. Provided(f, InHand(calls), marks)
  BY ProvidedNothing
<1> QED
  BY <1>1, <1>2, <1>3, Put

LEMMA Conc ==
    ASSUME NEW s, IsSeq(s), NEW x
    PROVE  s \o <<x>> = Append(s, x)
<1> DEFINE S == {s[i] : i \in DOMAIN s} \cup {x}
<1>1. s \in Seq(S) /\ x \in S
  BY DEF IsSeq
<1> HIDE DEF S
<1> QED
  BY <1>1

\* What is heard from a call of define.
LEMMA HeardVisit ==
    ASSUME NEW f, NEW inner, Linked(f, inner), inner.call = "define",
           NEW hand, NEW marks, NEW table, NEW answer, Visited(inner.term, hand, marks)
    PROVE  Heard(f, hand, marks, table, answer)
BY DEF Linked, Heard, Asking

\* What is heard from an expansion.
LEMMA HeardAnswer ==
    ASSUME NEW f, NEW inner, Linked(f, inner), inner.call = "expand",
           NEW hand, NEW marks, NEW table, NEW answer,
           f.at \in Asking =>
               answer = ExpandSimple(table, inner.value) /\ Expanded(inner.value, f.term, hand, marks, table),
           f.at = "checked" /\ Form(inner.value) = "compact" => IsSettled(PrefixOf(inner.value), hand, marks)
    PROVE  Heard(f, hand, marks, table, answer)
BY DEF Linked, Heard, Asking

\* A call that is about to make its own way hears nothing.
LEMMA HeardNothing ==
    ASSUME NEW f, f.at \notin {"lookup", "concat", "checked"} \cup Asking,
           f.at = "self" => Form(f.term) # "compact",
           NEW hand, NEW marks, NEW table, NEW answer
    PROVE  Heard(f, hand, marks, table, answer)
BY DEF Heard

\* The loop goes on as long as the terms it has called define on get their marks.
LEMMA LoopKept ==
    ASSUME NEW calls, NEW marks, NEW table, CallsOK(calls, marks, table), calls # <<>>,
           NEW index, LoopOK(calls, marks, index),
           NEW later, DOMAIN marks \subseteq DOMAIN later,
           Last(calls).at = "begin" /\ Last(calls).term \in Bound => Last(calls).term \in DOMAIN later,
           NEW others
    PROVE  LoopOK(others, later, index)
<1>1. Len(calls) \in Nat \ {0} /\ DOMAIN calls = 1 .. Len(calls) /\ Last(calls) = calls[Len(calls)]
  BY FrontAndLast DEF CallsOK
<1>2. calls[1].at = "begin" => Len(calls) = 1
  <2>1. Len(calls) # 1 => 1 \in 1 .. Len(calls) - 1
    BY <1>1
  <2> QED
    BY <2>1, Waiting
<1>3. calls[1].at = "begin" /\ calls[1].term \in Bound => calls[1].term \in DOMAIN later
  BY <1>1, <1>2
<1> QED
  BY <1>3 DEF LoopOK

-----------------------------------------------------------------------------
(* What a step leaves, by its kind.                                        *)

\* The same marks and definitions, under another stack of calls.
LEMMA Left ==
    ASSUME NEW calls, NEW marks, NEW table, NEW answer, NEW index, Good(calls, marks, table, answer, index),
           calls # <<>>, Last(calls).at = "begin" => Last(calls).term \notin Bound,
           NEW others, NEW other, Sound(others, InHand(others), marks, table),
           TopOK(others, InHand(others), marks, table, other)
    PROVE  Good(others, marks, table, other, index)
<1>1. LoopOK(others, marks, index)
  BY LoopKept DEF Good
<1> QED
  BY <1>1 DEF Good, Sound

LEMMA GoodIsSound ==
    ASSUME NEW calls, NEW marks, NEW table, NEW answer, NEW index, Good(calls, marks, table, answer, index)
    PROVE  /\ Sound(calls, InHand(calls), marks, table) /\ IsSeq(calls)
           /\ TopOK(calls, InHand(calls), marks, table, answer)
BY DEF Good, Sound, CallsOK

\* The innermost call moves on to where it hears nothing.
LEMMA Goes ==
    ASSUME NEW calls, NEW marks, NEW table, NEW answer, NEW index, Good(calls, marks, table, answer, index),
           calls # <<>>, Last(calls).at # "begin",
           NEW g, FrameOK(g, marks, table), Fits(Front(calls), g), Held(g) = Held(Last(calls)),
           g.call = "define", g.at \notin {"lookup", "concat", "checked"} \cup Asking,
           Provided(g, InHand(calls), marks),
           g.at = "self" => Form(g.term) # "compact",
           g.at = "rest" => Means(g.definition.value, g.term, InHand(calls), marks, table)
    PROVE  Good(Append(Front(calls), g), marks, table, answer, index)
<1> DEFINE others == Append(Front(calls), g)
<1>1. Sound(calls, InHand(calls), marks, table) /\ IsSeq(calls)
  BY GoodIsSound
<1>2. Sound(others, InHand(others), marks, table)
  BY <1>1, Moved
<1>3. IsSeq(Front(calls))
  BY <1>1, FrontAndLast
<1>4. others[Len(others)] = g
  BY <1>3, Appended
<1>5. Heard(g, InHand(others), marks, table, answer)
  BY HeardNothing
<1> HIDE DEF others
<1>6. TopOK(others, InHand(others), marks, table, answer)
  BY <1>4, <1>5 DEF TopOK
<1>7. Good(others, marks, table, answer, index)
  BY <1>2, <1>6, Left
<1> QED
  BY <1>7 DEF others

\* The innermost call makes another.
LEMMA Asks ==
    ASSUME NEW calls, NEW marks, NEW table, NEW answer, NEW index, Good(calls, marks, table, answer, index),
           calls # <<>>, Last(calls).at # "begin",
           NEW g, FrameOK(g, marks, table), Fits(Front(calls), g), Held(g) = Held(Last(calls)),
           Provided(g, InHand(calls), marks),
           g.call = "define" /\ g.at \in {"checked", "rest"} =>
               Means(g.definition.value, g.term, InHand(calls), marks, table),
           g.at = "concat" /\ Front(calls) # <<>> /\ Front(calls)[Len(Front(calls))].at \in Asking =>
               Waits(Append(Front(calls), g), Len(Front(calls)) + 1, InHand(calls), marks, table),
           NEW f, FrameOK(f, marks, table), Linked(g, f), f.at \in {"begin", "term"},
           f.call = "define" => f.at = "begin"
    PROVE  Good(Append(Front(calls), g) \o <<f>>, marks, table, answer, index)
<1> DEFINE others == Append(Front(calls), g)
           more == Append(others, f)
<1>1. Sound(calls, InHand(calls), marks, table) /\ IsSeq(calls)
  BY GoodIsSound
<1>2. Sound(others, InHand(others), marks, table)
  BY <1>1, Moved
<1>3. IsSeq(Front(calls))
  BY <1>1, FrontAndLast
<1>4. others[Len(others)] = g /\ IsSeq(others) /\ others # <<>>
  BY <1>3, Appended
<1>5. others \o <<f>> = more
  BY <1>4, Conc
<1> HIDE DEF others
<1>6. Sound(more, InHand(more), marks, table)
  BY <1>2, <1>4, Called
<1>7. more[Len(more)] = f
  BY <1>4, Appended
<1>8. Heard(f, InHand(more), marks, table, answer)
  BY HeardNothing DEF Asking
<1> HIDE DEF more
<1>9. TopOK(more, InHand(more), marks, table, answer)
  BY <1>7, <1>8 DEF TopOK
<1>10. Good(more, marks, table, answer, index)
  BY <1>6, <1>9, Left
<1> QED
  BY <1>5, <1>10 DEF others

\* The innermost call returns; what it leaves is known where it was made.
LEMMA Returns ==
    ASSUME NEW calls, NEW marks, NEW table, NEW answer, NEW index, Good(calls, marks, table, answer, index),
           calls # <<>>, Last(calls).at = "begin" => Last(calls).term \notin Bound \/ Last(calls).term \in DOMAIN marks,
           NEW later, NEW grown, NEW other,
           Sound(Front(calls), InHand(Front(calls)), later, grown),
           DOMAIN marks \subseteq DOMAIN later,
           Front(calls) # <<>> /\ Linked(Last(Front(calls)), Last(calls)) =>
               Heard(Last(Front(calls)), InHand(Front(calls)), later, grown, other)
    PROVE  Good(Front(calls), later, grown, other, index)
<1> DEFINE under == Front(calls)
<1>1. Sound(calls, InHand(calls), marks, table) /\ IsSeq(calls) /\ CallsOK(calls, marks, table)
  BY GoodIsSound DEF Good
<1>2. LoopOK(under, later, index)
  BY <1>1, LoopKept DEF Good
<1>3. Fits(under, Last(calls))
  BY <1>1, Taken
<1>4. under # <<>> => Linked(Last(under), Last(calls)) /\ Last(under) = under[Len(under)]
  BY <1>3 DEF Fits, Last
<1> HIDE DEF under
<1>5. TopOK(under, InHand(under), later, grown, other)
  BY <1>4 DEF TopOK, under
<1>6. Sound(under, InHand(under), later, grown)
  BY DEF under
<1>7. Good(under, later, grown, other, index)
  BY <1>2, <1>5, <1>6 DEF Good, Sound
<1> QED
  BY <1>7 DEF under
-----------------------------------------------------------------------------
(* expand_iri_with                                                         *)

\* Whose answer an expansion of a reference will be.
LEMMA Owner ==
    ASSUME NEW calls, NEW hand, NEW marks, NEW table, Sound(calls, hand, marks, table),
           BoundAreStrings, local \in LocalContexts,
           calls # <<>>, Last(calls).call = "expand", Front(calls) # <<>>,
           Last(Front(calls)).at \in Asking
    PROVE  /\ Len(calls) \in Nat /\ Len(calls) > 1
           /\ calls[Len(calls)] = Last(calls) /\ calls[Len(calls) - 1] = Last(Front(calls))
           /\ Last(Front(calls)).call = "define"
           /\ Last(Front(calls)).term \in Bound /\ Last(Front(calls)).term \in InHand(calls)
           /\ Last(calls).value = Asked(Last(Front(calls)))
           /\ Last(calls).value \in Strings
<1> DEFINE n == Len(calls)
           f == Last(Front(calls))
<1>1. CallsOK(calls, marks, table) /\ IsSeq(calls)
  BY DEF Sound, CallsOK
<1>2. /\ n \in Nat \ {0} /\ DOMAIN calls = 1 .. n /\ Last(calls) = calls[n]
      /\ IsSeq(Front(calls)) /\ Len(Front(calls)) = n - 1
      /\ \A i \in 1 .. n - 1 : Front(calls)[i] = calls[i]
  BY <1>1, FrontAndLast
<1>3. Len(Front(calls)) \in Nat \ {0} /\ f = Front(calls)[Len(Front(calls))]
  BY <1>2, FrontAndLast
<1>4. n > 1 /\ n - 1 \in 1 .. n - 1 /\ f = calls[n - 1] /\ n - 1 \in DOMAIN calls
  BY <1>2, <1>3
<1>5. Linked(calls[n - 1], calls[(n - 1) + 1]) /\ (n - 1) + 1 = n
  BY <1>1, <1>2, <1>4, Waiting
<1>6. Linked(f, Last(calls))
  BY <1>2, <1>4, <1>5
<1>7. f.call = "define" /\ Last(calls).value = Asked(f) /\ Begun(f)
  BY <1>6 DEF Linked, Begun, Asking
<1>8. FrameOK(f, marks, table)
  BY <1>1, <1>4 DEF CallsOK
<1>9. f.term \in Bound \ {TypeTerm} /\ Arm(f)
  BY <1>7, <1>8 DEF FrameOK, DefineOK
<1>10. f.term \in InHand(calls)
  BY <1>4, <1>7 DEF InHand
<1>11. Asked(f) \in Strings
  BY <1>9, TermAssumption DEF Arm, Asking, Asked, Reference, Bound
<1> QED
  BY <1>2, <1>4, <1>7, <1>9, <1>10, <1>11

\* Whose form an expansion checks.
LEMMA Checker ==
    ASSUME NEW calls, NEW hand, NEW marks, NEW table, Sound(calls, hand, marks, table), BoundAreStrings,
           calls # <<>>, Last(calls).call = "expand", Front(calls) # <<>>,
           Last(Front(calls)).at = "checked"
    PROVE  /\ calls[Len(calls) - 1] = Last(Front(calls)) /\ calls[Len(calls)] = Last(calls)
           /\ Last(calls).value = Last(Front(calls)).term
           /\ Last(calls).value \in Strings /\ Last(calls).value \notin DOMAIN table
<1> DEFINE n == Len(calls)
           f == Last(Front(calls))
<1>1. CallsOK(calls, marks, table) /\ IsSeq(calls)
  BY DEF Sound, CallsOK
<1>2. /\ n \in Nat \ {0} /\ DOMAIN calls = 1 .. n /\ Last(calls) = calls[n]
      /\ IsSeq(Front(calls)) /\ Len(Front(calls)) = n - 1
      /\ \A i \in 1 .. n - 1 : Front(calls)[i] = calls[i]
  BY <1>1, FrontAndLast
<1>3. Len(Front(calls)) \in Nat \ {0} /\ f = Front(calls)[Len(Front(calls))]
  BY <1>2, FrontAndLast
<1>4. n > 1 /\ n - 1 \in 1 .. n - 1 /\ f = calls[n - 1] /\ n - 1 \in DOMAIN calls
  BY <1>2, <1>3
<1>5. Linked(calls[n - 1], calls[(n - 1) + 1]) /\ (n - 1) + 1 = n
  BY <1>1, <1>2, <1>4, Waiting
<1>6. Linked(f, Last(calls))
  BY <1>2, <1>4, <1>5
<1>7. f.call = "define" /\ Last(calls).value = f.term /\ Begun(f)
  BY <1>6 DEF Linked, Begun, Asking
<1>8. FrameOK(f, marks, table)
  BY <1>1, <1>4 DEF CallsOK
<1>9. f.term \in Strings /\ f.term \notin DOMAIN table
  BY <1>7, <1>8 DEF FrameOK, DefineOK, BoundAreStrings
<1> QED
  BY <1>2, <1>4, <1>7, <1>9

\* An expansion answers with what expand_iri_simple would say.
LEMMA Answers ==
    ASSUME NEW calls, NEW marks, NEW table, NEW answer, NEW index, Good(calls, marks, table, answer, index),
           calls # <<>>, Last(calls).call = "expand",
           NEW m,
           Front(calls) # <<>> /\ Last(Front(calls)).at \in Asking =>
               /\ m = ExpandSimple(table, Last(calls).value)
               /\ Expanded(Last(calls).value, Last(Front(calls)).term, InHand(calls), marks, table),
           Front(calls) # <<>> /\ Last(Front(calls)).at = "checked" /\ Form(Last(calls).value) = "compact" =>
               IsSettled(PrefixOf(Last(calls).value), InHand(calls), marks)
    PROVE  Good(Front(calls), marks, table, m, index)
<1> DEFINE f == Last(Front(calls))
<1>1. Sound(calls, InHand(calls), marks, table)
  BY GoodIsSound
<1>2. /\ Sound(Front(calls), InHand(calls), marks, table)
      /\ FrameOK(Last(calls), marks, table)
      /\ InHand(Front(calls)) = InHand(calls) \ Held(Last(calls))
  BY <1>1, Taken
<1>3. Held(Last(calls)) = {} /\ Last(calls).at # "begin"
  BY <1>2 DEF Held, Begun, FrameOK, ExpandOK
<1>4. InHand(Front(calls)) = InHand(calls)
  BY <1>2, <1>3
<1>5. Sound(Front(calls), InHand(Front(calls)), marks, table)
  BY <1>2, <1>4
<1>6. Front(calls) # <<>> /\ Linked(f, Last(calls)) => Heard(f, InHand(Front(calls)), marks, table, m)
  BY <1>4, HeardAnswer
<1> QED
  BY <1>3, <1>5, <1>6, Returns

\* What a term reads, where it waits for its reference, is not itself in hand.
LEMMA NotInHand ==
    ASSUME NEW calls, NEW hand, NEW marks, NEW table, Sound(calls, hand, marks, table),
           BoundAreStrings, local \in LocalContexts,
           calls # <<>>, Last(calls).call = "expand", Front(calls) # <<>>,
           Last(Front(calls)).at \in Asking,
           NEW s, Visited(s, InHand(calls), marks), Form(s) # "compact" \/ s \in DOMAIN table
    PROVE  IsSettled(s, InHand(calls), marks) /\ s # Last(Front(calls)).term
<1>1. CallsOK(calls, marks, table)
  BY DEF Sound
<1>2. /\ Len(calls) \in Nat /\ Len(calls) > 1
      /\ calls[Len(calls)] = Last(calls) /\ calls[Len(calls) - 1] = Last(Front(calls))
      /\ Last(Front(calls)).call = "define"
      /\ Last(Front(calls)).term \in Bound /\ Last(Front(calls)).term \in InHand(calls)
  BY Owner
<1>3. \A u \in InHand(calls) : u \notin DOMAIN table /\ u \in Bound
  BY <1>1 DEF CallsOK, InHand, FrameOK, DefineOK, Begun
<1>4. \A u \in InHand(calls) : ~marks[u] => Form(u) = "compact"
  BY <1>1, <1>2, Blocked
<1>5. s \notin InHand(calls)
  BY <1>3, <1>4 DEF Visited
<1> QED
  BY <1>2, <1>5 DEF Visited, IsSettled
\* What every action but the last leaves.
Stepped ==
    /\ Good(stack', defined', active', returned', next')
    /\ outcome' # "ok"
    /\ outcome' = "CyclicIriMapping" => Caught(stack', defined')

Here ==
    /\ Good(stack, defined, active, returned, next)
    /\ BoundAreStrings /\ BoundIsFinite /\ local \in LocalContexts

LEMMA Failed ==
    ASSUME Here, NEW error, error \notin {"ok", "CyclicIriMapping"}, Fail(error)
    PROVE  Stepped
BY DEF Here, Stepped, Fail

\* Where a call runs.
LEMMA At ==
    ASSUME Here, NEW call, NEW label, Running(call, label)
    PROVE  /\ Sound(stack, InHand(stack), defined, active) /\ IsSeq(stack) /\ stack # <<>>
           /\ FrameOK(Frame, defined, active) /\ Fits(Front(stack), Frame)
           /\ Frame = stack[Len(stack)] /\ Frame.call = call /\ Frame.at = label
           /\ Heard(Frame, InHand(stack), defined, active, returned)
           /\ Provided(Frame, InHand(stack), defined)
           /\ outcome = "running"
<1>1. Sound(stack, InHand(stack), defined, active) /\ IsSeq(stack) /\ stack # <<>>
  BY GoodIsSound DEF Here, Running
<1>2. Frame = stack[Len(stack)] /\ Frame.call = call /\ Frame.at = label /\ outcome = "running"
  BY <1>1, FrontAndLast DEF Running, Frame
<1>3. FrameOK(Frame, defined, active) /\ Fits(Front(stack), Frame)
  BY <1>1, Taken DEF Frame
<1>4. Heard(Frame, InHand(stack), defined, active, returned)
  BY <1>1, <1>2 DEF Here, Good, TopOK
<1>5. Provided(Frame, InHand(stack), defined)
  BY <1>1, <1>2, FrontAndLast DEF Sound, ReasonsOK
<1> QED
  BY <1>1, <1>2, <1>3, <1>4, <1>5

LEMMA AnswersWith ==
    ASSUME Here, NEW label, Running("expand", label), NEW m, ReturnMapping(m),
           Front(stack) # <<>> /\ Last(Front(stack)).at \in Asking =>
               /\ m = ExpandSimple(active, Frame.value)
               /\ Expanded(Frame.value, Last(Front(stack)).term, InHand(stack), defined, active),
           Front(stack) # <<>> /\ Last(Front(stack)).at = "checked" /\ Form(Frame.value) = "compact" =>
               IsSettled(PrefixOf(Frame.value), InHand(stack), defined)
    PROVE  Stepped
<1>1. CASE m = Rejected
  BY <1>1, Failed DEF ReturnMapping
<1>2. CASE m # Rejected
  <2>1. /\ stack' = Front(stack) /\ returned' = m
        /\ active' = active /\ defined' = defined /\ next' = next /\ outcome' = outcome
    BY <1>2 DEF ReturnMapping, Return
  <2>2. Good(Front(stack), defined, active, m, next)
    BY At, Answers DEF Here, Frame
  <2>3. outcome = "running"
    BY At
  <2> QED
    BY <2>1, <2>2, <2>3 DEF Stepped
<1> QED
  BY <1>1, <1>2

\* An expansion has a string, or the prefix of one, defined.
LEMMA ExpansionAsks ==
    ASSUME Here, NEW from, Running("expand", from), NEW to \in {"lookup", "concat"}, NEW u,
           Form(Frame.value) \notin KeywordForms,
           to = "lookup" => u = Frame.value,
           to = "concat" => u = PrefixOf(Frame.value) /\ Form(Frame.value) = "compact",
           CallThen(Frame, to, Dependency(u)), Keeping,
           to = "concat" /\ Front(stack) # <<>> /\ Last(Front(stack)).at \in Asking =>
               \/ IsSettled(Frame.value, InHand(stack), defined) /\ Frame.value \notin DOMAIN active
               \/ \E i \in 1 .. Len(stack) - 1 :
                     Begun(stack[i]) /\ stack[i].at \in Pending /\ stack[i].term = PrefixOf(Frame.value)
    PROVE  Stepped
<1> DEFINE s == Frame.value
           g == [Frame EXCEPT !.at = to]
           f == Dependency(u)
           under == Front(stack)
<1>1. /\ Frame.call = "expand" /\ stack # <<>> /\ IsSeq(stack) /\ Frame.at # "begin"
      /\ FrameOK(Frame, defined, active) /\ Fits(under, Frame) /\ outcome = "running"
  BY At DEF FrameOK, ExpandOK
<1>2. stack' = Append(under, g) \o <<f>>
  BY DEF CallThen
<1>3. DOMAIN Frame = ExpandFields
  BY <1>1 DEF FrameOK, ExpandOK
<1>4. g.call = "expand" /\ g.at = to /\ g.value = s /\ DOMAIN g = ExpandFields
  BY <1>1, <1>3 DEF ExpandFields
<1>5. f.call = "define" /\ f.at = "begin" /\ f.term = u /\ ~f.override /\ DOMAIN f = DefineFields
  BY DEF Dependency, DefineCall, DefineFields
<1>6. to = "concat" /\ under # <<>> /\ under[Len(under)].at \in Asking =>
          Waits(Append(under, g), Len(under) + 1, InHand(stack), defined, active)
  <2>1. SUFFICES ASSUME to = "concat" /\ under # <<>> /\ under[Len(under)].at \in Asking
                 PROVE  Waits(Append(under, g), Len(under) + 1, InHand(stack), defined, active)
    OBVIOUS
  <2>2. IsSeq(under) /\ Len(under) = Len(stack) - 1 /\ \A i \in 1 .. Len(stack) - 1 : under[i] = stack[i]
    BY <1>1, FrontAndLast
  <2>3. Last(under).at \in Asking
    BY <2>1, <2>2, FrontAndLast
  <2>4. Append(under, g)[Len(under) + 1] = g /\ \A i \in 1 .. Len(under) : Append(under, g)[i] = under[i]
    BY <2>2, Appended
  <2> HIDE DEF g, under
  <2>5. \/ IsSettled(s, InHand(stack), defined) /\ s \notin DOMAIN active
        \/ \E i \in 1 .. Len(stack) - 1 :
              Begun(stack[i]) /\ stack[i].at \in Pending /\ stack[i].term = PrefixOf(s)
    BY <2>1, <2>3 DEF under
  <2>6. Len(under) \in Nat /\ (Len(under) + 1) - 1 = Len(stack) - 1
    BY <2>2 DEF IsSeq
  <2>7. \A i \in 1 .. Len(stack) - 1 : Append(under, g)[i] = stack[i]
    BY <2>2, <2>4
  <2>8. Append(under, g)[Len(under) + 1].value = s
    BY <1>4, <2>4
  <2> QED
    BY <2>5, <2>6, <2>7, <2>8 DEF Waits
<1> HIDE DEF g, f, s, under
<1>7. FrameOK(g, defined, active)
  BY <1>4 DEF FrameOK, ExpandOK, s
<1>8. Fits(under, g)
  BY <1>1, <1>4, FitsAlike DEF s
<1>9. Held(g) = Held(Frame)
  BY <1>1, <1>4 DEF Held, Begun
<1>10. FrameOK(f, defined, active)
  BY <1>5 DEF FrameOK, DefineOK, Begun
<1>11. Linked(g, f)
  BY <1>4, <1>5 DEF Linked, s
<1>12. Good(Append(under, g) \o <<f>>, defined, active, returned, next)
  <2>1. Provided(g, InHand(stack), defined)
    BY <1>4, ProvidedNothing
  <2> QED
    BY <1>1, <1>4, <1>5, <1>6, <1>7, <1>8, <1>9, <1>10, <1>11, <2>1, Asks DEF Here, Frame, under
<1> QED
  BY <1>1, <1>2, <1>12 DEF Stepped, Keeping

LEMMA ExpandTermStep ==
    ASSUME Here, ExpandTerm
    PROVE  Stepped
<1> DEFINE s == Frame.value
<1>1. Running("expand", "term")
  BY DEF ExpandTerm
<1>2. CASE Form(s) \in KeywordForms
  <2>1. \A t : Expanded(s, t, InHand(stack), defined, active)
    BY <1>2 DEF Expanded
  <2>2. CASE Form(s) = "keyword"
    <3>1. ReturnMapping(Keyword(s))
      BY <2>2 DEF ExpandTerm
    <3>2. Keyword(s) = ExpandSimple(active, s)
      BY <2>2 DEF ExpandSimple
    <3> QED
      BY <1>1, <2>1, <2>2, <3>1, <3>2, AnswersWith
  <2>3. CASE Form(s) = "keyword-like"
    <3>1. ReturnMapping(NullTerm)
      BY <2>3 DEF ExpandTerm
    <3>2. NullTerm = ExpandSimple(active, s)
      BY <2>3 DEF ExpandSimple
    <3> QED
      BY <1>1, <2>1, <2>3, <3>1, <3>2, AnswersWith
  <2> QED
    BY <1>2, <2>2, <2>3 DEF KeywordForms
<1>3. CASE Form(s) \notin KeywordForms
  <2>1. CallThen(Frame, "lookup", Dependency(s)) /\ Keeping
    BY <1>3 DEF ExpandTerm, KeywordForms
  <2> QED
    BY <1>1, <1>3, <2>1, ExpansionAsks
<1> QED
  BY <1>2, <1>3

LEMMA ExpandLookupStep ==
    ASSUME Here, ExpandLookup
    PROVE  Stepped
<1> DEFINE s == Frame.value
           owned == Front(stack) # <<>> /\ Last(Front(stack)).at \in Asking
<1>1. Running("expand", "lookup")
  BY DEF ExpandLookup
<1>2. /\ Sound(stack, InHand(stack), defined, active) /\ stack # <<>> /\ IsSeq(stack)
      /\ Frame.call = "expand" /\ Visited(s, InHand(stack), defined)
      /\ Form(s) \notin KeywordForms
  BY <1>1, At DEF Heard, FrameOK, ExpandOK
<1>3. owned /\ (Form(s) # "compact" \/ s \in DOMAIN active) =>
          IsSettled(s, InHand(stack), defined) /\ s # Last(Front(stack)).term
  BY <1>2, NotInHand DEF Here, Frame
<1>4. CASE s \in DOMAIN active
  <2>1. ReturnMapping(Mapped(active[s]))
    BY <1>4 DEF ExpandLookup
  <2>2. Mapped(active[s]) = ExpandSimple(active, s)
    BY <1>2, <1>4 DEF ExpandSimple, KeywordForms
  <2>3. owned => Expanded(s, Last(Front(stack)).term, InHand(stack), defined, active)
    BY <1>3, <1>4 DEF Expanded
  <2>4. ~(Front(stack) # <<>> /\ Last(Front(stack)).at = "checked")
    BY <1>2, <1>4, Checker DEF Here, Frame
  <2> QED
    BY <1>1, <2>1, <2>2, <2>3, <2>4, AnswersWith
<1>5. CASE s \notin DOMAIN active /\ Form(s) = "compact"
  <2>1. CallThen(Frame, "concat", Dependency(PrefixOf(s))) /\ Keeping
    BY <1>5 DEF ExpandLookup
  <2>2. ASSUME owned
        PROVE  \/ IsSettled(s, InHand(stack), defined) /\ s \notin DOMAIN active
               \/ \E i \in 1 .. Len(stack) - 1 :
                     Begun(stack[i]) /\ stack[i].at \in Pending /\ stack[i].term = PrefixOf(s)
    <3>1. CASE s \notin InHand(stack)
      BY <1>2, <1>5, <3>1 DEF Visited, IsSettled
    <3>2. CASE s \in InHand(stack) /\ s \notin Bound
      BY <1>5, <3>2 DEF IsSettled
    <3>3. CASE s \in InHand(stack) /\ s \in Bound
      <4>1. ~defined[s]
        BY <1>2, <3>3 DEF Visited
      <4>2. /\ Len(stack) > 1 /\ stack[Len(stack)].call = "expand"
            /\ stack[Len(stack) - 1].call = "define" /\ stack[Len(stack) - 1].at \in Asking
        BY <1>2, <2>2, Owner DEF Here, Frame
      <4>3. CallsOK(stack, defined, active) /\ BoundAreStrings
        BY <1>2 DEF Sound, Here
      <4> QED
        BY <3>3, <4>1, <4>2, <4>3, Blocked
    <3> QED
      BY <3>1, <3>2, <3>3
  <2> QED
    BY <1>1, <1>2, <1>5, <2>1, <2>2, ExpansionAsks
<1>6. CASE s \notin DOMAIN active /\ Form(s) # "compact"
  <2>1. ReturnMapping(Unprefixed(s))
    BY <1>6 DEF ExpandLookup
  <2>2. Unprefixed(s) = ExpandSimple(active, s)
    BY <1>2, <1>6 DEF ExpandSimple, KeywordForms
  <2>3. owned => Expanded(s, Last(Front(stack)).term, InHand(stack), defined, active)
    BY <1>3, <1>6 DEF Expanded
  <2> QED
    BY <1>1, <1>6, <2>1, <2>2, <2>3, AnswersWith
<1> QED
  BY <1>4, <1>5, <1>6

LEMMA ExpandConcatStep ==
    ASSUME Here, ExpandConcat
    PROVE  Stepped
<1> DEFINE s == Frame.value
           p == PrefixOf(s)
           t == Last(Front(stack)).term
           m == IF MayPrefix(active, p) THEN Concat(active[p].value, s) ELSE Unprefixed(s)
           owned == Front(stack) # <<>> /\ Last(Front(stack)).at \in Asking
<1>1. Running("expand", "concat") /\ ReturnMapping(m)
  BY DEF ExpandConcat
<1>2. /\ Sound(stack, InHand(stack), defined, active) /\ stack # <<>> /\ IsSeq(stack)
      /\ Frame.call = "expand" /\ Frame.at = "concat" /\ Visited(p, InHand(stack), defined)
      /\ Form(s) = "compact"
  BY <1>1, At DEF Heard, FrameOK, ExpandOK
<1>3. ASSUME owned
      PROVE  m = ExpandSimple(active, s) /\ Expanded(s, t, InHand(stack), defined, active)
  <2>1. /\ Len(stack) \in Nat /\ Len(stack) > 1 /\ stack[Len(stack)] = Frame
        /\ stack[Len(stack) - 1].at \in Asking
        /\ t \in Bound /\ t \in InHand(stack) /\ s \in Strings
    BY <1>2, <1>3, Owner DEF Here, Frame
  <2>2. DOMAIN stack = 1 .. Len(stack) /\ Len(stack) \in DOMAIN stack \ {1}
    BY <1>2, <2>1 DEF IsSeq
  <2>3. Waits(stack, Len(stack), InHand(stack), defined, active)
    BY <1>2, <2>1, <2>2 DEF Sound, ReasonsOK
  <2>4. \A i \in 1 .. Len(stack) - 1 : ~(Begun(stack[i]) /\ stack[i].at \in Pending /\ stack[i].term = p)
    <3>1. SUFFICES ASSUME NEW i \in 1 .. Len(stack) - 1,
                          Begun(stack[i]), stack[i].at \in Pending, stack[i].term = p
                   PROVE  FALSE
      OBVIOUS
    <3>2. i \in DOMAIN stack
      BY <2>1, <2>2
    <3>3. FrameOK(stack[i], defined, active)
      BY <1>2, <3>2 DEF Sound, CallsOK
    <3>4. p \in Bound /\ defined[p] /\ p \in InHand(stack)
      BY <3>1, <3>2, <3>3 DEF FrameOK, DefineOK, Begun, InHand
    <3> QED
      BY <1>2, <3>4 DEF Visited
  <2>5. IsSettled(s, InHand(stack), defined) /\ s \notin DOMAIN active
    BY <2>1, <2>3, <2>4 DEF Waits
  <2>6. Form(p) # "compact"
    BY <1>2, <2>1, TermAssumption
  <2>7. IsSettled(p, InHand(stack), defined) /\ p # t
    BY <1>2, <1>3, <2>6, NotInHand DEF Here, Frame
  <2>8. s # t
    BY <2>1, <2>5 DEF IsSettled
  <2>9. Expanded(s, t, InHand(stack), defined, active)
    BY <2>5, <2>7, <2>8 DEF Expanded
  <2>10. m = ExpandSimple(active, s)
    BY <1>2, <2>5 DEF ExpandSimple
  <2> QED
    BY <2>9, <2>10
<1>4. ASSUME Front(stack) # <<>>, Last(Front(stack)).at = "checked"
      PROVE  IsSettled(p, InHand(stack), defined)
  <2>1. /\ stack[Len(stack) - 1] = Last(Front(stack)) /\ stack[Len(stack)] = Frame
        /\ s = Last(Front(stack)).term /\ s \in Strings
    BY <1>2, <1>4, Checker DEF Here, Frame
  <2>2. Form(p) # "compact"
    BY <1>2, <2>1, TermAssumption
  <2>3. SUFFICES ASSUME p \in Bound, p \in InHand(stack) PROVE FALSE
    BY <1>2 DEF Visited, IsSettled
  <2>4. ~defined[p]
    BY <1>2, <2>3 DEF Visited
  <2>5. stack[Len(stack) - 1].term = p
    BY <1>2, <2>1, <2>2, <2>3, <2>4, CheckedPrefix DEF Here, Sound
  <2> QED
    BY <1>2, <2>1, <2>2, <2>5
<1> QED
  BY <1>1, <1>3, <1>4, AnswersWith
-----------------------------------------------------------------------------
(* define: returning.                                                      *)

LEMMA DefineReturns ==
    ASSUME Here, NEW label, Running("define", label), NEW later, NEW grown,
           label = "begin" => Frame.term \notin Bound \/ Frame.term \in DOMAIN later,
           Sound(Front(stack), InHand(Front(stack)), later, grown),
           DOMAIN defined \subseteq DOMAIN later,
           Visited(Frame.term, InHand(Front(stack)), later)
    PROVE  Good(Front(stack), later, grown, returned, next)
<1>1. stack # <<>> /\ Frame.call = "define" /\ Frame.at = label /\ IsSeq(stack)
  BY At
<1>2. \A inner : Linked(inner, Frame) => Heard(inner, InHand(Front(stack)), later, grown, returned)
  BY <1>1, HeardVisit
<1>3. LoopOK(Front(stack), later, next)
  BY <1>1, LoopKept DEF Here, Good, Frame
<1>4. Fits(Front(stack), Frame)
  BY At
<1>5. TopOK(Front(stack), InHand(Front(stack)), later, grown, returned)
  BY <1>2, <1>4 DEF TopOK, Fits
<1> QED
  BY <1>3, <1>5 DEF Good, Sound

LEMMA DefineUnboundStep ==
    ASSUME Here, DefineUnbound
    PROVE  Stepped
<1>1. Running("define", "begin") /\ Frame.term \notin Bound
  BY DEF DefineUnbound
<1>2. CASE Form(Frame.term) = "empty"
  BY <1>2, Failed DEF DefineUnbound
<1>3. CASE Form(Frame.term) # "empty"
  <2>1. stack' = Front(stack) /\ Keeping
    BY <1>3 DEF DefineUnbound, Return
  <2>2. /\ Sound(stack, InHand(stack), defined, active) /\ stack # <<>>
        /\ Frame.at = "begin" /\ outcome = "running"
    BY <1>1, At
  <2>3. Held(Frame) = {}
    BY <2>2 DEF Held, Begun
  <2>4. Sound(Front(stack), InHand(Front(stack)), defined, active)
    BY <2>2, <2>3, Taken DEF Frame
  <2>5. Visited(Frame.term, InHand(Front(stack)), defined)
    BY <1>1 DEF Visited
  <2>6. Good(Front(stack), defined, active, returned, next)
    BY <1>1, <2>4, <2>5, DefineReturns
  <2> QED
    BY <2>1, <2>2, <2>6 DEF Stepped, Keeping
<1> QED
  BY <1>2, <1>3

LEMMA DefineAgainStep ==
    ASSUME Here, DefineAgain
    PROVE  Stepped
<1>1. Running("define", "begin") /\ Frame.term \in DOMAIN defined
  BY DEF DefineAgain
<1>2. CASE defined[Frame.term]
  <2>1. Fail("CyclicIriMapping")
    BY <1>2 DEF DefineAgain
  <2>2. Caught(stack, defined)
    BY <1>1, <1>2 DEF Caught, Running, Frame
  <2> QED
    BY <2>1, <2>2 DEF Stepped, Fail, Here
<1>3. CASE ~defined[Frame.term]
  <2>1. stack' = Front(stack) /\ Keeping
    BY <1>3 DEF DefineAgain, Return
  <2>2. /\ Sound(stack, InHand(stack), defined, active) /\ stack # <<>>
        /\ Frame.at = "begin" /\ outcome = "running"
    BY <1>1, At
  <2>3. Held(Frame) = {}
    BY <2>2 DEF Held, Begun
  <2>4. Sound(Front(stack), InHand(Front(stack)), defined, active)
    BY <2>2, <2>3, Taken DEF Frame
  <2>5. Visited(Frame.term, InHand(Front(stack)), defined)
    BY <1>1, <1>3 DEF Visited
  <2>6. Good(Front(stack), defined, active, returned, next)
    BY <1>1, <2>4, <2>5, DefineReturns
  <2> QED
    BY <2>1, <2>2, <2>6 DEF Stepped, Keeping
<1> QED
  BY <1>2, <1>3

\* A term returned from early keeps its mark, and is in hand no more.
LEMMA Abandons ==
    ASSUME Here, Running("define", "iri"), Abandon
    PROVE  Stepped
<1> DEFINE t == Frame.term
           hand == InHand(stack)
           after == InHand(Front(stack))
<1>1. stack' = Front(stack) /\ Keeping
  BY DEF Abandon, Return
<1>2. /\ Sound(stack, hand, defined, active) /\ stack # <<>>
      /\ Frame.at = "iri" /\ Frame.call = "define" /\ outcome = "running"
      /\ FrameOK(Frame, defined, active)
  BY At
<1>3. Held(Frame) = {t} /\ t \in Bound /\ t \in DOMAIN defined /\ defined[t]
  BY <1>2 DEF Held, Begun, FrameOK, DefineOK, Pending
<1>4. /\ Sound(Front(stack), hand, defined, active) /\ hand = after \cup {t} /\ after = hand \ {t}
      /\ hand \subseteq DOMAIN defined
  BY <1>2, <1>3, Taken DEF Frame
<1>5. OnlyAt(t, hand, defined, active, after, defined, active)
  BY <1>3, <1>4 DEF OnlyAt, SameAt
<1>6. ~IsSettled(t, hand, defined)
  BY <1>3, <1>4 DEF IsSettled
<1> HIDE DEF t, hand
<1>7. Sound(Front(stack), after, defined, active)
  BY <1>3, <1>4, <1>5, <1>6, Revised DEF Here
<1>8. Visited(t, after, defined)
  BY <1>3, <1>4 DEF Visited
<1>9. Good(Front(stack), defined, active, returned, next)
  BY <1>7, <1>8, DefineReturns DEF t
<1> QED
  BY <1>1, <1>2, <1>9 DEF Stepped, Keeping

\* The @type entry has no mapping, and refers to nothing.
LEMMA DefineTypeStep ==
    ASSUME Here, DefineType, \A u \in DOMAIN initial : initial[u] # None
    PROVE  Stepped
<1> DEFINE d == [value |-> NoMapping, prefix |-> FALSE, container |-> Binding.container,
                 protected |-> Explicit(Binding.protected, FALSE)]
           old == Previous(active, TypeTerm)
           kept == KeptProtected(old, d, Frame.override)
           later == With(defined, TypeTerm, FALSE)
           grown == With(active, TypeTerm, kept)
           hand == InHand(stack)
<1>1. /\ Running("define", "begin") /\ Frame.term = TypeTerm /\ TypeTerm \in Bound
      /\ TypeTerm \notin DOMAIN defined
  BY DEF DefineType, FirstSeen
<1>2. /\ Sound(stack, hand, defined, active) /\ stack # <<>>
      /\ Frame.at = "begin" /\ Frame.call = "define" /\ outcome = "running"
      /\ FrameOK(Frame, defined, active)
  BY <1>1, At
<1>3. CASE options.mode = "1.0"
  BY <1>3, Failed DEF DefineType
<1>4. CASE options.mode # "1.0" /\ Redefines(old, d, Frame.override)
  BY <1>4, Failed DEF DefineType
<1>5. CASE options.mode # "1.0" /\ ~Redefines(old, d, Frame.override)
  <2>1. /\ active' = grown /\ defined' = later /\ stack' = Front(stack)
        /\ UNCHANGED <<next, returned, outcome>>
    BY <1>5 DEF DefineType, Return
  <2>2. Held(Frame) = {}
    BY <1>2 DEF Held, Begun
  <2>3. /\ Sound(Front(stack), hand, defined, active) /\ hand = InHand(Front(stack))
        /\ hand \subseteq DOMAIN defined
    BY <1>2, <2>2, Taken DEF Frame
  <2>4. /\ TypeTerm \in DOMAIN later /\ ~later[TypeTerm] /\ DOMAIN defined \subseteq DOMAIN later
        /\ TypeTerm \in DOMAIN grown /\ grown[TypeTerm] = kept
    BY DEF With
  <2>5. OnlyAt(TypeTerm, hand, defined, active, hand, later, grown)
    BY DEF OnlyAt, SameAt, With
  <2>6. ~IsSettled(TypeTerm, hand, defined) /\ TypeTerm \notin hand
    BY <1>1, <2>3 DEF IsSettled
  <2>7. KeptAs(TypeTerm, kept)
    <3>1. SUFFICES ASSUME ~options.override, TypeTerm \in DOMAIN initial, initial[TypeTerm].protected
                   PROVE  kept = initial[TypeTerm]
      BY DEF KeptAs
    <3>2. TypeTerm \in DOMAIN active /\ active[TypeTerm] = initial[TypeTerm]
      BY <1>1, <1>2, <3>1 DEF Sound, TableOK
    <3>3. old = initial[TypeTerm] /\ old # None
      BY <3>1, <3>2 DEF Previous
    <3>4. ~Frame.override
      BY <1>2, <3>1 DEF FrameOK, DefineOK
    <3> QED
      BY <1>5, <3>1, <3>3, <3>4 DEF Redefines, KeptProtected
  <2> HIDE DEF hand, later, grown, kept
  <2>8. Sound(Front(stack), hand, later, grown)
    <3>1. AllSettled(Must(TypeTerm), hand, defined)
      BY TypeWaitsForNothing DEF AllSettled
    <3> QED
      BY <1>1, <2>3, <2>4, <2>5, <2>6, <2>7, <3>1, Revised DEF Here
  <2>9. Visited(TypeTerm, hand, later)
    BY <2>4 DEF Visited
  <2>10. Good(Front(stack), later, grown, returned, next)
    BY <1>1, <2>3, <2>4, <2>8, <2>9, DefineReturns
  <2> QED
    BY <1>2, <2>1, <2>10 DEF Stepped
<1> QED
  BY <1>3, <1>4, <1>5
-----------------------------------------------------------------------------
(* define: building.                                                       *)

\* A definition under way, further on.
Further(f, g) ==
    /\ DOMAIN g = DefineFields /\ g.call = "define" /\ g.term = f.term
    /\ g.override = f.override /\ g.previous = f.previous
    /\ DOMAIN g.definition = DefinitionFields
    /\ g.at \in {"checked", "rest"} \cup Pending
    /\ g.at \in {"type", "typed", "iri"} => g.definition.value = NoMapping
    /\ Arm(g)

LEMMA FurtherFits ==
    ASSUME Here, NEW from, Running("define", from), from # "begin", NEW g, Further(Frame, g),
           g.at # "checked", g.at \in Pending => defined[Frame.term]
    PROVE  FrameOK(g, defined, active) /\ Fits(Front(stack), g) /\ Held(g) = Held(Last(stack))
<1>1. /\ Frame.call = "define" /\ Frame.at = from
      /\ FrameOK(Frame, defined, active) /\ Fits(Front(stack), Frame)
  BY At
<1>2. Begun(g) /\ Begun(Frame) /\ DefineOK(Frame, defined, active) /\ g.call = "define"
  BY <1>1 DEF Further, Begun, FrameOK, Pending
<1>3. DefineOK(g, defined, active)
  BY <1>2 DEF DefineOK, Further
<1>4. Fits(Front(stack), g)
  BY <1>1, FitsAlike DEF Further
<1>5. Held(g) = Held(Last(stack))
  BY <1>2 DEF Held, Further, Frame
<1> QED
  BY <1>2, <1>3, <1>4, <1>5 DEF FrameOK

LEMMA DefineGoes ==
    ASSUME Here, NEW from, Running("define", from), from # "begin", NEW g, Further(Frame, g),
           g.at \in {"iri", "self", "rest"},
           g.at \in Pending => defined[Frame.term],
           g.at = "self" => Form(g.term) # "compact",
           g.at = "rest" => Means(g.definition.value, g.term, InHand(stack), defined, active),
           Provided(g, InHand(stack), defined),
           stack' = Append(Front(stack), g), Keeping
    PROVE  Stepped
<1>1. /\ stack # <<>> /\ Last(stack).at # "begin" /\ outcome = "running" /\ g.call = "define"
  BY At DEF Frame, Further
<1>4. g.at \notin {"lookup", "concat", "checked"} \cup Asking
  BY DEF Asking
<1>2. FrameOK(g, defined, active) /\ Fits(Front(stack), g) /\ Held(g) = Held(Last(stack))
  BY FurtherFits
<1>3. Good(Append(Front(stack), g), defined, active, returned, next)
  BY <1>1, <1>2, <1>4, Goes DEF Here
<1> QED
  BY <1>1, <1>3 DEF Stepped, Keeping

LEMMA DefineAsks ==
    ASSUME Here, NEW from, Running("define", from), from # "begin", NEW g, Further(Frame, g),
           g.at \in Pending, defined[Frame.term],
           Provided(g, InHand(stack), defined),
           NEW f, Linked(g, f), f \in {ExpandCall(f.value), Dependency(f.term)},
           stack' = Append(Front(stack), g) \o <<f>>, Keeping
    PROVE  Stepped
<1>1. /\ stack # <<>> /\ Last(stack).at # "begin" /\ outcome = "running"
  BY At DEF Frame
<1>2. FrameOK(g, defined, active) /\ Fits(Front(stack), g) /\ Held(g) = Held(Last(stack))
  BY FurtherFits DEF Pending
<1>3. g.at \notin {"concat", "rest", "checked"}
  BY DEF Pending
<1>4. CASE f = ExpandCall(f.value)
  <2>1. f.call = "expand" /\ f.at = "term" /\ DOMAIN f = ExpandFields
    BY <1>4 DEF ExpandCall, ExpandFields
  <2>2. FrameOK(f, defined, active)
    BY <2>1 DEF FrameOK, ExpandOK
  <2>3. Good(Append(Front(stack), g) \o <<f>>, defined, active, returned, next)
    BY <1>1, <1>2, <1>3, <2>1, <2>2, Asks DEF Here
  <2> QED
    BY <1>1, <2>3 DEF Stepped, Keeping
<1>5. CASE f = Dependency(f.term)
  <2>1. f.call = "define" /\ f.at = "begin" /\ ~f.override /\ DOMAIN f = DefineFields
    BY <1>5 DEF Dependency, DefineCall, DefineFields
  <2>2. FrameOK(f, defined, active)
    BY <2>1 DEF FrameOK, DefineOK, Begun
  <2>3. Good(Append(Front(stack), g) \o <<f>>, defined, active, returned, next)
    BY <1>1, <1>2, <1>3, <2>1, <2>2, Asks DEF Here
  <2> QED
    BY <1>1, <2>3 DEF Stepped, Keeping
<1> QED
  BY <1>4, <1>5

\* What a definition under way has in it.
LEMMA UnderWay ==
    ASSUME Here, NEW label, Running("define", label), label # "begin"
    PROVE  /\ DOMAIN Frame = DefineFields /\ DOMAIN Frame.definition = DefinitionFields
           /\ Frame.call = "define" /\ Frame.at = label
           /\ Frame.term \in Bound \ {TypeTerm} /\ Frame.term \in Strings
           /\ Frame.term \in DOMAIN defined /\ Frame.term \notin DOMAIN active
           /\ Frame.term \in InHand(stack)
           /\ label \in Pending => defined[Frame.term]
           /\ Frame.previous = Previous(initial, Frame.term)
           /\ ~options.override => ~Frame.override
           /\ label \in {"type", "typed", "iri"} => Frame.definition.value = NoMapping
           /\ Arm(Frame) /\ AllSettled(Sought(Frame), InHand(stack), defined)
<1>1. /\ Frame.call = "define" /\ Frame.at = label /\ stack # <<>>
      /\ Provided(Frame, InHand(stack), defined)
      /\ FrameOK(Frame, defined, active) /\ Sound(stack, InHand(stack), defined, active)
  BY At
<1>2. DefineOK(Frame, defined, active) /\ Begun(Frame)
  BY <1>1 DEF FrameOK, Begun
<1>3. Frame.term \in InHand(stack)
  BY <1>1, <1>2, Taken DEF Held, Frame
<1> QED
  BY <1>1, <1>2, <1>3 DEF DefineOK, Here, BoundAreStrings, Provided

\* What a definition has waited for, by where it is.
LEMMA SoughtBy ==
    ASSUME NEW f, NEW hand, NEW marks
    PROVE  /\ (f.at \in {"iri", "reversed", "mapped", "self"}
                  /\ AllSettled(Needs(local.binding[f.term].type), hand, marks)) => Provided(f, hand, marks)
           /\ (f.at = "checked" /\ AllSettled(Needs(local.binding[f.term].type), hand, marks)
                  /\ AllSettled(Needs(local.binding[f.term].id), hand, marks)) => Provided(f, hand, marks)
           /\ (f.at = "rest" /\ AllSettled(Must(f.term), hand, marks)) => Provided(f, hand, marks)
<1> DEFINE A == Needs(local.binding[f.term].type)
           B == Needs(local.binding[f.term].id)
<1>1. /\ f.at \in {"iri", "reversed", "mapped", "self"} => Sought(f) = A
      /\ f.at = "checked" => Sought(f) = A \cup B
      /\ f.at = "rest" => Sought(f) = Must(f.term)
  BY DEF Sought
<1> HIDE DEF A, B
<1>2. AllSettled(A, hand, marks) /\ AllSettled(B, hand, marks) => AllSettled(A \cup B, hand, marks)
  BY DEF AllSettled
<1> QED
  BY <1>1, <1>2 DEF Provided, A, B

\* What a definition that is about to be completed had to wait for.
LEMMA AllWaitedFor ==
    ASSUME NEW t \in Bound \ {TypeTerm}, NEW hand, NEW marks,
           AllSettled(Needs(local.binding[t].type), hand, marks),
           AllSettled(Needs(local.binding[t].reverse), hand, marks),
           local.binding[t].id # t => AllSettled(Needs(local.binding[t].id), hand, marks),
           t \in Own(t) /\ Form(t) = "compact" => IsSettled(PrefixOf(t), hand, marks)
    PROVE  AllSettled(Must(t), hand, marks)
BY MustNeeds DEF AllSettled

\* From the IRI mapping on, the type has been waited for.
LEMMA TypeWaited ==
    ASSUME Here, NEW label \in {"iri", "reversed", "mapped", "self"}, Running("define", label)
    PROVE  AllSettled(Needs(local.binding[Frame.term].type), InHand(stack), defined)
<1>1. AllSettled(Sought(Frame), InHand(stack), defined) /\ Frame.at = label
  BY UnderWay
<1> QED
  BY <1>1 DEF Sought

LEMMA NothingNeeded == Needs(None) = {} /\ Needs(Null) = {}
BY DEF Needs

LEMMA DefineTypeMappingStep ==
    ASSUME Here, DefineTypeMapping
    PROVE  Stepped
<1>1. Running("define", "type")
  BY DEF DefineTypeMapping
<1>2. /\ DOMAIN Frame = DefineFields /\ DOMAIN Frame.definition = DefinitionFields
      /\ Frame.call = "define" /\ defined[Frame.term] /\ Frame.definition.value = NoMapping
  BY <1>1, UnderWay DEF Pending
<1>3. CASE Binding.type = None
  <2> DEFINE g == [Frame EXCEPT !.at = "iri"]
  <2>1. stack' = Append(Front(stack), g) /\ Keeping
    BY <1>3, TermAssumption DEF DefineTypeMapping, Goto
  <2>2. Further(Frame, g) /\ g.at = "iri"
    BY <1>2 DEF Further, Arm, DefineFields, Pending
  <2>3. Provided(g, InHand(stack), defined)
    BY <1>2, <1>3, <2>2, SoughtBy, NothingNeeded DEF Further, Binding, AllSettled
  <2> HIDE DEF g
  <2> QED
    BY <1>1, <1>2, <2>1, <2>2, <2>3, DefineGoes
<1>4. CASE Binding.type = Null
  BY <1>4, Failed, TermAssumption DEF DefineTypeMapping
<1>5. CASE Binding.type \notin {None, Null}
  <2> DEFINE g == [Frame EXCEPT !.at = "typed"]
             f == ExpandCall(Binding.type)
  <2>1. stack' = Append(Front(stack), g) \o <<f>> /\ Keeping
    BY <1>5 DEF DefineTypeMapping, CallThen
  <2>2. Further(Frame, g) /\ g.at = "typed" /\ g.term = Frame.term /\ g.call = "define"
    BY <1>2, <1>5 DEF Further, Arm, DefineFields, Pending, Binding
  <2>3. f = ExpandCall(f.value) /\ f.call = "expand" /\ f.value = Binding.type
    BY DEF ExpandCall
  <2> HIDE DEF g, f
  <2>4. Linked(g, f)
    BY <2>2, <2>3 DEF Linked, Asking, Asked, Binding
  <2>5. g.at \in Pending /\ Provided(g, InHand(stack), defined)
    BY <2>2, ProvidedNothing DEF Pending
  <2> QED
    BY <1>1, <1>2, <2>1, <2>2, <2>3, <2>4, <2>5, DefineAsks
<1> QED
  BY <1>3, <1>4, <1>5

LEMMA DefineTypedStep ==
    ASSUME Here, DefineTyped
    PROVE  Stepped
<1>1. Running("define", "typed")
  BY DEF DefineTyped
<1>2. /\ DOMAIN Frame = DefineFields /\ DOMAIN Frame.definition = DefinitionFields
      /\ Frame.call = "define" /\ defined[Frame.term] /\ Frame.definition.value = NoMapping
  <2>1. FrameOK(Frame, defined, active) /\ Frame.call = "define" /\ Frame.at = "typed"
    BY <1>1, At
  <2> QED
    BY <1>1, <2>1, UnderWay DEF Pending
<1>3. ASSUME NEW g, Further(Frame, g), g.at = "iri", stack' = Append(Front(stack), g), Keeping
      PROVE  Stepped
  <2>1. /\ Heard(Frame, InHand(stack), defined, active, returned)
        /\ TableOK(InHand(stack), defined, active) /\ Frame.at = "typed"
    BY <1>1, At DEF Sound
  <2>2. Expanded(Binding.type, Frame.term, InHand(stack), defined, active)
    BY <2>1 DEF Heard, Asking, Asked, Binding
  <2>3. AllSettled(Needs(Binding.type), InHand(stack), defined)
    BY <2>1, <2>2, NeedsSettled
  <2>4. Provided(g, InHand(stack), defined)
    BY <1>3, <2>3, SoughtBy DEF Further, Binding
  <2> QED
    BY <1>1, <1>2, <1>3, <2>4, DefineGoes
<1>4. CASE returned = NoMapping
  <2> DEFINE g == [Frame EXCEPT !.at = "iri"]
  <2>1. stack' = Append(Front(stack), g) /\ Keeping
    BY <1>4 DEF DefineTyped, Goto, NoMapping, IsKeyword
  <2>2. Further(Frame, g) /\ g.at = "iri"
    BY <1>2 DEF Further, Arm, DefineFields, Pending
  <2> QED
    BY <1>3, <2>1, <2>2
<1>5. CASE /\ returned # NoMapping
           /\ returned[1] = "iri" \/ (IsKeyword(returned) /\ returned[2] \in TypeKeywords)
           /\ ~(options.mode = "1.0" /\ returned \in {Keyword("@json"), Keyword("@none")})
  <2> DEFINE typed == [Frame EXCEPT !.definition.typ = returned]
             g == [typed EXCEPT !.at = "iri"]
  <2>1. stack' = Append(Front(stack), g) /\ Keeping
    BY <1>5 DEF DefineTyped, Goto
  <2>2. /\ DOMAIN typed = DefineFields /\ typed.call = "define" /\ typed.term = Frame.term
        /\ typed.override = Frame.override /\ typed.previous = Frame.previous
        /\ typed.definition = [Frame.definition EXCEPT !.typ = returned]
    BY <1>2 DEF DefineFields
  <2>3. /\ DOMAIN [Frame.definition EXCEPT !.typ = returned] = DefinitionFields
        /\ [Frame.definition EXCEPT !.typ = returned].value = NoMapping
    BY <1>2 DEF DefinitionFields, EmptyDefinition
  <2> HIDE DEF typed
  <2>4. Further(Frame, g) /\ g.at = "iri"
    BY <2>2, <2>3 DEF Further, Arm, DefineFields, Pending
  <2> HIDE DEF g
  <2> QED
    BY <1>3, <2>1, <2>4
<1>6. CASE /\ returned # NoMapping
           /\ returned[1] = "iri" \/ (IsKeyword(returned) /\ returned[2] \in TypeKeywords)
           /\ options.mode = "1.0" /\ returned \in {Keyword("@json"), Keyword("@none")}
  BY <1>6, Failed DEF DefineTyped
<1>7. CASE /\ returned # NoMapping
           /\ ~(returned[1] = "iri" \/ (IsKeyword(returned) /\ returned[2] \in TypeKeywords))
  BY <1>7, Failed DEF DefineTyped
<1> QED
  BY <1>4, <1>5, <1>6, <1>7

LEMMA DefineReverseStep ==
    ASSUME Here, DefineReverse
    PROVE  Stepped
<1>1. Running("define", "iri") /\ Binding.reverse # None
  BY DEF DefineReverse
<1>2. /\ DOMAIN Frame = DefineFields /\ DOMAIN Frame.definition = DefinitionFields
      /\ Frame.call = "define" /\ defined[Frame.term]
  BY <1>1, UnderWay DEF Pending
<1>3. CASE Binding.id # None \/ Binding.nest # None
  BY <1>3, Failed DEF DefineReverse
<1>4. CASE /\ Binding.id = None /\ Binding.nest = None
           /\ Form(Binding.reverse) \in {"keyword", "keyword-like"}
  BY <1>1, <1>4, Abandons DEF DefineReverse
<1>5. CASE /\ Binding.id = None /\ Binding.nest = None
           /\ Form(Binding.reverse) \notin {"keyword", "keyword-like"}
  <2> DEFINE g == [Frame EXCEPT !.at = "reversed"]
             f == ExpandCall(Binding.reverse)
  <2>1. stack' = Append(Front(stack), g) \o <<f>> /\ Keeping
    BY <1>5 DEF DefineReverse, CallThen
  <2>2. Further(Frame, g) /\ g.at = "reversed" /\ g.term = Frame.term /\ g.call = "define"
    BY <1>1, <1>2, <1>5 DEF Further, Arm, DefineFields, Pending, Binding, KeywordForms
  <2>3. f = ExpandCall(f.value) /\ f.call = "expand" /\ f.value = Binding.reverse
    BY DEF ExpandCall
  <2>4. Reference(Frame.term) = Binding.reverse
    BY <1>1 DEF Reference, Binding
  <2> HIDE DEF g, f
  <2>5. Linked(g, f)
    BY <2>2, <2>3, <2>4 DEF Linked, Asking, Asked
  <2>6. g.at \in Pending
    BY <2>2 DEF Pending
  <2>7. Provided(g, InHand(stack), defined)
    BY <1>1, <2>2, TypeWaited, SoughtBy
  <2> QED
    BY <1>1, <1>2, <2>1, <2>2, <2>3, <2>5, <2>6, <2>7, DefineAsks
<1> QED
  BY <1>3, <1>4, <1>5

\* A reference other than the term itself means what it expanded to.
LEMMA Understood ==
    ASSUME NEW t \in Strings, NEW hand, NEW marks, NEW table, NEW value,
           Reference(t) \in Strings, Reference(t) # t,
           value = ExpandSimple(table, Reference(t)),
           Expanded(Reference(t), t, hand, marks, table)
    PROVE  Means(value, t, hand, marks, table)
<1>1. Reference(t) # Null /\ Reference(t) \notin {None, t}
  BY TermAssumption
<1>2. Meaning(Without(table, t), t) = ExpandSimple(Without(table, t), Reference(t))
  BY <1>1 DEF Meaning
<1>3. ExpandSimple(Without(table, t), Reference(t)) = value
  BY WithoutOwn
<1>4. Grounded(t, hand, marks, table)
  BY <1>1 DEF Grounded
<1> QED
  BY <1>2, <1>3, <1>4 DEF Means

LEMMA DefineReversedStep ==
    ASSUME Here, DefineReversed
    PROVE  Stepped
<1> DEFINE t == Frame.term
<1>1. Running("define", "reversed")
  BY DEF DefineReversed
<1>2. /\ DOMAIN Frame = DefineFields /\ DOMAIN Frame.definition = DefinitionFields
      /\ Frame.call = "define" /\ Frame.at = "reversed" /\ Arm(Frame)
      /\ t \in Bound \ {TypeTerm} /\ t \in Strings
  BY <1>1, UnderWay
<1>3. /\ returned = ExpandSimple(active, Reference(t))
      /\ Expanded(Reference(t), t, InHand(stack), defined, active)
      /\ TableOK(InHand(stack), defined, active)
  BY <1>1, <1>2, At DEF Heard, Asking, Asked, Sound
<1>4. /\ Reference(t) = Binding.reverse /\ Binding.reverse # None /\ Form(Binding.reverse) \notin KeywordForms
      /\ Binding.id = None
  BY <1>2 DEF Arm, Reference, Binding
<1>5. Reference(t) \in Strings
  BY <1>2, <1>4, TermAssumption DEF Here, Bound, Binding
<1>6. Reference(t) # t
  BY <1>3, <1>4 DEF Expanded
<1>7. Means(returned, t, InHand(stack), defined, active)
  BY <1>2, <1>3, <1>5, <1>6, Understood
<1>8. CASE ~IsValidId(returned)
  BY <1>8, Failed DEF DefineReversed
<1>9. CASE IsValidId(returned) /\ Binding.container \notin {None, Null, {"@set"}, {"@index"}}
  BY <1>9, Failed DEF DefineReversed
<1>10. CASE IsValidId(returned) /\ Binding.container \in {None, Null, {"@set"}, {"@index"}}
  <2> DEFINE valued == [Frame EXCEPT !.definition.value = returned]
             reversed == [Frame EXCEPT !.definition.value = returned, !.definition.reverse = TRUE]
             g == [reversed EXCEPT !.at = "rest"]
  <2>1. stack' = Append(Front(stack), g) /\ Keeping
    BY <1>10 DEF DefineReversed, Goto
  <2>2. /\ DOMAIN valued = DefineFields /\ valued.call = "define" /\ valued.term = t
        /\ valued.override = Frame.override /\ valued.previous = Frame.previous
        /\ valued.definition = [Frame.definition EXCEPT !.value = returned]
    BY <1>2 DEF DefineFields
  <2>3. /\ DOMAIN [Frame.definition EXCEPT !.value = returned] = DefinitionFields
        /\ [Frame.definition EXCEPT !.value = returned].value = returned
    BY <1>2 DEF DefinitionFields, EmptyDefinition
  <2>4. reversed = [valued EXCEPT !.definition.reverse = TRUE]
    OBVIOUS
  <2> HIDE DEF valued
  <2>5. /\ DOMAIN reversed = DefineFields /\ reversed.call = "define" /\ reversed.term = t
        /\ reversed.override = Frame.override /\ reversed.previous = Frame.previous
        /\ reversed.definition = [valued.definition EXCEPT !.reverse = TRUE]
    BY <2>2, <2>4 DEF DefineFields
  <2>6. /\ DOMAIN [valued.definition EXCEPT !.reverse = TRUE] = DefinitionFields
        /\ [valued.definition EXCEPT !.reverse = TRUE].value = returned
    BY <2>2, <2>3 DEF DefinitionFields, EmptyDefinition
  <2> HIDE DEF reversed
  <2>7. Further(Frame, g) /\ g.at = "rest" /\ g.definition.value = returned /\ g.term = t
    BY <2>5, <2>6 DEF Further, Arm, DefineFields, Pending
  <2> HIDE DEF g
  <2>8. g.at \notin Pending
    BY <2>7 DEF Pending
  <2>9. AllSettled(Must(t), InHand(stack), defined)
    <3>1. AllSettled(Needs(Binding.reverse), InHand(stack), defined)
      BY <1>3, <1>4, NeedsSettled
    <3>2. AllSettled(Needs(Binding.id), InHand(stack), defined)
      BY <1>4, NothingNeeded DEF AllSettled
    <3>3. t \notin Own(t)
      BY <1>4 DEF Own, Binding
    <3>4. AllSettled(Needs(Binding.type), InHand(stack), defined)
      BY <1>1, TypeWaited DEF Binding
    <3> QED
      BY <1>2, <3>1, <3>2, <3>3, <3>4, AllWaitedFor DEF Binding
  <2>10. Provided(g, InHand(stack), defined)
    BY <2>7, <2>9, SoughtBy
  <2> QED
    BY <1>1, <1>7, <2>1, <2>7, <2>8, <2>10, DefineGoes
<1> QED
  BY <1>8, <1>9, <1>10
LEMMA DefineIdStep ==
    ASSUME Here, DefineId
    PROVE  Stepped
<1> DEFINE t == Frame.term
<1>1. Running("define", "iri") /\ Binding.reverse = None /\ Binding.id \notin {None, t}
  BY DEF DefineId
<1>2. /\ DOMAIN Frame = DefineFields /\ DOMAIN Frame.definition = DefinitionFields
      /\ Frame.call = "define" /\ defined[t] /\ Frame.definition.value = NoMapping
      /\ t \in Bound \ {TypeTerm}
  BY <1>1, UnderWay DEF Pending
<1>3. Reference(t) = Binding.id
  BY <1>1 DEF Reference, Binding
<1>4. CASE Binding.id = Null
  <2> DEFINE g == [Frame EXCEPT !.at = "rest"]
  <2>1. stack' = Append(Front(stack), g) /\ Keeping
    BY <1>4 DEF DefineId, Goto
  <2>2. /\ Further(Frame, g) /\ g.at = "rest" /\ g.term = t
        /\ g.definition.value = NoMapping
    BY <1>2 DEF Further, Arm, DefineFields, Pending
  <2>3. Means(NoMapping, t, InHand(stack), defined, active)
    <3>1. Reference(t) = Null /\ Reference(t) \notin {None, t}
      BY <1>1, <1>3, <1>4
    <3>2. Meaning(Without(active, t), t) = NoMapping
      BY <3>1 DEF Meaning
    <3>3. Grounded(t, InHand(stack), defined, active)
      BY <3>1 DEF Grounded
    <3> QED
      BY <3>2, <3>3 DEF Means
  <2> HIDE DEF g
  <2>4. g.at \notin Pending
    BY <2>2 DEF Pending
  <2>5. AllSettled(Must(t), InHand(stack), defined)
    <3>1. Needs(Binding.reverse) = {} /\ Needs(Binding.id) = {}
      BY <1>1, <1>4, NothingNeeded
    <3>2. t \notin Own(t)
      BY <1>1, <1>4 DEF Own, Binding
    <3>3. AllSettled(Needs(Binding.type), InHand(stack), defined)
      BY <1>1, TypeWaited DEF Binding
    <3> QED
      BY <1>2, <3>1, <3>2, <3>3, AllWaitedFor DEF Binding, AllSettled
  <2>6. Provided(g, InHand(stack), defined)
    BY <2>2, <2>5, SoughtBy
  <2> QED
    BY <1>1, <2>1, <2>2, <2>3, <2>4, <2>6, DefineGoes
<1>5. CASE Binding.id # Null /\ Form(Binding.id) = "keyword-like"
  BY <1>1, <1>5, Abandons DEF DefineId
<1>6. CASE Binding.id # Null /\ Form(Binding.id) # "keyword-like"
  <2> DEFINE g == [Frame EXCEPT !.at = "mapped"]
             f == ExpandCall(Binding.id)
  <2>1. stack' = Append(Front(stack), g) \o <<f>> /\ Keeping
    BY <1>6 DEF DefineId, CallThen
  <2>2. Further(Frame, g) /\ g.at = "mapped" /\ g.term = t /\ g.call = "define"
    BY <1>1, <1>2, <1>6 DEF Further, Arm, DefineFields, Pending, Binding
  <2>3. f = ExpandCall(f.value) /\ f.call = "expand" /\ f.value = Reference(t)
    BY <1>3 DEF ExpandCall
  <2> HIDE DEF g, f
  <2>4. Linked(g, f)
    BY <2>2, <2>3 DEF Linked, Asking, Asked
  <2>5. g.at \in Pending
    BY <2>2 DEF Pending
  <2>6. Provided(g, InHand(stack), defined)
    BY <1>1, <2>2, TypeWaited, SoughtBy
  <2> QED
    BY <1>1, <1>2, <2>1, <2>2, <2>3, <2>4, <2>5, <2>6, DefineAsks
<1> QED
  BY <1>4, <1>5, <1>6

\* A term whose own form is checked counts as defined, while it is still in hand.
LEMMA Checks ==
    ASSUME Here, Running("define", "mapped"),
           NEW g, Further(Frame, g), g.at = "checked",
           Means(g.definition.value, g.term, InHand(stack), defined, active),
           Provided(g, InHand(stack), defined),
           stack' = Append(Front(stack), g) \o <<ExpandCall(Frame.term)>>,
           defined' = With(defined, Frame.term, FALSE),
           UNCHANGED <<active, next, returned, outcome>>
    PROVE  Stepped
<1> DEFINE t == Frame.term
           under == Front(stack)
           hand == InHand(stack)
           later == With(defined, t, FALSE)
           f == ExpandCall(t)
           others == Append(under, g)
           more == Append(others, f)
<1>1. /\ t \in Bound /\ t \in Strings /\ t \in DOMAIN defined /\ t \notin DOMAIN active /\ t \in hand
      /\ Frame.previous = Previous(initial, t) /\ (~options.override => ~Frame.override)
  BY UnderWay
<1>2. /\ Sound(stack, hand, defined, active) /\ stack # <<>> /\ IsSeq(stack) /\ outcome = "running"
      /\ Frame.call = "define" /\ Frame.at = "mapped" /\ Fits(under, Frame)
  BY At
<1>3. g.call = "define" /\ g.term = t /\ Begun(g) /\ Held(g) = {t} /\ Held(Frame) = {t}
  BY <1>2 DEF Further, Begun, Held
<1>4. /\ Sound(under, hand, defined, active) /\ InHand(under) = hand \ {t} /\ hand = InHand(under) \cup {t}
      /\ hand \subseteq DOMAIN defined
  BY <1>2, <1>3, Taken DEF Frame
<1>5. DOMAIN later = DOMAIN defined /\ ~later[t]
  BY <1>1 DEF With
<1>6. OnlyAt(t, hand, defined, active, hand, later, active)
  BY <1>5 DEF OnlyAt, SameAt, With
<1>7. ~IsSettled(t, hand, defined)
  BY <1>1 DEF IsSettled
<1> HIDE DEF hand, later, t, under
<1>8. Sound(under, hand, later, active)
  BY <1>1, <1>4, <1>6, <1>7, Revised DEF Here
<1>9. Means(g.definition.value, t, hand, later, active) /\ Provided(g, hand, later)
  <2>1. Onward(hand, defined, active, hand, later, active)
    BY <1>1, <1>6, <1>7, OnwardAt
  <2>2. Means(g.definition.value, t, hand, defined, active) /\ Provided(g, hand, defined)
    BY <1>3 DEF hand, t
  <2>3. Means(g.definition.value, t, hand, later, active)
    BY <1>1, <2>1, <2>2, MeansStays
  <2>4. Provided(g, hand, later)
    BY <2>1, <2>2 DEF Provided, AllSettled, Onward
  <2> QED
    BY <2>3, <2>4
<1>10. FrameOK(g, later, active)
  <2>1. DefineOK(g, later, active)
    <3>1. t # TypeTerm
      BY UnderWay DEF t
    <3>2. /\ DOMAIN g = DefineFields /\ g.override = Frame.override /\ g.previous = Frame.previous
          /\ DOMAIN g.definition = DefinitionFields /\ Arm(g)
      BY DEF Further
    <3> QED
      BY <1>1, <1>3, <1>5, <3>1, <3>2 DEF DefineOK, Pending
  <2> QED
    BY <1>3, <2>1 DEF FrameOK
<1>11. Fits(under, g)
  BY <1>2, <1>3, FitsAlike DEF t
<1>12. Sound(others, InHand(others), later, active) /\ InHand(others) = hand
  BY <1>3, <1>4, <1>8, <1>9, <1>10, <1>11, Put
<1>13. IsSeq(under)
  BY <1>2, FrontAndLast DEF under
<1>14. others[Len(others)] = g /\ IsSeq(others) /\ others # <<>>
  BY <1>13, Appended
<1>15. stack' = more
  BY <1>14, Conc DEF under, t
<1>16. f.call = "expand" /\ f.at = "term" /\ f.value = t /\ DOMAIN f = ExpandFields
  BY DEF ExpandCall, ExpandFields
<1>17. FrameOK(f, later, active) /\ Linked(g, f)
  BY <1>3, <1>16 DEF FrameOK, ExpandOK, Linked
<1> HIDE DEF others, f
<1>18. Sound(more, InHand(more), later, active)
  BY <1>12, <1>14, <1>16, <1>17, Called
<1>19. more[Len(more)] = f
  BY <1>14, Appended
<1> HIDE DEF more
<1>20. TopOK(more, InHand(more), later, active, returned)
  BY <1>16, <1>19, HeardNothing DEF TopOK, Asking
<1>21. LoopOK(more, later, next)
  <2>1. CallsOK(stack, defined, active) /\ LoopOK(stack, defined, next) /\ Last(stack).at # "begin"
    BY <1>2 DEF Sound, Here, Good, Frame
  <2> QED
    BY <1>2, <1>5, <2>1, LoopKept
<1>22. Good(more, later, active, returned, next)
  BY <1>18, <1>20, <1>21 DEF Good, Sound
<1> QED
  BY <1>2, <1>15, <1>22 DEF Stepped, later, t
LEMMA DefineMappedStep ==
    ASSUME Here, DefineMapped
    PROVE  Stepped
<1> DEFINE t == Frame.term
           d == [Frame.definition EXCEPT
                    !.value = returned,
                    !.prefix = /\ ~LooksLikeIri(Frame.term) /\ Binding.simple
                               /\ EndsInGenDelimOrBlank(returned)]
           built == [Frame EXCEPT !.definition = d]
<1>1. Running("define", "mapped")
  BY DEF DefineMapped
<1>2. /\ DOMAIN Frame = DefineFields /\ DOMAIN Frame.definition = DefinitionFields
      /\ Frame.call = "define" /\ Frame.at = "mapped" /\ Arm(Frame)
      /\ t \in Bound \ {TypeTerm} /\ t \in Strings
  BY <1>1, UnderWay
<1>3. /\ returned = ExpandSimple(active, Reference(t))
      /\ Expanded(Reference(t), t, InHand(stack), defined, active)
      /\ TableOK(InHand(stack), defined, active)
  BY <1>1, <1>2, At DEF Heard, Asking, Asked, Sound
<1>4. Reference(t) = Binding.id /\ Binding.id \notin {None, Null, t} /\ Binding.reverse = None
  BY <1>2 DEF Arm, Reference, Binding
<1>5. Reference(t) \in Strings
  BY <1>2, <1>4, TermAssumption DEF Here, Bound, Binding
<1>6. Means(returned, t, InHand(stack), defined, active)
  BY <1>2, <1>3, <1>4, <1>5, Understood
<1>7. d.value = returned /\ DOMAIN d = DefinitionFields
  BY <1>2 DEF DefinitionFields, EmptyDefinition
<1>11. /\ AllSettled(Needs(Binding.type), InHand(stack), defined)
       /\ AllSettled(Needs(Binding.id), InHand(stack), defined)
       /\ AllSettled(Needs(Binding.reverse), InHand(stack), defined)
  <2>1. AllSettled(Needs(Binding.type), InHand(stack), defined)
    BY <1>1, TypeWaited DEF Binding
  <2>2. AllSettled(Needs(Binding.id), InHand(stack), defined)
    BY <1>3, <1>4, NeedsSettled
  <2>3. AllSettled(Needs(Binding.reverse), InHand(stack), defined)
    BY <1>4, NothingNeeded DEF AllSettled
  <2> QED
    BY <2>1, <2>2, <2>3
<1>8. CASE returned = Keyword("@context")
  BY <1>8, Failed DEF DefineMapped, Keyword
<1>9. CASE returned[1] = "invalid"
  BY <1>9, Failed DEF DefineMapped, Keyword
<1>10. CASE returned # Keyword("@context") /\ returned[1] # "invalid"
  <2>1. IF options.mode # "1.0" /\ LooksLikeIri(t)
        THEN /\ defined' = With(defined, t, FALSE)
             /\ CallThen(built, "checked", ExpandCall(t))
             /\ UNCHANGED <<active, next, returned, outcome>>
        ELSE Goto(built, "rest") /\ Keeping
    BY <1>10 DEF DefineMapped
  <2> HIDE DEF d
  <2>2. /\ DOMAIN built = DefineFields /\ built.call = "define" /\ built.term = t
        /\ built.override = Frame.override /\ built.previous = Frame.previous /\ built.definition = d
    BY <1>2 DEF DefineFields
  <2> HIDE DEF built
  <2>3. CASE options.mode # "1.0" /\ LooksLikeIri(t)
    <3> DEFINE g == [built EXCEPT !.at = "checked"]
    <3>1. /\ defined' = With(defined, t, FALSE)
          /\ stack' = Append(Front(stack), g) \o <<ExpandCall(t)>>
          /\ UNCHANGED <<active, next, returned, outcome>>
      BY <2>1, <2>3 DEF CallThen
    <3>2. Further(Frame, g) /\ g.at = "checked" /\ g.definition.value = returned /\ g.term = t
      BY <1>4, <1>7, <2>2, <2>3 DEF Further, Arm, DefineFields, Pending, Binding
    <3> HIDE DEF g
    <3>3. Provided(g, InHand(stack), defined)
      BY <1>11, <3>2, SoughtBy DEF Binding
    <3> QED
      BY <1>1, <1>6, <3>1, <3>2, <3>3, Checks
  <2>4. CASE ~(options.mode # "1.0" /\ LooksLikeIri(t))
    <3> DEFINE g == [built EXCEPT !.at = "rest"]
    <3>1. stack' = Append(Front(stack), g) /\ Keeping
      BY <2>1, <2>4 DEF Goto
    <3>2. Further(Frame, g) /\ g.at = "rest" /\ g.definition.value = returned /\ g.term = t
      BY <1>7, <2>2 DEF Further, Arm, DefineFields, Pending
    <3> HIDE DEF g
    <3>3. g.at \notin Pending
      BY <3>2 DEF Pending
    <3>4. ~(t \in Own(t) /\ Form(t) = "compact")
      BY <1>4, <2>4 DEF Own, Binding, LooksLikeIri
    <3>5. AllSettled(Must(t), InHand(stack), defined)
      BY <1>2, <1>11, <3>4, AllWaitedFor DEF Binding
    <3>6. Provided(g, InHand(stack), defined)
      BY <3>2, <3>5, SoughtBy
    <3> QED
      BY <1>1, <1>6, <3>1, <3>2, <3>3, <3>6, DefineGoes
  <2> QED
    BY <2>3, <2>4
<1> QED
  BY <1>8, <1>9, <1>10

LEMMA DefineCheckedStep ==
    ASSUME Here, DefineChecked
    PROVE  Stepped
<1>1. Running("define", "checked")
  BY DEF DefineChecked
<1>2. CASE returned # Frame.definition.value
  BY <1>2, Failed DEF DefineChecked
<1>3. CASE returned = Frame.definition.value
  <2> DEFINE g == [Frame EXCEPT !.at = "rest"]
  <2>1. /\ DOMAIN Frame = DefineFields /\ DOMAIN Frame.definition = DefinitionFields
        /\ Frame.call = "define" /\ Frame.at = "checked" /\ Arm(Frame)
        /\ Frame.term \in Bound \ {TypeTerm}
        /\ AllSettled(Sought(Frame), InHand(stack), defined)
    BY <1>1, UnderWay
  <2>2. stack' = Append(Front(stack), g) /\ Keeping
    BY <1>3 DEF DefineChecked, Goto
  <2>3. /\ Further(Frame, g) /\ g.at = "rest" /\ g.definition = Frame.definition /\ g.term = Frame.term
    BY <2>1 DEF Further, Arm, DefineFields, Pending
  <2>4. Means(Frame.definition.value, Frame.term, InHand(stack), defined, active)
    <3>1. /\ ReasonsOK(stack, InHand(stack), defined, active) /\ Frame = stack[Len(stack)]
          /\ IsSeq(stack) /\ stack # <<>>
      BY <1>1, At DEF Sound
    <3>2. Len(stack) \in DOMAIN stack
      BY <3>1, FrontAndLast
    <3> QED
      BY <2>1, <3>1, <3>2 DEF ReasonsOK
  <2> HIDE DEF g
  <2>5. g.at \notin Pending
    BY <2>3 DEF Pending
  <2>6. AllSettled(Must(Frame.term), InHand(stack), defined)
    <3>1. Form(Frame.term) = "compact" => IsSettled(PrefixOf(Frame.term), InHand(stack), defined)
      BY <1>1, <2>1, At DEF Heard
    <3>2. /\ AllSettled(Needs(Binding.type), InHand(stack), defined)
          /\ AllSettled(Needs(Binding.id), InHand(stack), defined)
      BY <2>1 DEF Sought, AllSettled, Binding
    <3>3. AllSettled(Needs(Binding.reverse), InHand(stack), defined)
      BY <2>1, NothingNeeded DEF AllSettled, Arm, Binding
    <3> QED
      BY <2>1, <3>1, <3>2, <3>3, AllWaitedFor DEF Binding
  <2>7. Provided(g, InHand(stack), defined)
    BY <2>3, <2>6, SoughtBy
  <2> QED
    BY <1>1, <2>2, <2>3, <2>4, <2>5, <2>7, DefineGoes
<1> QED
  BY <1>2, <1>3

LEMMA DefineSelfStep ==
    ASSUME Here, DefineSelf
    PROVE  Stepped
<1> DEFINE t == Frame.term
           g == [Frame EXCEPT !.at = "self"]
           f == Dependency(PrefixOf(t))
<1>1. Running("define", "iri") /\ Binding.reverse = None /\ Binding.id \in {None, t}
  BY DEF DefineSelf
<1>2. /\ DOMAIN Frame = DefineFields /\ DOMAIN Frame.definition = DefinitionFields
      /\ Frame.call = "define" /\ defined[t]
  BY <1>1, UnderWay DEF Pending
<1>3. Further(Frame, g) /\ g.at = "self" /\ g.term = t /\ g.call = "define"
  BY <1>1, <1>2 DEF Further, Arm, DefineFields, Pending, Binding
<1>6. Provided(g, InHand(stack), defined)
  BY <1>1, <1>3, TypeWaited, SoughtBy
<1>4. CASE Form(t) = "compact"
  <2>1. stack' = Append(Front(stack), g) \o <<f>> /\ Keeping
    BY <1>4 DEF DefineSelf, CallThen
  <2>2. f.call = "define" /\ f.term = PrefixOf(t) /\ f = Dependency(f.term)
    BY DEF Dependency, DefineCall
  <2> HIDE DEF g, f
  <2>3. Linked(g, f)
    BY <1>3, <1>4, <2>2 DEF Linked
  <2>4. g.at \in Pending
    BY <1>3 DEF Pending
  <2> QED
    BY <1>1, <1>2, <1>3, <1>6, <2>1, <2>2, <2>3, <2>4, DefineAsks
<1>5. CASE Form(t) # "compact"
  <2>1. stack' = Append(Front(stack), g) /\ Keeping
    BY <1>5 DEF DefineSelf, Goto
  <2> HIDE DEF g
  <2> QED
    BY <1>1, <1>2, <1>3, <1>5, <1>6, <2>1, DefineGoes
<1> QED
  BY <1>4, <1>5

LEMMA DefineOwnIriStep ==
    ASSUME Here, DefineOwnIri
    PROVE  Stepped
<1> DEFINE t == Frame.term
           m == SelfMapping(active, t)
           hand == InHand(stack)
<1>1. Running("define", "self")
  BY DEF DefineOwnIri
<1>2. /\ DOMAIN Frame = DefineFields /\ DOMAIN Frame.definition = DefinitionFields
      /\ Frame.call = "define" /\ Frame.at = "self" /\ Arm(Frame)
      /\ t \in Strings /\ t \notin DOMAIN active /\ t \in Bound \ {TypeTerm}
  BY <1>1, UnderWay
<1>3. CASE m = Rejected
  BY <1>3, Failed DEF DefineOwnIri
<1>4. CASE m # Rejected /\ ~IsValidId(m)
  BY <1>4, Failed DEF DefineOwnIri
<1>5. CASE m # Rejected /\ IsValidId(m)
  <2> DEFINE valued == [Frame EXCEPT !.definition.value = m]
             g == [valued EXCEPT !.at = "rest"]
  <2>1. stack' = Append(Front(stack), g) /\ Keeping
    BY <1>5 DEF DefineOwnIri, Goto
  <2>2. Reference(t) \in {None, t} /\ Reference(t) # Null
    BY <1>2, TermAssumption DEF Arm, Reference
  <2>3. Form(t) = "compact" => IsSettled(PrefixOf(t), hand, defined)
    <3>1. SUFFICES ASSUME Form(t) = "compact", PrefixOf(t) \in Bound, PrefixOf(t) \in hand
                   PROVE  FALSE
      BY <1>1, <1>2, At DEF Heard, Visited, IsSettled
    <3>2. ~defined[PrefixOf(t)]
      BY <1>1, <1>2, <3>1, At DEF Heard, Visited
    <3>3. Form(PrefixOf(t)) # "compact"
      BY <1>2, <3>1, TermAssumption
    <3>4. CallsOK(stack, defined, active) /\ Frame = stack[Len(stack)]
      BY <1>1, At DEF Sound
    <3> QED
      BY <1>2, <3>1, <3>2, <3>3, <3>4, CheckedPrefix DEF Here
  <2>4. Means(m, t, hand, defined, active)
    <3>1. Form(t) = "compact" => SameAt(active, Without(active, t), PrefixOf(t))
      BY <1>2, TermAssumption, OtherThan
    <3>2. t \notin DOMAIN Without(active, t)
      BY DEF Without
    <3>3. m = SelfMapping(Without(active, t), t)
      BY <1>2, <3>1, <3>2, OwnReads
    <3>4. m = Meaning(Without(active, t), t)
      BY <2>2, <3>3 DEF Meaning
    <3>5. Grounded(t, hand, defined, active)
      BY <2>2, <2>3 DEF Grounded
    <3> QED
      BY <3>4, <3>5 DEF Means
  <2> HIDE DEF m
  <2>5. /\ DOMAIN valued = DefineFields /\ valued.call = "define" /\ valued.term = t
        /\ valued.override = Frame.override /\ valued.previous = Frame.previous
        /\ valued.definition = [Frame.definition EXCEPT !.value = m]
    BY <1>2 DEF DefineFields
  <2>6. /\ DOMAIN [Frame.definition EXCEPT !.value = m] = DefinitionFields
        /\ [Frame.definition EXCEPT !.value = m].value = m
    BY <1>2 DEF DefinitionFields, EmptyDefinition
  <2> HIDE DEF valued
  <2>7. Further(Frame, g) /\ g.at = "rest" /\ g.definition.value = m /\ g.term = t
    BY <2>5, <2>6 DEF Further, Arm, DefineFields, Pending
  <2> HIDE DEF g
  <2>8. g.at \notin Pending
    BY <2>7 DEF Pending
  <2>9. AllSettled(Must(t), hand, defined)
    <3>1. Binding.reverse = None /\ Binding.id \in {None, t}
      BY <1>2 DEF Arm, Binding
    <3>2. AllSettled(Needs(Binding.type), hand, defined)
      BY <1>1, TypeWaited DEF Binding
    <3>3. AllSettled(Needs(Binding.reverse), hand, defined)
      BY <3>1, NothingNeeded DEF AllSettled
    <3>4. Binding.id # t => AllSettled(Needs(Binding.id), hand, defined)
      BY <3>1, NothingNeeded DEF AllSettled
    <3> HIDE DEF hand
    <3> QED
      BY <1>2, <2>3, <3>2, <3>3, <3>4, AllWaitedFor DEF Binding
  <2>10. Provided(g, hand, defined)
    BY <2>7, <2>9, SoughtBy
  <2> QED
    BY <1>1, <2>1, <2>4, <2>7, <2>8, <2>10, DefineGoes
<1> QED
  BY <1>3, <1>4, <1>5
-----------------------------------------------------------------------------
(* define: beginning and installing.                                       *)

\* A definition begins by leaving the table.
LEMMA DefineStartStep ==
    ASSUME Here, DefineStart
    PROVE  Stepped
<1> DEFINE t == Frame.term
           under == Front(stack)
           hand == InHand(stack)
           d == EmptyDefinition(Explicit(Binding.protected, Frame.protected))
           begun == [Frame EXCEPT !.previous = Previous(active, t), !.definition = d]
           g == [begun EXCEPT !.at = "type"]
           after == hand \cup {t}
           later == With(defined, t, TRUE)
           grown == Without(active, t)
           others == Append(under, g)
<1>1. /\ Running("define", "begin") /\ t \in Bound /\ t \notin DOMAIN defined /\ t # TypeTerm
  BY DEF DefineStart, FirstSeen
<1>2. /\ Sound(stack, hand, defined, active) /\ stack # <<>> /\ IsSeq(stack) /\ outcome = "running"
      /\ Frame.call = "define" /\ Frame.at = "begin" /\ Fits(under, Frame)
      /\ FrameOK(Frame, defined, active)
  BY <1>1, At
<1>3. Held(Frame) = {}
  BY <1>2 DEF Held, Begun
<1>4. /\ Sound(under, hand, defined, active) /\ hand = InHand(under) /\ hand \subseteq DOMAIN defined
  BY <1>2, <1>3, Taken DEF Frame
<1>5. CASE Form(t) = "empty" \/ (Binding.protected # None /\ options.mode = "1.0")
  BY <1>5, Failed DEF DefineStart
<1>6. CASE ~(Form(t) = "empty" \/ (Binding.protected # None /\ options.mode = "1.0"))
  <2>1. /\ defined' = later /\ active' = grown /\ stack' = others
        /\ UNCHANGED <<next, returned, outcome>>
    BY <1>6 DEF DefineStart, Goto
  <2>2. /\ DOMAIN g = DefineFields /\ g.call = "define" /\ g.at = "type" /\ g.term = t
        /\ g.override = Frame.override /\ g.previous = Previous(active, t) /\ g.definition = d
    <3>1. DOMAIN Frame = DefineFields
      BY <1>2 DEF FrameOK, DefineOK
    <3> HIDE DEF d
    <3> QED
      BY <1>2, <3>1 DEF DefineFields
  <2>3. DOMAIN d = DefinitionFields /\ d.value = NoMapping
    BY DEF EmptyDefinition, DefinitionFields
  <2>4. Previous(active, t) = Previous(initial, t)
    BY <1>1, <1>2 DEF Sound, TableOK, Previous
  <2>5. ~options.override => ~Frame.override
    BY <1>2 DEF FrameOK, DefineOK
  <2>6. /\ t \in DOMAIN later /\ later[t] /\ DOMAIN defined \subseteq DOMAIN later /\ t \notin DOMAIN grown
    BY DEF With, Without
  <2>7. OnlyAt(t, hand, defined, active, after, later, grown)
    BY DEF OnlyAt, SameAt, With, Without
  <2>8. ~IsSettled(t, hand, defined) /\ t \notin hand
    BY <1>1, <1>4 DEF IsSettled
  <2> HIDE DEF d, begun, g, later, grown, hand, after, t, under
  <2>9. Sound(under, after, later, grown)
    <3>1. t \notin InHand(under) /\ InHand(under) \subseteq DOMAIN defined
      BY <1>4, <2>8
    <3> QED
      BY <1>1, <1>4, <2>6, <2>7, <2>8, <3>1, Revised DEF Here
  <2>10. FrameOK(g, later, grown)
    <3>1. Arm(g)
      BY <2>2 DEF Arm
    <3>2. DefineOK(g, later, grown)
      BY <1>1, <2>2, <2>3, <2>4, <2>5, <2>6, <3>1 DEF DefineOK, Pending
    <3> QED
      BY <2>2, <3>2 DEF FrameOK
  <2>11. Fits(under, g)
    BY <1>2, <2>2, FitsAlike DEF t
  <2>12. Held(g) = {t}
    BY <2>2 DEF Held, Begun
  <2>13. Held(g) \cap InHand(under) = {} /\ after = InHand(under) \cup Held(g)
    BY <1>4, <2>8, <2>12 DEF after
  <2>14. Sound(others, InHand(others), later, grown)
    BY <2>2, <2>9, <2>10, <2>11, <2>13, Put, ProvidedNothing
  <2>15. IsSeq(under)
    BY <1>2, FrontAndLast DEF under
  <2>16. others[Len(others)] = g
    BY <2>15, Appended
  <2> HIDE DEF others
  <2>17. TopOK(others, InHand(others), later, grown, returned)
    BY <2>2, <2>16, HeardNothing DEF TopOK, Asking
  <2>18. LoopOK(others, later, next)
    <3>1. CallsOK(stack, defined, active) /\ LoopOK(stack, defined, next) /\ Last(stack).term \in DOMAIN later
      BY <1>2, <2>6 DEF Sound, Here, Good, Frame, t
    <3> QED
      BY <1>2, <2>6, <3>1, LoopKept
  <2>19. Good(others, later, grown, returned, next)
    BY <2>14, <2>17, <2>18 DEF Good, Sound
  <2> QED
    BY <1>2, <2>1, <2>19 DEF Stepped
<1> QED
  BY <1>5, <1>6

\* A definition installed under a protected one is the protected one.
LEMMA DefineRestStep ==
    ASSUME Here, DefineRest, \A u \in DOMAIN initial : initial[u] # None
    PROVE  Stepped
<1> DEFINE t == Frame.term
           under == Front(stack)
           hand == InHand(stack)
           after == InHand(under)
           error == RestError(Frame, Binding, Frame.definition)
           d == Completed(Frame, Binding, Frame.definition)
           kept == KeptProtected(Frame.previous, d, Frame.override)
           later == With(defined, t, FALSE)
           grown == With(active, t, kept)
<1>1. Running("define", "rest")
  BY DEF DefineRest
<1>2. /\ DOMAIN Frame = DefineFields /\ DOMAIN Frame.definition = DefinitionFields
      /\ Frame.call = "define" /\ Frame.at = "rest"
      /\ t \in Bound /\ t \in Strings /\ t \in DOMAIN defined /\ t \in hand
      /\ Frame.previous = Previous(initial, t)
      /\ (~options.override => ~Frame.override)
  BY <1>1, UnderWay
<1>3. /\ Sound(stack, hand, defined, active) /\ stack # <<>> /\ IsSeq(stack) /\ outcome = "running"
      /\ Frame = stack[Len(stack)]
  BY <1>1, At
<1>4. CASE error # "ok"
  <2>1. error # "CyclicIriMapping"
    BY DEF RestError
  <2> QED
    BY <1>4, <2>1, Failed DEF DefineRest
<1>5. CASE error = "ok" /\ Redefines(Frame.previous, d, Frame.override)
  BY <1>5, Failed DEF DefineRest
<1>6. CASE error = "ok" /\ ~Redefines(Frame.previous, d, Frame.override)
  <2>1. /\ active' = grown /\ defined' = later /\ stack' = under
        /\ UNCHANGED <<next, returned, outcome>>
    BY <1>6 DEF DefineRest, Return
  <2>2. d.value = Frame.definition.value /\ DOMAIN d = DefinitionFields
    BY <1>2 DEF Completed, DefinitionFields, EmptyDefinition
  <2>3. kept.value = d.value
    <3> HIDE DEF d
    <3> QED
      BY <2>2 DEF KeptProtected, DefinitionFields, EmptyDefinition
  <2>4. KeptAs(t, kept)
    <3> HIDE DEF d
    <3>1. SUFFICES ASSUME ~options.override, t \in DOMAIN initial, initial[t].protected
                   PROVE  kept = initial[t]
      BY DEF KeptAs
    <3>2. Frame.previous = initial[t] /\ initial[t] # None /\ ~Frame.override
      BY <1>2, <3>1 DEF Previous
    <3> QED
      BY <1>6, <3>1, <3>2 DEF Redefines, KeptProtected
  <2>5. Held(Frame) = {t}
    BY <1>2 DEF Held, Begun
  <2>6. /\ Sound(under, hand, defined, active) /\ after = hand \ {t} /\ hand = after \cup {t}
        /\ hand \subseteq DOMAIN defined
    BY <1>3, <2>5, Taken DEF Frame
  <2>7. /\ t \in DOMAIN later /\ ~later[t] /\ DOMAIN defined \subseteq DOMAIN later
        /\ t \in DOMAIN grown /\ grown[t] = kept
    BY DEF With
  <2>8. OnlyAt(t, hand, defined, active, after, later, grown)
    BY <2>6 DEF OnlyAt, SameAt, With
  <2>9. ~IsSettled(t, hand, defined) /\ t \notin after
    BY <1>2, <2>6 DEF IsSettled
  <2> HIDE DEF t, under, hand, after, later, grown, kept, d
  <2>10. Means(kept.value, t, after, later, grown)
    <3>1. ReasonsOK(stack, hand, defined, active) /\ Len(stack) \in DOMAIN stack
      BY <1>3, FrontAndLast DEF Sound
    <3>2. Means(Frame.definition.value, t, hand, defined, active)
      BY <1>2, <1>3, <3>1 DEF ReasonsOK, t
    <3>3. Onward(hand, defined, active, after, later, grown)
      BY <1>2, <2>8, <2>9, OnwardAt
    <3>4. Means(Frame.definition.value, t, after, later, grown)
      BY <1>2, <3>2, <3>3, MeansStays
    <3> QED
      BY <2>2, <2>3, <3>4
  <2>11. Sound(under, after, later, grown)
    <3>1. t \notin InHand(under) /\ InHand(under) \subseteq DOMAIN defined
      BY <2>6, <2>9 DEF after
      <3>2. AllSettled(Must(t), hand, defined)
      <4>1. AllSettled(Sought(Frame), hand, defined)
        BY <1>1, UnderWay DEF hand
      <4> QED
        BY <1>2, <4>1 DEF Sought, t
    <3> QED
      BY <1>2, <2>4, <2>6, <2>7, <2>8, <2>9, <2>10, <3>1, <3>2, Revised DEF Here
  <2>12. Visited(t, after, later)
    BY <2>7 DEF Visited
  <2>13. Good(under, later, grown, returned, next)
    BY <1>1, <2>7, <2>11, <2>12, DefineReturns DEF under, after, t
  <2> QED
    BY <1>3, <2>1, <2>13 DEF Stepped
<1> QED
  BY <1>4, <1>5, <1>6
-----------------------------------------------------------------------------
(* process_context, and the whole.                                         *)

LEMMA Empty ==
    ASSUME NEW calls, calls = <<>>
    PROVE  InHand(calls) = {} /\ DOMAIN calls = {} /\ IsSeq(calls)
BY DEF InHand, IsSeq

LEMMA DefineNextStep ==
    ASSUME Here, DefineNext
    PROVE  Stepped
<1> DEFINE f == DefineCall(local.order[next], local.protected, TRUE, options.override)
           others == Append(stack, f)
<1>1. /\ outcome = "running" /\ stack = <<>> /\ next <= Len(local.order)
      /\ stack' = <<f>> /\ next' = next + 1
      /\ UNCHANGED <<active, defined, returned, outcome>>
  BY DEF DefineNext
<1>2. Sound(stack, InHand(stack), defined, active) /\ LoopOK(stack, defined, next)
  BY GoodIsSound DEF Here, Good
<1>3. /\ f.call = "define" /\ f.at = "begin" /\ f.term = local.order[next] /\ f.override = options.override
      /\ DOMAIN f = DefineFields
  BY DEF DefineCall, DefineFields
<1> HIDE DEF f
<1>4. FrameOK(f, defined, active) /\ Fits(stack, f) /\ Held(f) = {}
  BY <1>1, <1>3 DEF FrameOK, DefineOK, Begun, Fits, Held
<1>5. Sound(others, InHand(others), defined, active)
  BY <1>2, <1>3, <1>4, Put, ProvidedNothing
<1>6. IsSeq(stack) /\ Len(stack) = 0
  BY <1>1, Empty
<1>7. stack' = others
  BY <1>1, <1>6, Conc
<1>8. others[1] = f /\ Len(others) = 1 /\ others # <<>>
  BY <1>6, Appended
<1> HIDE DEF others
<1>9. TopOK(others, InHand(others), defined, active, returned)
  BY <1>3, <1>8, HeardNothing DEF TopOK, Asking
<1>10. LoopOK(others, defined, next + 1)
  <2>1. next \in Nat \ {0} /\ DOMAIN local.order \subseteq Nat
    <3>1. local.order \in Seq(Strings)
      BY TermAssumption DEF Here
    <3> QED
      BY <1>2, <3>1 DEF LoopOK
  <2>2. \A i \in DOMAIN local.order : i < next + 1 => i < next \/ i = next
    BY <2>1
  <2> QED
    BY <1>1, <1>2, <1>3, <1>8, <2>1, <2>2 DEF LoopOK
<1>11. Good(others, defined, active, returned, next + 1)
  BY <1>5, <1>9, <1>10 DEF Good, Sound
<1> QED
  BY <1>1, <1>7, <1>11 DEF Stepped

LEMMA DefineTooDeepStep ==
    ASSUME Here, DefineTooDeep
    PROVE  Stepped
BY Failed DEF DefineTooDeep

\* What the invariant says depends on the input as it stays.
LEMMA Committed ==
    ASSUME Good(stack', defined', active', returned', next'), UNCHANGED input
    PROVE  Good(stack, defined, active, returned, next)'
<1>1. local' = local /\ options' = options /\ vocabulary' = vocabulary /\ initial' = initial
  BY DEF input
<1>2. Bound' = Bound
  BY <1>1 DEF Bound
<1>3. \A f : Arm(f)' <=> Arm(f)
  BY <1>1 DEF Arm
<1>4. \A t : Reference(t)' = Reference(t)
  BY <1>1 DEF Reference
<1>5. \A s : Unprefixed(s)' = Unprefixed(s)
  BY <1>1 DEF Unprefixed, ByVocabulary
<1>6. \A table, p : MayPrefix(table, p)' <=> MayPrefix(table, p)
  BY <1>1 DEF MayPrefix
<1>7. \A table, s : ExpandSimple(table, s)' = ExpandSimple(table, s)
  BY <1>5, <1>6 DEF ExpandSimple
<1>8. \A table, t : SelfMapping(table, t)' = SelfMapping(table, t)
  BY <1>1, <1>7 DEF SelfMapping
<1>9. \A table, t : Meaning(table, t)' = Meaning(table, t)
  BY <1>4, <1>7, <1>8 DEF Meaning
<1>10. \A calls, marks, table : CallsOK(calls, marks, table)' <=> CallsOK(calls, marks, table)
  <2>1. \A f, marks, table : DefineOK(f, marks, table)' <=> DefineOK(f, marks, table)
    BY <1>1, <1>2, <1>3 DEF DefineOK, Previous
  <2>2. \A f, marks, table : FrameOK(f, marks, table)' <=> FrameOK(f, marks, table)
    BY <2>1 DEF FrameOK
  <2>3. \A outer, inner : Linked(outer, inner)' <=> Linked(outer, inner)
    BY <1>1, <1>4 DEF Linked, Asked
  <2> QED
    BY <2>2, <2>3 DEF CallsOK
<1>11. \A hand, marks, table : TableOK(hand, marks, table)' <=> TableOK(hand, marks, table)
  <2>1. \A t, d : KeptAs(t, d)' <=> KeptAs(t, d)
    BY <1>1 DEF KeptAs
  <2> QED
    BY <1>1, <1>2, <2>1 DEF TableOK
<1>12. \A u, hand, marks : IsSettled(u, hand, marks)' <=> IsSettled(u, hand, marks)
  BY <1>2 DEF IsSettled
<1>13. \A s, t, hand, marks, table : Expanded(s, t, hand, marks, table)' <=> Expanded(s, t, hand, marks, table)
  BY <1>12 DEF Expanded
<1>14. \A v, t, hand, marks, table : Means(v, t, hand, marks, table)' <=> Means(v, t, hand, marks, table)
  BY <1>4, <1>9, <1>12, <1>13 DEF Means, Grounded
<1>15. \A hand, marks, table : MeaningsOK(hand, marks, table)' <=> MeaningsOK(hand, marks, table)
  BY <1>14 DEF MeaningsOK
<1>19. \A t : Must(t)' = Must(t)
  BY <1>1, <1>2 DEF Must, Refers, Own, PrefixesIn
<1>20. \A f, hand, marks : Provided(f, hand, marks)' <=> Provided(f, hand, marks)
  <2>1. \A s : Needs(s)' = Needs(s)
    BY <1>1, <1>2 DEF Needs
  <2>2. \A f : Sought(f)' = Sought(f)
    BY <1>1, <1>19, <2>1 DEF Sought
  <2> QED
    BY <1>12, <2>2 DEF Provided, AllSettled
<1>21. \A hand, marks : Ranked(hand, marks)' <=> Ranked(hand, marks)
  BY <1>12, <1>19 DEF Ranked, AllSettled, Orders
<1>16. \A calls, hand, marks, table : ReasonsOK(calls, hand, marks, table)' <=> ReasonsOK(calls, hand, marks, table)
  BY <1>12, <1>14, <1>20 DEF ReasonsOK, Waits
<1>17. \A calls, hand, marks, table, answer :
          TopOK(calls, hand, marks, table, answer)' <=> TopOK(calls, hand, marks, table, answer)
  BY <1>1, <1>2, <1>4, <1>7, <1>12, <1>13 DEF TopOK, Heard, Visited, Asked
<1>18. \A calls, marks, index : LoopOK(calls, marks, index)' <=> LoopOK(calls, marks, index)
  BY <1>1, <1>2 DEF LoopOK
<1> QED
  BY <1>10, <1>11, <1>15, <1>16, <1>17, <1>18, <1>21 DEF Good

LEMMA Initially ==
    ASSUME Init
    PROVE  IInv
<1>1. stack = <<>> /\ DOMAIN defined = {} /\ next = 1 /\ active = initial /\ outcome = "running"
  BY DEF Init
<1>2. local \in LocalContexts /\ \A t \in DOMAIN initial : initial[t] # None
  BY TermAssumption DEF Init
<1>3. InHand(stack) = {} /\ DOMAIN stack = {} /\ IsSeq(stack)
  BY <1>1, Empty
<1>4. CallsOK(stack, defined, active)
  BY <1>3 DEF CallsOK, NoTwoBegun
<1>5. TableOK(InHand(stack), defined, active)
  BY <1>1 DEF TableOK
<1>6. MeaningsOK(InHand(stack), defined, active)
  BY <1>1 DEF MeaningsOK
<1>7. ReasonsOK(stack, InHand(stack), defined, active)
  BY <1>3 DEF ReasonsOK
<1>8. TopOK(stack, InHand(stack), defined, active, returned)
  BY <1>1 DEF TopOK
<1>9. LoopOK(stack, defined, next)
  <2>1. DOMAIN local.order = 1 .. Len(local.order) /\ Len(local.order) \in Nat
    BY <1>2, TermAssumption
  <2>2. \A i \in DOMAIN local.order : ~(i < next)
    BY <1>1, <2>1
  <2> QED
    BY <1>1, <2>2 DEF LoopOK
<1>10. Ranked(InHand(stack), defined)
  <2>1. Done(InHand(stack), defined) = {}
    BY <1>1 DEF Done
  <2>2. \E rank \in [{} -> 1 .. Cardinality({})] : Orders(rank, {})
    <3>1. [x \in {} |-> 1] \in [{} -> 1 .. Cardinality({})]
      OBVIOUS
    <3>2. \A rank : Orders(rank, {})
      BY DEF Orders
    <3> QED
      BY <3>1, <3>2
  <2> QED
    BY <2>1, <2>2 DEF Ranked
<1> QED
  BY <1>1, <1>2, <1>4, <1>5, <1>6, <1>7, <1>8, <1>9, <1>10 DEF IInv, Good

LEMMA BoundStrings ==
    ASSUME local \in LocalContexts
    PROVE  BoundAreStrings
BY TermAssumption DEF BoundAreStrings, Bound

LEMMA BoundFinite ==
    ASSUME local \in LocalContexts
    PROVE  BoundIsFinite
<1>1. local.order \in Seq(Strings) /\ \A t \in Bound : \E i \in DOMAIN local.order : local.order[i] = t
  BY TermAssumption DEF Bound
<1>2. Len(local.order) \in Nat /\ DOMAIN local.order = 1 .. Len(local.order)
  BY <1>1
<1>3. IsFiniteSet(DOMAIN local.order)
  BY <1>2, FS_Interval
<1>4. IsFiniteSet({i \in DOMAIN local.order : local.order[i] \in Bound})
  BY <1>3, FS_Subset
<1> DEFINE D == {i \in DOMAIN local.order : local.order[i] \in Bound}
           first == [i \in D |-> local.order[i]]
<1>5. first \in Surjection(D, Bound)
  BY <1>1 DEF Surjection
<1> QED
  BY <1>4, <1>5, FS_Surjection DEF BoundIsFinite

LEMMA StepKeeps ==
    ASSUME IInv, Next
    PROVE  IInv'
<1>1. Here /\ UNCHANGED input /\ local' = local /\ initial' = initial
  BY BoundStrings, BoundFinite DEF IInv, Here, Next, input
<1>2. \A u \in DOMAIN initial : initial[u] # None
  BY DEF IInv
<1>3. ASSUME Stepped
      PROVE  IInv'
  <2>1. Good(stack, defined, active, returned, next)'
    BY <1>1, <1>3, Committed DEF Stepped
  <2> QED
    BY <1>1, <1>2, <1>3, <2>1 DEF IInv, Stepped, Caught
<1>4. CASE DefineNext
  BY <1>1, <1>3, <1>4, DefineNextStep
<1>5. CASE Finish
  <2>1. Good(stack', defined', active', returned', next')
    BY <1>5 DEF Finish, IInv
  <2>2. Good(stack, defined, active, returned, next)'
    BY <1>1, <2>1, Committed
  <2>3. stack' = <<>> /\ next' > Len(local'.order) /\ outcome' = "ok"
    BY <1>1, <1>5 DEF Finish
  <2> QED
    BY <1>1, <1>2, <2>2, <2>3 DEF IInv
<1>6. CASE Expand
  BY <1>1, <1>3, <1>6, ExpandTermStep, ExpandLookupStep, ExpandConcatStep DEF Expand
<1>7. CASE Define
  <2>1. CASE DefineTooDeep \/ DefineUnbound \/ DefineAgain
    BY <1>1, <1>3, <2>1, DefineTooDeepStep, DefineUnboundStep, DefineAgainStep
  <2>2. CASE DefineType \/ DefineStart \/ DefineRest
    BY <1>1, <1>2, <1>3, <2>2, DefineTypeStep, DefineStartStep, DefineRestStep
  <2>3. CASE DefineTypeMapping \/ DefineTyped \/ DefineReverse \/ DefineReversed
    BY <1>1, <1>3, <2>3, DefineTypeMappingStep, DefineTypedStep, DefineReverseStep, DefineReversedStep
  <2>4. CASE DefineId \/ DefineMapped \/ DefineChecked \/ DefineSelf \/ DefineOwnIri
    BY <1>1, <1>3, <2>4, DefineIdStep, DefineMappedStep, DefineCheckedStep, DefineSelfStep, DefineOwnIriStep
  <2> QED
    BY <1>7, <2>1, <2>2, <2>3, <2>4 DEF Define
<1> QED
  BY <1>4, <1>5, <1>6, <1>7 DEF Next

\* The calls fit together, what was not begun is as it was, and each mapping that
\* is finished is what its reference means by what is settled.
THEOREM Invariance == Spec => []IInv
<1>1. Init => IInv
  BY Initially
<1>2. IInv /\ [Next]_vars => IInv'
  <2>1. ASSUME IInv, UNCHANGED vars
        PROVE  IInv'
    <3>1. Good(stack, defined, active, returned, next)'
      BY <2>1, Committed DEF IInv, vars, input
    <3> QED
      BY <2>1, <3>1 DEF IInv, vars
  <2> QED
    BY <2>1, StepKeeps
<1> QED
  BY <1>1, <1>2, PTL DEF Spec
-----------------------------------------------------------------------------
(* What follows.                                                           *)

LEMMA BuildingIsInHand == Building = InHand(stack)
BY DEF Building, InProgress, InHand, Begun

\* At most one definition of a term is in progress, and DefinedTerms has its mark:
\* the recursion of define is bounded by the terms of the context.
THEOREM Recursion == Spec => []NoReentry
<1>1. IInv => NoReentry
  <2>1. SUFFICES ASSUME IInv PROVE NoReentry
    OBVIOUS
  <2>2. CallsOK(stack, defined, active)
    BY <2>1 DEF IInv, Good
  <2>3. \A i, j \in InProgress : stack[i].term = stack[j].term => i = j
    BY <2>2 DEF CallsOK, NoTwoBegun, InProgress, Begun
  <2>4. Building \subseteq DOMAIN defined
    BY <2>2, BuildingIsInHand DEF CallsOK, InHand, FrameOK, DefineOK, Begun
  <2> QED
    BY <2>3, <2>4 DEF NoReentry
<1> QED
  BY <1>1, Invariance, PTL

\* A definition that is finished is never replaced or removed, by whatever the
\* recursion, the loop or an error does later.
THEOREM Finality == Spec => DefinedOnce
<1>1. ASSUME IInv, [Next]_vars
      PROVE  [\A t \in Finished : t \in DOMAIN active' /\ active'[t] = active[t]]_vars
  <2>1. SUFFICES ASSUME Next, NEW t \in Finished
                 PROVE  t \in DOMAIN active' /\ active'[t] = active[t]
    BY <1>1
  <2>2. Here /\ TableOK(InHand(stack), defined, active)
    BY <1>1, BoundStrings, BoundFinite DEF IInv, Here, Good
  <2>3. t \in DOMAIN defined /\ t \notin InHand(stack) /\ ~defined[t]
    BY <2>1, BuildingIsInHand DEF Finished, Abandoned
  <2>4. t \in DOMAIN active
    BY <2>2, <2>3 DEF TableOK
  <2>5. CASE active' = active
    BY <2>4, <2>5
  <2>6. CASE DefineType
    <3>1. active' = active \/ \E d : active' = With(active, TypeTerm, d)
      BY <2>6 DEF DefineType, Fail
    <3>2. t # TypeTerm
      BY <2>3, <2>6 DEF DefineType, FirstSeen
    <3> QED
      BY <2>4, <3>1, <3>2 DEF With
  <2>7. CASE DefineStart
    <3>1. active' = active \/ active' = Without(active, Frame.term)
      BY <2>7 DEF DefineStart, Fail
    <3>2. t # Frame.term
      BY <2>3, <2>7 DEF DefineStart, FirstSeen
    <3> QED
      BY <2>4, <3>1, <3>2 DEF Without
  <2>8. CASE DefineRest
    <3>1. active' = active \/ \E d : active' = With(active, Frame.term, d)
      BY <2>8 DEF DefineRest, Fail
    <3>2. Running("define", "rest")
      BY <2>8 DEF DefineRest
    <3>3. Frame.term \in InHand(stack)
      BY <2>2, <3>2, UnderWay
    <3> QED
      BY <2>3, <2>4, <3>1, <3>3 DEF With
  <2>9. Next => active' = active \/ DefineType \/ DefineStart \/ DefineRest
    <3>1. CASE DefineNext \/ Finish
      BY <3>1 DEF DefineNext, Finish
    <3>2. CASE Expand
      BY <3>2 DEF Expand, ExpandTerm, ExpandLookup, ExpandConcat, ReturnMapping, Fail, Keeping
    <3>3. CASE Define
      <4>1. CASE DefineTooDeep \/ DefineUnbound \/ DefineAgain \/ DefineTypeMapping \/ DefineTyped
        BY <4>1 DEF DefineTooDeep, DefineUnbound, DefineAgain, DefineTypeMapping, DefineTyped, Fail, Keeping
      <4>2. CASE DefineReverse \/ DefineReversed \/ DefineId \/ DefineMapped
        BY <4>2 DEF DefineReverse, DefineReversed, DefineId, DefineMapped, Abandon, Fail, Keeping
      <4>3. CASE DefineChecked \/ DefineSelf \/ DefineOwnIri
        BY <4>3 DEF DefineChecked, DefineSelf, DefineOwnIri, Fail, Keeping
      <4> QED
        BY <3>3, <4>1, <4>2, <4>3 DEF Define
    <3> QED
      BY <3>1, <3>2, <3>3 DEF Next
  <2> QED
    BY <2>1, <2>5, <2>6, <2>7, <2>8, <2>9
<1> QED
  BY <1>1, Invariance, PTL DEF Spec, DefinedOnce

\* What an accepted context leaves of the protected definitions it found.
THEOREM Protection == Spec => []ProtectedKept
<1>1. IInv => ProtectedKept
  <2>1. SUFFICES ASSUME IInv, outcome = "ok", ~options.override,
                        NEW t \in DOMAIN initial, initial[t].protected, t \notin Abandoned
                 PROVE  t \in DOMAIN active /\ active[t] = initial[t]
    BY DEF ProtectedKept
  <2>2. TableOK(InHand(stack), defined, active) /\ InHand(stack) = {}
    BY <2>1, Empty DEF IInv, Good
  <2>3. CASE t \notin DOMAIN defined
    BY <2>2, <2>3 DEF TableOK
  <2>4. CASE t \in DOMAIN defined
    <3>1. ~defined[t]
      BY <2>1, <2>2, <2>4, BuildingIsInHand DEF Abandoned
    <3> QED
      BY <2>1, <2>2, <2>4, <3>1 DEF TableOK, KeptAs
  <2> QED
    BY <2>3, <2>4
<1> QED
  BY <1>1, Invariance, PTL

\* In the table that results each mapping is what its reference means there,
\* although the table was read while other definitions had left it.
THEOREM Meanings == Spec => []SettledMappings
<1>1. IInv => SettledMappings
  <2>1. SUFFICES ASSUME IInv, outcome = "ok", NEW t \in Bound \ (Abandoned \cup {TypeTerm})
                 PROVE  active[t].value = Meaning(Without(active, t), t)
    BY DEF SettledMappings
  <2>2. /\ MeaningsOK(InHand(stack), defined, active) /\ LoopOK(stack, defined, next)
        /\ InHand(stack) = {} /\ stack = <<>> /\ next > Len(local.order) /\ local \in LocalContexts
    BY <2>1, Empty DEF IInv, Good
  <2>3. PICK i \in DOMAIN local.order : local.order[i] = t
    BY <2>2, TermAssumption DEF Bound
  <2>4. i < next
    <3>1. local.order \in Seq(Strings) /\ next \in Nat
      BY <2>2, TermAssumption DEF LoopOK
    <3>2. i \in 1 .. Len(local.order) /\ Len(local.order) \in Nat
      BY <3>1
    <3> QED
      BY <2>2, <3>1, <3>2
  <2>5. t \in DOMAIN defined
    BY <2>2, <2>3, <2>4 DEF LoopOK
  <2>6. ~defined[t]
    BY <2>1, <2>2, <2>5, BuildingIsInHand DEF Abandoned
  <2> QED
    BY <2>1, <2>2, <2>5, <2>6 DEF MeaningsOK, Means
<1> QED
  BY <1>1, Invariance, PTL

\* Every set of numbers that has an element has a least one: what stands in for
\* induction along the stack.
LEMMA Least ==
    ASSUME NEW T, T \subseteq Nat, T # {}
    PROVE  \E x \in T : \A y \in T : x <= y
<1> DEFINE F == {1 .. k : k \in T}
<1>1. F \subseteq FiniteSubsetsOf(Nat)
  BY FS_Interval DEF FiniteSubsetsOf
<1>2. \E X \in F : \A Y \in F : ~(<<Y, X>> \in StrictSubsetOrdering(Nat))
  <2>1. IsWellFoundedOn(StrictSubsetOrdering(Nat), FiniteSubsetsOf(Nat))
    BY FS_StrictSubsetOrderingWellFounded
  <2>2. F # {}
    OBVIOUS
  <2> HIDE DEF F
  <2> QED
    BY <1>1, <2>1, <2>2, WFMin
<1>3. PICK x \in T : \A y \in T : ~(<<1 .. y, 1 .. x>> \in StrictSubsetOrdering(Nat))
  BY <1>2
<1>4. \A y \in T : y < x => <<1 .. y, 1 .. x>> \in StrictSubsetOrdering(Nat)
  <2>1. SUFFICES ASSUME NEW y \in T, y < x
                 PROVE  <<1 .. y, 1 .. x>> \in StrictSubsetOrdering(Nat)
    OBVIOUS
  <2>2. 1 .. y \in SUBSET Nat /\ 1 .. x \in SUBSET Nat /\ 1 .. y \subseteq 1 .. x
    BY <2>1
  <2>3. x \in 1 .. x /\ x \notin 1 .. y
    BY <2>1
  <2> QED
    BY <2>2, <2>3 DEF StrictSubsetOrdering
<1>5. ASSUME NEW y \in T
      PROVE  x <= y
  <2>1. ~(y < x)
    <3>1. ~(<<1 .. y, 1 .. x>> \in StrictSubsetOrdering(Nat))
      BY <1>3
    <3>2. y < x => <<1 .. y, 1 .. x>> \in StrictSubsetOrdering(Nat)
      BY <1>4
    <3> QED
      BY <3>1, <3>2
  <2>2. x \in Int /\ y \in Int
    OBVIOUS
  <2> QED
    BY <2>1, <2>2
<1> QED
  BY <1>5

\* A call of define that is not the first is for a term that the definition next to
\* it on the stack may have to wait for; the check of a compact term's own
\* expansion calls define on that very term.
LEMMA Descent ==
    ASSUME NEW calls, NEW marks, NEW table, CallsOK(calls, marks, table), local \in LocalContexts,
           NEW k \in DOMAIN calls, k # 1, calls[k].call = "define", calls[k].term \in Bound
    PROVE  \E m \in 1 .. k - 1 :
              /\ Begun(calls[m]) /\ \A j \in m + 1 .. k - 1 : calls[j].call # "define"
              /\ \/ calls[k].term \in May(calls[m].term)
                 \/ calls[m].at = "checked" /\ calls[k].term = calls[m].term
<1> DEFINE outer == calls[k - 1]
           u == calls[k].term
<1>1. Len(calls) \in Nat /\ DOMAIN calls = 1 .. Len(calls)
  BY DEF CallsOK, IsSeq
<1>2. k \in Int /\ k - 1 \in DOMAIN calls
  BY <1>1
<1>3. Linked(outer, calls[k]) /\ FrameOK(outer, marks, table)
  BY <1>2 DEF CallsOK
<1>4. \/ /\ outer.call = "define" /\ outer.at = "self" /\ Form(outer.term) = "compact"
         /\ u = PrefixOf(outer.term)
      \/ /\ outer.call = "expand"
         /\ (outer.at = "lookup" /\ u = outer.value) \/ (outer.at = "concat" /\ u = PrefixOf(outer.value))
  BY <1>3 DEF Linked
<1>5. CASE outer.call = "define" /\ outer.at = "self" /\ Form(outer.term) = "compact" /\ u = PrefixOf(outer.term)
  <2>1. Begun(outer) /\ Arm(outer) /\ outer.term \in Bound \ {TypeTerm}
    BY <1>3, <1>5 DEF FrameOK, DefineOK, Begun
  <2>2. outer.term \in Own(outer.term)
    BY <1>5, <2>1 DEF Arm, Own
  <2>3. u \in May(outer.term)
    BY <1>5, <2>2 DEF May, PrefixesIn
  <2>4. \A j \in (k - 1) + 1 .. k - 1 : FALSE
    BY <1>2
  <2> QED
    BY <1>1, <1>2, <2>1, <2>3, <2>4
<1>6. CASE outer.call = "expand" /\ ((outer.at = "lookup" /\ u = outer.value) \/ (outer.at = "concat" /\ u = PrefixOf(outer.value)))
  <2> DEFINE asker == calls[k - 2]
             t == asker.term
             s == outer.value
  <2>1. k - 1 # 1
    <3>1. 1 \in DOMAIN calls => calls[1].call = "define"
      BY DEF CallsOK
    <3> QED
      BY <1>2, <1>6, <3>1
  <2>2. k - 2 \in DOMAIN calls /\ k - 2 \in 1 .. k - 1
    BY <1>1, <1>2, <2>1
  <2>3. Linked(asker, outer) /\ FrameOK(asker, marks, table)
    <3>1. IF k - 1 = 1 THEN calls[1].call = "define" ELSE Linked(calls[(k - 1) - 1], calls[k - 1])
      BY <1>2 DEF CallsOK
    <3>2. (k - 1) - 1 = k - 2
      BY <1>2
    <3> QED
      BY <2>1, <2>2, <3>1, <3>2 DEF CallsOK
  <2>4. asker.call = "define" /\ ((asker.at \in Asking /\ s = Asked(asker)) \/ (asker.at = "checked" /\ s = t))
    BY <1>6, <2>3 DEF Linked
  <2>5. Begun(asker) /\ Arm(asker) /\ t \in Bound \ {TypeTerm}
    BY <2>3, <2>4 DEF FrameOK, DefineOK, Begun, Asking
  <2>6. Form(s) \notin KeywordForms /\ (outer.at = "concat" => Form(s) = "compact")
    BY <1>3, <1>6 DEF FrameOK, ExpandOK
  <2>7. \A j \in (k - 2) + 1 .. k - 1 : calls[j].call # "define"
    BY <1>2, <1>6
  <2>8. CASE asker.at \in Asking /\ s = Asked(asker)
    <3>1. local.binding[t].reverse # Null /\ t \in DOMAIN local.binding
      BY <2>5, TermAssumption DEF Bound
    <3>2. s \in Refers(t)
      <4> DEFINE b == local.binding[t]
      <4>1. CASE asker.at = "typed"
        <5>1. s = b.type /\ b.type \notin {None, Null}
          BY <2>5, <2>8, <4>1 DEF Asked, Arm
        <5> QED
          BY <2>5, <2>6, <5>1 DEF Refers, KeywordForms
      <4>2. CASE asker.at = "reversed"
        <5>1. s = b.reverse /\ b.reverse \notin {None, Null}
          BY <2>5, <2>8, <3>1, <4>2 DEF Asked, Arm, Reference
        <5> QED
          BY <2>5, <2>6, <5>1 DEF Refers, KeywordForms
      <4>3. CASE asker.at = "mapped"
        <5>1. s = b.id /\ b.id \notin {None, Null, t}
          BY <2>5, <2>8, <4>3 DEF Asked, Arm, Reference
        <5> QED
          BY <2>5, <2>6, <5>1 DEF Refers, KeywordForms
      <4> QED
        BY <2>8, <4>1, <4>2, <4>3 DEF Asking
    <3>3. u \in Refers(t) \cup PrefixesIn(Refers(t) \cup Own(t))
      BY <1>6, <2>6, <3>2 DEF PrefixesIn
    <3>4. u \in May(t)
      BY <3>3 DEF May
    <3> QED
      BY <2>2, <2>5, <2>7, <3>4
  <2>9. CASE asker.at = "checked" /\ s = t
    <3>1. CASE outer.at = "lookup" /\ u = s
      BY <2>2, <2>5, <2>7, <2>9, <3>1
    <3>2. CASE outer.at = "concat" /\ u = PrefixOf(s)
      <4>1. t \in Own(t)
        BY <2>5, <2>9 DEF Arm, Own
      <4>2. u \in May(t)
        BY <2>6, <2>9, <3>2, <4>1 DEF May, PrefixesIn
      <4> QED
        BY <2>2, <2>5, <2>7, <4>2
    <3> QED
      BY <1>6, <3>1, <3>2
  <2> QED
    BY <2>4, <2>8, <2>9
<1> QED
  BY <1>4, <1>5, <1>6

\* No order of the bound terms survives a reported cycle.
LEMMA CycleIsThere ==
    ASSUME IInv, outcome = "CyclicIriMapping", Abandoned = {},
           NEW rank \in [Bound -> Int], \A t \in Bound : \A d \in May(t) \cap Bound : rank[d] < rank[t]
    PROVE  FALSE
<1> DEFINE n == Len(stack)
           t == stack[n].term
<1>1. /\ CallsOK(stack, defined, active) /\ TableOK(InHand(stack), defined, active)
      /\ Caught(stack, defined) /\ local \in LocalContexts
  BY DEF IInv, Good
<1>2. /\ n \in Nat \ {0} /\ DOMAIN stack = 1 .. n
      /\ stack[n].call = "define" /\ stack[n].at = "begin" /\ t \in DOMAIN defined /\ defined[t]
  <2>1. stack # <<>> /\ IsSeq(stack)
    BY <1>1 DEF Caught, CallsOK
  <2> QED
    BY <1>1, <2>1, FrontAndLast DEF Caught
<1>3. t \in Bound
  BY <1>1, <1>2 DEF TableOK
<1>4. PICK i \in DOMAIN stack : Begun(stack[i]) /\ stack[i].term = t
  BY <1>2, BuildingIsInHand DEF Abandoned, InHand
<1> HIDE DEF n, t
<1>5. stack[i].at # "checked"
  BY <1>1, <1>2, <1>4 DEF CallsOK, FrameOK, DefineOK, Begun
<1>6. i \in 1 .. n /\ i # n /\ stack[i].call = "define"
  BY <1>2, <1>4 DEF Begun
<1> DEFINE K == {k \in i + 1 .. n : stack[k].call = "define" /\ stack[k].term \in Bound /\ ~(rank[stack[k].term] < rank[t])}
<1>7. K \subseteq Nat /\ n \in K
  <2>1. K \subseteq Nat /\ n \in i + 1 .. n
    BY <1>2, <1>6
  <2>2. rank[t] \in Int /\ stack[n].term = t
    BY <1>3 DEF t
  <2> QED
    BY <1>2, <1>3, <2>1, <2>2
<1>8. PICK k \in K : \A y \in K : k <= y
  <2> HIDE DEF K
  <2> QED
    BY <1>7, Least
<1>9. /\ k \in i + 1 .. n /\ stack[k].call = "define" /\ stack[k].term \in Bound
      /\ ~(rank[stack[k].term] < rank[t])
  BY <1>8
<1>10. k \in DOMAIN stack /\ k # 1 /\ k \in Int /\ i \in Int
  BY <1>2, <1>6, <1>9
<1>11. PICK m \in 1 .. k - 1 :
          /\ Begun(stack[m]) /\ \A j \in m + 1 .. k - 1 : stack[j].call # "define"
          /\ \/ stack[k].term \in May(stack[m].term)
             \/ stack[m].at = "checked" /\ stack[k].term = stack[m].term
  BY <1>1, <1>9, <1>10, Descent
<1>12. i <= m
  <2>1. ~(i \in m + 1 .. k - 1)
    BY <1>6, <1>11
  <2> QED
    BY <1>9, <1>10, <2>1
<1>13. m \in DOMAIN stack /\ stack[m].term \in Bound /\ stack[m].call = "define"
  <2>1. m \in DOMAIN stack
    BY <1>2, <1>9, <1>10
  <2> QED
    BY <1>1, <1>11, <2>1 DEF CallsOK, FrameOK, DefineOK, Begun
<1>14. CASE m = i
  <2>1. stack[k].term \in May(t) \cap Bound
    BY <1>4, <1>5, <1>9, <1>11, <1>14
  <2>2. rank[stack[k].term] < rank[t]
    BY <1>3, <2>1
  <2> QED
    BY <1>9, <2>2
<1>15. CASE m # i
  <2>1. m \in i + 1 .. n /\ ~(k <= m)
    BY <1>2, <1>9, <1>10, <1>12, <1>15
  <2>2. rank[stack[m].term] < rank[t]
    BY <1>8, <1>13, <2>1
  <2>3. rank[stack[m].term] \in Int /\ rank[stack[k].term] \in Int /\ rank[t] \in Int
    BY <1>3, <1>9, <1>13
  <2>4. rank[stack[k].term] < rank[stack[m].term] \/ rank[stack[k].term] = rank[stack[m].term]
    <3>1. stack[k].term \in May(stack[m].term) => rank[stack[k].term] < rank[stack[m].term]
      BY <1>9, <1>13
    <3> QED
      BY <1>11, <3>1
  <2>5. rank[stack[k].term] < rank[t]
    BY <2>2, <2>3, <2>4
  <2> QED
    BY <1>9, <2>5
<1> QED
  BY <1>14, <1>15

\* The finished terms, ranked, fit the positions of the context's bindings.
LEMMA FinishedFit ==
    ASSUME local \in LocalContexts, NEW S, S \subseteq Bound
    PROVE  1 .. Cardinality(S) \subseteq DOMAIN local.order
<1>1. IsFiniteSet(Bound) /\ IsFiniteSet(S) /\ Cardinality(S) <= Cardinality(Bound) /\ Cardinality(S) \in Nat /\ Cardinality(Bound) \in Nat
  <2>1. IsFiniteSet(Bound)
    BY BoundFinite DEF BoundIsFinite
  <2>2. IsFiniteSet(S) /\ Cardinality(S) <= Cardinality(Bound)
    BY <2>1, FS_Subset
  <2> QED
    BY <2>1, <2>2, FS_CardinalityType
<1>2. local.order \in Seq(Strings) /\ \A t \in Bound : \E i \in DOMAIN local.order : local.order[i] = t
  BY TermAssumption DEF Bound
<1> DEFINE n == Len(local.order)
           D == {i \in 1 .. n : local.order[i] \in Bound}
           first == [i \in D |-> local.order[i]]
<1>3. n \in Nat /\ DOMAIN local.order = 1 .. n
  BY <1>2
<1>4. first \in Surjection(D, Bound)
  BY <1>2, <1>3 DEF Surjection
<1>5. IsFiniteSet(1 .. n) /\ Cardinality(1 .. n) = n
  BY <1>3, FS_Interval
<1>6. IsFiniteSet(D) /\ Cardinality(D) <= n
  <2>1. D \in SUBSET (1 .. n)
    OBVIOUS
  <2> HIDE DEF D
  <2> QED
    BY <1>5, <2>1, FS_Subset
<1>7. Cardinality(Bound) <= Cardinality(D) /\ Cardinality(D) \in Nat
  <2> HIDE DEF D, first
  <2> QED
    BY <1>4, <1>6, FS_Surjection, FS_CardinalityType
<1> HIDE DEF D, n
<1> QED
  BY <1>1, <1>3, <1>6, <1>7

\* When the context is accepted every bound term was begun, and what is not finished
\* was abandoned.
LEMMA AllDone ==
    ASSUME IInv, outcome = "ok"
    PROVE  /\ Bound \subseteq DOMAIN defined /\ InHand(stack) = {}
           /\ Bound \ Abandoned = Done(InHand(stack), defined)
<1>1. /\ TableOK(InHand(stack), defined, active) /\ LoopOK(stack, defined, next)
      /\ InHand(stack) = {} /\ stack = <<>> /\ next > Len(local.order) /\ local \in LocalContexts
  BY Empty DEF IInv, Good
<1>2. ASSUME NEW t \in Bound
      PROVE  t \in DOMAIN defined
  <2>1. PICK i \in DOMAIN local.order : local.order[i] = t
    BY <1>1, TermAssumption DEF Bound
  <2>2. i < next
    <3>1. local.order \in Seq(Strings) /\ next \in Nat
      BY <1>1, TermAssumption DEF LoopOK
    <3>2. i \in 1 .. Len(local.order) /\ Len(local.order) \in Nat
      BY <3>1
    <3> QED
      BY <1>1, <3>1, <3>2
  <2> QED
    BY <1>1, <2>1, <2>2 DEF LoopOK
<1>3. DOMAIN defined \subseteq Bound
  BY <1>1 DEF TableOK
<1> QED
  BY <1>1, <1>2, <1>3, BuildingIsInHand DEF Abandoned, Done

\* define accepts only definitions that do not wait for each other in a cycle, and
\* reports a cycle only where there is one, or where the early return of a definition
\* left its term pending.
THEOREM Cycles == Spec => []CycleDetection
<1>1. IInv => CycleDetection
  <2>1. ASSUME IInv, outcome = "ok"
        PROVE  Acyclic(Bound \ Abandoned, Must)
    <3> DEFINE S == Done(InHand(stack), defined)
    <3>1. S = Bound \ Abandoned /\ local \in LocalContexts
      BY <2>1, AllDone DEF IInv
    <3>2. PICK rank \in [S -> 1 .. Cardinality(S)] : Orders(rank, S)
      BY <2>1 DEF IInv, Good, Ranked
    <3>3. 1 .. Cardinality(S) \subseteq DOMAIN local.order
      BY <3>1, FinishedFit
    <3> HIDE DEF S
    <3>4. rank \in [S -> DOMAIN local.order]
      BY <3>2, <3>3
    <3>5. \A t \in S : \A d \in Must(t) \cap S : rank[d] < rank[t]
      BY <3>2 DEF Orders
    <3> QED
      BY <3>1, <3>4, <3>5 DEF Acyclic
  <2>2. ASSUME IInv, outcome = "CyclicIriMapping", Abandoned = {}, Acyclic(Bound, May)
        PROVE  FALSE
    <3>1. PICK rank \in [Bound -> DOMAIN local.order] :
             \A t \in Bound : \A d \in May(t) \cap Bound : rank[d] < rank[t]
      BY <2>2 DEF Acyclic
    <3>2. DOMAIN local.order \subseteq Int
      BY <2>2, TermAssumption DEF IInv
    <3>3. rank \in [Bound -> Int]
      BY <3>1, <3>2
    <3> QED
      BY <2>2, <3>1, <3>3, CycleIsThere
  <2> QED
    BY <2>1, <2>2 DEF CycleDetection
<1> QED
  BY <1>1, Invariance, PTL

=============================================================================
