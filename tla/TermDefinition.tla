----------------------------- MODULE TermDefinition -----------------------------
(***************************************************************************)
(* Create Term Definition (define and DefinedTerms in                      *)
(* src/jsonld-context-processing/src/algorithm/define.rs) with the IRI     *)
(* expansion it recurses through (expand_iri_with in iri.rs), for the      *)
(* terms of one context definition.                                        *)
(*                                                                         *)
(* The calls in progress are an explicit stack, innermost last: define and *)
(* expand_iri_with call each other.  Strings are abstract; `Form` says     *)
(* what the code's lexical tests find in one.                              *)
(***************************************************************************)
EXTENDS Integers, Sequences, SequencesExt

CONSTANTS
    Strings,        \* terms, and whatever a term definition refers to
    Form(_),        \* "name", "compact", "iri", "blank", "relative", "keyword",
                    \* "keyword-like" or "empty"
    PrefixOf(_),    \* of a compact string
    EndsInDelimiter, \* strings whose last character is a gen-delim
    TypeTerm,       \* the @type entry of a context
    None,           \* an absent entry or option
    Null,           \* a null entry
    LocalContexts,  \* [order, binding, protected] to process
    ActiveContexts, \* [terms, vocabulary] to start from
    Options,        \* [mode, override, vocab, sync]
    Validates(_, _), \* process_context on a scoped context, with or without a base
    MaxDepth        \* MAX_SYNC_DEPTH, less the depth of the calling process_context

\* A prefix ends at the first colon, so it holds none.  The keys of a context are
\* strings, each processed in its turn.
ASSUME TermAssumption ==
    /\ \A s \in Strings :
          /\ Form(s) \in {"name", "compact", "iri", "blank", "relative", "keyword", "keyword-like", "empty"}
          /\ Form(s) = "compact" => PrefixOf(s) \in Strings /\ Form(PrefixOf(s)) \notin {"compact", "iri", "blank"}
    /\ TypeTerm \in Strings /\ Form(TypeTerm) = "keyword"
    /\ None # Null /\ None \notin Strings /\ Null \notin Strings
    /\ \A c \in LocalContexts :
          /\ c.order \in Seq(Strings)
          /\ DOMAIN c.binding \subseteq Strings
          /\ \A t \in DOMAIN c.binding : \E i \in DOMAIN c.order : c.order[i] = t
          /\ \A t \in DOMAIN c.binding \ {TypeTerm} :
                /\ {c.binding[t].id, c.binding[t].type} \subseteq Strings \cup {None, Null}
                /\ c.binding[t].reverse \in Strings \cup {None}
    /\ \A context \in ActiveContexts : \A t \in DOMAIN context.terms : context.terms[t] # None
    /\ MaxDepth \in Nat

VARIABLES
    local,    \* the Merged context being processed
    options,
    vocabulary, \* of the active context
    initial,  \* history: the term definitions before processing
    active,   \* those of the active context: term -> definition
    defined,  \* DefinedTerms: term -> pending
    next,     \* index of the next binding of the loop in process_context
    stack,    \* calls in progress
    returned, \* what the last finished expand_iri_with returned
    outcome   \* "running", "ok" or an error

vars == <<local, options, vocabulary, initial, active, defined, next, stack, returned, outcome>>
input == <<local, options, vocabulary, initial>>

-----------------------------------------------------------------------------
(* Term<Iri, BlankId>, and None for a mapping there is not.                  *)

NoMapping == <<"none">>
NullTerm == <<"null">>
Keyword(k) == <<"keyword", k>>
IriOf(parts) == <<"iri", parts>>
Blank(s) == <<"blank", s>>
Invalid(s) == <<"invalid", s>>

IsKeyword(m) == m[1] = "keyword"
IsValidId(m) == m[1] \in {"iri", "blank"}

\* Id::from_string_in on a mapping followed by a suffix.
Concat(m, s) ==
    CASE m[1] = "iri" -> IriOf(Append(m[2], s))
      [] m[1] = "blank" -> Blank(<<m[2], s>>)
      [] OTHER -> Invalid(<<m, s>>)

EndsInGenDelimOrBlank(m) ==
    m[1] = "blank" \/ (m[1] = "iri" /\ m[2][Len(m[2])] \in EndsInDelimiter)

\* Strings the round-trip check applies to: an inner colon, or a slash.
LooksLikeIri(s) == Form(s) \in {"compact", "iri", "blank", "relative"}

-----------------------------------------------------------------------------
(* What both expansions do with a string once definitions are settled.       *)

MayPrefix(table, p) ==
    p \in DOMAIN table /\ (table[p].prefix \/ options.mode = "1.0") /\ table[p].value # NoMapping

Mapped(definition) == IF definition.value = NoMapping THEN NullTerm ELSE definition.value

Rejected == <<"error", "ForbiddenVocab">>

ByVocabulary(s) ==
    CASE vocabulary = NoMapping -> Invalid(s)
      [] vocabulary # NoMapping /\ options.vocab = "keep" -> Concat(vocabulary, s)
      [] vocabulary # NoMapping /\ options.vocab = "drop" -> NoMapping
      [] vocabulary # NoMapping /\ options.vocab = "reject" -> Rejected

\* expand_iri_with once neither a term nor a prefix was found.
Unprefixed(s) ==
    CASE Form(s) = "blank" -> Blank(s)
      [] Form(s) \in {"iri", "compact"} -> IriOf(<<s>>)
      [] OTHER -> ByVocabulary(s)

\* expand_iri_simple: the same algorithm against a finished table.
ExpandSimple(table, s) ==
    CASE Form(s) = "keyword" -> Keyword(s)
      [] Form(s) = "keyword-like" -> NullTerm
      [] Form(s) \notin {"keyword", "keyword-like"} /\ s \in DOMAIN table -> Mapped(table[s])
      [] s \notin DOMAIN table /\ Form(s) = "compact" /\ MayPrefix(table, PrefixOf(s)) ->
            Concat(table[PrefixOf(s)].value, s)
      [] OTHER -> Unprefixed(s)

-----------------------------------------------------------------------------
(* The call stack.                                                           *)

DefineCall(term, protected, base, override) ==
    [call |-> "define", at |-> "begin", term |-> term, protected |-> protected, base |-> base,
     override |-> override, previous |-> None, definition |-> None]

\* A dependency: no base URL, not protected, no override.
Dependency(term) == DefineCall(term, FALSE, FALSE, FALSE)

ExpandCall(value) == [call |-> "expand", at |-> "term", value |-> value]

Running(call, label) ==
    /\ outcome = "running" /\ stack # <<>>
    /\ Last(stack).call = call /\ Last(stack).at = label

Frame == Last(stack)
Binding == local.binding[Frame.term]

\* The frame on top moves on, or waits at `label` for a call to finish.
Goto(frame, label) == stack' = Append(Front(stack), [frame EXCEPT !.at = label])
CallThen(frame, label, callee) == stack' = Append(Front(stack), [frame EXCEPT !.at = label]) \o <<callee>>

Fail(error) ==
    /\ outcome' = error
    /\ UNCHANGED <<active, defined, next, stack, returned>>

Return == stack' = Front(stack)

ReturnMapping(m) ==
    IF m = Rejected
    THEN Fail("ForbiddenVocab")
    ELSE Return /\ returned' = m /\ UNCHANGED <<active, defined, next, outcome>>

Keeping == UNCHANGED <<active, defined, next, returned, outcome>>

-----------------------------------------------------------------------------
(* process_context: one call of define per binding, @type first.             *)

\* Mutant: the loop does not move on.
DefineNext_Stays ==
    /\ outcome = "running" /\ stack = <<>> /\ next <= Len(local.order)
    /\ stack' = <<DefineCall(local.order[next], local.protected, TRUE, options.override)>>
    /\ UNCHANGED <<next, active, defined, returned, outcome>>

DefineNext ==
    /\ outcome = "running" /\ stack = <<>> /\ next <= Len(local.order)
    /\ stack' = <<DefineCall(local.order[next], local.protected, TRUE, options.override)>>
    /\ next' = next + 1
    /\ UNCHANGED <<active, defined, returned, outcome>>

Finish ==
    /\ outcome = "running" /\ stack = <<>> /\ next > Len(local.order)
    /\ outcome' = "ok"
    /\ UNCHANGED <<active, defined, next, stack, returned>>

-----------------------------------------------------------------------------
(* expand_iri_with                                                           *)

ExpandTerm ==
    /\ Running("expand", "term")
    /\ CASE Form(Frame.value) = "keyword" -> ReturnMapping(Keyword(Frame.value))
         [] Form(Frame.value) = "keyword-like" -> ReturnMapping(NullTerm)
         [] OTHER -> CallThen(Frame, "lookup", Dependency(Frame.value)) /\ Keeping

\* Mutant: the prefix is looked up without having been defined.
ExpandLookup_NoDependency ==
    /\ Running("expand", "lookup")
    /\ LET s == Frame.value
       IN  CASE s \in DOMAIN active -> ReturnMapping(Mapped(active[s]))
             [] s \notin DOMAIN active /\ Form(s) = "compact" -> Goto(Frame, "concat") /\ Keeping
             [] OTHER -> ReturnMapping(Unprefixed(s))

ExpandLookup ==
    /\ Running("expand", "lookup")
    /\ LET s == Frame.value
       IN  CASE s \in DOMAIN active -> ReturnMapping(Mapped(active[s]))
             [] s \notin DOMAIN active /\ Form(s) = "compact" ->
                   CallThen(Frame, "concat", Dependency(PrefixOf(s))) /\ Keeping
             [] OTHER -> ReturnMapping(Unprefixed(s))

ExpandConcat ==
    /\ Running("expand", "concat")
    /\ LET s == Frame.value
           p == PrefixOf(s)
       IN  ReturnMapping(IF MayPrefix(active, p) THEN Concat(active[p].value, s) ELSE Unprefixed(s))

-----------------------------------------------------------------------------
(* define: before anything is built.                                         *)

Bound == DOMAIN local.binding
TooDeep == options.sync /\ Len(stack) >= MaxDepth

\* The synchronous mirror checks its depth before anything else.
DefineTooDeep == Running("define", "begin") /\ TooDeep /\ Fail("ContextOverflow")

\* Expansion calls define with every string it expands; most are not terms.
DefineUnbound ==
    /\ Running("define", "begin") /\ ~TooDeep /\ Frame.term \notin Bound
    /\ IF Form(Frame.term) = "empty" THEN Fail("InvalidTermDefinition") ELSE Return /\ Keeping

\* Mutant: a term in progress is taken for a defined one.
DefineAgain_Silent ==
    /\ Running("define", "begin") /\ ~TooDeep /\ Frame.term \in DOMAIN defined
    /\ Return /\ Keeping

\* DefinedTerms::begin, on a term it has seen before.
DefineAgain ==
    /\ Running("define", "begin") /\ ~TooDeep /\ Frame.term \in DOMAIN defined
    /\ IF defined[Frame.term] THEN Fail("CyclicIriMapping") ELSE Return /\ Keeping

With(table, t, x) == [u \in DOMAIN table \cup {t} |-> IF u = t THEN x ELSE table[u]]
Without(table, t) == [u \in DOMAIN table \ {t} |-> table[u]]

\* Mutant: a term in progress is begun again.
FirstSeen_Pending ==
    /\ Running("define", "begin") /\ ~TooDeep /\ Frame.term \in Bound
    /\ Frame.term \in DOMAIN defined => defined[Frame.term]

\* Mutant: a finished term is begun again.
FirstSeen_Finished ==
    /\ Running("define", "begin") /\ ~TooDeep /\ Frame.term \in Bound
    /\ Frame.term \in DOMAIN defined => ~defined[Frame.term]

FirstSeen ==
    Running("define", "begin") /\ ~TooDeep /\ Frame.term \in Bound /\ Frame.term \notin DOMAIN defined

Explicit(entry, default) == IF entry = None THEN default ELSE entry

\* Mutant: only the mapping is compared.
Redefines_ByMapping(previous, definition, override) ==
    ~override /\ previous # None /\ previous.protected /\ definition.value # previous.value

\* A protected definition may only be replaced by one that differs in nothing else.
Redefines(previous, definition, override) ==
    /\ ~override /\ previous # None
    /\ previous.protected
    /\ [definition EXCEPT !.protected = TRUE] # previous

KeptProtected(previous, definition, override) ==
    IF ~override /\ previous # None /\ previous.protected
    THEN [definition EXCEPT !.protected = TRUE]
    ELSE definition

Previous(table, t) == IF t \in DOMAIN table THEN table[t] ELSE None

\* The @type arm of define.
DefineType ==
    /\ FirstSeen /\ Frame.term = TypeTerm
    /\ LET previous == Previous(active, TypeTerm)
           definition == [value |-> NoMapping, prefix |-> FALSE, container |-> Binding.container,
                          protected |-> Explicit(Binding.protected, FALSE)]
       IN  CASE options.mode = "1.0" -> Fail("KeywordRedefinition")
             [] options.mode # "1.0" /\ Redefines(previous, definition, Frame.override) ->
                   Fail("ProtectedTermRedefinition")
             [] OTHER ->
                   /\ active' = With(active, TypeTerm, KeptProtected(previous, definition, Frame.override))
                   /\ defined' = With(defined, TypeTerm, FALSE)
                   /\ Return
                   /\ UNCHANGED <<next, returned, outcome>>

EmptyDefinition(protected) ==
    [value |-> NoMapping, prefix |-> FALSE, protected |-> protected, reverse |-> FALSE,
     typ |-> None, base |-> FALSE, container |-> None, index |-> None, context |-> None,
     language |-> None, nest |-> None]

\* The definition arm: the previous definition leaves the active context.
DefineStart ==
    /\ FirstSeen /\ Frame.term # TypeTerm
    /\ IF \/ Form(Frame.term) = "empty"
          \/ Binding.protected # None /\ options.mode = "1.0"
       THEN Fail("InvalidTermDefinition")
       ELSE /\ defined' = With(defined, Frame.term, TRUE)
            /\ active' = Without(active, Frame.term)
            /\ Goto([Frame EXCEPT !.previous = Previous(active, Frame.term),
                                  !.definition = EmptyDefinition(Explicit(Binding.protected, Frame.protected))],
                    "type")
            /\ UNCHANGED <<next, returned, outcome>>

-----------------------------------------------------------------------------
(* define: the type mapping.                                                 *)

TypeKeywords == {"@id", "@json", "@none", "@vocab"}

DefineTypeMapping ==
    /\ Running("define", "type")
    /\ CASE Binding.type = None -> Goto(Frame, "iri") /\ Keeping
         [] Binding.type = Null -> Fail("InvalidTypeMapping")
         [] OTHER -> CallThen(Frame, "typed", ExpandCall(Binding.type)) /\ Keeping

DefineTyped ==
    /\ Running("define", "typed")
    /\ CASE returned = NoMapping -> Goto(Frame, "iri") /\ Keeping
         [] returned[1] = "iri" \/ (IsKeyword(returned) /\ returned[2] \in TypeKeywords) ->
               IF options.mode = "1.0" /\ returned \in {Keyword("@json"), Keyword("@none")}
               THEN Fail("InvalidTypeMapping")
               ELSE Goto([Frame EXCEPT !.definition.typ = returned], "iri") /\ Keeping
         [] OTHER -> Fail("InvalidTypeMapping")

-----------------------------------------------------------------------------
(* define: the IRI mapping.                                                  *)

\* `return Ok(())` on a value that has the form of a keyword: the term keeps its
\* pending mark and has lost its previous definition.
Abandon == Return /\ Keeping

DefineReverse ==
    /\ Running("define", "iri") /\ Binding.reverse # None
    /\ CASE Binding.id # None \/ Binding.nest # None -> Fail("InvalidReverseProperty")
         [] Binding.id = None /\ Binding.nest = None
                /\ Form(Binding.reverse) \in {"keyword", "keyword-like"} -> Abandon
         [] OTHER -> CallThen(Frame, "reversed", ExpandCall(Binding.reverse)) /\ Keeping

DefineReversed ==
    /\ Running("define", "reversed")
    /\ CASE ~IsValidId(returned) -> Fail("InvalidIriMapping")
         [] IsValidId(returned) /\ Binding.container \notin {None, Null, {"@set"}, {"@index"}} ->
               Fail("InvalidReverseProperty")
         [] OTHER -> Goto([Frame EXCEPT !.definition.value = returned, !.definition.reverse = TRUE], "rest")
                     /\ Keeping

DefineId ==
    /\ Running("define", "iri") /\ Binding.reverse = None /\ Binding.id \notin {None, Frame.term}
    /\ CASE Binding.id = Null -> Goto(Frame, "rest") /\ Keeping
         [] Binding.id # Null /\ Form(Binding.id) = "keyword-like" -> Abandon
         [] OTHER -> CallThen(Frame, "mapped", ExpandCall(Binding.id)) /\ Keeping

\* A 1.1 term that looks like an IRI must itself expand to its mapping; it counts
\* as defined while that is checked.
DefineMapped ==
    /\ Running("define", "mapped")
    /\ LET definition == [Frame.definition EXCEPT
                            !.value = returned,
                            !.prefix = /\ ~LooksLikeIri(Frame.term) /\ Binding.simple
                                       /\ EndsInGenDelimOrBlank(returned)]
       IN  CASE returned = Keyword("@context") -> Fail("InvalidKeywordAlias")
             [] returned[1] = "invalid" -> Fail("InvalidIriMapping")
             [] returned # Keyword("@context") /\ returned[1] # "invalid" ->
                   IF options.mode # "1.0" /\ LooksLikeIri(Frame.term)
                   THEN /\ defined' = With(defined, Frame.term, FALSE)
                        /\ CallThen([Frame EXCEPT !.definition = definition], "checked",
                                    ExpandCall(Frame.term))
                        /\ UNCHANGED <<active, next, returned, outcome>>
                   ELSE Goto([Frame EXCEPT !.definition = definition], "rest") /\ Keeping

DefineChecked ==
    /\ Running("define", "checked")
    /\ IF returned = Frame.definition.value
       THEN Goto(Frame, "rest") /\ Keeping
       ELSE Fail("InvalidIriMapping")

\* Without an @id of its own the term is its own reference.
DefineSelf ==
    /\ Running("define", "iri") /\ Binding.reverse = None /\ Binding.id \in {None, Frame.term}
    /\ IF Form(Frame.term) = "compact"
       THEN CallThen(Frame, "self", Dependency(PrefixOf(Frame.term)))
       ELSE Goto(Frame, "self")
    /\ Keeping

\* The prefix flag is not asked for here; a prefix without an IRI contributes
\* nothing, and the suffix alone is no IRI.
SelfMapping(table, t) ==
    LET p == PrefixOf(t)
    IN  CASE Form(t) = "compact" ->
               IF p \notin DOMAIN table THEN IriOf(<<t>>)
               ELSE IF table[p].value[1] = "iri" THEN Concat(table[p].value, t) ELSE Invalid(t)
          [] Form(t) = "blank" -> Blank(t)
          [] Form(t) = "iri" -> IriOf(<<t>>)
          [] Form(t) = "relative" -> ExpandSimple(table, t)
          [] OTHER -> IF vocabulary[1] = "iri" THEN Concat(vocabulary, t) ELSE Invalid(t)

DefineOwnIri ==
    /\ Running("define", "self")
    /\ LET m == SelfMapping(active, Frame.term)
       IN  CASE m = Rejected -> Fail("ForbiddenVocab")
             [] m # Rejected /\ ~IsValidId(m) -> Fail("InvalidIriMapping")
             [] OTHER -> Goto([Frame EXCEPT !.definition.value = m], "rest") /\ Keeping

-----------------------------------------------------------------------------
(* define: the remaining entries, the protection check, the installation.    *)

\* What Container::from_syntax accepts, and what 1.0 does.
Containers ==
    {{"@list"}} \cup {s \cup c : s \in {{}, {"@set"}},
                      c \in {{"@set"}, {"@index"}, {"@language"}, {"@id"}, {"@type"}, {"@graph"},
                             {"@graph", "@id"}, {"@graph", "@index"}}}
Containers10 == {{"@list"}, {"@set"}, {"@index"}, {"@language"}}

\* The first error the remaining entries raise, in the order they are read.
RestError(f, b, d) ==
    LET old == options.mode = "1.0"
    IN  CASE b.container # None /\ old /\ b.container \notin Containers10 -> "InvalidContainerMapping"
          [] b.container \notin {None, Null} \cup Containers -> "InvalidContainerMapping"
          [] b.container \notin {None, Null} /\ "@type" \in b.container
                /\ d.typ \notin {None, Keyword("@id"), Keyword("@vocab")} -> "InvalidTypeMapping"
          [] b.index # None /\ (old \/ b.container \in {None, Null} \/ "@index" \notin b.container) ->
                "InvalidTermDefinition"
          [] b.index # None /\ ExpandSimple(active, b.index) = Rejected -> "ForbiddenVocab"
          [] b.index # None /\ ExpandSimple(active, b.index)[1] # "iri" -> "InvalidTermDefinition"
          [] b.context # None /\ old -> "InvalidTermDefinition"
          [] b.context # None /\ Validates(b.context, f.base) # "ok" ->
                IF Validates(b.context, f.base) = "ContextOverflow"
                THEN "ContextOverflow" ELSE "InvalidScopedContext"
          [] b.nest # None /\ old -> "InvalidTermDefinition"
          [] b.prefix # None /\ (old \/ LooksLikeIri(f.term)) -> "InvalidTermDefinition"
          [] b.prefix = TRUE /\ IsKeyword(d.value) -> "InvalidTermDefinition"
          [] b.propagate -> "InvalidTermDefinition"
          [] OTHER -> "ok"

Completed(f, b, d) ==
    [d EXCEPT !.container = b.container,
              !.typ = IF @ = None /\ b.container \notin {None, Null} /\ "@type" \in b.container
                      THEN Keyword("@id") ELSE @,
              !.index = b.index,
              !.context = b.context,
              !.base = b.context # None /\ f.base,
              !.language = IF b.type = None THEN b.language ELSE None,
              !.nest = b.nest,
              !.prefix = Explicit(b.prefix, @)]

DefineRest ==
    /\ Running("define", "rest")
    /\ LET error == RestError(Frame, Binding, Frame.definition)
           definition == Completed(Frame, Binding, Frame.definition)
       IN  CASE error # "ok" -> Fail(error)
             [] error = "ok" /\ Redefines(Frame.previous, definition, Frame.override) ->
                   Fail("ProtectedTermRedefinition")
             [] OTHER ->
                   /\ active' = With(active, Frame.term,
                                     KeptProtected(Frame.previous, definition, Frame.override))
                   /\ defined' = With(defined, Frame.term, FALSE)
                   /\ Return
                   /\ UNCHANGED <<next, returned, outcome>>

-----------------------------------------------------------------------------
Init ==
    /\ local \in LocalContexts /\ options \in Options
    /\ \E context \in ActiveContexts :
          initial = context.terms /\ vocabulary = context.vocabulary
    /\ active = initial
    /\ defined = [t \in {} |-> FALSE]
    /\ next = 1 /\ stack = <<>> /\ returned = NoMapping /\ outcome = "running"

Expand == ExpandTerm \/ ExpandLookup \/ ExpandConcat

Define ==
    \/ DefineTooDeep \/ DefineUnbound \/ DefineAgain \/ DefineType \/ DefineStart
    \/ DefineTypeMapping \/ DefineTyped
    \/ DefineReverse \/ DefineReversed
    \/ DefineId \/ DefineMapped \/ DefineChecked
    \/ DefineSelf \/ DefineOwnIri
    \/ DefineRest

Next == (DefineNext \/ Finish \/ Expand \/ Define) /\ UNCHANGED input

Spec == Init /\ [][Next]_vars
FairSpec == Spec /\ WF_vars(Next)

-----------------------------------------------------------------------------
Errors ==
    {"CyclicIriMapping", "ContextOverflow", "KeywordRedefinition", "ProtectedTermRedefinition",
     "ForbiddenVocab", "InvalidTermDefinition", "InvalidTypeMapping", "InvalidReverseProperty",
     "InvalidIriMapping", "InvalidKeywordAlias", "InvalidContainerMapping", "InvalidScopedContext"}

\* define frames that have passed DefinedTerms::begin.
InProgress == {i \in DOMAIN stack : stack[i].call = "define" /\ stack[i].at # "begin"}
Building == {stack[i].term : i \in InProgress}

\* The recursion is bounded by the terms of the context: no definition is begun
\* while, or after, the same term was begun further up.
NoReentry ==
    /\ \A i, j \in InProgress : stack[i].term = stack[j].term => i = j
    /\ Building \subseteq DOMAIN defined

\* Terms left pending by an early return.
Abandoned == {t \in DOMAIN defined : defined[t]} \ Building

\* The strings `t`'s entries have it expand, and `t` itself where its own prefix is
\* asked for.  A keyword is never looked up as a term.
Refers(t) ==
    LET b == local.binding[t]
    IN  IF t = TypeTerm THEN {}
        ELSE {s \in {b.type, b.reverse} \cup ({b.id} \ {t}) :
                 s \notin {None, Null} /\ Form(s) \notin {"keyword", "keyword-like"}}

Own(t) ==
    IF /\ t # TypeTerm
       /\ local.binding[t].reverse = None
       /\ local.binding[t].id \in {None, t} \/ (local.binding[t].id # Null /\ options.mode # "1.0")
    THEN {t} ELSE {}

\* The bound terms that wait to be defined first.  `May` over-approximates: a
\* prefix is not needed for a string that has a definition of its own.
PrefixesIn(S) == {PrefixOf(s) : s \in {s \in S : Form(s) = "compact"}}
May(t) == (Refers(t) \cup PrefixesIn(Refers(t) \cup Own(t))) \cap Bound
Must(t) == (Refers(t) \cup PrefixesIn((Refers(t) \ (Bound \cup DOMAIN initial)) \cup Own(t))) \cap Bound

Acyclic(S, Needs(_)) ==
    \E rank \in [S -> DOMAIN local.order] : \A t \in S : \A d \in Needs(t) \cap S : rank[d] < rank[t]

\* define succeeds only on definitions that refer to each other without a cycle,
\* and reports a cycle only when there is one or a term was left pending.
CycleDetection ==
    /\ outcome = "ok" => Acyclic(Bound \ Abandoned, Must)
    /\ outcome = "CyclicIriMapping" => Abandoned # {} \/ ~Acyclic(Bound, May)

\* What a term's own entries refer to, and what that expands to in a table.
Reference(t) == IF local.binding[t].reverse # None THEN local.binding[t].reverse ELSE local.binding[t].id

Meaning(table, t) ==
    CASE Reference(t) = Null -> NoMapping
      [] Reference(t) \in {None, t} -> SelfMapping(table, t)
      [] OTHER -> ExpandSimple(table, Reference(t))

\* A definition is built from the finished definitions of what it refers to: in
\* the active context that results, each term's mapping is what its @id or
\* @reverse expands to there, whatever the order the bindings were visited in.
SettledMappings ==
    outcome = "ok" =>
        \A t \in Bound \ (Abandoned \cup {TypeTerm}) : active[t].value = Meaning(Without(active, t), t)

\* A definition once finished is final: nothing processed later in the same
\* context replaces or removes it.
Finished == DOMAIN defined \ (Abandoned \cup Building)

DefinedOnce == [][\A t \in Finished : t \in DOMAIN active' /\ active'[t] = active[t]]_vars

\* Without override_protected a context that is accepted leaves every protected
\* definition as it was; the exception is a binding define returns early from,
\* which erases the definition it was to replace.
ProtectedKept ==
    outcome = "ok" /\ ~options.override =>
        \A t \in DOMAIN initial :
            initial[t].protected /\ t \notin Abandoned => t \in DOMAIN active /\ active[t] = initial[t]

\* Every context definition is decided.
Terminates == <>(outcome # "running")

=============================================================================
