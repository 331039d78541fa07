--------------------------- MODULE ContextProcessing ---------------------------
(***************************************************************************)
(* One run of the context processing algorithm (process_context in         *)
(* src/jsonld-context-processing/src/algorithm/mod.rs, its synchronous     *)
(* mirror in sync.rs, the stack of remote contexts in stack.rs).           *)
(*                                                                         *)
(* A context is a sequence of entries: null, a reference to a remote       *)
(* context, or a definition.  process_context calls itself for a remote    *)
(* context and, through define, to validate the scoped context of a term;  *)
(* the calls in progress are an explicit stack, innermost last.  The terms *)
(* of a definition are taken here as independent of each other: how they   *)
(* are built from one another is TermDefinition's subject.                 *)
(***************************************************************************)
EXTENDS Integers, Sequences, SequencesExt

CONSTANTS
    Urls,
    Resolve(_, _),    \* resolve_iri: a reference and a base to a URL, or None
    Serves(_),        \* external: what the loader may answer for a URL, contexts or Failed
    LocalContexts,    \* contexts passed to process_full; closed under scoped contexts
    ActiveContexts,   \* [terms, base, scalars, previous] to start from
    Options,          \* [mode, override, propagate]
    Bases,            \* base_url of the call, or None
    OriginalBase,     \* original_base_url of the active context
    None, Null, Failed,
    MaxRemote,        \* MAX_REMOTE_CONTEXTS
    MaxDepth          \* MAX_SYNC_DEPTH

\* What the code's types say of contexts, of an active context and of the options;
\* a scoped context is a context like any other.
ASSUME ProcessingAssumption ==
    /\ \A c \in LocalContexts :
          /\ c.entries \in Seq(Range(c.entries))
          /\ \A i \in DOMAIN c.entries :
                c.entries[i].kind = "definition" =>
                   /\ c.entries[i].terms \in Seq(Range(c.entries[i].terms))
                   /\ \A j \in DOMAIN c.entries[i].terms :
                         c.entries[i].terms[j].scoped \in LocalContexts \cup {None}
    /\ \A c \in ActiveContexts :
          /\ c = [terms |-> c.terms, base |-> c.base, scalars |-> c.scalars, previous |-> c.previous]
          /\ \A t \in DOMAIN c.terms :
                /\ c.terms[t] = [meaning |-> c.terms[t].meaning, protected |-> c.terms[t].protected]
                /\ c.terms[t].protected \in BOOLEAN
    /\ \A options \in Options : options.override \in BOOLEAN

VARIABLES
    local,        \* the context given to the run
    initial,      \* the active context it started from
    mode,         \* options.processing_mode
    override,     \* options.override_protected of the call
    sync,         \* whether the run takes the synchronous mirror
    stack,        \* calls of process_context in progress
    dereferenced, \* the record every copy of a ProcessingStack shares: URL -> context
    fetches,      \* history: URL -> times it was dereferenced as a context
    result,       \* the context the last finished call returned
    abandoned,    \* history: the terms it, or one it adopted, left undefined half-way
    outcome       \* "running", "ok" or an error

returned == <<result, abandoned>>
vars == <<local, initial, mode, override, sync, stack, dereferenced, fetches, returned, outcome>>
input == <<local, initial, mode, override, sync>>

-----------------------------------------------------------------------------
(* requires_loader: whether a run over `context` may need the loader.        *)

Definitions(context) ==
    {context.entries[i] : i \in {i \in DOMAIN context.entries : context.entries[i].kind = "definition"}}

ScopedIn(definition) ==
    {definition.terms[i].scoped : i \in DOMAIN definition.terms} \ {None}

\* Mutant: scoped contexts are not scanned.
RequiresLoader_TopOnly(context) ==
    \/ \E i \in DOMAIN context.entries : context.entries[i].kind = "ref"
    \/ \E d \in Definitions(context) : d.import # None

RequiresLoader(context) ==
    LET requires[c \in LocalContexts] ==
            \/ \E i \in DOMAIN c.entries : c.entries[i].kind = "ref"
            \/ \E d \in Definitions(c) : d.import # None \/ \E s \in ScopedIn(d) : requires[s]
    IN  requires[context]

-----------------------------------------------------------------------------
(* Contexts and calls.                                                       *)

NewContext == [terms |-> [t \in {} |-> None], base |-> OriginalBase,
               scalars |-> [f \in {"vocab", "language", "direction"} |-> None], previous |-> None]

HasProtected(c) == \E t \in DOMAIN c.terms : c.terms[t].protected

Frame == Last(stack)
Entry == Frame.context.entries[Frame.index]

\* A single definition sets propagation for its call.
Propagates(context, default) ==
    IF context.single /\ context.entries[1].kind = "definition" /\ context.entries[1].propagate # None
    THEN context.entries[1].propagate ELSE default

\* Steps 1 to 3 of the algorithm.
Invoke(purpose, active, context, remote, base, options, validate, depth) ==
    LET propagate == Propagates(context, options.propagate)
    IN  [purpose |-> purpose, context |-> context, index |-> 1, at |-> "entry",
         result |-> IF ~propagate /\ active.previous = None THEN [active EXCEPT !.previous = active] ELSE active,
         abandoned |-> {}, remote |-> remote, base |-> base, override |-> options.override,
         propagate |-> propagate, validate |-> validate, merged |-> None, term |-> 1, depth |-> depth]

At(label) == outcome = "running" /\ stack # <<>> /\ Last(stack).at = label
AtEntry(kind) == At("entry") /\ Frame.index <= Len(Frame.context.entries) /\ Entry.kind = kind

Update(frame) == stack' = Append(Front(stack), frame)
Call(frame, callee) == stack' = Append(Front(stack), frame) \o <<callee>>

\* An error unwinds every call.  What a scoped context fails with is masked,
\* except for the resource limit.
Fail(error) ==
    /\ outcome' = IF error # "ContextOverflow" /\ \E i \in DOMAIN stack : stack[i].purpose = "scoped"
                  THEN "InvalidScopedContext" ELSE error
    /\ UNCHANGED <<stack, dereferenced, fetches, returned>>

Keeping == UNCHANGED <<dereferenced, fetches, returned, outcome>>

\* @propagate is no entry of a 1.0 context.
BadPropagate(context) ==
    /\ mode = "1.0" /\ context.single
    /\ context.entries[1].kind = "definition" /\ context.entries[1].propagate # None

RejectPropagate ==
    /\ At("entry") /\ Frame.index = 1 /\ BadPropagate(Frame.context)
    /\ Fail("InvalidContextEntry")

Ready(kind) == AtEntry(kind) /\ ~BadPropagate(Frame.context)

-----------------------------------------------------------------------------
(* A null entry.                                                             *)

\* Mutant: the loop stays where it is.
ProcessNull_Stays ==
    /\ Ready("null")
    /\ IF ~Frame.override /\ HasProtected(Frame.result)
       THEN Fail("InvalidContextNullification")
       ELSE Update([Frame EXCEPT !.result = NewContext]) /\ Keeping

\* Mutant: protection is not looked at.
ProcessNull_Unprotected ==
    /\ Ready("null")
    /\ Update([Frame EXCEPT !.index = @ + 1,
                            !.result = [NewContext EXCEPT !.previous = IF Frame.propagate THEN None ELSE Frame.result]])
    /\ Keeping

ProcessNull ==
    /\ Ready("null")
    /\ IF ~Frame.override /\ HasProtected(Frame.result)
       THEN Fail("InvalidContextNullification")
       ELSE /\ Update([Frame EXCEPT
                         !.index = @ + 1,
                         !.result = [NewContext EXCEPT !.previous = IF Frame.propagate THEN None ELSE Frame.result]])
            /\ Keeping

-----------------------------------------------------------------------------
(* A reference to a remote context.                                          *)

Cycle(remote, url) == \E i \in DOMAIN remote : remote[i] = url

AtLimit(remote) == Len(remote) >= MaxRemote

\* The error step 5.2 ends a reference with, before anything is loaded.
RefError(url) ==
    CASE url = None -> "LoadingDocumentFailed"
      [] url # None /\ sync -> "LoadingDocumentFailed"    \* the tripwire of sync.rs
      [] url # None /\ ~sync /\ Cycle(Frame.remote, url) /\ mode = "1.0" -> "RecursiveContextInclusion"
      [] OTHER -> "ok"

\* Mutant: a context named again is never skipped.
Skipped_Never(url) == FALSE

\* Step 5.2.2: only validation skips what is already being processed.
Skipped(url) == Cycle(Frame.remote, url) /\ ~Frame.validate

\* The URL joins the chain; its siblings in the array will find it there.
EnterRemote ==
    /\ Ready("ref")
    /\ LET url == IF sync THEN None ELSE Resolve(Entry.url, Frame.base)
       IN  CASE RefError(url) # "ok" -> Fail(RefError(url))
             [] RefError(url) = "ok" /\ Skipped(url) -> Update([Frame EXCEPT !.index = @ + 1]) /\ Keeping
             [] RefError(url) = "ok" /\ ~Skipped(url) /\ AtLimit(Frame.remote) -> Fail("ContextOverflow")
             [] OTHER -> Update([Frame EXCEPT !.at = "load", !.remote = Append(@, url)]) /\ Keeping

\* Mutant: a remote context may override because its caller may.
RemoteOptions_Inherited == [override |-> Frame.override, propagate |-> TRUE]

RemoteOptions == [override |-> FALSE, propagate |-> TRUE]

EnterLoaded(url, context) ==
    Call([Frame EXCEPT !.at = "loaded"],
         Invoke("remote", Frame.result, context, Frame.remote, url, RemoteOptions, Frame.validate, Frame.depth + 1))

Requested == Last(Frame.remote)

\* Mutant: the record is not consulted.
LoadRemote_Again ==
    /\ At("load")
    /\ fetches' = [fetches EXCEPT ![Requested] = @ + 1]
    /\ \E answer \in Serves(Requested) \ {Failed} :
          /\ dereferenced' = [u \in DOMAIN dereferenced \cup {Requested} |->
                                 IF u = Requested THEN answer ELSE dereferenced[u]]
          /\ EnterLoaded(Requested, answer)
          /\ UNCHANGED <<returned, outcome>>

LoadRemote ==
    /\ At("load") /\ Requested \notin DOMAIN dereferenced
    /\ \E answer \in Serves(Requested) \ {Failed} :
          /\ fetches' = [fetches EXCEPT ![Requested] = @ + 1]
          /\ dereferenced' = [u \in DOMAIN dereferenced \cup {Requested} |->
                                 IF u = Requested THEN answer ELSE dereferenced[u]]
          /\ EnterLoaded(Requested, answer)
          /\ UNCHANGED <<returned, outcome>>

\* Step 5.2.4: what this run dereferenced before is used again.
ReuseRemote ==
    /\ At("load") /\ Requested \in DOMAIN dereferenced
    /\ EnterLoaded(Requested, dereferenced[Requested])
    /\ Keeping

LoadFails ==
    \/ At("load") /\ Requested \notin DOMAIN dereferenced /\ Failed \in Serves(Requested)
         /\ Fail("LoadingRemoteContextFailed")
    \/ At("import") /\ Failed \in Serves(Resolve(Entry.import, Frame.base))
         /\ Fail("LoadingRemoteContextFailed")

AdoptRemote ==
    /\ At("loaded")
    /\ Update([Frame EXCEPT !.at = "entry", !.index = @ + 1, !.result = result, !.abandoned = @ \cup abandoned])
    /\ Keeping

-----------------------------------------------------------------------------
(* A context definition.                                                     *)

Over(own, imported) == IF own # None THEN own ELSE imported

\* Merged: the importing definition wins; imported terms come first.
MergedWith(own, imported) ==
    [own EXCEPT !.base = Over(@, imported.base),
                !.scalars = [f \in DOMAIN @ |-> Over(@[f], imported.scalars[f])],
                !.protected = Over(@, imported.protected),
                !.terms = SelectSeq(imported.terms,
                                    LAMBDA t : \A i \in DOMAIN own.terms : own.terms[i].name # t.name) \o @]

Applied(value, entry) == CASE entry = None -> value [] entry = Null -> None [] OTHER -> entry

\* Step 5.7: the stack of remote contexts says whether this one is remote.
BaseApplies(frame) == frame.remote = <<>>

\* The error a definition's own entries raise, if any.
DefinitionError(d) ==
    CASE BaseApplies(Frame) /\ d.base = "invalid" -> "InvalidBaseIri"
      [] d.scalars["vocab"] = "invalid" -> "InvalidVocabMapping"
      [] d.scalars["direction"] # None /\ mode = "1.0" -> "InvalidContextEntry"
      [] OTHER -> "ok"

\* Steps 5.7 to 5.12, up to the first term.
BeginTerms(d) ==
    IF DefinitionError(d) # "ok"
    THEN Fail(DefinitionError(d))
    ELSE /\ Update([Frame EXCEPT
                      !.at = "term", !.merged = d, !.term = 1,
                      !.result.base = IF BaseApplies(Frame) THEN Applied(@, d.base) ELSE @,
                      !.result.scalars = [f \in DOMAIN @ |-> Applied(@[f], d.scalars[f])]])
         /\ Keeping

ProcessDefinition ==
    /\ Ready("definition")
    /\ CASE Entry.version /\ mode = "1.0" -> Fail("ProcessingModeConflict")
         [] ~(Entry.version /\ mode = "1.0") /\ Entry.import = None -> BeginTerms(Entry)
         [] ~(Entry.version /\ mode = "1.0") /\ Entry.import # None ->
               CASE sync -> Fail("LoadingDocumentFailed")    \* the tripwire of sync.rs
                 [] ~sync /\ mode = "1.0" -> Fail("InvalidContextEntry")
                 [] ~sync /\ mode # "1.0" /\ Resolve(Entry.import, Frame.base) = None -> Fail("InvalidImportValue")
                 [] OTHER -> Update([Frame EXCEPT !.at = "import"]) /\ Keeping

\* An imported context is loaded every time, and never through the record.
LoadImport ==
    /\ At("import")
    /\ \E answer \in Serves(Resolve(Entry.import, Frame.base)) \ {Failed} :
          LET imported == answer.entries[1]
          IN  CASE ~(answer.single /\ imported.kind = "definition") -> Fail("InvalidRemoteContext")
                [] answer.single /\ imported.kind = "definition" /\ imported.import # None ->
                      Fail("InvalidContextEntry")
                [] OTHER -> BeginTerms(MergedWith(Entry, imported))

-----------------------------------------------------------------------------
(* define, for one term after another.                                       *)

Term == Frame.merged.terms[Frame.term]
MoreTerms == At("term") /\ Frame.term <= Len(Frame.merged.terms)

ScopedOptions == [override |-> TRUE, propagate |-> Frame.propagate]

\* The error a term ends in before its scoped context is looked at; a term whose
\* @id or @reverse looks like a keyword does not come to its @context.
TermError ==
    CASE sync /\ Frame.depth + 1 >= MaxDepth -> "ContextOverflow"
      [] ~(sync /\ Frame.depth + 1 >= MaxDepth) /\ mode = "1.0"
             /\ (Term.protected # None \/ (Term.scoped # None /\ ~Term.keywordLike)) -> "InvalidTermDefinition"
      [] OTHER -> "ok"

RejectTerm == MoreTerms /\ TermError # "ok" /\ Fail(TermError)

\* While a term is defined, the definition it had is gone.
Without(active, term) == [active EXCEPT !.terms = Restrict(@, DOMAIN @ \ {term})]

\* define returns, and successfully, from a term whose @id or @reverse looks like
\* a keyword and is none: whatever the term was, protected or not, it is no more.
AbandonTerm ==
    /\ MoreTerms /\ Term.keywordLike /\ TermError = "ok"
    /\ Update([Frame EXCEPT !.term = @ + 1, !.result = Without(@, Term.name),
                            !.abandoned = @ \cup {Term.name}])
    /\ Keeping

Definable == MoreTerms /\ ~Term.keywordLike /\ TermError = "ok"

\* A scoped context is processed once when its term is defined, to see whether
\* it can be; what that produces is dropped.
ValidateScoped ==
    /\ Definable /\ Term.scoped # None
    /\ Call([Frame EXCEPT !.at = "install"],
            Invoke("scoped", Without(Frame.result, Term.name), Term.scoped, Frame.remote, Frame.base,
                   ScopedOptions, FALSE, Frame.depth + 2))
    /\ Keeping

\* A protected definition gives way only to one equal to it, or to an override.
MayReplace(old, new) == Frame.override \/ ~old.protected \/ old.meaning = new.meaning

InstallTerm ==
    /\ \/ Definable /\ Term.scoped = None
       \/ At("install")
    /\ LET t == Term.name
           old == IF t \in DOMAIN Frame.result.terms THEN {Frame.result.terms[t]} ELSE {}
           meaning == <<Term.meaning, Term.scoped, IF Term.scoped = None THEN None ELSE Frame.base>>
           new == [meaning |-> meaning, protected |-> Over(Term.protected, Frame.merged.protected) = TRUE]
           kept == IF ~Frame.override /\ \E o \in old : o.protected THEN [new EXCEPT !.protected = TRUE] ELSE new
       IN  IF \A o \in old : MayReplace(o, new)
           THEN /\ Update([Frame EXCEPT
                             !.at = "term", !.term = @ + 1,
                             !.result.terms = [u \in DOMAIN @ \cup {t} |-> IF u = t THEN kept ELSE @[u]]])
                /\ Keeping
           ELSE Fail("ProtectedTermRedefinition")

EndDefinition ==
    /\ At("term") /\ Frame.term > Len(Frame.merged.terms)
    /\ Update([Frame EXCEPT !.at = "entry", !.index = @ + 1, !.merged = None])
    /\ Keeping

Return ==
    /\ At("entry") /\ Frame.index > Len(Frame.context.entries)
    /\ stack' = Front(stack)
    /\ result' = Frame.result /\ abandoned' = Frame.abandoned
    /\ outcome' = IF Len(stack) = 1 THEN "ok" ELSE "running"
    /\ UNCHANGED <<dereferenced, fetches>>

-----------------------------------------------------------------------------
Init ==
    /\ local \in LocalContexts /\ initial \in ActiveContexts
    /\ sync = ~RequiresLoader(local)
    /\ \E options \in Options, base \in Bases :
          /\ mode = options.mode /\ override = options.override
          /\ stack = <<Invoke("call", initial, local, <<>>, base, options, TRUE, 0)>>
    /\ dereferenced = [u \in {} |-> None]
    /\ fetches = [u \in Urls |-> 0]
    /\ result = initial /\ abandoned = {}
    /\ outcome = "running"

Loading == LoadRemote \/ LoadImport \/ LoadFails

Processing ==
    \/ RejectPropagate \/ ProcessNull \/ ProcessDefinition
    \/ EnterRemote \/ ReuseRemote \/ AdoptRemote
    \/ RejectTerm \/ AbandonTerm \/ ValidateScoped \/ InstallTerm \/ EndDefinition
    \/ Return

Next == (Loading \/ Processing) /\ UNCHANGED input

Spec == Init /\ [][Next]_vars

\* A run is polled until it ends, and a loader answers, one way or the other.
FairSpec == Spec /\ WF_vars(Next)

-----------------------------------------------------------------------------
\* Step 5.2.4: one run dereferences a context once, and wherever it is named
\* processes what it got then, although the loader may answer differently later.
DereferencedOnce ==
    /\ \A u \in Urls : fetches[u] <= 1
    /\ \A i \in DOMAIN stack :
          stack[i].purpose = "remote" => stack[i].context = dereferenced[stack[i].base]

\* Step 5.2.2: validating a scoped context does not follow a reference back into
\* a context it is reached through, so a context may scope terms to itself.
ValidationSkipsCycles ==
    \A i \in DOMAIN stack :
        stack[i].purpose = "remote" /\ ~stack[i].validate => ~Cycle(Front(stack[i].remote), Last(stack[i].remote))

\* Every protected term but those in `left` is as it was.
Preserves(before, after, left) ==
    \A t \in DOMAIN before.terms \ left :
        before.terms[t].protected => t \in DOMAIN after.terms /\ after.terms[t] = before.terms[t]

\* Whatever the caller may override, a remote context may not: from the moment it
\* is entered until it returns, no term protected before it changes.  The one
\* exception is a term it abandons itself, or a remote context it adopted did:
\* define removes the definition before it sees a keyword-like @id or @reverse
\* (define.rs:238, 313 and 387), and asks nothing of what it removed.
RemoteKeepsProtected ==
    \A i \in DOMAIN stack :
        stack[i].purpose = "remote" => Preserves(stack[i - 1].result, stack[i].result, stack[i].abandoned)

\* A run without override_protected that succeeds leaves every protected term of
\* the active context as it was, nullifications and nested contexts included,
\* unless a definition whose result it kept abandoned the term.
ProtectedSurvives == outcome = "ok" /\ ~override => Preserves(initial, result, abandoned)

\* sync.rs, "Loader tripwire": a run requires_loader sends to the synchronous
\* mirror never reaches a reference or an @import, however deep.
TripwireUnreachable ==
    sync => ~(AtEntry("ref") \/ (AtEntry("definition") /\ Entry.import # None))

\* Every run ends, whatever refers to whatever.
Terminates == <>(outcome # "running")

=============================================================================
