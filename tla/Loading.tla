--------------------------------- MODULE Loading ---------------------------------
(***************************************************************************)
(* Loading and expanding a document reference: expand_full for             *)
(* RemoteDocumentReference (src/jsonld/src/processor/remote_document.rs)   *)
(* through a ChainLoader (src/jsonld-core/src/loader): a local loader, and *)
(* the HTTP loader for what the local one cannot give.                     *)
(*                                                                         *)
(* One call loads up to three documents: the document, the expand context  *)
(* of the options, the context its server links.  The HTTP loader is       *)
(* followed request by request and chunk by chunk; the server answers      *)
(* whatever it likes, stalls, or breaks the connection.                    *)
(*                                                                         *)
(* What is done with a document once it is there is a constant: loading is *)
(* right whatever the algorithms answer.  MCLoading gives it the ones of   *)
(* Expansion.                                                              *)
(***************************************************************************)
EXTENDS HttpHeaders

CONSTANTS
    Extract(_),       \* the context of a document, or why it has none: ExtractContext
    ProcessIn(_, _),  \* an active context with a context processed in it: Process
    ExpandIn(_, _),   \* a document expanded in an active context: Expand
    Calls,         \* records [document, expandContext, base, first, options]
    Answers,       \* the responses a server may give
    Files,         \* what the local files may hold; None is no JSON
    ContextLink,   \* the relation of a linked context
    AlternateLink, \* and the one of an alternate document
    Endless,       \* the length of a body that never ends
    MaxReceived    \* bytes of a body without a size limit that are counted

\* The response's Link header never has an href that is no IRI reference here.
ASSUME LoadingAssumption ==
    /\ MaxReceived \in Nat /\ Endless \notin Nat
    /\ None \notin Answers
    /\ \A a \in Answers :
          /\ a.length \in Nat \cup {Endless}
          /\ \A i \in DOMAIN a.links : \A j \in DOMAIN a.links[i] : IsIriRef(a.links[i][j].href)
    /\ \A c \in Calls :
          /\ c.options.maxRedirections \in Nat
          /\ c.options.maxDocumentSize \in {None} \cup 0..MaxReceived - 1
          /\ c.first.loader \in {"none", "map", "fs"}
          /\ c.document.reference # "iri" => c.document.document # None

VARIABLES
    call,          \* what the caller asks
    stage,         \* "document", "expandContext", "linkedContext", "expansion", "done" or "failed"
    step,          \* where the loader is: "refer", "first", "ask", "sent" or "body"
    url,           \* the url asked of the chain
    firstError,    \* why the first loader failed
    target,        \* the url of the HTTP loader's next or current request
    redirections,  \* Link redirections so far
    response,      \* the response being read, or the last one read
    received,      \* bytes of its body so far
    requests,      \* history: requests sent for this url, up to RequestsCounted
    asked,         \* history: the url of the last one
    remote,        \* the RemoteDocument of the document
    served,        \* history: the response it came from, None if from elsewhere
    context,       \* the active context so far
    error,         \* the error returned
    objects        \* the expanded document returned

loader == <<url, firstError, target, redirections, response, received, requests, asked>>
results == <<remote, served, context, error, objects>>
vars == <<call, stage, step, loader, results>>

-----------------------------------------------------------------------------
(* Documents and errors                                                      *)

\* RemoteDocument::new_full and RemoteDocument::new
RemoteDocument(from, type, contextUrl, profile, document) ==
    [url |-> from, contentType |-> type, contextUrl |-> contextUrl, profile |-> profile, document |-> document]
PlainDocument(from, document) == RemoteDocument(from, LdJson, None, {}, document)

IriReference(iri) == [reference |-> "iri", iri |-> iri]
LoadedReference(document) == [reference |-> "loaded", document |-> document]

\* ExpandError::code
CodeOf(at) == IF at = "document" THEN "LoadingDocumentFailed" ELSE "LoadingRemoteContextFailed"

Give(e) ==
    /\ stage' = "failed" /\ step' = "refer" /\ error' = e
    /\ UNCHANGED <<call, remote, served, context, objects>>

\* Mutant: an error names the url asked of the chain, not the one that failed.
LoadErrorAt_Asked(at, source) == [code |-> CodeOf(stage), target |-> url, first |-> firstError, second |-> source]

\* ChainError::Both under the LoadError of the second loader.
LoadErrorAt(at, source) == [code |-> CodeOf(stage), target |-> at, first |-> firstError, second |-> source]

Refuse(source) == Give(LoadErrorAt(target, source)) /\ UNCHANGED loader

-----------------------------------------------------------------------------
(* expand_full: what follows a load                                          *)

Following(at, d) ==
    IF at = "document" /\ call.expandContext # None THEN "expandContext"
    ELSE IF at # "linkedContext" /\ d.contextUrl # None THEN "linkedContext"
    ELSE "expansion"

EnterDocument(d, from) ==
    /\ remote' = d /\ served' = from
    /\ context' = NewContext(IF call.base = None THEN d.url ELSE call.base)
    /\ stage' = Following("document", d) /\ step' = "refer"
    /\ UNCHANGED <<call, error, objects>>

\* A context is extracted, unless it was given loaded, and processed.
EnterContext(read) ==
    \E c \in {IF read.error # None THEN [error |-> CodeOf(stage)] ELSE ProcessIn(context, read.value)} :
       IF c.error = None
       THEN /\ context' = c.ctx
            /\ stage' = Following(stage, remote) /\ step' = "refer"
            /\ UNCHANGED <<call, remote, served, error, objects>>
       ELSE Give([code |-> c.error])

Arrive(d, from) ==
    IF stage = "document" THEN EnterDocument(d, from) ELSE EnterContext(Extract(d.document))

\* A context given loaded needs no extraction.
Given(local) == [error |-> None, value |-> local]

ReferenceOf(at) ==
    CASE at = "document" -> call.document
      [] at = "expandContext" -> call.expandContext
      [] at = "linkedContext" -> IriReference(remote.contextUrl)

\* load_with and load_context_with
Refer ==
    /\ step = "refer" /\ stage \in {"document", "expandContext", "linkedContext"}
    /\ \E r \in {ReferenceOf(stage)} :
          IF r.reference = "iri"
          THEN /\ step' = "first" /\ url' = r.iri /\ firstError' = None
               /\ target' = None /\ redirections' = 0 /\ response' = None /\ received' = 0
               /\ requests' = 0 /\ asked' = None
               /\ UNCHANGED <<call, stage, results>>
          ELSE /\ IF stage = "document" THEN EnterDocument(r.document, None) ELSE EnterContext(Given(r.document.document))
               /\ UNCHANGED loader

ExpandIt ==
    /\ stage = "expansion"
    /\ \E e \in {ExpandIn(context, remote.document)} :
          IF e.error = None
          THEN stage' = "done" /\ objects' = e.objects /\ UNCHANGED <<call, step, remote, served, context, error>>
          ELSE Give([code |-> e.error])
    /\ UNCHANGED loader

-----------------------------------------------------------------------------
(* The first loader                                                          *)

\* str::split('/') and the segments that are not empty
Segments(s) ==
    LET split == FoldLeft(LAMBDA segments, token :
                              IF token = "/" THEN Append(segments, <<>>)
                              ELSE [segments EXCEPT ![Len(segments)] = Append(@, token)],
                          <<<<>>>>, s)
    IN  SelectSeq(split, LAMBDA segment : segment # <<>>)

\* A prefix ends where a path segment ends.
Mounts(prefix, s) ==
    /\ IsPrefix(prefix, s)
    /\ \/ Len(s) = Len(prefix) \/ s[Len(prefix) + 1] = "/" \/ prefix[Len(prefix)] = "/"

NormalSegments(segments) == \A i \in DOMAIN segments : segments[i] \notin {<<".">>, <<".", ".">>}

\* FsLoader::filepath: the first mount point decides.
FilePath(mounts, s) ==
    LET matching == SelectSeq(mounts, LAMBDA m : Mounts(m.url, s))
        segments == Segments(SubSeq(s, Len(matching[1].url) + 1, Len(s)))
    IN  IF matching = <<>> THEN None
        ELSE IF NormalSegments(segments) THEN matching[1].path \o segments ELSE None

\* What a loader with the given error says, and the second loader being asked.
FirstFails(e) ==
    /\ firstError' = e /\ step' = "ask" /\ target' = url
    /\ UNCHANGED <<call, stage, url, redirections, response, received, requests, asked, results>>

FirstGives(document) == Arrive(PlainDocument(url, document), None) /\ UNCHANGED loader

LoadFile ==
    IF FilePath(call.first.mounts, url) = None THEN FirstFails("NoMountPoint")
    ELSE \/ FirstFails("IO")
         \/ \E content \in Files : IF content = None THEN FirstFails("Parse") ELSE FirstGives(content)

AskFirst ==
    /\ step = "first"
    /\ CASE call.first.loader = "none" -> FirstFails("CannotLoad")
         [] call.first.loader = "map" ->
              IF url \in DOMAIN call.first.documents THEN FirstGives(call.first.documents[url])
              ELSE FirstFails("EntryNotFound")
         [] call.first.loader = "fs" -> LoadFile

-----------------------------------------------------------------------------
(* The HTTP loader                                                           *)

\* Mutant: one request more is let through.
TooMany_Late(n) == n > call.options.maxRedirections + 1
TooMany(n) == n > call.options.maxRedirections

\* The history counts on past the limit: one request more than any load may send.
RequestsCounted == call.options.maxRedirections + 2

Ask ==
    /\ step = "ask"
    /\ IF TooMany(redirections) THEN Refuse("TooManyRedirections")
       ELSE /\ step' = "sent" /\ asked' = target /\ received' = 0 /\ response' = None
            /\ requests' = IF requests < RequestsCounted THEN requests + 1 ELSE requests
            /\ UNCHANGED <<call, stage, url, firstError, target, redirections, results>>

AllLinks(a) == FlattenSeq([i \in DOMAIN a.links |-> ParseHeader(LinkHeader(a.links[i]))])
Typed(a) == SelectSeq([i \in DOMAIN a.types |-> ContentTypeOf(TypeHeader(a.types[i]))], IsJsonLd)

Resolved(href, base) == IF IsIri(href) THEN href ELSE Resolve(href, base)

Targets(links) == [i \in DOMAIN links |-> Resolved(links[i].href, target)]

IsContext(l) == Rel(l) = ContextLink
IsAlternate(l) == Rel(l) = AlternateLink /\ LinkType(l) = LdJson
ContextLinks(a) == Targets(SelectSeq(AllLinks(a), IsContext))
Alternates(a) == Targets(SelectSeq(AllLinks(a), IsAlternate))

Exceeds(n) == call.options.maxDocumentSize # None /\ n > call.options.maxDocumentSize

DeclaredLength(a) == IF a.declared THEN a.length ELSE 0

\* Mutant: a redirection is not counted.
Redirect_Uncounted(next) ==
    /\ target' = next /\ step' = "ask"
    /\ UNCHANGED <<call, stage, url, firstError, redirections, received, requests, asked, results>>

Redirect(next) ==
    /\ target' = next /\ step' = "ask" /\ redirections' = redirections + 1
    /\ UNCHANGED <<call, stage, url, firstError, received, requests, asked, results>>

\* The response is kept with what its headers said.
Keep(a, contexts, types) ==
    [answer |-> a, contextUrl |-> IF contexts = <<>> THEN None ELSE contexts[1], type |-> types[1]]

RefuseAnswer(a, source) ==
    /\ Give(LoadErrorAt(target, source)) /\ response' = [answer |-> a]
    /\ UNCHANGED <<url, firstError, target, redirections, received, requests, asked>>

\* Mutant: the links of a JSON-LD document count.
ContextsFor_Always(a, types) == ContextLinks(a)

\* The links count only if the document is not already JSON-LD.
ContextsFor(a, types) == IF types[1].media = LdJson THEN <<>> ELSE ContextLinks(a)

\* A JSON document.
Found(a, types) ==
    \E contexts \in {ContextsFor(a, types)} :
       IF Len(contexts) > 1 THEN RefuseAnswer(a, "MultipleContextLinkHeaders")
       ELSE IF Exceeds(DeclaredLength(a)) THEN RefuseAnswer(a, "TooLarge")
       ELSE /\ response' = Keep(a, contexts, types) /\ step' = "body"
            /\ UNCHANGED <<call, stage, url, firstError, target, redirections, received, requests, asked, results>>

\* Anything else: perhaps it has a JSON-LD alternate.
NotFound(a) ==
    \E alternates \in {Alternates(a)} :
       IF alternates = <<>> THEN RefuseAnswer(a, "InvalidContentType")
       ELSE Redirect(alternates[1]) /\ response' = [answer |-> a]

Answer(a) ==
    /\ step = "sent"
    /\ IF a.status # 200 THEN RefuseAnswer(a, "QueryFailed")
       ELSE \E types \in {Typed(a)} : IF types = <<>> THEN NotFound(a) ELSE Found(a, types)

\* A chunk of the body arrives.
Chunk(n) ==
    /\ step = "body"
    /\ response.answer.length # Endless => received + n <= response.answer.length
    /\ IF Exceeds(received + n) THEN Refuse("TooLarge")
       ELSE /\ received' = IF received + n > MaxReceived THEN MaxReceived ELSE received + n
            /\ UNCHANGED <<call, stage, step, url, firstError, target, redirections, response, requests, asked, results>>

HttpDocument ==
    RemoteDocument(target, response.type.media, response.contextUrl, Profiles(response.type), response.answer.body)

EndOfBody ==
    /\ step = "body"
    /\ received = response.answer.length
    /\ IF response.answer.body = None THEN Refuse("Parse")
       ELSE Arrive(HttpDocument, response.answer) /\ UNCHANGED loader

\* Error::Reqwest: the connection or the transfer fails, or the timeout of the request.
Waiting == step \in {"sent", "body"}
Disconnect == Waiting /\ Refuse("Reqwest")
Timeout == Waiting /\ call.options.timeout /\ Refuse("ReqwestTimeout")

-----------------------------------------------------------------------------
Init ==
    /\ call \in Calls
    /\ stage = "document" /\ step = "refer"
    /\ url = None /\ firstError = None /\ target = None /\ redirections = 0
    /\ response = None /\ received = 0 /\ requests = 0 /\ asked = None
    /\ remote = None /\ served = None /\ context = None /\ error = None /\ objects = None

\* What runs without waiting for anyone.
Code == Refer \/ AskFirst \/ Ask \/ ExpandIt

Server == (\E a \in Answers : Answer(a)) \/ (\E n \in 1..2 : Chunk(n)) \/ EndOfBody \/ Disconnect

Next == Code \/ Server \/ Timeout

\* Weak fairness of Code, whose steps are the only ones where it has something
\* to do, and which there always can: written without ENABLED, which TLC would
\* compute by expanding the document again in every state.
Running == step \in {"first", "ask"} \/ (step = "refer" /\ stage \notin {"done", "failed"})
CodeRuns == []<>~Running \/ []<><<Running>>_vars

Spec == Init /\ [][Next]_vars /\ CodeRuns /\ WF_vars(Timeout)
-----------------------------------------------------------------------------
(* Properties                                                                *)

\* What the server of a response says, before anyone writes or parses a header.
JsonTypesOf(a) == SelectSeq(a.types, LAMBDA t : ~t.broken /\ t.media \in JsonTypes)
LinksOf(a, rel) == SelectSeq(FlattenSeq(a.links), LAMBDA l : l.rel = rel)
ContextsOf(a) == IF JsonTypesOf(a)[1].media = LdJson THEN <<>> ELSE LinksOf(a, ContextLink)
AlternatesOf(a) == SelectSeq(LinksOf(a, AlternateLink), LAMBDA l : l.type = LdJson)
TooLong(length) == length = Endless \/ Exceeds(length)

\* What the parsers read out of headers is what the servers wrote into them, for
\* every answer here: which of its types are JSON, and where its links lead.
SameLinks(read, meant) ==
    /\ Len(meant) \in Nat /\ DOMAIN meant = 1..Len(meant) /\ DOMAIN read = DOMAIN meant
    /\ \A i \in 1..Len(meant) : read[i].href = meant[i].href
SameTypes(read, meant) ==
    /\ read = <<>> <=> meant = <<>>
    /\ read # <<>> => read[1].media = meant[1].media

ASSUME HeadersAssumption ==
    \A a \in Answers :
       /\ SameTypes(Typed(a), JsonTypesOf(a))
       /\ SameLinks(SelectSeq(AllLinks(a), IsContext), LinksOf(a, ContextLink))
       /\ SameLinks(SelectSeq(AllLinks(a), IsAlternate), AlternatesOf(a))

\* A document that came over HTTP has the context its server linked, however the
\* server wrote and grouped its links; JSON-LD never has one, and a document with
\* two is never accepted (reqwest/mod.rs, link.rs).
LinkedContext ==
    served # None =>
        /\ Len(ContextsOf(served)) <= 1
        /\ remote.contextUrl =
              IF ContextsOf(served) = <<>> THEN None ELSE Resolved(ContextsOf(served)[1].href, remote.url)

\* Link headers are followed max_redirections times and not once more, and the
\* loader gives up only after it followed them all (Options::max_redirections).
RedirectionsExact ==
    /\ requests <= call.options.maxRedirections + 1
    /\ stage = "failed" /\ "second" \in DOMAIN error
           => (error.second = "TooManyRedirections" => requests = call.options.maxRedirections + 1)

\* Why the first loader cannot have url, when that does not depend on a file.
FirstSays ==
    CASE call.first.loader = "none" -> {"CannotLoad"}
      [] call.first.loader = "map" -> {"EntryNotFound"}
      [] call.first.loader = "fs" -> IF FilePath(call.first.mounts, url) = None THEN {"NoMountPoint"} ELSE {"IO", "Parse"}

\* What a reason to fail says of the answer that was being read.
Holds(why, a) ==
    /\ why = "QueryFailed" => a.status # 200
    /\ why = "InvalidContentType" => JsonTypesOf(a) = <<>> /\ AlternatesOf(a) = <<>>
    /\ why = "MultipleContextLinkHeaders" => Len(ContextsOf(a)) > 1
    /\ why = "TooLarge" => call.options.maxDocumentSize # None /\ TooLong(a.length)
    /\ why = "Parse" => a.body = None /\ ~TooLong(a.length)

\* Where it went wrong: at the url asked, or at the one more it would not ask.
FailedAt(why, a) == IF why = "TooManyRedirections" THEN Resolved(AlternatesOf(a)[1].href, asked) ELSE asked

\* A failed load tells the truth: what each loader found wrong, at the url where
\* it was wrong after any redirection, and which of the three loads it was; each
\* reason holds of the last response (ChainError, reqwest::Error, ExpandError::code).
FailureExplained ==
    stage = "failed" /\ "second" \in DOMAIN error =>
        /\ error.code = (IF remote = None THEN "LoadingDocumentFailed" ELSE "LoadingRemoteContextFailed")
        /\ error.first \in FirstSays
        /\ error.target = FailedAt(error.second, response.answer)
        /\ Holds(error.second, response.answer)

\* A hung server cannot stall loading indefinitely: with a timeout the call
\* returns, whatever the servers answer or send without end (Options::timeout).
LoadReturns == call.options.timeout => <>(stage \in {"done", "failed"})

=============================================================================
