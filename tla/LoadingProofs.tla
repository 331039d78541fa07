------------------------------ MODULE LoadingProofs ------------------------------
(***************************************************************************)
(* Proofs about Loading: contexts come from the right link, redirections    *)
(* are counted exactly and a failed load is explained, for every server,    *)
(* every chain of loaders and whatever the algorithms do with a document.   *)
(*                                                                         *)
(* The invariant says what the HTTP loader knows at each of its steps: how  *)
(* many redirections its requests amount to, where its target comes from,   *)
(* and what the headers of the response whose body it reads have said.      *)
(***************************************************************************)
EXTENDS Loading, TLAPS

\* None is no document: neither of the records a load gives.
NoneIsNoDocument == \A from, type, contextUrl, profile, document :
                       RemoteDocument(from, type, contextUrl, profile, document) # None

-----------------------------------------------------------------------------
(* What the headers of an answer are read as                                 *)

LEMMA TypesRead ==
    ASSUME NEW a \in Answers
    PROVE  SameTypes(Typed(a), JsonTypesOf(a))
  BY HeadersAssumption

\* The targets of links that were read: as many as were meant, the first of them
\* where the first one meant leads.
LEMMA TargetsRead ==
    ASSUME NEW read, NEW meant, SameLinks(read, meant)
    PROVE  /\ Len(meant) \in Nat /\ Len(Targets(read)) = Len(meant)
           /\ Targets(read) = <<>> <=> meant = <<>>
           /\ Targets(read) # <<>> => Targets(read)[1] = Resolved(meant[1].href, target)
<1> DEFINE n == Len(meant)
<1>1. n \in Nat /\ DOMAIN meant = 1..n /\ DOMAIN read = 1..n
  BY DEF SameLinks
<1>2. DOMAIN Targets(read) = 1..n
  BY <1>1 DEF Targets
<1>3. Len(Targets(read)) = n
  BY <1>1 DEF Targets
<1>4. Targets(read) = <<>> <=> n = 0
  <2>1. n = 0 => Targets(read) = <<>>
    BY <1>1 DEF Targets
  <2>2. Targets(read) = <<>> => 1..n = {}
    BY <1>2
  <2> QED
    BY <2>1, <2>2, <1>1
<1>5. meant = <<>> <=> n = 0
  BY <1>1
<1>6. n # 0 => Targets(read)[1] = Resolved(read[1].href, target)
  BY <1>1 DEF Targets
<1>7. n # 0 => read[1].href = meant[1].href
  BY <1>1 DEF SameLinks
<1> QED
  BY <1>1, <1>3, <1>4, <1>5, <1>6, <1>7

LEMMA AlternatesRead ==
    ASSUME NEW a \in Answers
    PROVE  /\ Alternates(a) = <<>> <=> AlternatesOf(a) = <<>>
           /\ Alternates(a) # <<>> => Alternates(a)[1] = Resolved(AlternatesOf(a)[1].href, target)
<1>1. SameLinks(SelectSeq(AllLinks(a), IsAlternate), AlternatesOf(a))
  BY HeadersAssumption
<1> QED
  BY <1>1, TargetsRead DEF Alternates

\* The contexts of a JSON document.
LEMMA ContextsRead ==
    ASSUME NEW a \in Answers, Typed(a) # <<>>
    PROVE  LET contexts == ContextsFor(a, Typed(a))
           IN  /\ Len(ContextsOf(a)) \in Nat /\ Len(contexts) = Len(ContextsOf(a))
               /\ contexts = <<>> <=> ContextsOf(a) = <<>>
               /\ contexts # <<>> => contexts[1] = Resolved(ContextsOf(a)[1].href, target)
<1>1. Typed(a)[1].media = JsonTypesOf(a)[1].media
  BY TypesRead DEF SameTypes
<1>2. SameLinks(SelectSeq(AllLinks(a), IsContext), LinksOf(a, ContextLink))
  BY HeadersAssumption
<1>3. CASE Typed(a)[1].media = LdJson
  BY <1>1, <1>3 DEF ContextsFor, ContextsOf
<1>4. CASE Typed(a)[1].media # LdJson
  BY <1>1, <1>2, <1>4, TargetsRead DEF ContextsFor, ContextsOf, ContextLinks
<1> QED
  BY <1>3, <1>4

-----------------------------------------------------------------------------
(* The invariant                                                             *)

Loads == {"document", "expandContext", "linkedContext"}

\* The loader is at work only during a load, and the document is there after the
\* first of them.
Control ==
    /\ call \in Calls
    /\ stage \in Loads \cup {"expansion", "done", "failed"}
    /\ step \in {"refer", "first", "ask", "sent", "body"}
    /\ step # "refer" => stage \in Loads
    /\ stage = "document" => remote = None
    /\ stage \in {"expandContext", "linkedContext", "expansion"} => remote # None

\* Every request but the first is for a redirection.
Counted ==
    /\ redirections \in Nat /\ requests \in Nat
    /\ requests <= call.options.maxRedirections + 1
    /\ step = "first" => requests = 0 /\ redirections = 0
    /\ step = "ask" => requests = redirections
    /\ step \in {"sent", "body"} => requests = redirections + 1
    /\ step = "sent" => received = 0

FirstFailed == step \in {"ask", "sent", "body"} => firstError \in FirstSays

\* The target is where the alternate of the last response leads, until it is asked.
Targeted ==
    /\ step = "ask" /\ requests > 0 => target = Resolved(AlternatesOf(response.answer)[1].href, asked)
    /\ step \in {"sent", "body"} => target = asked

\* The response whose body is read was accepted for what its headers say.
Accepted ==
    step = "body" =>
        LET a == response.answer
        IN  /\ a \in Answers
            /\ Len(ContextsOf(a)) <= 1
            /\ response.contextUrl =
                  IF ContextsOf(a) = <<>> THEN None ELSE Resolved(ContextsOf(a)[1].href, target)
            /\ received \in Nat /\ ~Exceeds(received)

IInv ==
    /\ Control /\ Counted /\ FirstFailed /\ Targeted /\ Accepted
    /\ LinkedContext /\ RedirectionsExact /\ FailureExplained

-----------------------------------------------------------------------------
(* What the steps have in common                                             *)

\* A load is over, well or not, and no loader is to blame if not.
Over ==
    /\ step' = "refer" /\ call' = call
    /\ stage' \in {"expandContext", "linkedContext", "expansion", "done", "failed"}
    /\ stage' = "failed" => "second" \notin DOMAIN error'

LEMMA DocumentEntered ==
    ASSUME NEW d, NEW from, EnterDocument(d, from)
    PROVE  Over /\ remote' = d /\ served' = from
  BY DEF EnterDocument, Over, Following

LEMMA ContextEntered ==
    ASSUME NEW read, EnterContext(read), stage \in Loads \ {"document"}
    PROVE  Over /\ remote' = remote /\ served' = served
<1> DEFINE Success(c) ==
        /\ context' = c.ctx
        /\ stage' = Following(stage, remote) /\ step' = "refer"
        /\ UNCHANGED <<call, remote, served, error, objects>>
<1>1. PICK c : Success(c) \/ Give([code |-> c.error])
  BY DEF EnterContext
<1>2. CASE Success(c)
  BY <1>2 DEF Over, Following, Loads
<1>3. CASE Give([code |-> c.error])
  BY <1>3 DEF Over, Give
<1> QED
  BY <1>1, <1>2, <1>3

\* After a load the loader waits for the next, and nothing more is known of it.
LEMMA OverKeeps ==
    ASSUME IInv, Over, LinkedContext', remote' # None,
           requests' \in Nat, redirections' \in Nat, requests' <= call.options.maxRedirections + 1
    PROVE  IInv'
<1>1. Control'
  BY DEF IInv, Control, Over, Loads
<1>2. Counted'
  BY DEF IInv, Counted, Over
<1>3. FirstFailed' /\ Targeted' /\ Accepted'
  BY DEF FirstFailed, Targeted, Accepted, Over
<1>4. RedirectionsExact' /\ FailureExplained'
  BY DEF RedirectionsExact, FailureExplained, Over
<1> QED
  BY <1>1, <1>2, <1>3, <1>4 DEF IInv

\* A loader that gives up with a reason that holds.
LEMMA RefusedKeeps ==
    ASSUME IInv, step \in {"ask", "sent", "body"}, NEW source,
           Give(LoadErrorAt(target, source)),
           UNCHANGED <<url, firstError, redirections, requests, asked>>,
           target = FailedAt(source, response'.answer),
           Holds(source, response'.answer),
           source = "TooManyRedirections" => requests = call.options.maxRedirections + 1
    PROVE  IInv'
<1> DEFINE e == LoadErrorAt(target, source)
<1>1. /\ stage' = "failed" /\ step' = "refer" /\ error' = e
      /\ UNCHANGED <<call, remote, served>>
  BY DEF Give
<1>2. /\ e.code = CodeOf(stage) /\ e.target = target /\ e.first = firstError /\ e.second = source
  BY DEF LoadErrorAt
<1>3. Control'
  BY <1>1 DEF IInv, Control, Loads
<1>4. Counted'
  BY <1>1 DEF IInv, Counted
<1>5. FirstFailed' /\ Targeted' /\ Accepted'
  BY <1>1 DEF FirstFailed, Targeted, Accepted
<1>6. LinkedContext'
  BY <1>1 DEF IInv, LinkedContext
<1>7. RedirectionsExact'
  BY <1>1, <1>2 DEF IInv, RedirectionsExact
<1>8. FailureExplained'
  <2>1. CodeOf(stage) = IF remote = None THEN "LoadingDocumentFailed" ELSE "LoadingRemoteContextFailed"
    BY DEF IInv, Control, Loads, CodeOf
  <2>2. firstError \in FirstSays /\ FirstSays' = FirstSays
    BY <1>1 DEF IInv, FirstFailed, FirstSays
  <2>3. FailedAt(source, response.answer)' = FailedAt(source, response'.answer)
    BY DEF FailedAt
  <2>4. Holds(source, response.answer)' = Holds(source, response'.answer)
    BY <1>1 DEF Holds, TooLong, Exceeds
  <2> QED
    BY <1>1, <1>2, <2>1, <2>2, <2>3, <2>4 DEF FailureExplained
<1> QED
  BY <1>3, <1>4, <1>5, <1>6, <1>7, <1>8 DEF IInv

-----------------------------------------------------------------------------
(* The steps of the code                                                     *)

LEMMA InitKeeps == ASSUME Init PROVE IInv
<1>1. Control /\ Counted
  BY LoadingAssumption DEF Init, Control, Counted, Loads
<1>2. FirstFailed /\ Targeted /\ Accepted
  BY DEF Init, FirstFailed, Targeted, Accepted
<1>3. LinkedContext /\ RedirectionsExact /\ FailureExplained
  BY LoadingAssumption DEF Init, LinkedContext, RedirectionsExact, FailureExplained
<1> QED
  BY <1>1, <1>2, <1>3 DEF IInv

LEMMA ReferKeeps == ASSUME NoneIsNoDocument, IInv, Refer PROVE IInv'
<1> DEFINE r == ReferenceOf(stage)
<1>1. call \in Calls /\ stage \in Loads /\ step = "refer"
  BY DEF Refer, IInv, Control, Loads
<1>2. CASE r.reference = "iri"
  <2>1. /\ step' = "first" /\ requests' = 0 /\ redirections' = 0
        /\ UNCHANGED <<call, stage, remote, served, error>>
    BY <1>2 DEF Refer, results
  <2>2. call.options.maxRedirections \in Nat
    BY <1>1, LoadingAssumption
  <2>3. Control' /\ Counted'
    BY <1>1, <2>1, <2>2 DEF IInv, Control, Counted
  <2>4. FirstFailed' /\ Targeted' /\ Accepted'
    BY <2>1 DEF FirstFailed, Targeted, Accepted
  <2>5. LinkedContext'
    BY <2>1 DEF IInv, LinkedContext
  <2>6. RedirectionsExact' /\ FailureExplained'
    BY <1>1, <2>1, <2>2 DEF RedirectionsExact, FailureExplained, Loads
  <2> QED
    BY <2>3, <2>4, <2>5, <2>6 DEF IInv
<1>3. CASE r.reference # "iri" /\ stage = "document"
  <2>1. EnterDocument(call.document.document, None) /\ UNCHANGED loader
    BY <1>3 DEF Refer, ReferenceOf
  <2>2. call.document.document # None
    BY <1>1, <1>3, LoadingAssumption DEF ReferenceOf
  <2> QED
    BY <2>1, <2>2, DocumentEntered, OverKeeps DEF IInv, Counted, LinkedContext, loader
<1>4. CASE r.reference # "iri" /\ stage # "document"
  <2>1. EnterContext(Given(r.document.document)) /\ UNCHANGED loader
    BY <1>4 DEF Refer
  <2>2. Over /\ remote' = remote /\ served' = served
    BY <1>1, <1>4, <2>1, ContextEntered
  <2>3. remote # None
    BY <1>1, <1>4 DEF IInv, Control, Loads
  <2> QED
    BY <2>1, <2>2, <2>3, OverKeeps DEF IInv, Counted, LinkedContext, loader
<1> QED
  BY <1>2, <1>3, <1>4

LEMMA ExpandKeeps == ASSUME IInv, ExpandIt PROVE IInv'
<1>1. step = "refer"
  BY DEF ExpandIt, IInv, Control, Loads
<1> DEFINE Success(e) ==
        /\ stage' = "done" /\ objects' = e.objects
        /\ UNCHANGED <<call, step, remote, served, context, error>>
<1>2. PICK e : Success(e) \/ Give([code |-> e.error])
  BY DEF ExpandIt
<1>3. Over /\ UNCHANGED <<remote, served>>
  BY <1>1, <1>2 DEF Give, Over
<1>4. remote # None /\ UNCHANGED <<requests, redirections>>
  BY DEF ExpandIt, IInv, Control, Loads, loader
<1> QED
  BY <1>3, <1>4, OverKeeps DEF IInv, Counted, LinkedContext

-----------------------------------------------------------------------------
(* The first loader                                                          *)

LEMMA FirstFailsKeeps ==
    ASSUME IInv, step = "first", NEW e \in FirstSays, FirstFails(e)
    PROVE  IInv'
<1>1. /\ step' = "ask" /\ firstError' = e
      /\ UNCHANGED <<call, stage, url, redirections, requests, remote, served, error>>
  BY DEF FirstFails, results
<1>2. stage \in Loads
  BY DEF IInv, Control
<1>3. Control' /\ Counted'
  BY <1>1, <1>2 DEF IInv, Control, Counted
<1>4. FirstFailed'
  BY <1>1 DEF FirstFailed, FirstSays
<1>5. Targeted' /\ Accepted'
  BY <1>1 DEF IInv, Counted, Targeted, Accepted
<1>6. LinkedContext'
  BY <1>1 DEF IInv, LinkedContext
<1>7. RedirectionsExact' /\ FailureExplained'
  BY <1>1, <1>2 DEF IInv, RedirectionsExact, FailureExplained, Loads
<1> QED
  BY <1>3, <1>4, <1>5, <1>6, <1>7 DEF IInv

\* A document arrives, from a server if `from` is an answer.
LEMMA ArriveKeeps ==
    ASSUME IInv, NEW d, NEW from, Arrive(d, from), UNCHANGED loader,
           stage \in Loads, d # None,
           from # None =>
              /\ Len(ContextsOf(from)) <= 1
              /\ d.contextUrl = IF ContextsOf(from) = <<>> THEN None ELSE Resolved(ContextsOf(from)[1].href, d.url)
    PROVE  IInv'
<1>1. UNCHANGED <<requests, redirections>>
  BY DEF loader
<1>2. CASE stage = "document"
  <2>1. Over /\ remote' = d /\ served' = from
    BY <1>2, DocumentEntered DEF Arrive
  <2> QED
    BY <1>1, <2>1, OverKeeps DEF IInv, Counted, LinkedContext
<1>3. CASE stage # "document"
  <2>1. EnterContext(Extract(d.document))
    BY <1>3 DEF Arrive
  <2>2. Over /\ remote' = remote /\ served' = served
    BY <1>3, <2>1, ContextEntered
  <2>3. remote # None
    BY <1>3 DEF IInv, Control, Loads
  <2> QED
    BY <1>1, <2>2, <2>3, OverKeeps DEF IInv, Counted, LinkedContext
<1> QED
  BY <1>2, <1>3

LEMMA AskFirstKeeps == ASSUME NoneIsNoDocument, IInv, AskFirst PROVE IInv'
<1>1. step = "first" /\ stage \in Loads /\ call.first.loader \in {"none", "map", "fs"}
  BY LoadingAssumption DEF AskFirst, IInv, Control
<1>2. ASSUME NEW document, FirstGives(document)
      PROVE  IInv'
  BY <1>1, <1>2, ArriveKeeps DEF FirstGives, PlainDocument, NoneIsNoDocument
<1>3. CASE call.first.loader = "none"
  BY <1>1, <1>3, FirstFailsKeeps DEF AskFirst, FirstSays
<1>4. CASE call.first.loader = "map"
  <2>1. "EntryNotFound" \in FirstSays
    BY <1>4 DEF FirstSays
  <2> QED
    BY <1>1, <1>2, <1>4, <2>1, FirstFailsKeeps DEF AskFirst
<1>5. CASE call.first.loader = "fs"
  <2>1. LoadFile
    BY <1>5 DEF AskFirst
  <2>2. CASE FilePath(call.first.mounts, url) = None
    BY <1>1, <1>5, <2>1, <2>2, FirstFailsKeeps DEF LoadFile, FirstSays
  <2>3. CASE FilePath(call.first.mounts, url) # None
    <3>1. "IO" \in FirstSays /\ "Parse" \in FirstSays
      BY <1>5, <2>3 DEF FirstSays
    <3>2. FirstFails("IO") \/ FirstFails("Parse") \/ \E content : FirstGives(content)
      BY <2>1, <2>3 DEF LoadFile
    <3> QED
      BY <1>1, <1>2, <3>1, <3>2, FirstFailsKeeps
  <2> QED
    BY <2>2, <2>3
<1> QED
  BY <1>1, <1>3, <1>4, <1>5

-----------------------------------------------------------------------------
(* The HTTP loader                                                           *)

\* A size limit, where there is one, is a number.
LEMMA Limits ==
    ASSUME IInv
    PROVE  /\ call.options.maxRedirections \in Nat
           /\ call.options.maxDocumentSize # None => call.options.maxDocumentSize \in Nat
<1>1. call \in Calls
  BY DEF IInv, Control
<1>2. /\ call.options.maxRedirections \in Nat
      /\ call.options.maxDocumentSize \in {None} \cup 0..MaxReceived - 1
  BY <1>1, LoadingAssumption
<1> QED
  BY <1>2

\* A step of the loader that ends nothing.
LEMMA GoesOn ==
    ASSUME IInv, step \in {"ask", "sent", "body"}, UNCHANGED <<call, stage, url, firstError, results>>,
           step' \in {"ask", "sent", "body"},
           Counted', Targeted', Accepted'
    PROVE  IInv'
<1>1. UNCHANGED <<remote, served, error>> /\ stage \in Loads
  BY DEF IInv, Control, results
<1>2. Control'
  BY <1>1 DEF IInv, Control
<1>3. FirstFailed'
  BY DEF IInv, FirstFailed, FirstSays
<1>4. LinkedContext'
  BY <1>1 DEF IInv, LinkedContext
<1>5. RedirectionsExact' /\ FailureExplained'
  BY <1>1 DEF RedirectionsExact, FailureExplained, Counted, Loads
<1> QED
  BY <1>2, <1>3, <1>4, <1>5 DEF IInv

LEMMA AskKeeps == ASSUME IInv, Ask PROVE IInv'
<1> DEFINE max == call.options.maxRedirections
<1>1. max \in Nat /\ redirections \in Nat /\ requests = redirections /\ step = "ask"
  BY Limits DEF Ask, IInv, Counted
<1>2. CASE redirections > max
  <2>1. Give(LoadErrorAt(target, "TooManyRedirections")) /\ UNCHANGED loader
    BY <1>2 DEF Ask, TooMany, Refuse
  <2>2. requests = max + 1
    BY <1>1, <1>2 DEF IInv, Counted
  <2>3. target = FailedAt("TooManyRedirections", response'.answer)
    BY <1>1, <2>1, <2>2 DEF IInv, Targeted, FailedAt, loader
  <2>4. Holds("TooManyRedirections", response'.answer)
    BY DEF Holds
  <2> QED
    BY <1>1, <2>1, <2>2, <2>3, <2>4, RefusedKeeps DEF loader
<1>3. CASE ~(redirections > max)
  <2>1. /\ step' = "sent" /\ asked' = target
        /\ requests' = IF requests < RequestsCounted THEN requests + 1 ELSE requests
        /\ received' = 0
        /\ UNCHANGED <<call, stage, url, firstError, target, redirections, results>>
    BY <1>3 DEF Ask, TooMany
  <2>2. requests' = requests + 1 /\ requests' <= max + 1
    BY <1>1, <1>3, <2>1 DEF RequestsCounted
  <2>3. Counted'
    BY <1>1, <2>1, <2>2 DEF Counted
  <2>4. Targeted' /\ Accepted'
    BY <2>1 DEF Targeted, Accepted
  <2> QED
    BY <1>1, <2>1, <2>3, <2>4, GoesOn
<1> QED
  BY <1>2, <1>3

LEMMA RefuseAnswerKeeps ==
    ASSUME IInv, step = "sent", NEW a, NEW source, RefuseAnswer(a, source),
           source # "TooManyRedirections", Holds(source, a)
    PROVE  IInv'
<1>1. /\ Give(LoadErrorAt(target, source)) /\ response'.answer = a
      /\ UNCHANGED <<url, firstError, redirections, requests, asked>>
  BY DEF RefuseAnswer
<1>2. target = FailedAt(source, response'.answer)
  BY DEF IInv, Targeted, FailedAt
<1> QED
  BY <1>1, <1>2, RefusedKeeps

LEMMA FoundKeeps ==
    ASSUME IInv, step = "sent", NEW a \in Answers, Typed(a) # <<>>, Found(a, Typed(a))
    PROVE  IInv'
<1> DEFINE contexts == ContextsFor(a, Typed(a))
<1>1. /\ Len(ContextsOf(a)) \in Nat /\ Len(contexts) = Len(ContextsOf(a))
      /\ contexts = <<>> <=> ContextsOf(a) = <<>>
      /\ contexts # <<>> => contexts[1] = Resolved(ContextsOf(a)[1].href, target)
  BY ContextsRead
<1> HIDE DEF contexts
<1>2. CASE Len(contexts) > 1
  <2>1. RefuseAnswer(a, "MultipleContextLinkHeaders")
    BY <1>2 DEF Found, contexts
  <2>2. Holds("MultipleContextLinkHeaders", a)
    BY <1>1, <1>2 DEF Holds
  <2> QED
    BY <2>1, <2>2, RefuseAnswerKeeps
<1>3. CASE ~(Len(contexts) > 1) /\ Exceeds(DeclaredLength(a))
  <2>1. RefuseAnswer(a, "TooLarge")
    BY <1>3 DEF Found, contexts
  <2>2. call.options.maxDocumentSize # None /\ TooLong(a.length)
    BY <1>3, Limits DEF Exceeds, DeclaredLength, TooLong
  <2>3. Holds("TooLarge", a)
    BY <2>2 DEF Holds
  <2> QED
    BY <2>1, <2>3, RefuseAnswerKeeps
<1>4. CASE ~(Len(contexts) > 1) /\ ~Exceeds(DeclaredLength(a))
  <2>1. /\ response' = Keep(a, contexts, Typed(a)) /\ step' = "body"
        /\ UNCHANGED <<call, stage, url, firstError, target, redirections, received, requests, asked, results>>
    BY <1>4 DEF Found, contexts
  <2>2. response'.answer = a /\ response'.contextUrl = IF contexts = <<>> THEN None ELSE contexts[1]
    BY <2>1 DEF Keep
  <2>3. Counted' /\ Targeted'
    BY <2>1 DEF IInv, Counted, Targeted
  <2>4. received = 0 /\ ~Exceeds(received)
    BY Limits DEF IInv, Counted, Exceeds
  <2>5. Accepted'
    BY <1>1, <1>4, <2>1, <2>2, <2>4 DEF Accepted, Exceeds
  <2> QED
    BY <2>1, <2>3, <2>5, GoesOn
<1> QED
  BY <1>2, <1>3, <1>4

LEMMA AnswerKeeps == ASSUME IInv, NEW a \in Answers, Answer(a) PROVE IInv'
<1>1. step = "sent"
  BY DEF Answer
<1>2. CASE a.status # 200
  <2>1. RefuseAnswer(a, "QueryFailed") /\ Holds("QueryFailed", a)
    BY <1>2 DEF Answer, Holds
  <2> QED
    BY <1>1, <2>1, RefuseAnswerKeeps
<1>3. CASE a.status = 200 /\ Typed(a) # <<>>
  <2>1. Found(a, Typed(a))
    BY <1>3 DEF Answer
  <2> QED
    BY <1>1, <1>3, <2>1, FoundKeeps
<1>4. CASE a.status = 200 /\ Typed(a) = <<>>
  <2>1. NotFound(a)
    BY <1>4 DEF Answer
  <2>2. /\ Alternates(a) = <<>> <=> AlternatesOf(a) = <<>>
        /\ Alternates(a) # <<>> => Alternates(a)[1] = Resolved(AlternatesOf(a)[1].href, target)
    BY AlternatesRead
  <2>3. CASE Alternates(a) = <<>>
    <3>1. RefuseAnswer(a, "InvalidContentType")
      BY <2>1, <2>3 DEF NotFound
    <3>2. JsonTypesOf(a) = <<>>
      BY <1>4, TypesRead DEF SameTypes
    <3>3. Holds("InvalidContentType", a)
      BY <2>2, <2>3, <3>2 DEF Holds
    <3> QED
      BY <1>1, <3>1, <3>3, RefuseAnswerKeeps
  <2>4. CASE Alternates(a) # <<>>
    <3>1. Redirect(Alternates(a)[1]) /\ response'.answer = a
      BY <2>1, <2>4 DEF NotFound
    <3>2. /\ target' = Alternates(a)[1] /\ step' = "ask" /\ redirections' = redirections + 1
          /\ UNCHANGED <<call, stage, url, firstError, received, requests, asked, results>>
      BY <3>1 DEF Redirect
    <3>3. Counted'
      BY <1>1, <3>2 DEF IInv, Counted
    <3>4. Alternates(a)[1] = Resolved(AlternatesOf(a)[1].href, asked)
      BY <1>1, <2>2, <2>4 DEF IInv, Targeted
    <3>5. Targeted' /\ Accepted'
      BY <3>1, <3>2, <3>4 DEF Targeted, Accepted
    <3> QED
      BY <1>1, <3>2, <3>3, <3>5, GoesOn
  <2> QED
    BY <2>3, <2>4
<1> QED
  BY <1>2, <1>3, <1>4

\* A reason that speaks only of the response whose body is read.
LEMMA RefuseKeeps ==
    ASSUME IInv, step \in {"sent", "body"}, NEW source, Refuse(source),
           source # "TooManyRedirections", Holds(source, response.answer)
    PROVE  IInv'
<1>1. /\ Give(LoadErrorAt(target, source)) /\ response' = response
      /\ UNCHANGED <<url, firstError, redirections, requests, asked>>
  BY DEF Refuse, loader
<1>2. target = FailedAt(source, response'.answer)
  BY DEF IInv, Targeted, FailedAt
<1> QED
  BY <1>1, <1>2, RefusedKeeps

LEMMA ChunkKeeps == ASSUME IInv, NEW n \in 1..2, Chunk(n) PROVE IInv'
<1> DEFINE a == response.answer
<1>1. /\ step = "body" /\ a \in Answers /\ received \in Nat /\ ~Exceeds(received)
      /\ a.length # Endless => received + n <= a.length
  BY DEF Chunk, IInv, Accepted
<1>2. a.length \in Nat \cup {Endless}
  BY <1>1, LoadingAssumption
<1>3. CASE Exceeds(received + n)
  <2>1. Refuse("TooLarge")
    BY <1>3 DEF Chunk
  <2>2. call.options.maxDocumentSize # None /\ TooLong(a.length)
    BY <1>1, <1>2, <1>3, Limits DEF Exceeds, TooLong
  <2>3. Holds("TooLarge", a)
    BY <2>2 DEF Holds
  <2> QED
    BY <1>1, <2>1, <2>3, RefuseKeeps
<1>4. CASE ~Exceeds(received + n)
  <2>1. /\ received' = IF received + n > MaxReceived THEN MaxReceived ELSE received + n
        /\ UNCHANGED <<call, stage, step, url, firstError, target, redirections, response, requests, asked, results>>
    BY <1>4 DEF Chunk
  <2>2. received' \in Nat /\ received' <= received + n
    BY <1>1, <2>1, LoadingAssumption
  <2>3. ~Exceeds(received')
    BY <1>1, <1>4, <2>2, Limits DEF Exceeds
  <2>4. Counted' /\ Targeted'
    BY <1>1, <2>1 DEF IInv, Counted, Targeted
  <2>5. Accepted'
    BY <1>1, <2>1, <2>2, <2>3 DEF IInv, Accepted, Exceeds
  <2> QED
    BY <1>1, <2>1, <2>4, <2>5, GoesOn
<1> QED
  BY <1>3, <1>4

LEMMA EndOfBodyKeeps == ASSUME NoneIsNoDocument, IInv, EndOfBody PROVE IInv'
<1> DEFINE a == response.answer
<1>1. /\ step = "body" /\ stage \in Loads /\ a \in Answers
      /\ received \in Nat /\ ~Exceeds(received) /\ a.length = received
  BY DEF EndOfBody, IInv, Control, Accepted
<1>2. CASE a.body = None
  <2>1. ~TooLong(a.length)
    BY <1>1, LoadingAssumption DEF TooLong
  <2>2. Refuse("Parse") /\ Holds("Parse", a)
    BY <1>2, <2>1 DEF EndOfBody, Holds
  <2> QED
    BY <1>1, <2>2, RefuseKeeps
<1>3. CASE a.body # None
  <2>1. Arrive(HttpDocument, a) /\ UNCHANGED loader
    BY <1>3 DEF EndOfBody
  <2>2. HttpDocument # None /\ HttpDocument.url = target /\ HttpDocument.contextUrl = response.contextUrl
    BY DEF NoneIsNoDocument, HttpDocument, RemoteDocument
  <2>3. /\ Len(ContextsOf(a)) <= 1
        /\ HttpDocument.contextUrl =
              IF ContextsOf(a) = <<>> THEN None ELSE Resolved(ContextsOf(a)[1].href, HttpDocument.url)
    BY <1>1, <2>2 DEF IInv, Accepted
  <2> QED
    BY <1>1, <2>1, <2>2, <2>3, ArriveKeeps
<1> QED
  BY <1>2, <1>3

\* The connection breaks, or the time is up.
LEMMA BreakKeeps ==
    ASSUME IInv, NEW source \in {"Reqwest", "ReqwestTimeout"}, Waiting, Refuse(source)
    PROVE  IInv'
<1>1. Holds(source, response.answer)
  BY DEF Holds
<1> QED
  BY <1>1, RefuseKeeps DEF Waiting

-----------------------------------------------------------------------------
(* Theorems                                                                  *)

LEMMA StutterKeeps == ASSUME IInv, UNCHANGED vars PROVE IInv'
<1>1. Control' /\ Counted'
  BY DEF vars, loader, results, IInv, Control, Counted
<1>2. FirstFailed' /\ Targeted' /\ Accepted'
  BY DEF vars, loader, results, IInv, FirstFailed, FirstSays, Targeted, Accepted, Exceeds
<1>3. LinkedContext' /\ RedirectionsExact'
  BY DEF vars, loader, results, IInv, LinkedContext, RedirectionsExact
<1>4. FailureExplained'
  BY DEF vars, loader, results, IInv, FailureExplained, FirstSays, FailedAt, Holds, TooLong, Exceeds
<1> QED
  BY <1>1, <1>2, <1>3, <1>4 DEF IInv

LEMMA NextKeeps == ASSUME NoneIsNoDocument, IInv, [Next]_vars PROVE IInv'
<1>1. CASE Code
  BY <1>1, ReferKeeps, AskFirstKeeps, AskKeeps, ExpandKeeps DEF Code
<1>2. CASE Server
  BY <1>2, AnswerKeeps, ChunkKeeps, EndOfBodyKeeps, BreakKeeps DEF Server, Disconnect
<1>3. CASE Timeout
  BY <1>3, BreakKeeps DEF Timeout
<1>4. CASE UNCHANGED vars
  BY <1>4, StutterKeeps
<1> QED
  BY <1>1, <1>2, <1>3, <1>4 DEF Next

\* The invariant holds of every call, for every server.
THEOREM LoadingInvariant == NoneIsNoDocument => (Spec => []IInv)
<1> SUFFICES ASSUME NoneIsNoDocument PROVE Spec => []IInv
  OBVIOUS
<1>1. Init => IInv
  BY InitKeeps
<1>2. IInv /\ [Next]_vars => IInv'
  BY NextKeeps
<1> QED
  BY <1>1, <1>2, PTL DEF Spec

\* A document that came over HTTP has exactly the context its server linked.
THEOREM ContextsLinked == NoneIsNoDocument => (Spec => []LinkedContext)
<1>1. IInv => LinkedContext
  BY DEF IInv
<1> QED
  BY <1>1, LoadingInvariant, PTL

\* max_redirections links are followed, and the loader gives up only after them.
THEOREM RedirectionsCounted == NoneIsNoDocument => (Spec => []RedirectionsExact)
<1>1. IInv => RedirectionsExact
  BY DEF IInv
<1> QED
  BY <1>1, LoadingInvariant, PTL

\* An error says which load failed, where, and why each loader could not.
THEOREM FailuresExplained == NoneIsNoDocument => (Spec => []FailureExplained)
<1>1. IInv => FailureExplained
  BY DEF IInv
<1> QED
  BY <1>1, LoadingInvariant, PTL

=============================================================================
