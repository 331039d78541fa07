------------------------------- MODULE HttpHeaders -------------------------------
(***************************************************************************)
(* The header parsers of the HTTP loader (jsonld-core/src/loader/reqwest): *)
(* Link::parse_header (link.rs) and ContentType::new (content_type.rs),    *)
(* state machines that read a header one byte at a time.                   *)
(*                                                                         *)
(* A header is a sequence of bytes; a word without any byte the parsers    *)
(* distinguish stands as one byte.                                         *)
(***************************************************************************)
EXTENDS JsonLd

EndOfHeader == "end"
Quote == "\""
Escape == "\\"

NoParams == [k \in {} |-> <<>>]
Parser(state) ==
    [state |-> state, text |-> <<>>, key |-> <<>>, value |-> <<>>, params |-> NoParams, links |-> <<>>]

Goto(p, state) == [p EXCEPT !.state = state]
Stop(p) == Goto(p, "Stopped")

\* The loop of a parser: one byte after the other until it breaks.
Run(Step(_, _), p, bytes) ==
    FoldLeft(LAMBDA q, b : IF q.state \in {"Stopped", "Refused"} THEN q ELSE Step(q, b), p, bytes)

PushText(p, b) == [p EXCEPT !.text = Append(@, b)]
PushKey(p, b) == [Goto(p, "Key") EXCEPT !.key = Append(@, b)]
PushValue(p, b, state) == [Goto(p, state) EXCEPT !.value = Append(@, b)]

\* params.insert: a parameter given again replaces the one before.
StoreParam(p) == [p EXCEPT !.params = (p.key :> p.value) @@ @, !.key = <<>>, !.value = <<>>]

-----------------------------------------------------------------------------
(* Link.  `text` is the href.                                                *)

\* A link whose href is no IRI reference is left out, its parameters stay.
FinishLink(p) ==
    IF IsIriRef(p.text)
    THEN [p EXCEPT !.links = Append(@, [href |-> p.text, params |-> p.params]), !.text = <<>>, !.params = NoParams]
    ELSE [p EXCEPT !.text = <<>>]

BetweenLinks(p, b) ==
    CASE b \in {" ", ","} -> p
      [] b = "<" -> Goto(p, "Href")
      [] OTHER -> Stop(p)

InHref(p, b) ==
    CASE b = ">" -> Goto(p, "NextParam")
      [] b = EndOfHeader -> Stop(p)
      [] OTHER -> PushText(p, b)

\* After a parameter: the next one, the next link, or the end.
AfterParam(p, b) ==
    CASE b = ";" -> Goto(p, "BeginKey")
      [] b = "," -> Goto(FinishLink(p), "BeginHref")
      [] b = EndOfHeader -> Stop(FinishLink(p))

NextParam(p, b) ==
    IF b = " " THEN p ELSE IF b \in {";", ",", EndOfHeader} THEN AfterParam(p, b) ELSE Stop(p)

BeginKey(p, b) ==
    IF b = " " THEN p ELSE IF b \in {",", EndOfHeader} THEN AfterParam(p, b) ELSE PushKey(p, b)

InKey(p, b) ==
    CASE b = "=" -> Goto(p, "BeginValue")
      [] b \in {";", ",", EndOfHeader} -> AfterParam(StoreParam(p), b)
      [] OTHER -> PushKey(p, b)

BeginValue(p, b) ==
    CASE b = Quote -> Goto(p, "QuotedValue")
      [] b = EndOfHeader -> AfterParam(StoreParam(p), b)
      [] OTHER -> PushValue(p, b, "Value")

InQuotedValue(p, b) ==
    CASE b = Quote -> Goto(StoreParam(p), "NextParam")
      [] b = Escape -> Goto(p, "Escaped")
      [] b = EndOfHeader -> Stop(p)
      [] OTHER -> PushValue(p, b, "QuotedValue")

InValue(p, b) ==
    CASE b \in {";", ",", EndOfHeader} -> AfterParam(StoreParam(p), b)
      [] b = " " -> Goto(StoreParam(p), "NextParam")
      [] OTHER -> PushValue(p, b, "Value")

LinkStep(p, b) ==
    CASE p.state = "BeginHref" -> BetweenLinks(p, b)
      [] p.state = "Href" -> InHref(p, b)
      [] p.state = "NextParam" -> NextParam(p, b)
      [] p.state = "BeginKey" -> BeginKey(p, b)
      [] p.state = "Key" -> InKey(p, b)
      [] p.state = "BeginValue" -> BeginValue(p, b)
      [] p.state = "QuotedValue" -> InQuotedValue(p, b)
      [] p.state = "Escaped" -> IF b = EndOfHeader THEN Stop(p) ELSE PushValue(p, b, "QuotedValue")
      [] p.state = "Value" -> InValue(p, b)

ParseHeader(bytes) == Run(LinkStep, Parser("BeginHref"), Append(bytes, EndOfHeader)).links

Param(parsed, name) == IF name \in DOMAIN parsed.params THEN parsed.params[name] ELSE None
Rel(link) == Param(link, <<"rel">>)
LinkType(link) == Param(link, <<"type">>)

-----------------------------------------------------------------------------
(* Content-Type.  `text` is the media type; "Refused" is the None of new.    *)

TypeStep(p, b) ==
    LET ended == b = EndOfHeader
    IN  CASE p.state = "Mime" -> IF b = ";" THEN Goto(p, "BeginKey") ELSE IF ended THEN Stop(p) ELSE PushText(p, b)
          [] p.state = "NextParam" -> IF b = ";" THEN Goto(p, "BeginKey") ELSE IF ended THEN Stop(p) ELSE Goto(p, "Refused")
          [] p.state = "BeginKey" -> IF b = " " THEN p ELSE IF ended THEN Goto(p, "Refused") ELSE PushKey(p, b)
          [] p.state = "Key" -> IF b = "=" THEN Goto(p, "BeginValue") ELSE IF ended THEN Goto(p, "Refused") ELSE PushKey(p, b)
          [] p.state = "BeginValue" ->
               IF b = Quote THEN Goto(p, "QuotedValue") ELSE IF ended THEN Goto(p, "Refused") ELSE PushValue(p, b, "Value")
          [] p.state = "QuotedValue" ->
               IF b = Quote THEN Goto(StoreParam(p), "NextParam")
               ELSE IF ended THEN Goto(p, "Refused") ELSE PushValue(p, b, "QuotedValue")
          [] p.state = "Value" ->
               IF b = ";" THEN Goto(StoreParam(p), "BeginKey") ELSE IF ended THEN Stop(StoreParam(p)) ELSE PushValue(p, b, "Value")

LdJson == <<"ld+json">>
JsonTypes == {LdJson, <<"json">>, <<"activity+json">>}

\* MediaTypeBuf::from_str takes any media type but an empty one here.
ContentTypeOf(bytes) ==
    LET p == Run(TypeStep, Parser("Mime"), Append(bytes, EndOfHeader))
    IN  IF p.state = "Refused" \/ p.text = <<>> THEN None ELSE [media |-> p.text, params |-> p.params]

IsJsonLd(type) == type # None /\ type.media \in JsonTypes

\* The words of a value between its spaces.
Words(s) ==
    {SubSeq(s, i, j) : i \in DOMAIN s, j \in DOMAIN s} \ {w \in {SubSeq(s, i, j) : i \in DOMAIN s, j \in DOMAIN s} :
        w = <<>> \/ \E k \in DOMAIN w : w[k] = " "}

Profiles(type) ==
    LET value == Param(type, <<"profile">>)
    IN  IF value = None THEN {} ELSE {w \in Words(value) : IsIri(w)}

-----------------------------------------------------------------------------
(* What servers write (RFC 8288): every parameter in one of the styles, and   *)
(* a title that holds what separates links and parameters.                    *)

QuoteText(s) ==
    FlattenSeq([i \in DOMAIN s |-> IF s[i] \in {Quote, Escape} THEN <<Escape, s[i]>> ELSE <<s[i]>>])
Title == <<"a", ",", " ", "<", "b", ">", ";", " ", Quote>>

ParamText(key, value, style) ==
    IF value = None THEN <<>>
    ELSE <<";", " ", key, "=">> \o (IF style = "token" THEN value ELSE <<Quote>> \o QuoteText(value) \o <<Quote>>)

LinkText(l) ==
    <<"<">> \o l.href \o <<">">>
        \o (IF l.style = "titled" THEN ParamText("title", Title, "quoted") ELSE <<>>)
        \o ParamText("rel", l.rel, l.style) \o ParamText("type", l.type, l.style)

LinkHeader(links) ==
    FoldLeft(LAMBDA text, l : IF text = <<>> THEN LinkText(l) ELSE text \o <<",", " ">> \o LinkText(l), <<>>, links)

TypeHeader(t) ==
    t.media \o (IF t.broken THEN <<";", "charset">> ELSE ParamText("profile", t.profile, "quoted"))

=============================================================================
