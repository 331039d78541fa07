-------------------------------- MODULE MCLoading --------------------------------
(* Servers that give a document, a context, an alternate, an error or a body
   without end to any request, under every way to write their headers. *)
EXTENDS Loading, Expansion

MCExtract(document) == ExtractContext(document)
MCProcessIn(active, local) == Through(Borrowed(active), local, Processing("1.1"))
MCExpandIn(active, document) ==
    ExpandDocument(active, document, [mode |-> "1.1", ordered |-> FALSE, policy |-> DefaultPolicy])

MCAlphabet ==
    <<" ", "#", ".", "/", ":", "@base", "@container", "@context", "@direction", "@graph", "@id", "@import", "@included",
      "@index", "@json", "@language", "@like", "@list", "@nest", "@none", "@prefix", "@propagate", "@protected",
      "@reverse", "@set", "@type", "@value", "@version", "@vocab", "_", "web", "voc", "a", "b", "c", "d", "m", "n">>

Web(path) == <<"web", ":", "/">> \o path

\* {"a": "c"} and contexts that give a its meaning.
Document == JObject(<<Entry(<<"a">>, JString(<<"c">>))>>)
GivesA(s) == JObject(<<Entry(<<"a">>, JString(<<"voc", ":", s>>))>>)
ContextDocument(s) == JObject(<<Entry(<<"@context">>, GivesA(s))>>)
BadContext == JObject(<<Entry(<<"@context">>, JObject(<<Entry(<<"a">>, JNumber(1))>>))>>)
BadTerm == JObject(<<Entry(<<"@context">>, JObject(<<Entry(<<"a">>, JString(<<"@context">>))>>))>>)

Type(media) == [media |-> media, profile |-> None, broken |-> FALSE]
Json == Type(<<"json">>)
Html == Type(<<"html">>)
LdProfiled == [Type(LdJson) EXCEPT !.profile = <<"voc", ":", "a", " ", "b">>]
BrokenLd == [Type(LdJson) EXCEPT !.broken = TRUE]

Link(href, rel, type, style) == [href |-> href, rel |-> rel, type |-> type, style |-> style]
MCContextLink == <<"context">>
MCAlternateLink == <<"alternate">>
Context(href, style) == Link(href, MCContextLink, LdJson, style)
Alternate(href, type, style) == Link(href, MCAlternateLink, type, style)
Other(style) == Link(<<"d">>, <<"style">>, None, style)

Response(types, links, length, body) ==
    [status |-> 200, types |-> types, links |-> links, length |-> length, declared |-> FALSE, body |-> body]

MCAnswers ==
    { Response(<<LdProfiled>>, <<<<Context(<<"n">>, "quoted")>>>>, 2, Document),
      Response(<<Json>>, <<<<Other("titled"), Context(<<"n">>, "titled")>>>>, 2, Document),
      Response(<<BrokenLd, Json>>, <<<<Other("token")>>, <<Context(Web(<<"b">>), "token")>>>>, 2, Document),
      Response(<<Json>>, <<<<Context(<<"n">>, "token")>>, <<Context(<<"b">>, "titled")>>>>, 2, Document),
      Response(<<Html, Type(<<"activity+json">>)>>, <<>>, 1, None),
      Response(<<Html>>, <<<<Alternate(<<"d">>, <<"html">>, "quoted"), Alternate(<<"b">>, LdJson, "titled")>>>>, 1, None),
      Response(<<>>, <<<<Alternate(<<"c">>, LdJson, "token"), Alternate(<<"b">>, LdJson, "token")>>>>, 1, None),
      Response(<<Html>>, <<<<Context(<<"n">>, "quoted"), Other("token")>>>>, 1, None),
      [Response(<<Json>>, <<>>, 1, Document) EXCEPT !.status = 404],
      Response(<<Type(LdJson)>>, <<>>, 2, ContextDocument("a")),
      [Response(<<Type(LdJson)>>, <<>>, 4, ContextDocument("b")) EXCEPT !.declared = TRUE],
      Response(<<Type(LdJson)>>, <<>>, Endless, None),
      Response(<<Type(LdJson)>>, <<>>, 1, BadContext),
      Response(<<Type(LdJson)>>, <<>>, 1, BadTerm) }

MCFiles == {None, Document, ContextDocument("c")}

-----------------------------------------------------------------------------
(* Calls.                                                                    *)

Options(max, limit, timeout) == [maxRedirections |-> max, maxDocumentSize |-> limit, timeout |-> timeout]

NoLoader == [loader |-> "none"]
MapLoader == [loader |-> "map", documents |-> (Web(<<"n">>) :> ContextDocument("d") @@ Web(<<"m">>) :> Document)]
\* web:/m is mounted, web:/m/n again and so in vain.
FsLoader ==
    [loader |-> "fs", mounts |-> <<[url |-> Web(<<"m">>), path |-> <<"m">>], [url |-> Web(<<"m", "/", "n">>), path |-> <<"n">>]>>]

Call(document, first, options) ==
    [document |-> IriReference(Web(document)), expandContext |-> None, base |-> None, first |-> first, options |-> options]
Under(c, reference) == [c EXCEPT !.expandContext = reference]

LoadedContext(c) == LoadedReference([PlainDocument(None, ReadContext(c, 0).value) EXCEPT !.contentType = None])
LoadedMeaning == LoadedContext(GivesA("m"))

MCCalls ==
    { Call(<<"a">>, NoLoader, Options(0, 3, TRUE)),
      Call(<<"a">>, NoLoader, Options(1, None, TRUE)),
      [Call(<<"a">>, NoLoader, Options(2, 3, FALSE)) EXCEPT !.base = Web(<<"d">>)],
      Under(Call(<<"m">>, MapLoader, Options(1, 3, TRUE)), IriReference(Web(<<"c">>))),
      Under(Call(<<"a">>, MapLoader, Options(1, 3, TRUE)), LoadedMeaning),
      Under(Call(<<"m">>, MapLoader, Options(0, 3, TRUE)), IriReference(Web(<<"m">>))),
      Under(Call(<<"m">>, MapLoader, Options(1, 3, TRUE)), LoadedContext(BadTerm.entries[1].value)),
      Call(<<"m", "/", "n">>, FsLoader, Options(0, 1, TRUE)),
      Under(Call(<<"m", "/", "/", "n">>, FsLoader, Options(1, 3, TRUE)), IriReference(Web(<<"m", "n">>))),
      Under(Call(<<"m", "/", ".", ".", "/", "n">>, FsLoader, Options(0, 3, TRUE)), IriReference(Web(<<"m", "/">>))),
      Under([Call(<<>>, NoLoader, Options(1, 3, TRUE)) EXCEPT
                !.document = LoadedReference([PlainDocument(Web(<<"a">>), Document) EXCEPT !.contextUrl = Web(<<"b">>)])],
            LoadedMeaning) }

=============================================================================
