-------------------------- MODULE MCContextProcessing --------------------------
(* Three remote documents that may refer to each other and to themselves; the  *)
(* loader answers each request with any of a few contexts, so every shape of   *)
(* chain, cycle and sharing among them occurs.                                 *)
EXTENDS ContextProcessing

NoScalars == [f \in {"vocab", "language", "direction"} |-> None]

NullEntry == [kind |-> "null"]
Ref(u) == [kind |-> "ref", url |-> u]
Blank == [kind |-> "definition", version |-> FALSE, import |-> None, base |-> None, scalars |-> NoScalars,
          protected |-> None, propagate |-> None, terms |-> <<>>]
Plain(name, meaning) ==
    [name |-> name, meaning |-> meaning, protected |-> None, scoped |-> None, keywordLike |-> FALSE]
With(terms) == [Blank EXCEPT !.terms = terms]
One(entry) == [single |-> TRUE, entries |-> <<entry>>]
Many(entries) == [single |-> FALSE, entries |-> entries]

\* "up" is a relative reference.
MCResolve(ref, base) == IF ref # "up" THEN ref ELSE IF base = None THEN None ELSE "u"

-----------------------------------------------------------------------------
\* Terms whose @id looks like a keyword: one that is protected in some runs.
Like(name) == [Plain(name, None) EXCEPT !.keywordLike = TRUE]
Leaving == With(<<Like("p"), Plain("t", 1)>>)

ToV == One(Ref("v"))
SelfScoped == One(With(<<[Plain("s", 1) EXCEPT !.scoped = One(Ref("u"))], Plain("t", 2)>>))

MCServes(u) ==
    CASE u = "u" -> {Many(<<Ref("v"), With(<<Plain("t", 1)>>)>>), Many(<<NullEntry, Ref("w")>>), SelfScoped}
      [] u = "v" -> {One(Ref("up")), One([With(<<Plain("t", 2)>>) EXCEPT !.base = "remote base"]),
                     One([Blank EXCEPT !.propagate = FALSE])}
      [] u = "w" -> {Failed, One(With(<<Plain("p", 2)>>)), One(Leaving), Many(<<Ref("v"), Ref("v")>>),
                     One([Blank EXCEPT !.import = "v"])}

Protecting == [With(<<Plain("p", 2)>>) EXCEPT !.protected = TRUE]
Own == [Blank EXCEPT !.base = "own base", !.scalars = [NoScalars EXCEPT !["vocab"] = Null]]
Scoping(c) == With(<<[Plain("s", 1) EXCEPT !.scoped = c]>>)
Inner == One(With(<<Plain("p", 1)>>))

Entries ==
    {NullEntry, Ref("u"), Ref("up"), Ref("w"), Own, Protecting, Leaving, Scoping(ToV), Scoping(Inner),
     [Blank EXCEPT !.import = "w", !.terms = <<Plain("p", 1)>>], [Blank EXCEPT !.import = "up"]}

\* Each once on its own, to see what it raises.
Singular ==
    {[Blank EXCEPT !.version = TRUE], [Blank EXCEPT !.propagate = FALSE], [Blank EXCEPT !.propagate = TRUE],
     [Blank EXCEPT !.base = "invalid"], [Blank EXCEPT !.scalars = [NoScalars EXCEPT !["vocab"] = "invalid"]],
     [Blank EXCEPT !.scalars = [NoScalars EXCEPT !["direction"] = "ltr"]],
     [With(<<[Plain("t", 1) EXCEPT !.protected = FALSE]>>) EXCEPT !.propagate = FALSE],
     With(<<[Like("p") EXCEPT !.scoped = ToV]>>), With(<<[Like("t") EXCEPT !.protected = TRUE]>>),
     Scoping(One(Scoping(Inner))), Scoping(One(Scoping(ToV))), Scoping(One(Leaving))}

MCLocalContexts ==
    {One(e) : e \in Entries \cup Singular} \cup {Many(<<d, e>>) : d, e \in Entries}
    \cup {Inner, ToV, One(Leaving), One(Scoping(Inner)), One(Scoping(ToV))}

Started(terms) == [terms |-> terms, base |-> "base", scalars |-> NoScalars, previous |-> None]
Protected == [meaning |-> <<2, None, None>>, protected |-> TRUE]

MCActiveContexts == {Started([t \in {} |-> None]), Started([t \in {"p"} |-> Protected])}

Option(m, o, p) == [mode |-> m, override |-> o, propagate |-> p]
MCOptions == {Option("1.1", FALSE, TRUE), Option("1.1", TRUE, FALSE), Option("1.0", FALSE, TRUE)}

MCDefaultOptions == {Option("1.1", FALSE, TRUE)}

=============================================================================
