---------------------------- MODULE MCSiteCrawl ----------------------------
(***************************************************************************)
(* Three targets, five robots.txt and three kinds of behaviours for TLC:   *)
(* one page over several jobs, three pages in one job, and one page that   *)
(* may have any of many bodies.                                            *)
(***************************************************************************)
EXTENDS SiteCrawl

MCPathOf == <<<<"a">>, <<"a", "b">>, <<"c">>>>

Line(directive, value) == [directive |-> directive, value |-> value]
Agent(a) == Line("user-agent", a)
Disallow(path) == Line("disallow", path)
Allow(path) == Line("allow", path)
Delay(d) == Line("crawl-delay", d)

MCRobotsFiles ==
  <<<<>>,
    <<Agent("*"), Disallow(<<"a">>), Allow(<<"a", "b">>), Delay(9)>>,
    <<Agent("*"), Delay(3), Agent("other"), Disallow(<<"c">>), Allow(<<>>)>>,
    <<Agent("*"), Disallow(<<"a">>), Agent("us"), Disallow(<<"c">>), Allow(<<"c">>), Disallow(<<>>),
      Agent("us"), Disallow(<<"a", "b">>)>>,
    <<Disallow(<<"a">>), Agent("other"), Disallow(<<"c">>)>>>>

P(w) == <<Open("p"), Word(w), Close("p")>>
Script(tag) == <<Open(tag), Word("code"), Close("script")>>
Pieces ==
  <<P("x"), Script("script"), Script("ld"), <<Open("div"), Word("y"), Close("div")>>,
    <<Open("li"), Word("x")>>, <<Close("li")>>, <<Open("noscript"), Open("svg"), Close("svg"), Close("svg")>>,
    P("hidden") \o <<Close("noscript")>>, <<Open("p"), Spelled("script"), Close("p")>>,
    <<Open("p"), Open("a"), Word("x"), Open("p"), Alt("logo"), Close("a"), Close("p")>>,
    P("x") \o P("x") \o P("x"), <<Open("style"), Word("code")>>>>
FewBodies == <<P("x"), P("x") \o Script("script"), P("y"), <<Open("root")>>, P("captcha")>>
\* Every piece before every piece.
Pairs ==
  [i \in 1..(Len(Pieces) * Len(Pieces)) |->
     Pieces[((i - 1) \div Len(Pieces)) + 1] \o Pieces[((i - 1) % Len(Pieces)) + 1]]
MCBodies == FewBodies \o Pairs

MCExternalKinds ==
  [b \in DOMAIN MCBodies |-> IF b = 1 THEN {"cleaned"} ELSE IF b = 3 THEN {"cleaned", "text"} ELSE {}]

Quiet == [order |-> <<1>>, jobs |-> 1, bodies |-> {1}, robots |-> {1}, force |-> {FALSE}, hops |-> {},
          retryAfter |-> {}, storageFails |-> FALSE, deadly |-> FALSE, challenge |-> "browser_required", retryBlocked |-> FALSE]
Again == [Quiet EXCEPT !.jobs = 3, !.bodies = 1..4, !.storageFails = TRUE, !.force = BOOLEAN]
Wide == [Quiet EXCEPT !.bodies = DOMAIN MCBodies, !.jobs = 2]
Site == [Quiet EXCEPT !.order = <<3, 1, 2>>, !.jobs = 2, !.robots = DOMAIN MCRobotsFiles, !.retryAfter = {1, 9},
                        !.hops = {1, Elsewhere}, !.retryBlocked = TRUE]
Deadly == [Quiet EXCEPT !.jobs = 3, !.hops = {1}, !.bodies = {1, 5}, !.deadly = TRUE, !.challenge = "rejected"]
MCScenarios == {Again, Wide, Site, Deadly}
WideScenarios == {Wide}
=============================================================================
