---------------------------- MODULE MCDiscovery ----------------------------
(***************************************************************************)
(* A small company for TLC: eight pages, three sitemaps that refer to each *)
(* other in many ways, homepages with repeated and with bad links.         *)
(***************************************************************************)
EXTENDS Discovery

CONSTANTS home, about, product, other, foreign, s1, s2, s3, aboutText, loginText

NoPath == [root |-> FALSE, slug |-> NoType, prefix |-> NoType]
MCPathOf ==
  [p \in Pages |-> CASE p = home    -> [NoPath EXCEPT !.root = TRUE]
                     [] p = about   -> [NoPath EXCEPT !.slug = "about"]
                     [] p = product -> [NoPath EXCEPT !.prefix = "product"]
                     [] OTHER       -> NoPath]
MCOwnPages == Pages \ {foreign}
MCOverrides == [t \in {} |-> 1]
MCKeywords == [t \in {aboutText, loginText} |-> IF t = aboutText THEN {"about", "team"} ELSE {"account"}]

To(p) == [form |-> "absolute", host |-> "public", port |-> "none", page |-> p, query |-> FALSE]
Bad(p) == [To(p) EXCEPT !.port = "bad"]
Link(ref, text, source) == [ref |-> ref, text |-> text, source |-> source]
HomeUrl(bare) == [page |-> home, query |-> FALSE, bare |-> bare]

BusyHome ==
  [links |-> <<Link([To(about) EXCEPT !.form = "relative"], aboutText, "navigation"),
               Link(To(other), loginText, "body_link"), Link(To(other), aboutText, "footer"),
               Link(To(other), aboutText, "footer"), Link(To(home), NoText, "navigation"),
               Link([To(other) EXCEPT !.form = "scheme"], NoText, "footer")>>,
   canonical |-> <<To(home)>>, alternates |-> <<To(other), To(foreign)>>]
BadHome ==
  [links |-> <<Link([To(other) EXCEPT !.form = "brackets"], NoText, "footer")>>,
   canonical |-> <<>>, alternates |-> <<>>]

Doc(kind, refs) == [kind |-> kind, refs |-> refs]
Docs1 == {Doc("index", <<To(s2), To(s3)>>), Doc("index", <<To(s1), To(s2), To(foreign)>>)}
Docs2 == {Doc("index", <<To(s1), To(s3)>>), Doc("urlset", <<To(other), To(product), To(foreign)>>)}
Docs3 == {Doc("index", <<To(s2)>>), Doc("urlset", <<To(other), [To(product) EXCEPT !.query = TRUE], To(product)>>)}
BadDoc == Doc("urlset", <<To(other), Bad(product)>>)

Sitemap(ref) == [directive |-> "sitemap", bad |-> FALSE, ref |-> ref]
Robots(lines) == [outcome |-> "fetched", lines |-> lines]
OneNamed == Robots(<<Sitemap(To(s1))>>)
ManyNamed == Robots(<<Sitemap(To(s3)), Sitemap(To(s1)), [Sitemap(To(s2)) EXCEPT !.bad = TRUE]>>)
OddRobots ==
  {Robots(<<Sitemap(Bad(s1))>>), Robots(<<Sitemap([To(s3) EXCEPT !.form = "relative"]), Sitemap(To(s2))>>),
   [outcome |-> "missing", lines |-> <<>>], [outcome |-> "error", lines |-> <<>>]}

Sitemaps(d1, d2, d3) ==
  [p \in Pages |-> CASE p = s1 -> d1 [] p = s2 -> d2 [] p = s3 -> d3 [] OTHER -> Doc("unfetchable", <<>>)]
Site(page, robots, sitemaps) ==
  [home |-> page, homes |-> <<HomeUrl(TRUE), HomeUrl(FALSE)>>, robots |-> robots, sitemaps |-> sitemaps]
Plain == Sitemaps(Doc("unfetchable", <<>>), Doc("urlset", <<>>), Doc("unreadable", <<>>))

\* Where the second sitemap lists pages, robots.txt names all three.
MCSites ==
  {Site(BusyHome, IF d2.kind = "urlset" THEN ManyNamed ELSE OneNamed, Sitemaps(d1, d2, d3)) :
     d1 \in Docs1, d2 \in Docs2, d3 \in Docs3}
    \cup {Site(BusyHome, OneNamed, Sitemaps(Doc("index", <<To(s2), To(s3)>>), d2, BadDoc)) : d2 \in Docs2}
    \cup {Site(BusyHome, robots, Plain) : robots \in OddRobots}
    \cup {Site(BadHome, OneNamed, Plain)}

\* These sites have the shape the theorems ask for.
ASSUME MCSitesAssumption == SitesAreTyped /\ OccurrencesAgree

MCStatuses == {"imported"}
=============================================================================
