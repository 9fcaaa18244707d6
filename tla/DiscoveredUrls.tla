--------------------------- MODULE DiscoveredUrls ---------------------------
(***************************************************************************)
(* What discovery makes of the references it meets (discovery/domain): how *)
(* a reference becomes a URL, a URL a classified and prioritized candidate, *)
(* and the candidates of all sources one set of discovered URLs.           *)
(*                                                                         *)
(* A reference is reduced to what the normalizer branches on, a page's     *)
(* path to which table of rules it matches, an anchor text to the page     *)
(* types whose keywords it contains.                                       *)
(***************************************************************************)
EXTENDS Integers, Sequences, FiniteSets, SequencesExt

CONSTANTS
  Pages,         \* the pages references lead to
  PathOf,        \* what the rules make of each page's path
  OwnPages,      \* pages under the company's registrable domain
  ExcludedFiles, \* pages whose path ends in an excluded extension
  Overrides,     \* page types whose priority the configuration replaces
  KeywordsOf,    \* the page types whose keywords each anchor text contains
  NoText         \* the empty anchor text

NoType == "none"
Tier1 == {"homepage", "about", "contact", "wholesale", "trade", "careers",
          "shipping", "click_and_collect", "store_locator"}
Tier2 == {"returns", "faq", "support", "blog", "news", "team", "brands", "subscription"}
Tier3 == {"product", "collection", "category", "privacy", "terms", "unknown"}
ExcludedTypes == {"account", "cart", "checkout", "search"}
PageTypes == Tier1 \cup Tier2 \cup Tier3 \cup ExcludedTypes

\* Priorities in the order of _PRIORITY_RANK: 1 to 3, then excluded.
Excluded == 4
Priorities == 1..Excluded

\* The order of the anchor rules, which breaks ties between them.
AnchorRules ==
  <<"about", "contact", "wholesale", "trade", "careers", "shipping", "click_and_collect",
    "store_locator", "returns", "faq", "support", "blog", "news", "team", "brands",
    "subscription", "privacy", "terms", "account", "cart", "checkout", "search">>

\* A page's path: the root, the type its last segment names, the type its prefix names.
Paths == [root: BOOLEAN, slug: ToSet(AnchorRules) \cup {NoType},
          prefix: {"product", "collection", "category", NoType}]

Refs == [form: {"absolute", "relative", "scheme", "brackets"},
         host: {"public", "unsafe"}, port: {"none", "bad"},
         page: Pages, query: BOOLEAN]

\* A normalized URL; "bare" is an origin without a path, which the normalizer never returns.
Urls == [page: Pages, query: BOOLEAN, bare: BOOLEAN]

ASSUME DiscoveredUrlsAssumption ==
  /\ PathOf \in [Pages -> Paths]
  /\ OwnPages \subseteq Pages /\ ExcludedFiles \subseteq Pages
  /\ DOMAIN Overrides \subseteq PageTypes /\ \A t \in DOMAIN Overrides : Overrides[t] \in Priorities
  /\ \A text \in DOMAIN KeywordsOf : KeywordsOf[text] \subseteq ToSet(AnchorRules)
  /\ NoText \notin DOMAIN KeywordsOf

-----------------------------------------------------------------------------
(* url_normalizer.py: rejected, or normalized, or an exception: urljoin on *)
(* broken brackets, and the port of a URL whose port is no number.         *)

NormalUrl(ref, retainQuery) ==
  [page |-> ref.page, query |-> ref.query /\ retainQuery, bare |-> FALSE]

Rejects(ref, hasBase) ==
  \/ ref.form = "scheme"
  \/ ~hasBase /\ ref.form \in {"relative", "brackets"}
  \/ ref.form = "absolute" /\ ref.host = "unsafe"

Raises(ref, hasBase) ==
  \/ hasBase /\ ref.form = "brackets"
  \/ ref.form = "absolute" /\ ref.host = "public" /\ ref.port = "bad"

Accepts(ref, hasBase) == ~Rejects(ref, hasBase) /\ ~Raises(ref, hasBase)

-----------------------------------------------------------------------------
(* page_classifier.py, priority_assigner.py                                *)

Class(type, confidence) == [type |-> type, confidence |-> confidence]

\* Python's max: the first of the most confident.
FirstMostConfident(classes) ==
  LET best == Max({classes[i].confidence : i \in DOMAIN classes})
  IN classes[Min({i \in DOMAIN classes : classes[i].confidence = best})]

\* The anchor rules with a hit, in the order of the table; more texts, more confidence.
AnchorMatches(texts) ==
  LET Hits(type) == Cardinality({text \in texts : type \in KeywordsOf[text]})
      matched == SelectSeq(AnchorRules, LAMBDA type : Hits(type) > 0)
  IN [i \in DOMAIN matched |-> Class(matched[i], Min({60, 45 + 5 * (Hits(matched[i]) - 1)}))]

AnchorClass ==
  [texts \in SUBSET DOMAIN KeywordsOf |->
     IF AnchorMatches(texts) = <<>> THEN Class("unknown", 0) ELSE FirstMostConfident(AnchorMatches(texts))]

ClassifyPageType(page, texts, productSitemap) ==
  LET path == PathOf[page] IN
  IF path.root THEN Class("homepage", 100)
  ELSE IF path.slug # NoType THEN Class(path.slug, 95)
  ELSE IF path.prefix # NoType THEN Class(path.prefix, 90)
  ELSE IF AnchorClass[texts].confidence > 0 THEN AnchorClass[texts]
  ELSE IF productSitemap THEN Class("product", 70)
  ELSE Class("unknown", 0)

DefaultPriority(type) ==
  CASE type \in Tier1 -> 1 [] type \in Tier2 -> 2 [] type \in Tier3 -> 3 [] OTHER -> Excluded

AssignPriority(type, page) ==
  IF page \notin OwnPages \/ page \in ExcludedFiles THEN Excluded
  ELSE IF type \in DOMAIN Overrides THEN Overrides[type]
  ELSE DefaultPriority(type)

-----------------------------------------------------------------------------
(* Candidates, one per occurrence of a URL in a source.                    *)

Candidate(url, ref, source, depth, class) ==
  [url |-> url, ref |-> ref, source |-> source, depth |-> depth,
   class |-> class, priority |-> AssignPriority(class.type, url.page)]

\* The first occurrence of each element.
Distinct(seq) ==
  LET firsts == SelectSeq([i \in DOMAIN seq |-> i], LAMBDA i : \A j \in 1..(i - 1) : seq[j] # seq[i])
  IN [k \in DOMAIN firsts |-> seq[firsts[k]]]

\* html_link_extractor.py: links with the same URL are one link, with every
\* source and every non-empty anchor text once.
ExtractLinks(rawLinks) ==
  LET valid == SelectSeq(rawLinks, LAMBDA raw : Accepts(raw.ref, TRUE))
      found == Distinct([i \in DOMAIN valid |-> NormalUrl(valid[i].ref, FALSE)])
      LinkTo(url) ==
        LET same == SelectSeq(valid, LAMBDA raw : NormalUrl(raw.ref, FALSE) = url)
        IN [url |-> url, ref |-> same[1].ref,
            texts |-> {same[i].text : i \in DOMAIN same} \ {NoText},
            sources |-> Distinct([i \in DOMAIN same |-> same[i].source])]
  IN [k \in DOMAIN found |-> LinkTo(found[k])]

\* One candidate for every source and every anchor text of a link.
CandidatesForLink(link) ==
  LET class == ClassifyPageType(link.url.page, link.texts, FALSE)
      copies == Max({1, Cardinality(link.texts)})
  IN [k \in 1..(Len(link.sources) * copies) |->
        Candidate(link.url, link.ref, link.sources[((k - 1) \div copies) + 1], 1, class)]

\* A normalized URL as the reference it is itself.
AbsoluteRef(url) ==
  [form |-> "absolute", host |-> "public", port |-> "none", page |-> url.page, query |-> url.query]

\* The canonical and the alternate links of the homepage, under their normalized URLs.
SingleCandidate(ref, source) ==
  LET url == NormalUrl(ref, FALSE)
  IN Candidate(url, AbsoluteRef(url), source, 1, ClassifyPageType(url.page, {}, FALSE))

CandidatesFromHome(home) ==
  LET links == ExtractLinks(home.links)
      canonical == SelectSeq(home.canonical, LAMBDA ref : Accepts(ref, TRUE))
      alternates == SelectSeq(home.alternates, LAMBDA ref : Accepts(ref, TRUE))
  IN FlattenSeq([i \in DOMAIN links |-> CandidatesForLink(links[i])])
       \o [i \in DOMAIN canonical |-> SingleCandidate(canonical[i], "canonical")]
       \o [i \in DOMAIN alternates |-> SingleCandidate(alternates[i], "alternate")]

HomeRaises(home) ==
  \E ref \in {home.links[i].ref : i \in DOMAIN home.links}
               \cup ToSet(home.canonical) \cup ToSet(home.alternates) : Raises(ref, TRUE)

\* The homepage itself, listed first and under its final URL as it is.
HomepageCandidate(url) ==
  Candidate(url, AbsoluteRef(url), "homepage", 0, Class("homepage", 100))

-----------------------------------------------------------------------------
(* reconciliation.py: one discovered URL for every normalized URL.         *)

UrlsOf(cands) == {cands[i].url : i \in DOMAIN cands}

\* The first of the most confident.
FirstSeen(cands, group) == Min(group)  \* mutant
Winner(cands, group) ==
  LET best == Max({cands[i].class.confidence : i \in group})
  IN Min({i \in group : cands[i].class.confidence = best})

Merged(cands, u) ==
  LET group == {i \in DOMAIN cands : cands[i].url = u}
      winner == Winner(cands, group)
  IN [url |-> u, ref |-> cands[Min(group)].ref,
      type |-> cands[winner].class.type, confidence |-> cands[winner].class.confidence,
      priority |-> Min({cands[i].priority : i \in group}),
      sources |-> {cands[i].source : i \in group},
      depth |-> Min({cands[i].depth : i \in group})]

Reconcile(cands) == {Merged(cands, u) : u \in UrlsOf(cands)}

=============================================================================
