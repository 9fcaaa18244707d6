-------------------------- MODULE TargetSelection --------------------------
(***************************************************************************)
(* Which of the URLs a discovery run found a crawl fetches, and in which   *)
(* order (crawling/domain/target_selector.py): a pure function of the      *)
(* candidates, the configuration and the options of a request.             *)
(*                                                                         *)
(* URLs are numbered in the alphabetical order of their normalized form; a *)
(* list of sources is reduced to whether one of them is preferred.         *)
(***************************************************************************)
EXTENDS Integers, Sequences, FiniteSets, SequencesExt

\* PAGE_TYPE_ORDER; the last four are denied unless a request asks for them.
TypeOrder ==
  <<"homepage", "wholesale", "trade", "contact", "about", "store_locator", "click_and_collect",
    "shipping", "careers", "returns", "faq", "support", "team", "brands", "subscription", "blog",
    "news", "collection", "category", "product", "privacy", "terms", "unknown",
    "account", "cart", "checkout", "search">>
DefaultDenied == {"account", "cart", "checkout", "search"}
PageTypes == ToSet(TypeOrder)
Rank == [type \in PageTypes |-> CHOOSE i \in DOMAIN TypeOrder : TypeOrder[i] = type]

\* Priorities in the order of _PRIORITY_ORDER: 1 to 3, then excluded.
Excluded == 4

Candidates ==
  [url : Nat, type : PageTypes, priority : 1..Excluded, depth : Nat, preferred : BOOLEAN]

\* The categories with a cap of their own.
CategoryOf(type) ==
  CASE type = "product"                    -> "product"
    [] type \in {"collection", "category"} -> "collection"
    [] type = "unknown"                    -> "unknown"
    [] OTHER                               -> "none"
Categories == {"product", "collection", "unknown"}

\* Tuples of numbers in lexicographic order.
LexLess(s, t) ==
  \E i \in DOMAIN s : s[i] < t[i] /\ \A j \in 1..(i - 1) : s[j] = t[j]

Unpreferred(c) == IF c.preferred THEN 0 ELSE 1

\* The order in which candidates fill the caps, and the one they are crawled in.
TypesFirst(c) == <<Rank[c.type], c.priority, c.depth, Unpreferred(c), c.url>>  \* mutant
FillOrderKey(c) == <<c.priority, Rank[c.type], c.depth, Unpreferred(c), c.url>>
FinalSortKey(c) == <<Rank[c.type], c.priority, c.url>>

\* sorted: an element stands behind those of a smaller key. No two have equal keys.
SortedBy(S, key) ==
  [i \in 1..Cardinality(S) |->
     CHOOSE c \in S : Cardinality({d \in S : LexLess(key[d], key[c])}) = i - 1]

-----------------------------------------------------------------------------
\* _dedupe_by_normalized_url: of the candidates of one URL the shallowest,
\* then a preferred one, then the first.
Deduped(cands) ==
  LET Key(i) == <<cands[i].depth, Unpreferred(cands[i]), i>>
  IN {cands[i] : i \in {i \in DOMAIN cands :
        ~\E j \in DOMAIN cands : cands[j].url = cands[i].url /\ LexLess(Key(j), Key(i))}}

Manual(c, options) == c.url \in ToSet(options.manual)

\* Denied types win over allowed ones; with none allowed, all but the default-denied are.
TypeAllowed(type, options) ==
  /\ type \notin options.excludeTypes
  /\ IF options.includeTypes # {} THEN type \in options.includeTypes ELSE type \notin DefaultDenied

\* Taken whatever the caps say.
AlwaysIncluded(cands, options) ==
  {c \in cands : Manual(c, options) \/ (TypeAllowed(c.type, options) /\ c.priority = 1)}

\* Priorities 2 and 3 share what the caps leave.
CappedPool(cands, options) ==
  {c \in cands : ~Manual(c, options) /\ TypeAllowed(c.type, options) /\ c.priority \in {2, 3}}

\* One candidate of the pool: passed over when its category is full, the end of
\* the selection when the total is reached, selected otherwise.
Consider(acc, c, config) ==
  LET category == CategoryOf(c.type) IN
  IF acc.full \/ (category \in Categories /\ acc.counts[category] >= config.caps[category]) THEN acc
  ELSE IF acc.total >= config.maxPages THEN [acc EXCEPT !.full = TRUE]
  ELSE [acc EXCEPT !.chosen = @ \cup {c}, !.total = @ + 1,
                   !.counts = [k \in Categories |-> @[k] + (IF k = category THEN 1 ELSE 0)]]

Unfilled(always) ==
  [chosen |-> always, counts |-> [k \in Categories |-> 0], total |-> Cardinality(always), full |-> FALSE]

Filled(always, pool, config) ==
  LET order == SortedBy(pool, [c \in pool |-> FillOrderKey(c)])
      after[n \in 0..Cardinality(pool)] ==
        IF n = 0 THEN Unfilled(always) ELSE Consider(after[n - 1], order[n], config)
  IN after[Cardinality(pool)].chosen

SelectCrawlTargets(cands, config, options) ==
  LET deduped == Deduped(cands)
      chosen == Filled(AlwaysIncluded(deduped, options), CappedPool(deduped, options), config)
  IN SortedBy(chosen, [c \in chosen |-> FinalSortKey(c)])

=============================================================================
