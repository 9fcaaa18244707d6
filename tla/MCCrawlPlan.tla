---------------------------- MODULE MCCrawlPlan ----------------------------
(***************************************************************************)
(* For TLC: up to four URLs of one discovery run, requests that repeat     *)
(* each other in other words, and limits that bite.                        *)
(***************************************************************************)
EXTENDS CrawlPlan

Found(url, type, priority, depth, preferred) ==
  [url |-> url, type |-> type, priority |-> priority, depth |-> depth, preferred |-> preferred]
Home(url) == Found(url, "homepage", 1, 0, FALSE)

MCFindings ==
  {<<>>} \cup {<<Home(3), Found(1, type, 3, 1, FALSE), Found(4, "product", 2, 1, TRUE),
     Found(2, "product", 3, 1, TRUE)>> : type \in {"collection", "unknown"}}
  \cup {<<Found(4, "cart", 4, 1, FALSE), Found(2, "collection", 3, 1, FALSE),
          Found(3, "category", 3, 0, TRUE), Home(1)>>,
        <<Found(2, "about", 1, 1, TRUE), Home(3), Found(1, "trade", 1, 1, FALSE),
          Found(4, "blog", 2, 1, TRUE)>>}

MCConfig == [maxPages |-> 3, caps |-> [product |-> 1, collection |-> 1, unknown |-> 1]]

NoOptions == [maxPages |-> NotGiven, manual |-> <<>>, includeTypes |-> {},
              excludeTypes |-> {}, forceRefresh |-> FALSE]
Request(options) == [discoveryRun |-> "known", options |-> options]
Plain == Request(NoOptions)
ByHand(urls) == Request([NoOptions EXCEPT !.manual = urls])
Few == Request([NoOptions EXCEPT !.maxPages = 2, !.includeTypes = {"homepage", "product", "collection"}])
Unknown == [Plain EXCEPT !.discoveryRun = "unknown"]
MCAsked == {Plain, ByHand(<<4, 2>>), ByHand(<<2, 4>>), Few, Unknown}

\* Bounds: where URLs are found, one worker, no retry, so that it does not
\* matter whose it would be, and no cancellation, which listing and selecting
\* do not read; where nothing is found, the order of requests, jobs, retries and
\* cancellations is all there is.
NothingFound == unsaved = <<>> /\ stored = {}
Listed == <<Plain, ByHand(<<4, 2>>), Few>>
Listing ==
  /\ asked \in [Requests -> ToSet(Listed)] /\ Cardinality(Working) <= 1
  /\ \A q \in Requests : runs[q].status # "cancelled"
  /\ \A y \in Retries : retryPc[y] = "new"
  /\ \A x, y \in Retries : retried[x] = retried[y]
  /\ \A y \in Retries, q \in Requests, i, j \in DOMAIN Listed :
       asked[retried[y]] = Listed[i] /\ asked[q] = Listed[j] => i <= j
Ordering == asked \in [Requests -> {ByHand(<<4, 2>>), ByHand(<<2, 4>>), Unknown}]
Bounds == IF NothingFound THEN Ordering ELSE Listing

Symmetry == Permutations(Requests) \cup Permutations(Retries)
=============================================================================
