----------------------------- MODULE CrawlPlan -----------------------------
(***************************************************************************)
(* From a request to crawl to the stored targets (WebsiteCrawlService's    *)
(* enqueue_crawl_run and _select_and_persist_targets): requests are        *)
(* admitted unless an equal one is active, the run's job lists the URLs of *)
(* the discovery run, page by page and possibly while that run still saves *)
(* them, selects among them and stores the targets one by one. A retry     *)
(* queues a run again, and a cancellation ends it, whatever else is going  *)
(* on.                                                                     *)
(*                                                                         *)
(* What happens to the stored targets afterwards is module CrawlRun's.     *)
(***************************************************************************)
EXTENDS TargetSelection

CONSTANTS
  Requests,   \* requests to crawl; each is the id of the run it may create
  Retries,    \* requests to retry what failed, one shot each
  Asked,      \* what requests may ask: a discovery run and options
  KnownRun,   \* the discovery run that exists
  Config,     \* CrawlConfig
  Findings,   \* what the discovery run may have found, in the order it saves it
  PageSize,   \* _INTERNAL_PAGE_SIZE
  MaxWorkers  \* worker processes

NotGiven == -1  \* max_pages is None; a negative limit acts as 0 does
Options == [maxPages : Nat \cup {NotGiven}, manual : Seq(Nat),
            includeTypes : SUBSET PageTypes, excludeTypes : SUBSET PageTypes, forceRefresh : BOOLEAN]

\* A discovery run saves each URL once.
ASSUME CrawlPlanAssumption ==
  /\ Requests \cap Retries = {}
  /\ {PageSize, MaxWorkers} \subseteq Nat \ {0}
  /\ Config \in [maxPages : Nat, caps : [Categories -> Nat]]
  /\ Asked \subseteq [discoveryRun : STRING, options : Options]
  /\ Findings \subseteq Seq(Candidates)
  /\ \A found \in Findings : \A i, j \in DOMAIN found : i # j => found[i].url # found[j].url

VARIABLES
  unsaved,    \* the URLs the discovery run has still to save
  stored,     \* those it has saved
  asked,      \* what each request asks
  pc,         \* where each request and the job of its run is
  runs,       \* the stored crawl runs
  work,       \* what each handler or job holds in memory
  targets,    \* the stored targets of each run, in the order they were stored
  retried,    \* the run each retry is asked for
  retryPc,    \* where each retry and its job is
  current,    \* the jobs and retries whose copy of the run is the stored document
  cancelling, \* the runs just cancelled, whose jobs may still be in the queue
  reopened    \* observer: the runs over when a request was checked and queued again since

retryVars == <<retried, retryPc, current, cancelling, reopened>>
vars == <<unsaved, stored, asked, pc, runs, work, targets, retryVars>>

Active == {"queued", "running"}
NoWork == [conflict |-> {}, seen |-> {}, page |-> 1, listed |-> <<>>, settled |-> FALSE, selected |-> <<>>]

Init ==
  /\ unsaved \in Findings
  /\ stored = {}
  /\ asked \in [Requests -> Asked]
  /\ pc = [q \in Requests |-> "new"]
  /\ runs = [q \in Requests |-> [status |-> "none", key |-> <<>>]]
  /\ work = [q \in Requests |-> NoWork]
  /\ targets = [q \in Requests |-> <<>>]
  /\ retried \in [Retries -> Requests]
  /\ retryPc = [y \in Retries |-> "new"]
  /\ current = {}
  /\ cancelling = {}
  /\ reopened = [q \in Requests |-> {}]

Working ==
  {q \in Requests : pc[q] \in {"starting", "listing", "selecting", "saving"}}
  \cup {y \in Retries : retryPc[y] = "retrying"}

Goto(q, step) == pc' = [pc EXCEPT ![q] = step]
RetryGoto(y, step) == retryPc' = [retryPc EXCEPT ![y] = step]

\* Who may hold a copy of a run: its job, and the retries of it.
Holders(q) == {q} \cup {y \in Retries : retried[y] = q}

SaveAnyRun(q, holder, status, keepsCopy) ==  \* mutant: no version in the filter
  /\ runs' = [runs EXCEPT ![q].status = status]
  /\ UNCHANGED current

\* update_run by one of them: a copy another write has made stale is refused
\* by the filter on document_version; a write makes all the others stale.
SaveRun(q, holder, status, keepsCopy) ==
  IF holder \in current
    THEN /\ runs' = [runs EXCEPT ![q].status = status]
         /\ current' = (current \ Holders(q)) \cup (IF keepsCopy THEN {holder} ELSE {})
    ELSE UNCHANGED <<runs, current>>

-----------------------------------------------------------------------------
\* The discovery run saves the next of its URLs.
SaveUrl ==
  /\ unsaved # <<>>
  /\ stored' = stored \cup {Head(unsaved)}
  /\ unsaved' = Tail(unsaved)
  /\ UNCHANGED <<asked, pc, runs, work, targets, retryVars>>

-----------------------------------------------------------------------------
(* POST .../crawl-runs.                                                    *)

EffectiveConfig(options) ==
  IF options.maxPages = NotGiven THEN Config ELSE [Config EXCEPT !.maxPages = options.maxPages]

\* sorted: the same elements, each as often, in ascending order.
Permuted(s, t) ==
  /\ DOMAIN s = DOMAIN t
  /\ \A x \in ToSet(s) \cup ToSet(t) :
       Cardinality({i \in DOMAIN s : s[i] = x}) = Cardinality({i \in DOMAIN t : t[i] = x})
Permutated(s) == {t \in [DOMAIN s -> ToSet(s)] : Permuted(s, t)}
Ascending(S) == CHOOSE s \in S : \A i, j \in DOMAIN s : i < j => s[i] <= s[j]

\* compute_idempotency_key: equal requests have equal keys, in whatever order
\* they list their URLs and types.
IdempotencyKey(request) ==
  <<request.discoveryRun, EffectiveConfig(request.options),
    [request.options EXCEPT !.manual = Ascending(Permutated(@))]>>

OnlyRunning(key) ==  \* mutant: queued runs are not active yet
  {q \in Requests : runs[q].status = "running" /\ runs[q].key = key}
ActiveRuns(key) == {q \in Requests : runs[q].status \in Active /\ runs[q].key = key}

\* Refused with a conflict when an equal request is active.
CheckActive(q) ==
  /\ pc[q] = "new"
  /\ LET active == ActiveRuns(IdempotencyKey(asked[q])) IN
       /\ work' = [work EXCEPT ![q].conflict = active,
                               ![q].seen = {r \in Requests : runs[r].status # "none"}]
       /\ Goto(q, IF active # {} THEN "conflict" ELSE "checked")
  /\ UNCHANGED <<unsaved, stored, asked, runs, targets, retryVars>>

\* The discovery run has to exist; it need not have completed.
CheckDiscoveryRun(q) ==
  /\ pc[q] = "checked"
  /\ Goto(q, IF asked[q].discoveryRun = KnownRun THEN "admitted" ELSE "not_found")
  /\ UNCHANGED <<unsaved, stored, asked, runs, work, targets, retryVars>>

CreateRun(q) ==
  /\ pc[q] = "admitted"
  /\ runs' = [runs EXCEPT ![q] = [status |-> "queued", key |-> IdempotencyKey(asked[q])]]
  /\ Goto(q, "queued")
  /\ UNCHANGED <<unsaved, stored, asked, work, targets, retryVars>>

-----------------------------------------------------------------------------
(* The job of the run.                                                     *)

\* A run that was cancelled in the queue is not processed.
LoadRun(q) ==
  /\ pc[q] = "queued" /\ Cardinality(Working) < MaxWorkers
  /\ IF runs[q].status = "cancelled"
       THEN Goto(q, "ended") /\ UNCHANGED current
       ELSE Goto(q, "starting") /\ current' = current \cup {q}
  /\ UNCHANGED <<unsaved, stored, asked, runs, work, targets, retried, retryPc, cancelling, reopened>>

StartRun(q) ==
  /\ pc[q] = "starting"
  /\ SaveRun(q, q, "running", TRUE)
  /\ work' = [work EXCEPT ![q].settled = (unsaved = <<>>)]
  /\ Goto(q, "listing")
  /\ UNCHANGED <<unsaved, stored, asked, targets, retried, retryPc, cancelling, reopened>>

\* One page of the discovery run's URLs, as its index orders them, and how many there are.
Stored == SortedBy(stored, [c \in stored |-> <<c.url>>])
NextPage(number) == SubSeq(Stored, number * PageSize + 1, Min({(number + 1) * PageSize, Len(Stored)}))  \* mutant
PageOf(number) ==
  SubSeq(Stored, (number - 1) * PageSize + 1, Min({number * PageSize, Len(Stored)}))

ListUrls(q) ==
  /\ pc[q] = "listing"
  /\ LET items == PageOf(work[q].page)
         listed == work[q].listed \o items
         done == items = <<>> \/ Len(listed) >= Cardinality(stored)
     IN /\ work' = [work EXCEPT ![q].listed = listed, ![q].page = @ + (IF done THEN 0 ELSE 1)]
        /\ Goto(q, IF done THEN "selecting" ELSE "listing")
  /\ UNCHANGED <<unsaved, stored, asked, runs, targets, retryVars>>

SelectTargets(q) ==
  /\ pc[q] = "selecting"
  /\ LET options == asked[q].options
         chosen == SelectCrawlTargets(work[q].listed, EffectiveConfig(options), options)
     IN work' = [work EXCEPT ![q].selected = chosen]
  /\ Goto(q, "saving")
  /\ UNCHANGED <<unsaved, stored, asked, runs, targets, retryVars>>

\* save_target replaces the target of the same URL, if there is one.
SaveTarget(q) ==
  /\ pc[q] = "saving" /\ Len(targets[q]) < Len(work[q].selected)
  /\ targets' = [targets EXCEPT ![q] = Append(@, work[q].selected[Len(@) + 1])]
  /\ UNCHANGED <<unsaved, stored, asked, pc, runs, work, retryVars>>

\* The targets are crawled, and the run ends; or the job dies, and the run stays running.
FinishRun(q) ==
  /\ pc[q] = "saving" /\ Len(targets[q]) = Len(work[q].selected)
  /\ SaveRun(q, q, "finished", FALSE)
  /\ Goto(q, "ended")
  /\ UNCHANGED <<unsaved, stored, asked, work, targets, retried, retryPc, cancelling, reopened>>

Die(q) ==
  /\ q \in Working
  /\ Goto(q, "dead")
  /\ current' = current \ {q}
  /\ UNCHANGED <<unsaved, stored, asked, runs, work, targets, retried, retryPc, cancelling, reopened>>

-----------------------------------------------------------------------------
(* POST .../retry-failed and its job, POST .../cancel.                     *)

\* enqueue_retry: get_run. No status is refused.
RetryLoad(y) ==
  /\ retryPc[y] = "new" /\ runs[retried[y]].status # "none"
  /\ RetryGoto(y, "loaded")
  /\ current' = current \cup {y}
  /\ UNCHANGED <<unsaved, stored, asked, pc, runs, work, targets, retried, cancelling, reopened>>

\* enqueue_retry: the run is queued again, and nobody asks whether an equal one
\* has been admitted in the meantime.
RetryMark(y) ==
  LET q == retried[y] IN
  /\ retryPc[y] = "loaded"
  /\ RetryGoto(y, "marked")
  /\ SaveRun(q, y, "queued", FALSE)
  /\ reopened' = [r \in Requests |->
       IF y \in current /\ runs[q].status \notin Active /\ q \in work[r].seen
         THEN reopened[r] \cup {q} ELSE reopened[r]]
  /\ UNCHANGED <<unsaved, stored, asked, pc, work, targets, retried, cancelling>>

RetryEnqueue(y) ==
  /\ retryPc[y] = "marked"
  /\ RetryGoto(y, "queued")
  /\ UNCHANGED <<unsaved, stored, asked, pc, runs, work, targets, retried, current, cancelling, reopened>>

\* retry_failed: get_run. The run's own job was put in the queue before, by a
\* request that names the run to others only then. A run cancelled since is
\* retried all the same, and none is set running.
StartRetry(y) ==
  /\ retryPc[y] = "queued" /\ pc[retried[y]] # "queued" /\ Cardinality(Working) < MaxWorkers
  /\ RetryGoto(y, "retrying")
  /\ current' = current \cup {y}
  /\ UNCHANGED <<unsaved, stored, asked, pc, runs, work, targets, retried, cancelling, reopened>>

FinishRetry(y) ==
  /\ retryPc[y] = "retrying"
  /\ RetryGoto(y, "ended")
  /\ SaveRun(retried[y], y, "finished", FALSE)
  /\ UNCHANGED <<unsaved, stored, asked, pc, work, targets, retried, cancelling, reopened>>

RetryDie(y) ==
  /\ retryPc[y] = "retrying"
  /\ RetryGoto(y, "dead")
  /\ current' = current \ {y}
  /\ UNCHANGED <<unsaved, stored, asked, pc, runs, work, targets, retried, cancelling, reopened>>

\* mark_run_cancelled: a client cancels a run, over or not, whatever its
\* version (bound: one such request for a run at a time).
CancelRun(q) ==
  /\ runs[q].status # "none" /\ q \notin cancelling
  /\ runs' = [runs EXCEPT ![q].status = "cancelled"]
  /\ current' = current \ Holders(q)
  /\ cancelling' = cancelling \cup {q}
  /\ UNCHANGED <<unsaved, stored, asked, pc, work, targets, retried, retryPc, reopened>>

\* cancel_crawl_run: jobs that wait in the queue are taken out of it, at best.
CancelJobs(q) ==
  /\ q \in cancelling
  /\ cancelling' = cancelling \ {q}
  /\ \/ pc[q] = "queued" /\ Goto(q, "ended")
     \/ UNCHANGED pc
  /\ \/ \E y \in Retries : retried[y] = q /\ retryPc[y] = "queued" /\ RetryGoto(y, "ended")
     \/ UNCHANGED retryPc
  /\ UNCHANGED <<unsaved, stored, asked, runs, work, targets, retried, current, reopened>>

-----------------------------------------------------------------------------
Handle(q) == CheckActive(q) \/ CheckDiscoveryRun(q) \/ CreateRun(q)
JobStep(q) ==
  LoadRun(q) \/ StartRun(q) \/ ListUrls(q) \/ SelectTargets(q) \/ SaveTarget(q) \/ FinishRun(q)

RetryStep(y) ==
  \/ RetryLoad(y) \/ RetryMark(y) \/ RetryEnqueue(y)
  \/ StartRetry(y) \/ FinishRetry(y) \/ RetryDie(y)

Next ==
  \/ SaveUrl
  \/ \E q \in Requests : Handle(q) \/ JobStep(q) \/ Die(q) \/ CancelRun(q) \/ CancelJobs(q)
  \/ \E y \in Retries : RetryStep(y)

Spec == Init /\ [][Next]_vars

-----------------------------------------------------------------------------
(* Properties.                                                             *)

TypeOK ==
  /\ ToSet(unsaved) \cap stored = {}
  /\ pc \in [Requests -> {"new", "checked", "admitted", "queued", "starting", "listing", "selecting",
                           "saving", "ended", "dead", "conflict", "not_found"}]
  /\ \A q \in Requests :
       /\ runs[q].status \in Active \cup {"none", "cancelled", "finished"}
       /\ runs[q].status \in {"none"} <=> pc[q] \in {"new", "checked", "admitted", "conflict", "not_found"}
       /\ work[q].conflict \cup work[q].seen \subseteq Requests
       /\ Len(targets[q]) <= Len(work[q].selected)
       /\ reopened[q] \subseteq work[q].seen
  /\ retryPc \in [Retries -> {"new", "loaded", "marked", "queued", "retrying", "ended", "dead"}]
  /\ current \subseteq Requests \cup Retries
  /\ \A y \in Retries : y \in current => runs[retried[y]].status # "none"

SameRequest(a, b) ==
  /\ Permuted(a.options.manual, b.options.manual)
  /\ [a EXCEPT !.options.manual = <<>>] = [b EXCEPT !.options.manual = <<>>]

\* Two equal runs are active at once only in two ways: neither existed when
\* the other's request was checked, or the one that did was over by then and a
\* retry has queued it again since. A request that repeats an active run is
\* refused, in whatever order it lists its URLs and whatever state the run is
\* in; and no write of a run's job or of its retry's job, made from a copy
\* read long before, makes an ended run active again (find_active_run,
\* compute_idempotency_key, update_run).
TwinsOverlap ==
  \A q, r \in Requests :
    /\ q # r /\ {runs[q].status, runs[r].status} \subseteq Active
    /\ SameRequest(asked[q], asked[r]) /\ q \in work[r].seen
    => q \in reopened[r]

\* A job that begins when the discovery run has saved everything lists each of
\* its URLs exactly once, page by page (list_discovered_urls).
SettledListingsAreWhole ==
  \A q \in Requests :
    work[q].settled /\ pc[q] \in {"selecting", "saving", "ended"} =>
      Len(work[q].listed) = Cardinality(stored) /\ ToSet(work[q].listed) = stored

\* What a candidate of the pool has to give way to: a better priority, then an
\* earlier type, a smaller depth, a preferred source, the alphabet.
Outranks(d, c) ==
  LET Merit(x) == <<x.priority, Rank[x.type], x.depth, IF x.preferred THEN 0 ELSE 1, x.url>>
  IN LexLess(Merit(d), Merit(c))

\* The targets are the best the limits allow, not merely a maximal choice:
\* nothing with priority 1 or asked for by hand is left out, and a candidate
\* of the pool is selected exactly if those that outrank it leave room for it
\* in its category and in the total (select_crawl_targets). Only the URL's own
\* category can make it give way to a page of less merit.
BestTargetsSelected ==
  \A q \in Requests : pc[q] = "saving" =>
    LET options == asked[q].options
        config == EffectiveConfig(options)
        listed == ToSet(work[q].listed)
        selected == {c \in listed : \E i \in DOMAIN work[q].selected : work[q].selected[i].url = c.url}
        always == {c \in listed : c.url \in ToSet(options.manual)
                                   \/ (TypeAllowed(c.type, options) /\ c.priority = 1)}
        Fits(c) ==
          LET before == {d \in selected \ always : Outranks(d, c)}
              rivals == {d \in before : CategoryOf(d.type) = CategoryOf(c.type)}
          IN /\ Cardinality(always) + Cardinality(before) < config.maxPages
             /\ CategoryOf(c.type) \in Categories => Cardinality(rivals) < config.caps[CategoryOf(c.type)]
    IN \A c \in listed :
         c \in selected <=>
           (c \in always \/ (TypeAllowed(c.type, options) /\ c.priority \in {2, 3} /\ Fits(c)))

=============================================================================
