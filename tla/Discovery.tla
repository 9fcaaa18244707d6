----------------------------- MODULE Discovery -----------------------------
(***************************************************************************)
(* The discovery runs of one company: the requests that create them, the   *)
(* queue, the workers that execute them (WebsiteDiscoveryService), the     *)
(* stored runs and URLs, and the company's status and latest run.          *)
(*                                                                         *)
(* A job's steps are cut where it waits: for the database, or for the site. *)
(* The site is what its homepage, its robots.txt and its sitemaps say; it  *)
(* does not change while the runs last.                                    *)
(***************************************************************************)
EXTENDS DiscoveredUrls, ProcessingStatus

CONSTANTS
  Runs,              \* discovery runs, by id
  MaxWorkers,        \* worker processes
  MaxCrashes,        \* bound: jobs that die of anything but the site
  Sites,             \* the sites the company may have
  InitialStatuses,   \* the statuses the company may have at first
  MaxSitemapFiles, MaxSitemapDepth, MaxUrlsPerRun,  \* DiscoveryConfig
  LargeSitemap, SampleSize,
  ProductLike,       \* pages whose URL has a product marker
  NoRun              \* no latest run

ASSUME DiscoveryAssumption ==
  /\ MaxWorkers \in Nat \ {0} /\ MaxCrashes \in Nat
  /\ {MaxSitemapFiles, MaxSitemapDepth, LargeSitemap, SampleSize} \subseteq Nat
  /\ MaxUrlsPerRun \in Nat \ {0}
  /\ InitialStatuses \subseteq ProcessingStatuses
  /\ ProductLike \subseteq Pages /\ NoRun \notin Runs

VARIABLES
  site,     \* the company's site
  runs,     \* the stored runs
  urls,     \* the stored URLs of each run
  company,  \* the stored company: its status and its latest discovery run
  queue,    \* the ids RQ holds, oldest first
  pc,       \* where the handler or the job of each run is
  work,     \* what each job holds in memory
  crashes   \* jobs that died so far

stored == <<runs, urls, company>>
vars == <<site, runs, urls, company, queue, pc, work, crashes>>

Steps == {"entering", "homepage", "links", "robots", "sitemaps", "saving", "finishing",
          "leaving", "latest", "failing"}
NoSummary == [found |-> 0, accepted |-> 0, excluded |-> 0, merged |-> 0, sitemapUrls |-> 0,
              warnings |-> 0]
EmptyWork == [cands |-> <<>>, files |-> <<>>, visited |-> {}, fetched |-> <<>>, sitemapUrls |-> 0,
              warnings |-> 0, results |-> {}, inHandler |-> FALSE]

Working == {r \in Runs : pc[r] \in Steps}
InWorkers == {r \in Working : ~work[r].inHandler}

Init ==
  /\ site \in Sites
  /\ runs = [r \in Runs |-> [status |-> "none", summary |-> NoSummary]]
  /\ urls = [r \in Runs |-> {}]
  /\ company \in [status: InitialStatuses, latest: {NoRun}]
  /\ queue = <<>>
  /\ pc = [r \in Runs |-> "new"]
  /\ work = [r \in Runs |-> EmptyWork]
  /\ crashes = 0

-----------------------------------------------------------------------------
(* POST .../discovery-runs: the insert, then the job.                      *)

EnqueueRun(r) ==
  /\ pc[r] = "new"
  /\ runs' = [runs EXCEPT ![r].status = "queued"]
  /\ pc' = [pc EXCEPT ![r] = "created"]
  /\ UNCHANGED <<site, urls, company, queue, work, crashes>>

EnqueueJob(r) ==
  /\ pc[r] = "created"
  /\ queue' = Append(queue, r)
  /\ pc' = [pc EXCEPT ![r] = "queued"]
  /\ UNCHANGED <<site, stored, work, crashes>>

\* Redis refuses the job: the run stays queued.
RefuseJob(r) ==
  /\ pc[r] = "created"
  /\ pc' = [pc EXCEPT ![r] = "ended"]
  /\ UNCHANGED <<site, stored, queue, work, crashes>>

\* POST /api/companies: the first run of a company is executed by the handler
\* that created it (run_discovery), beside whatever the workers do. The company
\* is there for other requests before its creation is answered.
CreateCompanyRun(r) ==
  /\ \A q \in Runs : pc[q] = "new"
  /\ company.status = "imported"
  /\ runs' = [runs EXCEPT ![r].status = "queued"]
  /\ work' = [work EXCEPT ![r].inHandler = TRUE]
  /\ pc' = [pc EXCEPT ![r] = "queued"]
  /\ UNCHANGED <<site, urls, company, queue, crashes>>

-----------------------------------------------------------------------------
(* execute_discovery_run.                                                  *)

Goto(r, step) == pc' = [pc EXCEPT ![r] = step]

\* A worker takes the oldest job, or the handler goes on; the run becomes running.
StartRun(r) ==
  /\ pc[r] = "queued"
  /\ \/ work[r].inHandler /\ UNCHANGED queue
     \/ /\ queue # <<>> /\ r = Head(queue)
        /\ Cardinality(InWorkers) < MaxWorkers
        /\ queue' = Tail(queue)
  /\ runs' = [runs EXCEPT ![r].status = "running"]
  /\ Goto(r, "entering")
  /\ UNCHANGED <<site, urls, company, work, crashes>>

\* Best effort: a transition the companies module refuses is swallowed.
AdvanceCompany(status) == company' = [company EXCEPT !.status = AdvancedProcessing(@, status)]

EnterDiscovering(r) ==
  /\ pc[r] = "entering"
  /\ AdvanceCompany("discovering")
  /\ Goto(r, "homepage")
  /\ UNCHANGED <<site, runs, urls, queue, work, crashes>>

\* The candidates are tried in order; the first that answers with HTML is the homepage.
ResolveHomepage(r) ==
  /\ pc[r] = "homepage"
  /\ \/ \E i \in DOMAIN site.homes :
          /\ work' = [work EXCEPT ![r].cands = <<HomepageCandidate(site.homes[i])>>]
          /\ Goto(r, "links")
     \/ Goto(r, "failing") /\ UNCHANGED work
  /\ UNCHANGED <<site, stored, queue, crashes>>

\* What extract_links finds on each homepage, as a table.
HomeCandidates == [home \in {s.home : s \in Sites} |-> CandidatesFromHome(home)]

\* extract_links is not guarded: a reference that makes the normalizer raise ends the job.
ExtractHomepageLinks(r) ==
  /\ pc[r] = "links"
  /\ IF HomeRaises(site.home)
     THEN Goto(r, "dead") /\ UNCHANGED work
     ELSE /\ work' = [work EXCEPT ![r].cands = @ \o HomeCandidates[site.home]]
          /\ Goto(r, "robots")
  /\ UNCHANGED <<site, stored, queue, crashes>>

\* parse_robots_txt, as far as discovery uses it: the sitemaps, and a warning
\* for every directive without a value or without a meaning.
SitemapsOf(lines) == SelectSeq(lines, LAMBDA line : line.directive = "sitemap" /\ ~line.bad)
RobotsWarnings(lines) == Len(SelectSeq(lines, LAMBDA line : line.bad))

RobotsLines(s) == IF s.robots.outcome = "fetched" THEN s.robots.lines ELSE <<>>

SitemapFile(ref, depth, viaIndex) == [ref |-> ref, depth |-> depth, viaIndex |-> viaIndex]

FetchRobots(r) ==
  /\ pc[r] = "robots"
  /\ LET found == SitemapsOf(RobotsLines(site))
         warned == IF site.robots.outcome = "error" THEN 1 ELSE RobotsWarnings(RobotsLines(site))
     IN work' = [work EXCEPT ![r].files = [i \in DOMAIN found |-> SitemapFile(found[i].ref, 0, FALSE)],
                             ![r].warnings = @ + warned]
  /\ Goto(r, "sitemaps")
  /\ UNCHANGED <<site, stored, queue, crashes>>

-----------------------------------------------------------------------------
(* parse_sitemap_document: an index gives files, any other document        *)
(* entries; both leave out what cannot be normalized or is off the domain. *)

UsableRefs(refs) == SelectSeq(refs, LAMBDA ref : Accepts(ref, FALSE) /\ ref.page \in OwnPages)

IsProductSitemap(entries) ==
  /\ entries # <<>>
  /\ 2 * Len(SelectSeq(entries, LAMBDA ref : ref.page \in ProductLike)) >= Len(entries)

\* The entries kept: all, or a sample of a large document.
SampleOf(entries) ==
  IF Len(entries) <= LargeSitemap THEN entries
  ELSE SubSeq(entries, 1, Min({Len(entries), IF IsProductSitemap(entries) THEN SampleSize ELSE LargeSitemap}))

\* One reference that makes the normalizer raise costs the whole document.
Unreadable(doc) == doc.kind = "unreadable" \/ \E i \in DOMAIN doc.refs : Raises(doc.refs[i], FALSE)

\* Warnings: the references an index skips, nothing in a document, too much in it.
DocumentWarnings(doc, usable) ==
  CASE doc.kind = "index"                       -> Len(doc.refs) - Len(usable)
    [] doc.kind = "urlset" /\ doc.refs = <<>>   -> 1
    [] OTHER                                    -> IF Len(usable) > LargeSitemap THEN 1 ELSE 0

ParseSitemapDocument(doc) ==
  LET usable == UsableRefs(doc.refs)
      entries == IF doc.kind = "index" THEN <<>> ELSE usable
  IN [readable |-> ~Unreadable(doc), nested |-> IF doc.kind = "index" THEN usable ELSE <<>>,
      entries |-> SampleOf(entries), total |-> Len(entries), product |-> IsProductSitemap(entries),
      warnings |-> DocumentWarnings(doc, usable)]

\* The parsed documents of all sites, as a table.
Parsed ==
  [doc \in UNION {{s.sitemaps[p] : p \in DOMAIN s.sitemaps} : s \in Sites} |-> ParseSitemapDocument(doc)]

-----------------------------------------------------------------------------
(* _process_sitemaps: one turn of the loop. The files wait in a queue, so  *)
(* that the search is breadth first.                                       *)

SearchGoesOn(r) == work[r].files # <<>> /\ Len(work[r].fetched) < MaxSitemapFiles

Warned(w, k) == [w EXCEPT !.warnings = @ + k]

Skipped(w) == [w EXCEPT !.files = Tail(@)]

\* Off the queue, and remembered as visited under its normalized URL.
Visited(w, url) == [w EXCEPT !.files = Tail(@), !.visited = @ \cup {url}]

AtMaxDepth(file) == file.depth >= MaxSitemapDepth  \* mutant: one level less
TooDeep(file) == file.depth > MaxSitemapDepth

NestedFiles(parsed, file) ==
  [i \in DOMAIN parsed.nested |->
     SitemapFile(AbsoluteRef(NormalUrl(parsed.nested[i], TRUE)), file.depth + 1, TRUE)]

EntryCandidates(parsed, file) ==
  LET source == IF file.viaIndex THEN "sitemap_index" ELSE "sitemap"
      Entry(ref) == Candidate(NormalUrl(ref, TRUE), ref, source, 1,
                              ClassifyPageType(ref.page, {}, parsed.product))
  IN [i \in DOMAIN parsed.entries |-> Entry(parsed.entries[i])]

\* The files of an index wait behind those found before them.
InFront(files, nested) == nested \o files  \* mutant: depth first
PushFiles(files, nested) == files \o nested

\* Fetched, and read if it can be.
ReadSitemap(w, file, url) ==
  LET doc == site.sitemaps[url.page]
      parsed == Parsed[doc]
      counted == [w EXCEPT !.fetched = Append(@, url)]
  IN IF doc.kind = "unfetchable" \/ ~parsed.readable THEN Warned(counted, 1)
     ELSE Warned([counted EXCEPT !.files = PushFiles(@, NestedFiles(parsed, file)),
                                 !.cands = @ \o EntryCandidates(parsed, file),
                                 !.sitemapUrls = @ + parsed.total], parsed.warnings)

\* The normalizer is not guarded here either: a bad port in robots.txt ends the job.
NextSitemap(r) ==
  /\ pc[r] = "sitemaps" /\ SearchGoesOn(r)
  /\ LET file == Head(work[r].files)
         url == NormalUrl(file.ref, TRUE)
     IN IF Raises(file.ref, FALSE)
        THEN Goto(r, "dead") /\ UNCHANGED work
        ELSE /\ work' = [work EXCEPT ![r] =
                  IF Rejects(file.ref, FALSE) THEN Warned(Skipped(@), 1)
                  ELSE IF url \in @.visited THEN Skipped(@)
                  ELSE IF TooDeep(file) THEN Warned(Visited(@, url), 1)
                  ELSE ReadSitemap(Visited(@, url), file, url)]
             /\ UNCHANGED pc
  /\ UNCHANGED <<site, stored, queue, crashes>>

\* The first MaxUrlsPerRun candidates.
Kept(r) == SubSeq(work[r].cands, 1, Min({MaxUrlsPerRun, Len(work[r].cands)}))

EndSearch(r) ==
  /\ pc[r] = "sitemaps" /\ ~SearchGoesOn(r)
  /\ work' = [work EXCEPT ![r].results = Reconcile(Kept(r)),
                          ![r].warnings = @ + (IF Len(Kept(r)) < Len(work[r].cands) THEN 1 ELSE 0)]
  /\ Goto(r, "saving")
  /\ UNCHANGED <<site, stored, queue, crashes>>

-----------------------------------------------------------------------------
(* The end of a run.                                                       *)

SaveUrls(r) ==
  /\ pc[r] = "saving"
  /\ urls' = [urls EXCEPT ![r] = work[r].results]
  /\ Goto(r, "finishing")
  /\ UNCHANGED <<site, runs, company, queue, work, crashes>>

\* insert_many stores one document after the other, and may fail in between.
FirstResults(r, k) == {u \in work[r].results : u.url \in UrlsOf(SubSeq(Kept(r), 1, k))}

SaveSomeUrls(r) ==
  /\ pc[r] = "saving" /\ crashes < MaxCrashes
  /\ \E k \in 0..(Len(Kept(r)) - 1) : urls' = [urls EXCEPT ![r] = FirstResults(r, k)]
  /\ crashes' = crashes + 1
  /\ Goto(r, "dead")
  /\ UNCHANGED <<site, runs, company, queue, work>>

ExcludedResults(r) == {u \in work[r].results : u.priority = Excluded}

UrlSummary(r) ==  \* mutant: counts candidates
  [found |-> Len(work[r].cands), accepted |-> Len(Kept(r)), excluded |-> 0, merged |-> 0,
   sitemapUrls |-> work[r].sitemapUrls, warnings |-> work[r].warnings]

Summary(r) ==
  [found       |-> Len(work[r].cands),
   accepted    |-> Cardinality(work[r].results) - Cardinality(ExcludedResults(r)),
   excluded    |-> Cardinality(ExcludedResults(r)),
   merged      |-> Len(Kept(r)) - Cardinality(work[r].results),
   sitemapUrls |-> work[r].sitemapUrls,
   warnings    |-> work[r].warnings]

FinishRun(r) ==
  /\ pc[r] = "finishing"
  /\ runs' = [runs EXCEPT ![r] =
                [status |-> IF work[r].warnings > 0 THEN "completed_with_warnings" ELSE "completed",
                 summary |-> Summary(r)]]
  /\ Goto(r, "leaving")
  /\ UNCHANGED <<site, urls, company, queue, work, crashes>>

\* The company leaves discovering: discovered or, if the run failed, failed.
LeaveAnyway(r) ==  \* mutant: a failed run becomes the latest, too
  /\ pc[r] = "leaving"
  /\ AdvanceCompany(IF runs[r].status = "failed" THEN "failed" ELSE "discovered")
  /\ Goto(r, "latest")
  /\ UNCHANGED <<site, runs, urls, queue, work, crashes>>

LeaveDiscovering(r) ==
  /\ pc[r] = "leaving"
  /\ LET failed == runs[r].status = "failed" IN
       /\ AdvanceCompany(IF failed THEN "failed" ELSE "discovered")
       /\ Goto(r, IF failed THEN "ended" ELSE "latest")
  /\ UNCHANGED <<site, runs, urls, queue, work, crashes>>

SetLatestRun(r) ==
  /\ pc[r] = "latest"
  /\ company' = [company EXCEPT !.latest = r]
  /\ Goto(r, "ended")
  /\ UNCHANGED <<site, runs, urls, queue, work, crashes>>

FailQuietly(r) ==  \* mutant: the failed run is not saved
  /\ pc[r] = "failing"
  /\ Goto(r, "ended")
  /\ UNCHANGED <<site, stored, queue, work, crashes>>

FailRun(r) ==
  /\ pc[r] = "failing"
  /\ runs' = [runs EXCEPT ![r].status = "failed"]
  /\ Goto(r, "leaving")
  /\ UNCHANGED <<site, urls, company, queue, work, crashes>>

\* The job or the handler is killed, the job times out, or the database fails it.
Die(r) ==
  /\ r \in Working /\ crashes < MaxCrashes
  /\ crashes' = crashes + 1
  /\ Goto(r, "dead")
  /\ UNCHANGED <<site, stored, queue, work>>

-----------------------------------------------------------------------------
JobStep(r) ==
  \/ StartRun(r) \/ EnterDiscovering(r) \/ ResolveHomepage(r) \/ ExtractHomepageLinks(r)
  \/ FetchRobots(r) \/ NextSitemap(r) \/ EndSearch(r)
  \/ SaveUrls(r) \/ FinishRun(r) \/ LeaveDiscovering(r) \/ SetLatestRun(r) \/ FailRun(r)

Next ==
  \E r \in Runs :
    \/ EnqueueRun(r) \/ EnqueueJob(r) \/ RefuseJob(r) \/ CreateCompanyRun(r)
    \/ JobStep(r) \/ SaveSomeUrls(r) \/ Die(r)

\* Not everything rests: while a worker has a job, or may take one, or a handler
\* executes a run, one of them goes on.
Fairness == WF_vars(\E r \in Runs : JobStep(r))

Spec == Init /\ [][Next]_vars
FairSpec == Spec /\ Fairness

-----------------------------------------------------------------------------
(* Properties.                                                             *)

Finals == {"completed", "completed_with_warnings", "failed"}
Completed(r) == runs[r].status \in {"completed", "completed_with_warnings"}

Sources == {"homepage", "navigation", "footer", "body_link", "canonical", "alternate",
            "sitemap", "sitemap_index"}
Classes == [type: PageTypes, confidence: 0..100]
CandidateSet == [url: Urls, ref: Refs, source: Sources, depth: {0, 1}, class: Classes,
                 priority: Priorities]
DiscoveredUrlSet == [url: Urls, ref: Refs, type: PageTypes, confidence: 0..100,
                     priority: Priorities, sources: SUBSET Sources, depth: {0, 1}]

\* The shape of the sites, and of what the extractor and the parser make of
\* them: filtered sequences are sequences of what was filtered.
SitesAreTyped ==
  /\ \A s \in Sites :
       /\ s.homes \in Seq(Urls)
       /\ HomeCandidates[s.home] \in Seq(CandidateSet)
       /\ \A i \in DOMAIN HomeCandidates[s.home] : HomeCandidates[s.home][i].depth = 1
       /\ LET found == SitemapsOf(RobotsLines(s)) IN
            /\ Len(found) \in Nat /\ DOMAIN found = 1..Len(found)
            /\ \A i \in DOMAIN found : found[i].ref \in Refs
       /\ RobotsWarnings(RobotsLines(s)) \in Nat
       /\ DOMAIN s.sitemaps = Pages
  /\ \A doc \in DOMAIN Parsed :
       /\ UsableRefs(doc.refs) \in Seq(Refs)
       /\ {Parsed[doc].nested, Parsed[doc].entries} \subseteq Seq(Refs)
       /\ {Parsed[doc].total, Parsed[doc].warnings} \subseteq Nat
  /\ \A page \in Pages, product \in BOOLEAN : ClassifyPageType(page, {}, product) \in Classes

\* What the classifier and the extractor do with anchor texts: a hit is surer
\* than none and less sure than a path or a product sitemap, no text is no hit,
\* and the links of a homepage to one URL are one link, with one set of texts.
OccurrencesAgree ==
  /\ \A texts \in SUBSET DOMAIN KeywordsOf : AnchorClass[texts].confidence \in 0..60
  /\ AnchorClass[{}] = Class("unknown", 0)
  /\ \A s \in Sites : \A u \in Urls : \E texts \in SUBSET DOMAIN KeywordsOf :
       \A i \in DOMAIN HomeCandidates[s.home] :
         HomeCandidates[s.home][i].url = u =>
           HomeCandidates[s.home][i].class \in {ClassifyPageType(u.page, texts, FALSE),
                                               ClassifyPageType(u.page, {}, FALSE)}

TypeOK ==
  /\ site \in Sites
  /\ \A r \in Runs : runs[r].status \in {"none", "queued", "running"} \cup Finals
  /\ \A r \in Runs, field \in DOMAIN NoSummary : runs[r].summary[field] \in Nat
  /\ urls \in [Runs -> SUBSET DiscoveredUrlSet]
  /\ company \in [status: ProcessingStatuses, latest: Runs \cup {NoRun}]
  /\ queue \in Seq(Runs)
  /\ pc \in [Runs -> {"new", "created", "queued", "ended", "dead"} \cup Steps]
  /\ crashes \in 0..MaxCrashes

\* The sitemaps robots.txt names, and those the indexes among some sitemaps
\* name: what the site says, independently of the order in which it is read.
NamedSitemaps(s) ==
  {NormalUrl(ref, TRUE) : ref \in {line.ref : line \in {l \in ToSet(SitemapsOf(RobotsLines(s))) :
                                                         Accepts(l.ref, FALSE)}}}
IndexedBy(s, sitemaps) ==
  LET indexes == {doc \in {s.sitemaps[u.page] : u \in sitemaps} : doc.kind = "index" /\ ~Unreadable(doc)}
  IN {NormalUrl(ref, TRUE) : ref \in UNION {ToSet(UsableRefs(doc.refs)) : doc \in indexes}}

\* The sitemaps at most d documents away from robots.txt.
SitemapsWithin(s) ==
  LET within[d \in Nat] ==
        IF d = 0 THEN NamedSitemaps(s) ELSE within[d - 1] \cup IndexedBy(s, within[d - 1])
  IN within

\* However the sitemaps refer to each other, in cycles or twice, no sitemap is
\* fetched twice, none beyond the permitted depth and none after a deeper one
\* (_process_sitemaps), so that the limit on files cuts off the deepest.
ShallowestSitemapsFirst ==
  \A r \in Runs : pc[r] = "saving" =>
    LET fetched == work[r].fetched
        within == [d \in 0..MaxSitemapDepth |-> SitemapsWithin(site)[d]]
    IN /\ Len(fetched) <= MaxSitemapFiles
       /\ ToSet(fetched) \subseteq within[MaxSitemapDepth]
       /\ \A i, j \in DOMAIN fetched : i < j =>
            /\ fetched[i] # fetched[j]
            /\ \A d \in DOMAIN within : fetched[j] \in within[d] => fetched[i] \in within[d]

\* A search that was not cut off by the limit on files has read exactly the
\* sitemaps within the permitted depth, however they are linked: the visited
\* set never hides a short way to a sitemap behind a long one.
SearchIsComplete ==
  \A r \in Runs :
    pc[r] = "saving" /\ Len(work[r].fetched) < MaxSitemapFiles =>
      ToSet(work[r].fetched) = SitemapsWithin(site)[MaxSitemapDepth]

\* What is stored of a URL does not depend on the order in which its
\* occurrences were met, except the reference it was first met under
\* (reconcile): the occurrences never tie with different page types.
MergeIsOrderFree ==
  \A r \in Runs : pc[r] = "saving" =>
    \A u \in work[r].results :
      LET v == Merged(Reverse(Kept(r)), u.url) IN [v EXCEPT !.ref = u.ref] = u

\* A run that reads completed has stored all it counts, its homepage among
\* it, whatever died and whatever other run was under way (the URLs are saved
\* before the status): crawls take completed runs for complete ones.
CompletedRunsAreWhole ==
  \A r \in Runs : Completed(r) =>
    /\ \E u \in urls[r] : "homepage" \in u.sources /\ u.depth = 0
    /\ runs[r].summary.excluded = Cardinality({u \in urls[r] : u.priority = Excluded})
    /\ runs[r].summary.accepted = Cardinality({u \in urls[r] : u.priority # Excluded})
    /\ runs[r].summary.found >= runs[r].summary.merged + Cardinality(urls[r])

\* The company's latest discovery run is one that completed, with any number
\* of runs failing or dying around it (update_latest_discovery_run).
LatestRunCompleted == company.latest # NoRun => Completed(company.latest)

\* In the end no run is queued with a job or being executed and none reads
\* running, whatever cycles the sitemaps form, except one whose job or handler
\* died (execute_discovery_run).
EveryRunSettles ==
  <>[](\A r \in Runs :
         pc[r] = "dead" \/ (pc[r] \notin Steps \cup {"queued"} /\ runs[r].status # "running"))

\* As the code's comment has it, a malformed port in a reference is caught
\* (url_normalizer.py: "urlsplit raises ValueError on a malformed port, caught
\* above"): nothing a site says ends the job of its run.
SiteCannotKillRun == crashes = 0 => \A r \in Runs : pc[r] # "dead"
=============================================================================
