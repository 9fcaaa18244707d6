----------------------------- MODULE SiteCrawl -----------------------------
(***************************************************************************)
(* How the jobs of a crawl run fetch a company's pages: robots.txt, the    *)
(* pacing of the requests, retries and timeouts, what becomes of an answer *)
(* and which page is stored for it (_process_target and what it calls in   *)
(* crawling/application/website_crawl_service.py, HttpxPageFetcher,        *)
(* HttpRobotsPolicyGateway, the page collection).                          *)
(*                                                                         *)
(* One job runs at a time; it executes a new run or retries the failed     *)
(* targets of an earlier one. Cancellation, lost updates and the status of *)
(* a run are CrawlRun's subject. Time passes only where a job waits.       *)
(***************************************************************************)
EXTENDS RobotsPolicy, PageContent, TLC

CONSTANTS
  PathOf,         \* the path of each target; targets are numbered by URL
  RobotsFiles,    \* the robots.txt a site may have, by number; the first is none
  Bodies,         \* the bodies a page may have, by number
  ExternalKinds,  \* what of each body is too long to be stored in the page
  Scenarios,      \* what may happen in one behaviour
  MaxRuns,        \* bound: crawl runs
  DefaultDelay, MinDelay, MaxCrawlDelay, TotalTimeout, MaxAttempts, MaxRedirects,
  BaseBackoff, MaxBackoff, MaxRetryAfter, MinScripts  \* CrawlConfig

Targets == DOMAIN PathOf
Runs == 1..MaxRuns
BodyIds == DOMAIN Bodies
Kinds == {"raw", "cleaned", "text"}
NoFile == 1
Unread == 0
NoBody == 0
Elsewhere == -1  \* where a redirect leads: a path of no target, or another site
FailedStatuses == {"failed", "rejected"}

ASSUME SiteCrawlAssumption ==
  /\ {DefaultDelay, MinDelay, MaxCrawlDelay, TotalTimeout, MaxRedirects} \subseteq Nat
  /\ {BaseBackoff, MaxBackoff, MaxRetryAfter} \subseteq Nat
  /\ MaxAttempts \in Nat \ {0} /\ MaxRuns \in Nat
  /\ NoDelay \notin Int /\ NoBody \notin BodyIds
  /\ Targets \subseteq Nat /\ IsFiniteSet(Targets) /\ PathOf \in [Targets -> Seq(STRING)]
  /\ Unread \notin DOMAIN RobotsFiles /\ RobotsFiles[NoFile] = <<>>
  /\ \A f \in DOMAIN RobotsFiles : IsText(RobotsFiles[f])
  /\ \A b \in BodyIds : Bodies[b] \in Seq(Symbols)
  /\ ExternalKinds \in [BodyIds -> SUBSET {"cleaned", "text"}]

\* A run selects each URL once; a challenge page is a page or a failure, as
\* configured; a host has one of the robots.txt, a page one of the bodies; a
\* redirect leads to the path of a target or elsewhere.
ASSUME ScenariosAssumption ==
  \A s \in Scenarios :
    /\ s.order \in Seq(Targets) \ {<<>>}
    /\ \A i, j \in DOMAIN s.order : s.order[i] = s.order[j] => i = j
    /\ s.challenge \in FailedStatuses \cup {"browser_required"}
    /\ s.robots \subseteq DOMAIN RobotsFiles /\ s.bodies \subseteq BodyIds
    /\ s.force \subseteq BOOLEAN /\ s.retryAfter \subseteq Nat
    /\ s.hops \subseteq Targets \cup {Elsewhere}

VARIABLES
  scenario, \* which targets, jobs, bodies, robots files, options and faults there are
  jobs,     \* jobs begun (bounded by scenario.jobs)
  runs,     \* runs created
  pc,       \* what the job waits for, or idle
  job,      \* its run, its targets left, its robots.txt and its pacing
  fetch,    \* the fetch under way: attempts, redirects, path asked for, sleep left, validator
  since,    \* time since the last fetch was begun
  targets,  \* stored status of each run's targets
  pages,    \* the stored page of each run and target
  latest,   \* the run that fetched each target last
  quiet     \* observer: time since the last request to the site, of any kind

vars == <<scenario, jobs, runs, pc, job, fetch, since, targets, pages, latest, quiet>>

Horizon == Max({TotalTimeout, DefaultDelay, MinDelay, MaxCrawlDelay})
NoId == [run |-> 0, version |-> 0]
Nothing == [k \in Kinds |-> NoBody]
NoPage == [version |-> 0, status |-> "none", etag |-> NoBody, hashes |-> NoBody,
           content |-> Nothing, unchangedFrom |-> NoId, served |-> NoBody]
NoJob == [run |-> 0, todo |-> <<>>, force |-> FALSE, robots |-> Unread, asked |-> FALSE,
          last |-> "robots"]
NoFetch == [attempt |-> 0, hops |-> 0, at |-> Elsewhere, sleep |-> 0, etag |-> NoBody]

DoneStatuses == {"fetched", "browser_required", "unchanged"}
Retryable == FailedStatuses \cup (IF scenario.retryBlocked THEN {"blocked_by_robots"} ELSE {})

Init ==
  /\ scenario \in Scenarios
  /\ jobs = 0 /\ runs = 0 /\ pc = "idle"
  /\ job = NoJob /\ fetch = NoFetch /\ since = 0
  /\ targets = [r \in Runs |-> [t \in Targets |-> "none"]]
  /\ pages = [r \in Runs |-> [t \in Targets |-> NoPage]]
  /\ latest = [t \in Targets |-> 0]
  /\ quiet = 0

-----------------------------------------------------------------------------
(* What the tables of constants say of files and bodies.                   *)

PolicyOf == [f \in DOMAIN RobotsFiles |-> [t \in Targets |-> Policy(RobotsFiles[f], PathOf[t], MaxCrawlDelay)]]
StructureOf == [b \in BodyIds |-> Structure(Bodies[b])]
ReasonOf == [b \in BodyIds |-> FallbackReason(Bodies[b], MinScripts)]

\* is_materially_unchanged: the same bytes, or else the same structure.
MateriallyUnchanged(before, now) ==
  before # NoBody /\ (before = now \/ StructureOf[before] = StructureOf[now])

-----------------------------------------------------------------------------
(* The job and its targets.                                                *)

Target == Head(job.todo)
RunsDelay == PolicyOf[job.robots][Target].delay

\* The page get_latest_page_by_normalized_url returns, a failed one included.
Previous == IF latest[Target] = 0 THEN NoPage ELSE pages[latest[Target]][Target]
PreviousId == [run |-> latest[Target], version |-> Previous.version]

Begin(run, todo, force) ==
  /\ jobs' = jobs + 1
  /\ job' = [NoJob EXCEPT !.run = run, !.todo = todo, !.force = force]
  /\ pc' = "target"
  /\ UNCHANGED <<scenario, fetch, since, pages, latest, quiet>>

\* execute_crawl_run, from the targets selected on; each run has a gateway of
\* its own and thus reads robots.txt again.
ExecuteRun ==
  /\ pc = "idle" /\ jobs < scenario.jobs /\ runs < MaxRuns
  /\ runs' = runs + 1
  /\ targets' = [targets EXCEPT ![runs + 1] =
                   [t \in Targets |-> IF t \in ToSet(scenario.order) THEN "queued" ELSE "none"]]
  /\ \E force \in scenario.force : Begin(runs + 1, scenario.order, force)

AllTargets(r) == {t \in Targets : targets[r][t] # "none"}  \* mutant: whatever their status
TargetsToRetry(r) == {t \in Targets : targets[r][t] \in Retryable}

\* The one enumeration of a finite set of numbers by their size.
Ascending(S) ==
  {s \in [1..Cardinality(S) -> S] : \A i, j \in DOMAIN s : i < j => s[i] < s[j]}

\* retry_failed: in the order of the URLs, never with force_refresh.
RetryRun ==
  /\ pc = "idle" /\ jobs < scenario.jobs
  /\ \E r \in 1..runs :
       /\ TargetsToRetry(r) # {}
       /\ \E todo \in Ascending(TargetsToRetry(r)) : Begin(r, todo, FALSE)
  /\ UNCHANGED <<runs, targets>>

\* The target is done with: the next one, or the end of the job. What was last
\* asked of the site is an observer: robots.txt, a fetch of one request or of
\* several, or a fetch that failed.
Proceed(asked, last) ==
  IF Tail(job.todo) = <<>> THEN pc' = "idle" /\ job' = NoJob /\ since' = 0 /\ quiet' = 0
  ELSE /\ pc' = "target"
       /\ job' = [job EXCEPT !.todo = Tail(@), !.asked = asked, !.last = last]
       /\ UNCHANGED <<since, quiet>>

-----------------------------------------------------------------------------
(* Robots and pacing.                                                      *)

\* The first target of a job: robots.txt, or no rules when it cannot be had.
FetchRobots ==
  /\ pc = "target" /\ job.robots = Unread
  /\ \E file \in scenario.robots : job' = [job EXCEPT !.robots = file]
  /\ quiet' = 0
  /\ UNCHANGED <<scenario, jobs, runs, pc, fetch, since, targets, pages, latest>>

\* A target its policy disallows keeps the time of the last request as it is.
CheckPolicy ==
  /\ pc = "target" /\ job.robots # Unread
  /\ IF PolicyOf[job.robots][Target].outcome = "disallowed"
     THEN /\ targets' = [targets EXCEPT ![job.run][Target] = "blocked_by_robots"]
          /\ Proceed(job.asked, job.last)
     ELSE pc' = "pacing" /\ UNCHANGED <<targets, job, since, quiet>>
  /\ UNCHANGED <<scenario, jobs, runs, fetch, pages, latest>>

NoCrawlDelay(delay) == Max({DefaultDelay, MinDelay})  \* mutant: robots.txt's delay ignored
EffectiveDelay(delay) ==
  Max({DefaultDelay, MinDelay} \cup (IF delay = NoDelay THEN {} ELSE {delay}))

\* Without a last request the next one may go out at once.
Due == ~job.asked \/ since >= EffectiveDelay(RunsDelay)

Send ==
  /\ pc = "pacing" /\ Due
  /\ pc' = "answer"
  /\ since' = 0 /\ quiet' = 0
  /\ job' = [job EXCEPT !.asked = TRUE]
  /\ fetch' = [attempt |-> 1, hops |-> 0, at |-> Target, sleep |-> 0,
               etag |-> IF job.force THEN NoBody ELSE Previous.etag]
  /\ UNCHANGED <<scenario, jobs, runs, targets, pages, latest>>

-----------------------------------------------------------------------------
(* What becomes of a target.                                               *)

\* save_page and the update of the target: a run has one page of a URL, with an
\* id of its own each time.
Persist(page) ==
  LET version == pages[job.run][Target].version + 1
  IN /\ pages' = [pages EXCEPT ![job.run][Target] = [page EXCEPT !.version = version]]
     /\ targets' = [targets EXCEPT ![job.run][Target] = page.status]
     /\ latest' = [latest EXCEPT ![Target] = job.run]
     /\ fetch' = NoFetch

Rest == <<scenario, jobs, runs>>

\* _fail_target: a page without content, and no time of a last request.
Fail(status) ==
  /\ Persist([NoPage EXCEPT !.status = status])
  /\ Proceed(FALSE, "failed")
  /\ UNCHANGED Rest

\* _build_unchanged_page: the content of the page before, and what points to it.
BareUnchangedPage(hashes, body, etag) ==
  [NoPage EXCEPT !.status = "unchanged", !.etag = etag, !.hashes = hashes,
                 !.unchangedFrom = PreviousId, !.served = body]  \* mutant: without its content
UnchangedPage(hashes, body, etag) ==
  [Previous EXCEPT !.status = "unchanged", !.etag = etag, !.hashes = hashes,
                   !.unchangedFrom = PreviousId, !.served = body]

\* _store_content: what fails to be stored outside the page is missing from it.
Contents(b) ==
  {[k \in Kinds |-> IF k \in kept THEN b ELSE NoBody] :
     kept \in {kept \in SUBSET Kinds :
       /\ Kinds \ kept \subseteq {"raw"} \cup ExternalKinds[b]
       /\ scenario.storageFails \/ kept = Kinds}}

Status(b) == IF ReasonOf[b] = "none" THEN "fetched" ELSE "browser_required"

-----------------------------------------------------------------------------
(* The answers of the site, and none.                                      *)

Asked == pc = "answer" /\ since < TotalTimeout
Taken == IF fetch.attempt > 1 \/ fetch.hops > 0 THEN "several" ELSE "single"

\* HTTP 304, for the validator of the body the site still has.
AnswerNotModified ==
  /\ Asked /\ fetch.etag # NoBody
  /\ Persist(UnchangedPage(Previous.hashes, fetch.etag, fetch.etag))
  /\ Proceed(TRUE, Taken)
  /\ UNCHANGED Rest

\* A body that decodes: the page before again, a challenge, or a new page.
AnswerPage ==
  /\ Asked
  /\ \E b \in scenario.bodies :
       IF IsChallenge(Bodies[b]) /\ scenario.challenge # "browser_required"
       THEN Persist([NoPage EXCEPT !.status = scenario.challenge]) /\ Proceed(FALSE, "failed")
       ELSE /\ IF MateriallyUnchanged(Previous.hashes, b)
               THEN Persist(UnchangedPage(b, b, b))
               ELSE \E content \in Contents(b) :
                      Persist([NoPage EXCEPT !.status = Status(b), !.etag = b, !.hashes = b,
                                             !.content = content, !.served = b])
            /\ Proceed(TRUE, Taken)
  /\ UNCHANGED Rest

\* What ends a fetch at once: an answer that validation rejects, a status that is
\* not retried, a host, a size or a type that is refused.
AnswerUnusable == Asked /\ \E status \in FailedStatuses : Fail(status)

\* A redirect is followed wherever it leads, without a look at robots.txt and
\* without a pause; one that leads to another site is no request to this one.
AnswerRedirect ==
  /\ Asked
  /\ IF fetch.hops = MaxRedirects THEN Fail("failed")
     ELSE /\ \E to \in scenario.hops :
               /\ fetch' = [fetch EXCEPT !.hops = @ + 1, !.at = to]
               /\ quiet' \in {0} \cup (IF to = Elsewhere THEN {quiet} ELSE {})
          /\ UNCHANGED <<scenario, jobs, runs, pc, job, since, targets, pages, latest>>

\* Exponential backoff with half of it left to chance.
Backoffs ==
  LET full == Min({BaseBackoff * 2 ^ (fetch.attempt - 1), MaxBackoff}) IN (full \div 2)..full

\* A Retry-After is waited for instead, up to a limit.
Pauses == Backoffs \cup {Min({after, MaxRetryAfter}) : after \in scenario.retryAfter}

LastAttempt == fetch.attempt = MaxAttempts

\* A timeout of a request, or a status that is retried, which may say when; the
\* target itself will be asked for again.
AnswerTransient ==
  /\ Asked
  /\ IF LastAttempt THEN Fail("failed")
     ELSE /\ \E sleep \in Pauses :
               fetch' = [fetch EXCEPT !.sleep = sleep, !.hops = 0, !.at = Target]
          /\ pc' = "backoff"
          /\ UNCHANGED <<scenario, jobs, runs, job, since, targets, pages, latest, quiet>>

\* The next attempt, as soon as the sleep is over.
RetryFetch ==
  /\ pc = "backoff" /\ fetch.sleep = 0 /\ since < TotalTimeout
  /\ pc' = "answer"
  /\ fetch' = [fetch EXCEPT !.attempt = @ + 1]
  /\ quiet' = 0
  /\ UNCHANGED <<scenario, jobs, runs, job, since, targets, pages, latest>>

Fetching == pc \in {"answer", "backoff"}
WhileAnswering == pc = "answer" /\ since = TotalTimeout /\ fetch.attempt < MaxAttempts  \* mutant
OutOfTime == Fetching /\ since = TotalTimeout

\* wait_for around the whole fetch.
TimeOut == OutOfTime /\ Fail("failed")

\* What no handler expects: a Location or a host that is no URL, a charset that
\* is no encoding. The job dies and its run is left as it is.
AnswerDeadly ==
  /\ Asked /\ scenario.deadly
  /\ pc' = "idle" /\ job' = NoJob /\ fetch' = NoFetch /\ since' = 0 /\ quiet' = 0
  /\ UNCHANGED <<scenario, jobs, runs, targets, pages, latest>>

Tick ==
  /\ \/ pc = "pacing" /\ ~Due /\ UNCHANGED fetch
     \/ pc = "answer" /\ since < TotalTimeout /\ UNCHANGED fetch
     \/ /\ pc = "backoff" /\ since < TotalTimeout /\ fetch.sleep > 0
        /\ fetch' = [fetch EXCEPT !.sleep = @ - 1]
  /\ since' = Min({since + 1, Horizon}) /\ quiet' = Min({quiet + 1, Horizon})
  /\ UNCHANGED <<scenario, jobs, runs, pc, job, targets, pages, latest>>

-----------------------------------------------------------------------------
Answer ==
  \/ AnswerUnusable \/ AnswerNotModified \/ AnswerPage \/ AnswerRedirect \/ AnswerTransient
  \/ AnswerDeadly
JobStep == FetchRobots \/ CheckPolicy \/ Send \/ RetryFetch \/ TimeOut
Next == ExecuteRun \/ RetryRun \/ JobStep \/ Answer \/ Tick

Spec == Init /\ [][Next]_vars

\* Time passes and a job goes on; the site need not answer.
FairSpec == Spec /\ WF_vars(JobStep) /\ WF_vars(Tick)

-----------------------------------------------------------------------------
PageOf(id, t) == pages[id.run][t]
Exists(id, t) == id.run \in Runs /\ PageOf(id, t).version = id.version /\ id.version > 0

\* CrawlRepositoryExtractionGateway.load_page_content: the page's own content, or
\* that of the page it points to; an empty text is none.
Artifact(b, kind) == CASE kind = "raw" -> Bodies[b] [] kind = "cleaned" -> Cleaned(Bodies[b])
                       [] kind = "text" -> Text(Bodies[b])
IsEmpty == [b \in BodyIds |-> [kind \in Kinds |-> kind # "raw" /\ Artifact(b, kind) = <<>>]]
Own(page, kind) ==
  LET b == page.content[kind] IN IF b = NoBody \/ IsEmpty[b][kind] THEN NoBody ELSE b
Load(page, t, kind) ==
  IF Own(page, kind) # NoBody THEN Own(page, kind)
  ELSE IF Exists(page.unchangedFrom, t) THEN Own(PageOf(page.unchangedFrom, t), kind) ELSE NoBody

TypeOK ==
  /\ scenario \in Scenarios
  /\ jobs \in 0..scenario.jobs /\ runs \in 0..MaxRuns
  /\ pc \in {"idle", "target", "pacing", "answer", "backoff"}
  /\ job \in [run: 0..MaxRuns, todo: Seq(Targets), force: BOOLEAN, robots: {Unread} \cup DOMAIN RobotsFiles,
               asked: BOOLEAN, last: {"robots", "single", "several", "failed"}]
  /\ fetch \in [attempt: 0..MaxAttempts, hops: 0..MaxRedirects, at: Targets \cup {Elsewhere}, sleep: Nat,
                 etag: {NoBody} \cup BodyIds]
  /\ since \in 0..Horizon /\ quiet \in 0..Horizon
  /\ targets \in [Runs -> [Targets -> {"none", "queued", "blocked_by_robots"} \cup DoneStatuses \cup FailedStatuses]]
  /\ \A r \in Runs, t \in Targets :
       /\ pages[r][t].status \in {"none"} \cup DoneStatuses \cup FailedStatuses
       /\ pages[r][t].content \in [Kinds -> {NoBody} \cup BodyIds]
       /\ {pages[r][t].hashes, pages[r][t].etag, pages[r][t].served} \subseteq {NoBody} \cup BodyIds
  /\ latest \in [Targets -> 0..MaxRuns]

\* However many times a page was found unchanged in a row, extraction still loads
\* for it all that it loads for the page it was compared with, which is still
\* stored, although it looks one page back at most.
UnchangedPagesLoad ==
  \A r \in Runs, t \in Targets :
    LET page == pages[r][t] IN
    page.status = "unchanged" =>
      /\ Exists(page.unchangedFrom, t)
      /\ \A kind \in Kinds : Load(page, t, kind) = Load(PageOf(page.unchangedFrom, t), t, kind)

\* What is stored of a page has the text the site served last, as far as text is
\* extracted, through any sequence of 304s, of equal bytes and of equal structures.
TextOf == [b \in BodyIds |-> Text(Bodies[b])]
ContentIsCurrent ==
  \A r \in Runs, t \in Targets, kind \in Kinds :
    LET page == pages[r][t] IN
    page.content[kind] # NoBody => TextOf[page.content[kind]] = TextOf[page.served]

\* The delay the site and the configuration ask for, whatever the job remembers.
AskedDelay == Max({DefaultDelay} \cup (IF RunsDelay = NoDelay THEN {} ELSE {RunsDelay}))

\* A fetch begins no sooner after the fetch before than the delays ask, unless that
\* one failed; and when that one was a single request, the site had all of the
\* delay without any request. Within a fetch nothing is paced by those delays: a
\* retry leaves the site at least one of the pauses a failed attempt may call for,
\* redirects leave it none, and after a fetch of several requests the last of
\* them may be more recent (_process_target, RequestPacer, _fetch_with_retries).
FetchesArePaced ==
  [][/\ Send => \/ job.last \in {"robots", "failed"}
                \/ since >= AskedDelay /\ (job.last = "single" => quiet >= AskedDelay)
     /\ RetryFetch => \E pause \in Pauses : quiet >= pause]_vars

\* A request under way for a path of a target that the job's robots.txt forbids is
\* one that the site itself redirected there.
ForbiddenTo == [f \in DOMAIN RobotsFiles |-> [t \in Targets |-> Forbidden(RobotsFiles[f], PathOf[t])]]
ForbiddenRequest ==
  pc = "answer" /\ fetch.at \in Targets /\ ForbiddenTo[job.robots][fetch.at]
RobotsObeyed == ForbiddenRequest => fetch.hops > 0

\* The text that is stored has no word that a reader of the page does not see,
\* unless the page both spells the start of a style and carries structured data: of
\* "<p>&lt;style&gt;<script type=application/ld+json></style>code</script></p>" the
\* cleaner writes the style tag out as markup, whose end, among the data, lets the
\* text extractor read the code.
Plain(symbols) == ~({Spelled("style"), Open("ld")} \subseteq symbols)
OnlySeen ==
  [b \in BodyIds |-> Plain(ToSet(Bodies[b])) =>
                       \A block \in ToSet(Text(Bodies[b])) : ToSet(block) \subseteq ToSet(Seen(Bodies[b]))]
TextIsSeen ==
  \A r \in Runs, t \in Targets :
    LET b == pages[r][t].content["text"] IN b # NoBody => OnlySeen[b]

\* What a run fetched stays as it is, whatever is retried after it.
DoneStaysDone ==
  [][\A r \in Runs, t \in Targets :
       targets[r][t] \in DoneStatuses =>
         targets'[r][t] = targets[r][t] /\ pages'[r][t] = pages[r][t]]_vars

\* A job ends, even when the site stops to answer.
JobsEnd == pc # "idle" ~> pc = "idle"

\* A genuine text change is never hidden: a page is unchanged only if a reader
\* sees in what is stored what the site served last.
SeenOf == [b \in BodyIds |-> Seen(Bodies[b])]
TextChangesAreSeen ==
  \A r \in Runs, t \in Targets :
    LET page == pages[r][t] IN
    page.status = "unchanged" /\ page.content["text"] # NoBody =>
      SeenOf[page.content["text"]] = SeenOf[page.served]
=============================================================================
